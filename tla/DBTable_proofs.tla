---------------------------- MODULE DBTable_proofs ----------------------------
(***************************************************************************)
(* Proofs about DBTable.  Queries (QueryScan): QueryRecord returns the     *)
(* records asked for, whatever the size of the table, its values and the   *)
(* search keys.  Keys (DBAutoKey): for keys of any length, any number of   *)
(* digits and any handlers, the records are within the keys remembered, a  *)
(* computed key is the greatest, and numbers are not given twice.          *)
(***************************************************************************)
EXTENDS QueryScan, DBAutoKey, TLAPS, SequenceTheorems, WellFoundedInduction

-----------------------------------------------------------------------------
(* Queries.                                                                *)

(* The verdict on the record at position i, which only the middle one of   *)
(* an odd number of records gets with both iterators at it.                *)
FlagAt(i) == Flag(field[i], i + i = size + 1)
Visited(i) == i <= beginIndex \/ i > endIndex

(* The walk, turn by turn: the records outside beginIndex + 1 .. endIndex  *)
(* have had their verdict, the ones inside have not.                       *)
Walk ==
  /\ phase = "start" => beginIndex = 0 /\ \A i \in 1..size : recordList[i] = 0
  /\ phase = "scan" =>
       /\ beginIndex < endIndex
       /\ \A i \in 1..size :
            recordList[i] = IF Visited(i) /\ FlagAt(i) THEN 1 ELSE 0
  /\ phase = "done" => \A i \in 1..size :
       recordList[i] = IF FlagAt(i) THEN 1 ELSE 0

ScanInv ==
  /\ ScanTypeOK /\ Walk
  /\ query.equ # Empty \/ query.min # Empty \/ query.max # Empty

LEMMA ScanInvInit == ScanInit => ScanInv
<1> SUFFICES ASSUME ScanInit PROVE ScanInv
  OBVIOUS
<1>1. field \in [1..size -> Int] /\ size \in Nat
  <2>1. size \in Nat /\ field \in [1..size -> Data] /\ Data \subseteq Int
    BY QueryScanAssumption DEF ScanInit
  <2> QED
    BY <2>1
<1>2. query \in [equ: Int \cup {Empty}, min: Int \cup {Empty}, max: Int \cup {Empty}]
  BY QueryScanAssumption DEF ScanInit, Query, Search
<1> QED
  BY <1>1, <1>2 DEF ScanInit, ScanInv, ScanTypeOK, Walk

LEMMA ScanInvStep == ScanInv /\ [ScanNext]_scanVars => ScanInv'
<1> SUFFICES ASSUME ScanInv, [ScanNext]_scanVars PROVE ScanInv'
  OBVIOUS
<1> USE QueryScanAssumption
<1>1. CASE Lookup
  <2>1. ScanTypeOK'
    BY <1>1 DEF Lookup, ScanInv, ScanTypeOK
  <2>2. Walk'
    BY <1>1 DEF Lookup, ScanInv, ScanTypeOK, Walk, FlagAt, Flag
  <2> QED
    BY <1>1, <2>1, <2>2 DEF Lookup, ScanInv
<1>2. CASE Start
  <2>1. ScanTypeOK'
    BY <1>2 DEF Start, ScanInv, ScanTypeOK
  <2>2. Walk'
    BY <1>2 DEF Start, ScanInv, ScanTypeOK, Walk, Visited
  <2> QED
    BY <1>2, <2>1, <2>2 DEF Start, ScanInv
<1>3. CASE Turn
  <2> DEFINE same == beginIndex + 1 = endIndex
  <2>1. /\ size \in Nat /\ beginIndex \in Nat /\ endIndex = size - beginIndex
        /\ beginIndex < endIndex /\ phase = "scan"
    BY <1>3 DEF Turn, ScanInv, ScanTypeOK, Walk
  <2>2. ASSUME NEW i \in 1..size
        PROVE  recordList'[i] = IF Visited(i)' /\ FlagAt(i) THEN 1 ELSE 0
    <3>1. recordList[i] = IF Visited(i) /\ FlagAt(i) THEN 1 ELSE 0
      BY <2>1 DEF ScanInv, Walk
    <3>2. Visited(i)' <=> Visited(i) \/ i \in Both
      BY <1>3, <2>1 DEF Turn, Visited, Both
    <3>3. CASE i \in Both
      <4>1. ~Visited(i) /\ (same <=> i + i = size + 1)
        BY <2>1, <3>3 DEF Visited, Both
      <4>2. AppendOnce(i, same) = IF FlagAt(i) THEN 1 ELSE 0
        BY <3>1, <4>1 DEF AppendOnce, FlagAt
      <4> QED
        BY <1>3, <3>2, <3>3, <4>2 DEF Turn
    <3>4. CASE i \notin Both
      BY <1>3, <3>1, <3>2, <3>4 DEF Turn
    <3> QED
      BY <3>3, <3>4
  <2>3. ScanTypeOK'
    <3>1. recordList' \in [1..size -> {0, 1}]
      BY <1>3, <2>2 DEF Turn
    <3> QED
      BY <1>3, <2>1, <3>1 DEF Turn, ScanInv, ScanTypeOK
  <2>4. Walk'
    <3>1. UNCHANGED <<size, field, query>>
      BY <1>3 DEF Turn
    <3>2. \A i \in 1..size : FlagAt(i)' <=> FlagAt(i)
      BY <3>1 DEF FlagAt, Flag, FromMin, ToMax
    <3>3. phase' # "start"
      BY <1>3 DEF Turn
    <3>4. phase' = "scan" => beginIndex' < endIndex'
      BY <1>3 DEF Turn, More
    <3>5. phase' = "done" => \A i \in 1..size : Visited(i)'
      BY <1>3, <2>1 DEF Turn, More, Visited
    <3> QED
      BY <2>2, <3>1, <3>2, <3>3, <3>4, <3>5 DEF Walk
  <2> QED
    BY <1>3, <2>3, <2>4 DEF Turn, ScanInv
<1>4. CASE UNCHANGED scanVars
  BY <1>4 DEF scanVars, ScanInv, ScanTypeOK, Walk, Visited, FlagAt, Flag, FromMin, ToMax
<1> QED
  BY <1>1, <1>2, <1>3, <1>4 DEF ScanNext

(* The verdict on a record is what the query asked for, but for the middle *)
(* one when only a greatest key was given.                                 *)
LEMMA FlagIsWanted ==
  ASSUME ScanInv, NEW i \in 1..size
  PROVE  /\ ~MaxOnly \/ i + i # size + 1 => (FlagAt(i) <=> Wanted(field[i]))
         /\ MaxOnly /\ i + i = size + 1 => ~FlagAt(i)
BY DEF ScanInv, MaxOnly, FlagAt, Flag, FromMin, ToMax, Wanted

(* Every size, index and result count stays in range.                      *)
THEOREM ScanTypeCorrect == ScanSpec => []ScanTypeOK
<1>1. ScanInv => ScanTypeOK
  BY DEF ScanInv
<1> QED
  BY ScanInvInit, ScanInvStep, <1>1, PTL DEF ScanSpec

(* For every table and every query the two iterators of QueryRecord return *)
(* exactly the records asked for, but possibly the middle one when only a  *)
(* greatest key is given.                                                  *)
THEOREM ScanExact == ScanSpec => []ScanIsExact
<1>1. ASSUME ScanInv, phase = "done", NEW i \in 1..size
      PROVE  /\ ~MaxOnly \/ i + i # size + 1 =>
                  recordList[i] = (IF Wanted(field[i]) THEN 1 ELSE 0)
             /\ MaxOnly /\ i + i = size + 1 => recordList[i] = 0
  BY <1>1, FlagIsWanted DEF ScanInv, Walk
<1>2. ScanInv => ScanIsExact
  BY <1>1 DEF ScanIsExact, ResultIsExact
<1> QED
  BY ScanInvInit, ScanInvStep, <1>2, PTL DEF ScanSpec

-----------------------------------------------------------------------------
(* Keys.  Induction on their length is by the least counterexample.        *)
LEMMA Least ==
  ASSUME NEW S \in SUBSET Nat, S # {}
  PROVE  \E n \in S : \A m \in S : n <= m
<1>1. PICK n \in S : \A m \in S : <<m, n>> \notin OpToRel(<, Nat)
  BY NatLessThanWellFounded, WFMin
<1>2. \A m \in S : ~(m < n)
  BY <1>1 DEF OpToRel
<1> QED
  BY <1>2

LEMMA KeyParts ==
  ASSUME NEW k \in Key, k # <<>>
  PROVE  /\ Len(k) \in Nat \ {0} /\ Front(k) \in Key /\ Last(k) \in 0..Base
         /\ Len(Front(k)) = Len(k) - 1 /\ Last(k) = k[Len(k)]
         /\ \A i \in 1..Len(k) - 1 : Front(k)[i] = k[i]
         /\ k = Append(Front(k), Last(k))
<1>1. /\ k \in Seq(0..Base) /\ Len(k) \in Nat \ {0} /\ Last(k) = k[Len(k)]
      /\ \A i \in 1..Len(k) : k[i] \in 0..Base
  BY EmptySeq, ElementOfSeq DEF Key, Last
<1>2. /\ Front(k) \in Seq(0..Base) /\ Len(Front(k)) = Len(k) - 1
      /\ \A i \in 1..Len(k) - 1 : Front(k)[i] = k[i]
  <2>1. PICK n \in Nat : Len(k) = n + 1
    BY <1>1
  <2>2. \A i \in 1..n : k[i] \in 0..Base
    BY <1>1, <2>1
  <2>3. /\ SubSeq(k, 1, n) \in Seq(0..Base)
        /\ Len(SubSeq(k, 1, n)) = n
        /\ \A i \in 1..n : SubSeq(k, 1, n)[i] = k[i]
    BY <2>2, SubSeqProperties
  <2>4. Len(k) - 1 = n
    BY <2>1
  <2> QED
    BY <2>3, <2>4 DEF Front
<1>3. k = Append(Front(k), Last(k))
  <2>1. Append(Front(k), Last(k)) \in Seq(0..Base) /\ Len(Append(Front(k), Last(k))) = Len(k)
    BY <1>1, <1>2
  <2>2. \A i \in 1..Len(k) : Append(Front(k), Last(k))[i] = k[i]
    BY <1>1, <1>2
  <2> QED
    BY <1>1, <2>1, <2>2, SeqEqual
<1> QED
  BY <1>1, <1>2, <1>3 DEF Key

LEMMA AppendedParts ==
  ASSUME NEW k \in Key, NEW c \in 0..Base
  PROVE  /\ Append(k, c) \in Key /\ Append(k, c) # <<>> /\ Len(Append(k, c)) = Len(k) + 1
         /\ Front(Append(k, c)) = k /\ Last(Append(k, c)) = c
         /\ \A i \in 1..Len(k) : Append(k, c)[i] = k[i]
         /\ Append(k, c)[Len(k) + 1] = c
<1>1. /\ Append(k, c) \in Key /\ Len(Append(k, c)) = Len(k) + 1 /\ Len(k) \in Nat
      /\ \A i \in 1..Len(k) : Append(k, c)[i] = k[i]
      /\ Append(k, c)[Len(k) + 1] = c
  BY DEF Key
<1>2. Append(k, c) # <<>>
  BY <1>1
<1>3. Front(Append(k, c)) = k
  <2> DEFINE a == Append(k, c)
  <2>0. /\ a \in Key /\ a # <<>> /\ Len(a) = Len(k) + 1 /\ Len(k) \in Nat
        /\ \A i \in 1..Len(k) : a[i] = k[i]
    BY <1>1, <1>2
  <2> HIDE DEF a
  <2>1. Front(a) \in Seq(0..Base) /\ k \in Seq(0..Base) /\ Len(Front(a)) = Len(k)
    BY <2>0, KeyParts DEF Key
  <2>2. \A i \in 1..Len(k) : Front(a)[i] = k[i]
    <3>1. \A i \in 1..Len(a) - 1 : Front(a)[i] = a[i]
      BY <2>0, KeyParts
    <3> QED
      BY <2>0, <3>1
  <2>3. Front(a) = k
    BY <2>1, <2>2, SeqEqual
  <2> QED
    BY <2>3 DEF a
<1> QED
  BY <1>1, <1>2, <1>3 DEF Last

-----------------------------------------------------------------------------
(* What fu_str_to_integer reads, character by character.                   *)
Number == [is : Nat, end : BOOLEAN]
Zero == [is |-> 0, end |-> FALSE]

LEMMA ReadCharType ==
  ASSUME NEW number \in Number, NEW c \in 0..Base PROVE ReadChar(number, c) \in Number
<1>1. Base \in Nat /\ number.is * Base + c \in Nat
  BY AutoKeyAssumption DEF Number
<1> QED
  BY <1>1 DEF ReadChar, Number

IsReading(k, f) ==
  /\ f \in [0..Len(k) -> Number] /\ f[0] = Zero
  /\ \A i \in 1..Len(k) : f[i] = ReadChar(f[i - 1], k[i])

LEMMA ReadingOfFront ==
  ASSUME NEW k \in Key, k # <<>>, NEW f, IsReading(k, f)
  PROVE  IsReading(Front(k), [i \in 0..Len(k) - 1 |-> f[i]])
BY KeyParts DEF IsReading

LEMMA ReadingOfWhole ==
  ASSUME NEW k \in Key, k # <<>>, NEW f, IsReading(Front(k), f)
  PROVE  \E g : IsReading(k, g)
<1> DEFINE g == [i \in 0..Len(k) |-> IF i = Len(k) THEN ReadChar(f[i - 1], Last(k)) ELSE f[i]]
<1>1. /\ Len(k) \in Nat \ {0} /\ Last(k) \in 0..Base /\ Last(k) = k[Len(k)]
      /\ f \in [0..Len(k) - 1 -> Number] /\ f[0] = Zero
      /\ \A i \in 1..Len(k) - 1 : f[i] = ReadChar(f[i - 1], k[i])
  BY KeyParts DEF IsReading
<1>2. g \in [0..Len(k) -> Number] /\ g[0] = Zero
  <2>1. \A i \in 0..Len(k) : i # Len(k) => i \in 0..Len(k) - 1
    BY <1>1
  <2>2. ReadChar(f[Len(k) - 1], Last(k)) \in Number
    BY <1>1, ReadCharType
  <2> QED
    BY <1>1, <2>1, <2>2
<1>3. ASSUME NEW i \in 1..Len(k) PROVE g[i] = ReadChar(g[i - 1], k[i])
  BY <1>1
<1> QED
  BY <1>2, <1>3 DEF IsReading

LEMMA ReadingExists == \A k \in Key : \E f : IsReading(k, f)
<1> DEFINE Unread == {n \in Nat : \E k \in Key : Len(k) = n /\ ~ \E f : IsReading(k, f)}
<1> SUFFICES ASSUME Unread # {} PROVE FALSE
  BY DEF Key
<1>1. PICK n \in Unread : \A m \in Unread : n <= m
  BY Least
<1>2. PICK k \in Key : Len(k) = n /\ ~ \E f : IsReading(k, f)
  BY <1>1
<1>3. CASE k = <<>>
  <2>1. IsReading(k, [i \in 0..0 |-> Zero])
    BY <1>3 DEF IsReading, Number, Zero
  <2> QED
    BY <1>2, <2>1
<1>4. CASE k # <<>>
  <2>1. Front(k) \in Key /\ Len(Front(k)) = n - 1 /\ n - 1 \in Nat
    BY <1>2, <1>4, KeyParts
  <2>2. \E f : IsReading(Front(k), f)
    BY <1>1, <2>1
  <2> QED
    BY <1>2, <1>4, <2>2, ReadingOfWhole
<1> QED
  BY <1>3, <1>4

LEMMA ReadingUnique ==
  ASSUME NEW k \in Key, NEW f, NEW g, IsReading(k, f), IsReading(k, g)
  PROVE  f[Len(k)] = g[Len(k)]
<1> DEFINE Differ == {i \in 0..Len(k) : f[i] # g[i]}
<1>0. Len(k) \in Nat
  BY DEF Key
<1> SUFFICES ASSUME Differ # {} PROVE FALSE
  BY <1>0
<1>1. PICK n \in Differ : \A m \in Differ : n <= m
  <2>1. Differ \in SUBSET Nat
    BY <1>0
  <2> HIDE DEF Differ
  <2> QED
    BY <2>1, Least
<1>2. n # 0 /\ n \in 1..Len(k) /\ n - 1 \in 0..Len(k) /\ n - 1 \notin Differ
  BY <1>0, <1>1 DEF IsReading
<1> QED
  BY <1>1, <1>2 DEF IsReading

(* The recursive definition has a solution, and so it says what it seems   *)
(* to: a key is read character by character.                               *)
LEMMA ReadIs ==
  ASSUME NEW k \in Key
  PROVE  /\ Read[k] \in Number
         /\ Read[k] = IF k = <<>> THEN Zero ELSE ReadChar(Read[Front(k)], Last(k))
<1> DEFINE F == [l \in Key |-> (CHOOSE f : IsReading(l, f))[Len(l)]]
           R(G) == [l \in Key |-> IF l = <<>> THEN [is |-> 0, end |-> FALSE]
                                  ELSE ReadChar(G[Front(l)], Last(l))]
<1>1. ASSUME NEW l \in Key, NEW f, IsReading(l, f) PROVE F[l] = f[Len(l)]
  <2>1. IsReading(l, CHOOSE g : IsReading(l, g))
    BY <1>1
  <2> QED
    BY <1>1, <2>1, ReadingUnique
<1>2. ASSUME NEW l \in Key
      PROVE  F[l] = IF l = <<>> THEN Zero ELSE ReadChar(F[Front(l)], Last(l))
  <2>1. PICK f : IsReading(l, f)
    BY ReadingExists
  <2>2. F[l] = f[Len(l)]
    BY <1>1, <2>1
  <2>3. CASE l = <<>>
    BY <2>1, <2>2, <2>3 DEF IsReading
  <2>4. CASE l # <<>>
    <3> DEFINE g == [i \in 0..Len(l) - 1 |-> f[i]]
    <3>1. /\ Front(l) \in Key /\ Len(Front(l)) = Len(l) - 1 /\ Len(l) \in Nat \ {0}
          /\ Last(l) = l[Len(l)] /\ IsReading(Front(l), g)
      BY <2>1, <2>4, KeyParts, ReadingOfFront
    <3>2. F[Front(l)] = f[Len(l) - 1]
      BY <1>1, <3>1
    <3>3. f[Len(l)] = ReadChar(f[Len(l) - 1], l[Len(l)])
      BY <2>1, <3>1 DEF IsReading
    <3> QED
      BY <2>2, <2>4, <3>1, <3>2, <3>3
  <2> QED
    BY <2>3, <2>4
<1>3. F = R(F)
  <2>1. \A l \in Key : F[l] = R(F)[l]
    BY <1>2 DEF Zero
  <2>2. F = [l \in Key |-> F[l]]
    OBVIOUS
  <2> HIDE DEF F
  <2> QED
    BY <2>1, <2>2
<1>4. Read = R(Read)
  <2> HIDE DEF F
  <2> QED
    BY <1>3, Zenon DEF Read
<1>5. ASSUME NEW l \in Key
      PROVE  Read[l] = IF l = <<>> THEN Zero ELSE ReadChar(Read[Front(l)], Last(l))
  BY <1>4 DEF Zero
<1>6. Read[k] \in Number
  <2> DEFINE Untyped == {n \in Nat : \E l \in Key : Len(l) = n /\ Read[l] \notin Number}
  <2> SUFFICES ASSUME Untyped # {} PROVE FALSE
    BY DEF Key
  <2>1. PICK n \in Untyped : \A m \in Untyped : n <= m
    BY Least
  <2>2. PICK l \in Key : Len(l) = n /\ Read[l] \notin Number
    BY <2>1
  <2>3. l # <<>>
    <3>1. Zero \in Number
      BY DEF Number, Zero
    <3> QED
      BY <1>5, <2>2, <3>1
  <2>4. Front(l) \in Key /\ Len(Front(l)) = n - 1 /\ n - 1 \in Nat /\ Last(l) \in 0..Base
    BY <2>2, <2>3, KeyParts
  <2>5. Read[Front(l)] \in Number
    BY <2>1, <2>4
  <2> QED
    BY <1>5, <2>2, <2>3, <2>4, <2>5, ReadCharType
<1> QED
  BY <1>5, <1>6

-----------------------------------------------------------------------------
(* The numbers keys are.                                                   *)
LEMMA NumericParts ==
  ASSUME NEW k \in Key, k # <<>>, Numeric(k)
  PROVE  Numeric(Front(k)) /\ Last(k) \in 0..Nine /\ IsDigit(Last(k))
<1>1. /\ Len(k) \in Nat \ {0} /\ Last(k) \in 0..Base /\ Last(k) = k[Len(k)]
      /\ Len(Front(k)) = Len(k) - 1 /\ \A i \in 1..Len(k) - 1 : Front(k)[i] = k[i]
  BY KeyParts
<1>2. \A i \in 1..Len(k) : k[i] < Base
  BY DEF Numeric, IsDigit
<1> QED
  BY <1>1, <1>2, AutoKeyAssumption DEF Numeric, IsDigit, Nine

LEMMA NumericAppend ==
  ASSUME NEW k \in Key, NEW c \in 0..Nine, Numeric(k)
  PROVE  Numeric(Append(k, c)) /\ c \in 0..Base /\ IsDigit(c)
<1>1. c \in 0..Base /\ c < Base
  BY AutoKeyAssumption DEF Nine
<1>2. /\ Len(Append(k, c)) = Len(k) + 1 /\ \A i \in 1..Len(k) : Append(k, c)[i] = k[i]
      /\ Append(k, c)[Len(k) + 1] = c /\ Len(k) \in Nat
  BY <1>1, AppendedParts DEF Key
<1> QED
  BY <1>1, <1>2 DEF Numeric, IsDigit

LEMMA ValueType == \A k \in Key : Value(k) \in Nat
BY ReadIs DEF Number, Value

(* A number is read to its end.                                            *)
LEMMA NumericNotEnded == \A k \in Key : Numeric(k) => ~Read[k].end
<1> DEFINE Ended == {n \in Nat : \E k \in Key : Len(k) = n /\ Numeric(k) /\ Read[k].end}
<1> SUFFICES ASSUME Ended # {} PROVE FALSE
  BY DEF Key
<1>1. PICK n \in Ended : \A m \in Ended : n <= m
  BY Least
<1>2. PICK k \in Key : Len(k) = n /\ Numeric(k) /\ Read[k].end
  BY <1>1
<1>3. k # <<>>
  BY <1>2, ReadIs DEF Zero
<1>4. /\ Front(k) \in Key /\ Len(Front(k)) = n - 1 /\ n - 1 \in Nat
      /\ Numeric(Front(k)) /\ IsDigit(Last(k))
  BY <1>2, <1>3, KeyParts, NumericParts
<1>5. ~Read[Front(k)].end /\ Read[Front(k)] \in Number
  BY <1>1, <1>4, ReadIs
<1>6. ~ReadChar(Read[Front(k)], Last(k)).end
  BY <1>4, <1>5 DEF ReadChar, Number
<1> QED
  BY <1>2, <1>3, <1>6, ReadIs

(* The value of a number, by its last digit (UtilsConvert.cpp:6-23).       *)
LEMMA ValueIs ==
  ASSUME NEW k \in Key, Numeric(k)
  PROVE  Value(k) = IF k = <<>> THEN 0 ELSE Value(Front(k)) * Base + Last(k)
<1>1. CASE k = <<>>
  BY <1>1, ReadIs DEF Value, Zero
<1>2. CASE k # <<>>
  <2>1. Front(k) \in Key /\ Numeric(Front(k)) /\ IsDigit(Last(k))
    BY <1>2, KeyParts, NumericParts
  <2>2. ~Read[Front(k)].end /\ Read[Front(k)] \in Number
    BY <2>1, NumericNotEnded, ReadIs
  <2>3. ReadChar(Read[Front(k)], Last(k)).is = Read[Front(k)].is * Base + Last(k)
    BY <2>1, <2>2 DEF ReadChar, Number
  <2> QED
    BY <1>2, <2>3, ReadIs DEF Value
<1> QED
  BY <1>1, <1>2

LEMMA ValueAppend ==
  ASSUME NEW k \in Key, NEW c \in 0..Nine, Numeric(k)
  PROVE  Value(Append(k, c)) = Value(k) * Base + c
<1>1. c \in 0..Base
  BY NumericAppend
<1>2. PICK a \in Key : a = Append(k, c) /\ a # <<>> /\ Front(a) = k /\ Last(a) = c
  BY <1>1, AppendedParts
<1>3. Numeric(a)
  BY <1>2, NumericAppend
<1> QED
  BY <1>2, <1>3, ValueIs

(* Numbers without a leading zero differ when they are written             *)
(* differently.                                                            *)
Proper(k) == Numeric(k) /\ (k # <<>> => k[1] # 0)

LEMMA ProperFront ==
  ASSUME NEW k \in Key, k # <<>>, Proper(k) PROVE Proper(Front(k))
<1>1. /\ Len(k) \in Nat \ {0} /\ Len(Front(k)) = Len(k) - 1 /\ Front(k) \in Key
      /\ \A i \in 1..Len(k) - 1 : Front(k)[i] = k[i]
  BY KeyParts
<1>2. CASE Len(k) = 1
  <2>1. Front(k) = <<>>
    BY <1>1, <1>2, EmptySeq DEF Key
  <2> QED
    BY <2>1, NumericParts DEF Proper
<1>3. CASE Len(k) # 1
  BY <1>1, <1>3, NumericParts DEF Proper
<1> QED
  BY <1>2, <1>3

LEMMA ProperIsPositive == \A k \in Key : Proper(k) /\ k # <<>> => Value(k) > 0
<1> DEFINE Null == {n \in Nat : \E k \in Key : Len(k) = n /\ Proper(k) /\ k # <<>> /\ ~(Value(k) > 0)}
<1> SUFFICES ASSUME Null # {} PROVE FALSE
  BY DEF Key
<1>1. PICK n \in Null : \A m \in Null : n <= m
  BY Least
<1>2. PICK k \in Key : Len(k) = n /\ Proper(k) /\ k # <<>> /\ ~(Value(k) > 0)
  BY <1>1
<1>3. /\ Front(k) \in Key /\ Len(k) \in Nat \ {0} /\ Len(Front(k)) = Len(k) - 1
      /\ Last(k) = k[Len(k)] /\ Numeric(k) /\ Proper(Front(k)) /\ Last(k) \in 0..Nine
      /\ Value(k) = Value(Front(k)) * Base + Last(k) /\ Value(Front(k)) \in Nat
  BY <1>2, KeyParts, ProperFront, NumericParts, ValueIs, ValueType DEF Proper
<1>4. Base \in Nat \ {0, 1} /\ Nine \in Nat
  BY AutoKeyAssumption DEF Nine
<1>5. CASE Front(k) = <<>>
  <2>1. Value(Front(k)) = 0 /\ Len(k) = 1
    BY <1>3, <1>5, ValueIs, EmptySeq DEF Proper
  <2>2. Last(k) # 0
    BY <1>2, <1>3, <2>1 DEF Proper
  <2> QED
    BY <1>2, <1>3, <1>4, <2>1, <2>2
<1>6. CASE Front(k) # <<>>
  <2>1. n - 1 \in Nat /\ n - 1 \notin Null
    BY <1>1, <1>2, <1>3
  <2>2. Value(Front(k)) >= 1
    BY <1>2, <1>3, <1>6, <2>1
  <2>3. Value(Front(k)) * Base >= 1
    BY <1>3, <1>4, <2>2
  <2> QED
    BY <1>2, <1>3, <1>4, <2>3
<1> QED
  BY <1>5, <1>6

LEMMA DigitsAreUnique ==
  ASSUME NEW u \in Nat, NEW v \in Nat, NEW a \in 0..Nine, NEW b \in 0..Nine,
         u * Base + a = v * Base + b
  PROVE  u = v /\ a = b
<1>0. Base \in Nat /\ Base > 1 /\ Nine = Base - 1
  BY AutoKeyAssumption DEF Nine
<1>1. ASSUME NEW x \in Nat, NEW y \in Nat, NEW c \in 0..Nine, NEW d \in 0..Nine, x < y
      PROVE  x * Base + c < y * Base + d
  <2>1. PICK e \in Nat : y = x + 1 + e
    <3>1. y - x - 1 \in Nat /\ y = x + 1 + (y - x - 1)
      BY <1>1
    <3> QED
      BY <3>1
  <2>2. y * Base = x * Base + Base + e * Base
    BY <1>0, <2>1
  <2>3. x * Base \in Nat /\ e * Base \in Nat
    BY <1>0
  <2> QED
    BY <1>0, <2>2, <2>3
<1>2. u = v
  <2>1. u * Base + a \in Int /\ v * Base + b \in Int
    BY <1>0
  <2>2. ~(u < v) /\ ~(v < u)
    BY <1>1, <2>1
  <2> QED
    BY <2>2
<1>3. u * Base \in Nat
  BY <1>0
<1> QED
  BY <1>0, <1>2, <1>3

LEMMA ProperAreUnique ==
  \A k, l \in Key : Proper(k) /\ Proper(l) /\ Value(k) = Value(l) => k = l
<1> DEFINE Twins(k, l) == Proper(k) /\ Proper(l) /\ Value(k) = Value(l) /\ k # l
           Twin == {n \in Nat : \E k, l \in Key : Len(k) = n /\ Twins(k, l)}
<1> SUFFICES ASSUME Twin # {} PROVE FALSE
  BY DEF Key
<1>1. PICK n \in Twin : \A m \in Twin : n <= m
  BY Least
<1>2. PICK k \in Key, l \in Key : Len(k) = n /\ Twins(k, l)
  BY <1>1
<1>3. k # <<>> /\ l # <<>>
  <2>1. Value(<<>>) = 0 /\ Proper(<<>>)
    <3>1. <<>> \in Key /\ Numeric(<<>>)
      BY DEF Key, Numeric
    <3> QED
      BY <3>1, ValueIs DEF Proper
  <2> QED
    BY <1>2, <2>1, ProperIsPositive
<1>4. /\ Front(k) \in Key /\ Len(k) \in Nat \ {0} /\ Len(Front(k)) = Len(k) - 1
      /\ Proper(Front(k)) /\ Last(k) \in 0..Nine /\ Value(Front(k)) \in Nat
      /\ Value(k) = Value(Front(k)) * Base + Last(k) /\ k = Append(Front(k), Last(k))
  BY <1>2, <1>3, KeyParts, ProperFront, NumericParts, ValueIs, ValueType DEF Proper
<1>5. /\ Front(l) \in Key /\ Proper(Front(l)) /\ Last(l) \in 0..Nine /\ Value(Front(l)) \in Nat
      /\ Value(l) = Value(Front(l)) * Base + Last(l) /\ l = Append(Front(l), Last(l))
  BY <1>2, <1>3, KeyParts, ProperFront, NumericParts, ValueIs, ValueType DEF Proper
<1>6. Value(Front(k)) = Value(Front(l)) /\ Last(k) = Last(l)
  <2>1. Value(Front(k)) * Base + Last(k) = Value(Front(l)) * Base + Last(l)
    BY <1>2, <1>4, <1>5
  <2> QED
    BY <1>4, <1>5, <2>1, DigitsAreUnique
<1>7. Front(k) # Front(l)
  BY <1>2, <1>4, <1>5, <1>6
<1>8. n - 1 \in Nat /\ n - 1 \in Twin
  BY <1>2, <1>4, <1>5, <1>6, <1>7
<1> QED
  BY <1>1, <1>8

(* As the database writes them, so too.                                    *)
LEMMA CanonicalAreUnique ==
  ASSUME NEW k \in Key, NEW l \in Key, Canonical(k), Canonical(l), Value(k) = Value(l)
  PROVE  k = l
<1>1. ASSUME NEW m \in Key, Canonical(m)
      PROVE  (Proper(m) /\ Value(m) > 0) \/ (m = <<0>> /\ Value(m) = 0)
  <2>1. m # <<>> /\ Numeric(m) /\ Len(m) \in Nat \ {0} /\ (Len(m) > 1 => m[1] # 0)
    BY <1>1, KeyParts DEF Canonical
  <2>2. CASE m[1] # 0
    <3>1. Proper(m)
      BY <2>1, <2>2 DEF Proper
    <3>2. Value(m) > 0
      BY <2>1, <3>1, ProperIsPositive
    <3> QED
      BY <3>1, <3>2
  <2>3. CASE m[1] = 0
    <3>0. Len(m) = 1
      <4>1. PICK n \in Nat \ {0} : n = Len(m) /\ ~(n > 1)
        BY <2>1, <2>3
      <4>2. n = 1
        BY <4>1
      <4> QED
        BY <4>1, <4>2
    <3>1. Len(m) = 1 /\ Last(m) = 0 /\ Front(m) \in Key /\ Len(Front(m)) = 0
      BY <2>1, <2>3, <3>0, KeyParts
    <3>2. Front(m) = <<>> /\ m = <<0>>
      BY <2>1, <3>1, KeyParts, EmptySeq DEF Key
    <3>3. Value(m) = Value(<<>>) * Base + 0 /\ Value(<<>>) = 0
      BY <2>1, <3>1, <3>2, ValueIs, NumericParts
    <3> QED
      BY <3>2, <3>3, AutoKeyAssumption
  <2> QED
    BY <2>2, <2>3
<1> QED
  BY <1>1, ProperAreUnique

-----------------------------------------------------------------------------
(* The next key.                                                           *)
LEMMA NextDigit ==
  ASSUME NEW c \in 0..Base, IsDigit(c)
  PROVE  /\ (c + 1) % Base \in 0..Nine
         /\ c # Nine => c + 1 \in 1..Nine /\ (c + 1) % Base = c + 1
         /\ c # Nine => c < Nine
<1>1. Base \in Nat \ {0, 1} /\ Nine = Base - 1 /\ c \in 0..Nine
  BY AutoKeyAssumption DEF Nine, IsDigit
<1>2. (c + 1) % Base \in 0..Base - 1
  BY <1>1
<1>3. c # Nine => c + 1 \in 1..Nine /\ c < Nine
  BY <1>1
<1>4. c + 1 \in 1..Nine => (c + 1) % Base = c + 1
  BY <1>1
<1> QED
  BY <1>1, <1>2, <1>3, <1>4

LEMMA Digits == {0, 1, Nine} \subseteq 0..Nine /\ {0, 1} \subseteq 0..Base
             /\ 0..Nine \subseteq 0..Base /\ <<>> \in Key /\ Numeric(<<>>) /\ Proper(<<>>)
BY AutoKeyAssumption DEF Nine, Key, Numeric, Proper

LEMMA CarryType == ASSUME NEW k \in Key PROVE Carry(k) \in Key
<1>1. CASE k = <<>> \/ ~IsDigit(Last(k))
  BY <1>1, Digits, AppendedParts DEF Carry
<1>2. CASE k # <<>> /\ IsDigit(Last(k))
  <2>1. Front(k) \in Key /\ (Last(k) + 1) % Base \in 0..Base
    BY <1>2, KeyParts, NextDigit, Digits
  <2> QED
    BY <1>2, <2>1, AppendedParts DEF Carry
<1> QED
  BY <1>1, <1>2

LEMMA IncrementType == ASSUME NEW k \in Key PROVE Increment(k) \in Key /\ Increment(k) # <<>>
<1>1. CASE k = <<>> \/ ~IsDigit(Last(k))
  BY <1>1, Digits, AppendedParts DEF Increment
<1>2. CASE k # <<>> /\ IsDigit(Last(k)) /\ Last(k) = Nine
  <2>1. Carry(Front(k)) \in Key
    BY <1>2, KeyParts, CarryType
  <2> QED
    BY <1>2, <2>1, Digits, AppendedParts DEF Increment
<1>3. CASE k # <<>> /\ IsDigit(Last(k)) /\ Last(k) # Nine
  <2>1. Front(k) \in Key /\ Last(k) + 1 \in 0..Base
    BY <1>3, KeyParts, NextDigit, Digits
  <2> QED
    BY <1>3, <2>1, AppendedParts DEF Increment
<1> QED
  BY <1>1, <1>2, <1>3

LEMMA ProperAppend ==
  ASSUME NEW k \in Key, Proper(k), NEW c \in 0..Nine, k # <<>> \/ c # 0
  PROVE  Append(k, c) \in Key /\ Proper(Append(k, c)) /\ Append(k, c) # <<>>
<1>1. Numeric(Append(k, c)) /\ c \in 0..Base
  BY NumericAppend DEF Proper
<1>2. /\ Append(k, c) \in Key /\ Append(k, c) # <<>> /\ Len(k) \in Nat
      /\ \A i \in 1..Len(k) : Append(k, c)[i] = k[i]
      /\ Append(k, c)[Len(k) + 1] = c
  BY <1>1, AppendedParts DEF Key
<1>3. Append(k, c)[1] # 0
  <2>1. CASE k = <<>>
    BY <1>2, <2>1
  <2>2. CASE k # <<>>
    <3>1. Len(k) \in Nat \ {0} /\ k[1] # 0
      BY <2>2, KeyParts DEF Proper
    <3> QED
      BY <1>2, <3>1
  <2> QED
    BY <2>1, <2>2
<1> QED
  BY <1>1, <1>2, <1>3 DEF Proper

(* The next of a number that does not end in two nines is the next number  *)
(* (UtilsConvert.cpp:143-195).                                             *)
LEMMA IncrementIsNext ==
  ASSUME NEW k \in Key, Numeric(k), ~(EndsIn(k, Nine) /\ EndsIn(Front(k), Nine))
  PROVE  /\ Value(Increment(k)) = Value(k) + 1
         /\ (k # <<>> => Proper(Front(k))) => Proper(Increment(k))
<1>0. Base \in Nat \ {0, 1} /\ Nine = Base - 1
  BY AutoKeyAssumption DEF Nine
<1>1. CASE k = <<>>
  <2>1. Increment(k) = Append(k, 1) /\ Value(k) = 0 /\ Proper(k)
    BY <1>1, ValueIs DEF Increment, Numeric, Proper
  <2>2. Value(Append(k, 1)) = 0 * Base + 1
    BY <2>1, Digits, ValueAppend
  <2>3. Proper(Append(k, 1))
    BY <2>1, Digits, ProperAppend
  <2> QED
    BY <1>0, <2>1, <2>2, <2>3
<1>2. CASE k # <<>> /\ Last(k) # Nine
  <2>1. /\ Front(k) \in Key /\ Numeric(Front(k)) /\ Last(k) \in 0..Nine
        /\ Last(k) + 1 \in 1..Nine
        /\ Increment(k) = Append(Front(k), Last(k) + 1)
        /\ Value(k) = Value(Front(k)) * Base + Last(k)
        /\ Value(Front(k)) \in Nat
    BY <1>2, KeyParts, NumericParts, NextDigit, ValueIs, ValueType DEF Increment
  <2>2. Value(Increment(k)) = Value(Front(k)) * Base + (Last(k) + 1)
    BY <2>1, ValueAppend
  <2>3. Proper(Front(k)) => Proper(Increment(k))
    BY <2>1, ProperAppend
  <2>4. Value(Front(k)) * Base \in Nat
    BY <1>0, <2>1
  <2> QED
    BY <1>2, <2>1, <2>2, <2>3, <2>4
<1>3. CASE k # <<>> /\ Last(k) = Nine
  <2> DEFINE f == Front(k)
             c == Carry(f)
  <2>1. /\ f \in Key /\ Numeric(f) /\ IsDigit(Last(k))
        /\ Increment(k) = Append(c, 0)
        /\ Value(k) = Value(f) * Base + Nine
        /\ Value(f) \in Nat
    BY <1>3, KeyParts, NumericParts, ValueIs, ValueType DEF Increment
  <2>2. c \in Key /\ Numeric(c) /\ Value(c) = Value(f) + 1
        /\ (Proper(f) => Proper(c) /\ c # <<>>)
    <3>1. CASE f = <<>>
      <4>1. c = Append(f, 1) /\ Value(f) = 0 /\ Proper(f)
        BY <2>1, <3>1, ValueIs DEF Carry, Proper
      <4>2. Value(Append(f, 1)) = 0 * Base + 1 /\ Numeric(Append(f, 1))
        BY <2>1, <4>1, Digits, ValueAppend, NumericAppend
      <4>3. Proper(Append(f, 1)) /\ Append(f, 1) # <<>> /\ Append(f, 1) \in Key
        <5>1. 1 \in 0..Nine /\ 1 # 0
          BY Digits
        <5> QED
          BY <2>1, <4>1, <5>1, ProperAppend
      <4> QED
        BY <1>0, <4>1, <4>2, <4>3
    <3>2. CASE f # <<>>
      <4>1. /\ Front(f) \in Key /\ Numeric(Front(f)) /\ Last(f) \in 0..Nine /\ IsDigit(Last(f))
            /\ Last(f) \in 0..Base /\ Value(f) = Value(Front(f)) * Base + Last(f)
            /\ Value(Front(f)) \in Nat
        BY <2>1, <3>2, KeyParts, NumericParts, ValueIs, ValueType
      <4>2. Last(f) # Nine
        BY <1>3, <3>2 DEF EndsIn
      <4>3. Last(f) + 1 \in 1..Nine /\ c = Append(Front(f), Last(f) + 1)
        BY <3>2, <4>1, <4>2, NextDigit DEF Carry
      <4>4. /\ Numeric(Append(Front(f), Last(f) + 1))
            /\ Value(Append(Front(f), Last(f) + 1)) = Value(Front(f)) * Base + (Last(f) + 1)
        BY <4>1, <4>3, NumericAppend, ValueAppend
      <4>5. Append(Front(f), Last(f) + 1) \in Key
        BY <4>1, <4>3, Digits, AppendedParts
      <4>6. Proper(f) => Proper(c) /\ c # <<>>
        BY <2>1, <3>2, <4>1, <4>3, ProperFront, ProperAppend
      <4>7. Value(Front(f)) * Base \in Nat
        BY <1>0, <4>1
      <4> QED
        BY <4>1, <4>3, <4>4, <4>5, <4>6, <4>7
    <3> QED
      BY <3>1, <3>2
  <2> HIDE DEF f, c
  <2>3. Value(Append(c, 0)) = Value(c) * Base + 0
    BY <2>2, Digits, ValueAppend
  <2>4. (Value(f) + 1) * Base = Value(f) * Base + Base /\ Value(f) * Base \in Nat
    BY <1>0, <2>1
  <2>5. Value(Increment(k)) = Value(k) + 1
    BY <1>0, <2>1, <2>2, <2>3, <2>4
  <2>6. Proper(f) => Proper(Append(c, 0))
    BY <2>2, Digits, ProperAppend
  <2> QED
    BY <1>3, <2>1, <2>5, <2>6 DEF f
<1> QED
  BY <1>1, <1>2, <1>3

LEMMA ProperIsCanonical ==
  /\ \A k \in Key : Proper(k) /\ k # <<>> => Canonical(k)
  /\ \A k \in Key : Canonical(k) => Numeric(k) /\ Proper(Front(k))
<1>1. ASSUME NEW k \in Key, Canonical(k) PROVE Numeric(k) /\ Proper(Front(k))
  <2>1. k # <<>> /\ Numeric(k)
    BY <1>1 DEF Canonical
  <2>2. /\ Len(k) \in Nat \ {0} /\ Len(Front(k)) = Len(k) - 1 /\ Front(k) \in Key
        /\ \A i \in 1..Len(k) - 1 : Front(k)[i] = k[i]
    BY <2>1, KeyParts
  <2>3. ASSUME Front(k) # <<>> PROVE Front(k)[1] # 0
    <3>1. Len(Front(k)) \in Nat \ {0}
      BY <2>2, <2>3, KeyParts
    <3>2. Len(k) > 1 /\ 1 \in 1..Len(k) - 1
      BY <2>2, <3>1
    <3> QED
      BY <1>1, <2>2, <3>2 DEF Canonical
  <2> QED
    BY <2>1, <2>3, NumericParts DEF Proper
<1> QED
  BY <1>1 DEF Proper, Canonical

-----------------------------------------------------------------------------
(* The order of keys.                                                      *)
LEMMA BeforeAsymmetric ==
  ASSUME NEW k \in Key, NEW l \in Key, Before(k, l) PROVE ~Before(l, k)
<1> SUFFICES ASSUME Before(l, k) PROVE FALSE
  OBVIOUS
<1>0. /\ Len(k) \in Nat /\ Len(l) \in Nat
      /\ \A i \in 1..Len(k) : k[i] \in Int
      /\ \A i \in 1..Len(l) : l[i] \in Int
  BY AutoKeyAssumption DEF Key
<1>1. PICK n \in 0..Len(k) :
        /\ n < Len(l) /\ \A i \in 1..n : k[i] = l[i]
        /\ n = Len(k) \/ k[n + 1] < l[n + 1]
  BY DEF Before
<1>2. PICK m \in 0..Len(l) :
        /\ m < Len(k) /\ \A i \in 1..m : l[i] = k[i]
        /\ m = Len(l) \/ l[m + 1] < k[m + 1]
  BY DEF Before
<1>3. n < Len(k) \/ n = Len(k)
  BY <1>0
<1>4. CASE n < m
  <2>1. n + 1 \in 1..m /\ n < Len(k) /\ n + 1 \in 1..Len(k) /\ n + 1 \in 1..Len(l)
    BY <1>0, <1>1, <1>2, <1>4
  <2>2. k[n + 1] = l[n + 1] /\ k[n + 1] < l[n + 1]
    BY <1>1, <1>2, <2>1
  <2> QED
    BY <1>0, <2>1, <2>2
<1>5. CASE m < n
  <2>1. m + 1 \in 1..n /\ m < Len(l) /\ m + 1 \in 1..Len(k) /\ m + 1 \in 1..Len(l)
    BY <1>0, <1>1, <1>2, <1>5
  <2>2. k[m + 1] = l[m + 1] /\ l[m + 1] < k[m + 1]
    BY <1>1, <1>2, <2>1
  <2> QED
    BY <1>0, <2>1, <2>2
<1>6. CASE m = n
  <2>1. n # Len(k) /\ m # Len(l) /\ n + 1 \in 1..Len(k) /\ n + 1 \in 1..Len(l)
    BY <1>0, <1>1, <1>2, <1>6
  <2>2. k[n + 1] < l[n + 1] /\ l[n + 1] < k[n + 1]
    BY <1>1, <1>2, <1>6, <2>1
  <2> QED
    BY <1>0, <2>1, <2>2
<1> QED
  BY <1>4, <1>5, <1>6

(* A key between two others is after the first or before the second.       *)
LEMMA BeforeSplits ==
  ASSUME NEW k \in Key, NEW l \in Key, NEW m \in Key, Before(k, m)
  PROVE  Before(k, l) \/ Before(l, m)
<1>0. /\ Len(k) \in Nat /\ Len(l) \in Nat /\ Len(m) \in Nat
      /\ \A i \in 1..Len(k) : k[i] \in Int
      /\ \A i \in 1..Len(l) : l[i] \in Int
      /\ \A i \in 1..Len(m) : m[i] \in Int
  BY AutoKeyAssumption DEF Key
<1>1. PICK n \in 0..Len(k) :
        /\ n < Len(m) /\ \A i \in 1..n : k[i] = m[i]
        /\ n = Len(k) \/ k[n + 1] < m[n + 1]
  BY DEF Before
(* Where l first leaves what k and m have in common.                       *)
<1> DEFINE Parts == {i \in 0..n : i = n \/ i = Len(l) \/ l[i + 1] # k[i + 1]}
<1>2. PICK j \in Parts : \A i \in Parts : j <= i
  <2>1. Parts \in SUBSET Nat /\ n \in Parts
    BY <1>0
  <2> HIDE DEF Parts
  <2> QED
    BY <2>1, Least
<1>3. j \in 0..n /\ j <= Len(l) /\ \A i \in 1..j : l[i] = k[i] /\ l[i] = m[i]
  <2>1. j \in 0..n
    BY <1>2
  <2>2. ASSUME NEW i \in 0..j - 1 PROVE i # Len(l) /\ l[i + 1] = k[i + 1]
    <3>1. i \in 0..n /\ i < j
      BY <1>0, <1>1, <2>1
    <3>2. i \notin Parts
      BY <1>2, <2>1, <3>1
    <3> QED
      BY <3>1, <3>2
  <2>3. j <= Len(l)
    <3>1. Len(l) < j => Len(l) \in 0..j - 1
      BY <1>0, <2>1
    <3> QED
      BY <1>0, <2>1, <2>2, <3>1
  <2>4. ASSUME NEW i \in 1..j PROVE l[i] = k[i] /\ l[i] = m[i]
    <3>1. i - 1 \in 0..j - 1 /\ i - 1 + 1 = i /\ i \in 1..n
      BY <1>0, <2>1
    <3>2. l[i - 1 + 1] = k[i - 1 + 1]
      BY <2>2, <3>1
    <3> QED
      BY <1>1, <3>1, <3>2
  <2> QED
    BY <2>1, <2>3, <2>4
<1>4. CASE j = Len(l)
  <2>1. j < Len(m) /\ j \in 0..Len(l)
    BY <1>0, <1>1, <1>3, <1>4
  <2> QED
    BY <1>3, <1>4, <2>1 DEF Before
<1>5. CASE j # Len(l) /\ j < n
  <2>1. /\ j \in 0..Len(l) /\ j \in 0..Len(k) /\ j < Len(l) /\ j < Len(m)
        /\ j + 1 \in 1..Len(k) /\ j + 1 \in 1..Len(l) /\ j + 1 \in 1..n
    BY <1>0, <1>1, <1>3, <1>5
  <2>2. l[j + 1] # k[j + 1] /\ k[j + 1] = m[j + 1]
    BY <1>1, <1>2, <1>3, <1>5, <2>1
  <2>3. l[j + 1] < m[j + 1] \/ k[j + 1] < l[j + 1]
    BY <1>0, <2>1, <2>2
  <2>4. CASE l[j + 1] < m[j + 1]
    BY <1>3, <2>1, <2>4 DEF Before
  <2>5. CASE k[j + 1] < l[j + 1]
    BY <1>3, <2>1, <2>5 DEF Before
  <2> QED
    BY <2>3, <2>4, <2>5
<1>6. CASE j # Len(l) /\ j = n
  <2>1. /\ n \in 0..Len(l) /\ n \in 0..Len(k) /\ n < Len(l) /\ n < Len(m)
        /\ n + 1 \in 1..Len(l) /\ n + 1 \in 1..Len(m)
    BY <1>0, <1>1, <1>3, <1>6
  <2>2. CASE n = Len(k) \/ k[n + 1] < l[n + 1]
    BY <1>3, <1>6, <2>1, <2>2 DEF Before
  <2>3. CASE n # Len(k) /\ ~(k[n + 1] < l[n + 1])
    <3>1. n + 1 \in 1..Len(k) /\ k[n + 1] < m[n + 1]
      BY <1>0, <1>1, <2>3
    <3>2. l[n + 1] < m[n + 1]
      BY <1>0, <2>1, <2>3, <3>1
    <3> QED
      BY <1>3, <1>6, <2>1, <3>2 DEF Before
  <2> QED
    BY <2>2, <2>3
<1> QED
  BY <1>3, <1>4, <1>5, <1>6

(* DB_CompareDataKey orders the keys of either type (DBRecord.cpp).        *)
LEMMA LessIsOrder ==
  /\ \A k \in Key : ~Less(k, k) /\ ~Less(k, <<>>)
  /\ \A k, l \in Key : Less(k, l) => ~Less(l, k)
  /\ \A k, l, m \in Key : Less(k, m) => Less(k, l) \/ Less(l, m)
<1>0. <<>> \in Key /\ Value(<<>>) = 0
  BY Digits, ValueIs
<1>1. CASE type = "int"
  BY <1>0, <1>1, ValueType DEF Less
<1>2. CASE type # "int"
  <2>1. \A k, l \in Key : Less(k, l) <=> Before(k, l)
    BY <1>2 DEF Less
  <2>2. \A k \in Key : ~Before(k, <<>>)
    BY DEF Before
  <2> QED
    BY <1>0, <2>1, <2>2, BeforeAsymmetric, BeforeSplits
<1> QED
  BY <1>1, <1>2

(* A key that has a next is less than it.                                  *)
LEMMA IncrementIsGreater ==
  ASSUME NEW k \in Key, HasNext(k) PROVE Less(k, Increment(k))
<1>1. CASE type = "int"
  <2>1. Value(Increment(k)) = Value(k) + 1
    BY <1>1, IncrementIsNext DEF HasNext
  <2> QED
    BY <1>1, <2>1, ValueType DEF Less
<1>2. CASE type # "int" /\ (k = <<>> \/ ~IsDigit(Last(k)))
  <2>1. Increment(k) = Append(k, 1) /\ Len(k) \in Nat
    BY <1>2 DEF Increment, Key
  <2>2. Len(Append(k, 1)) = Len(k) + 1 /\ \A i \in 1..Len(k) : Append(k, 1)[i] = k[i]
    BY Digits, AppendedParts
  <2>3. Before(k, Append(k, 1))
    BY <2>1, <2>2 DEF Before
  <2> QED
    BY <1>2, <2>1, <2>3 DEF Less
<1>3. CASE type # "int" /\ k # <<>> /\ IsDigit(Last(k)) /\ Last(k) # Nine
  <2> DEFINE n == Len(k) - 1
             l == Append(Front(k), Last(k) + 1)
  <2>1. /\ Increment(k) = l /\ n \in Nat /\ n < Len(k) /\ Last(k) + 1 \in 0..Base
        /\ Front(k) \in Key /\ Len(Front(k)) = n /\ Last(k) = k[n + 1] /\ Last(k) \in 0..Base
        /\ \A i \in 1..n : Front(k)[i] = k[i]
    BY <1>3, KeyParts, NextDigit, Digits DEF Increment
  <2>2. Len(l) = n + 1 /\ l[n + 1] = Last(k) + 1 /\ \A i \in 1..n : l[i] = k[i]
    BY <2>1, AppendedParts
  <2> HIDE DEF n, l
  <2>3. Before(k, l)
    <3>1. n \in 0..Len(k) /\ n < Len(l) /\ k[n + 1] < l[n + 1]
      BY <2>1, <2>2, AutoKeyAssumption
    <3> QED
      BY <2>2, <3>1 DEF Before
  <2> QED
    BY <1>3, <2>1, <2>3 DEF Less
<1>4. CASE type # "int" /\ k # <<>> /\ IsDigit(Last(k)) /\ Last(k) = Nine
  <2> DEFINE f == Front(k)
             n == Len(k) - 2
             c == Append(Front(f), Last(f) + 1)
             l == Append(c, 0)
  <2>1. f # <<>> /\ Last(f) < Nine /\ f \in Key /\ Len(f) = Len(k) - 1 /\ Len(k) \in Nat
        /\ \A i \in 1..Len(k) - 1 : f[i] = k[i]
    BY <1>4, KeyParts DEF HasNext, EndsIn
  <2>2. /\ Front(f) \in Key /\ Last(f) \in 0..Base /\ Last(f) = f[Len(f)]
        /\ Len(f) \in Nat \ {0} /\ Len(Front(f)) = Len(f) - 1
        /\ \A i \in 1..Len(f) - 1 : Front(f)[i] = f[i]
    BY <2>1, KeyParts
  <2>3. IsDigit(Last(f)) /\ Last(f) # Nine
    BY <2>1, <2>2, AutoKeyAssumption DEF IsDigit, Nine
  <2>4. Last(f) + 1 \in 0..Base /\ Increment(k) = l
    BY <1>4, <2>1, <2>2, <2>3, NextDigit, Digits DEF Increment, Carry
  <2>5. /\ c \in Key /\ Len(c) = Len(f) /\ c[Len(f)] = Last(f) + 1
        /\ \A i \in 1..Len(f) - 1 : c[i] = f[i]
    BY <2>2, <2>4, AppendedParts
  <2> HIDE DEF c
  <2>6. Len(l) = Len(c) + 1 /\ \A i \in 1..Len(c) : l[i] = c[i]
    BY <2>5, Digits, AppendedParts
  <2> HIDE DEF l
  <2>7. n \in 0..Len(k) /\ n < Len(l) /\ n + 1 = Len(f) /\ n + 1 \in 1..Len(f)
    BY <2>1, <2>2, <2>5, <2>6
  <2>8. ASSUME NEW i \in 1..n PROVE k[i] = l[i]
    <3>1. i \in 1..Len(k) - 1 /\ i \in 1..Len(f) - 1 /\ i \in 1..Len(c)
      BY <2>1, <2>2, <2>5
    <3> QED
      BY <2>1, <2>5, <2>6, <3>1
  <2>9. k[n + 1] < l[n + 1]
    <3>1. k[n + 1] = Last(f) /\ l[n + 1] = Last(f) + 1
      BY <2>1, <2>2, <2>5, <2>6, <2>7
    <3> QED
      BY <2>2, <3>1, AutoKeyAssumption
  <2> HIDE DEF n
  <2>10. Before(k, l)
    BY <2>7, <2>8, <2>9 DEF Before
  <2> QED
    BY <1>4, <2>4, <2>10 DEF Less
<1> QED
  BY <1>1, <1>2, <1>3, <1>4

-----------------------------------------------------------------------------
(* Why automatic keys are right.  What the table remembers is one of its   *)
(* records' keys, or nothing; it is nothing only of a table without        *)
(* settled records, or whose keys cannot be told from nothing; and until a *)
(* number without a next was counted on, numbers are written in one way.   *)
Known ==
  /\ \A h \in Handler : pc[h] = "keys" => dataKey[h] \in records
  /\ minKey \in records \cup {<<>>} /\ maxKey \in records \cup {<<>>}
  /\ maxKey = <<>> => Settled \subseteq {<<>>}
  /\ minKey = <<>> => Settled = {} \/ <<>> \in records
Written ==
  type = "int" /\ ~outrun =>
    /\ \A k \in records : Canonical(k)
    /\ \A h \in Handler : pc[h] # "idle" => Canonical(dataKey[h])
KeyInv == TypeOK /\ Known /\ KeysInRange /\ Written

LEMMA KeyInvInit == Init => KeyInv
<1> SUFFICES ASSUME Init PROVE KeyInv
  OBVIOUS
<1>1. records = {} /\ Settled = {} /\ \A h \in Handler : pc[h] = "idle"
  BY DEF Init, Settled
<1>2. TypeOK
  <2>1. <<>> \in Key /\ NoHandler \notin Handler /\ 0 \in 0..MaxInserts
    BY Digits, AutoKeyAssumption
  <2>2. pc \in [Handler -> {"idle", "find", "lock", "keys"}] /\ dataKey \in [Handler -> Key]
    BY <2>1 DEF Init
  <2>3. \A h \in Handler : pc[h] = "keys" <=> holder = h
    BY <1>1, <2>1 DEF Init
  <2> QED
    BY <1>1, <2>1, <2>2, <2>3 DEF Init, TypeOK
<1>3. Known /\ KeysInRange /\ Written
  BY <1>1 DEF Init, Known, KeysInRange, Written
<1> QED
  BY <1>2, <1>3 DEF KeyInv

(* An insert that begins, with a key of its own or the next one.           *)
LEMMA BeginStep ==
  ASSUME KeyInv, NEW h \in Handler, NEW k \in Key, Begin(h, k),
         outrun' \in BOOLEAN, ~outrun' => ~outrun,
         type = "int" /\ ~outrun' => Canonical(k)
  PROVE  KeyInv'
<1>0. TypeOK /\ Known /\ KeysInRange /\ Written
  BY DEF KeyInv
<1>1. /\ pc[h] = "idle" /\ pc' = [pc EXCEPT ![h] = "find"]
      /\ dataKey' = [dataKey EXCEPT ![h] = k] /\ begun < MaxInserts /\ begun' = begun + 1
      /\ UNCHANGED <<type, records, minKey, maxKey, holder>>
  BY DEF Begin
<1>2. TypeOK'
  BY <1>0, <1>1, AutoKeyAssumption DEF TypeOK
<1>3. Settled' = Settled
  <2>1. \A g \in Handler : pc'[g] = "keys" <=> pc[g] = "keys"
    BY <1>0, <1>1 DEF TypeOK
  <2>2. \A g \in Handler : pc[g] = "keys" => dataKey'[g] = dataKey[g]
    BY <1>0, <1>1 DEF TypeOK
  <2>3. {dataKey'[g] : g \in {e \in Handler : pc'[e] = "keys"}}
          = {dataKey[g] : g \in {e \in Handler : pc[e] = "keys"}}
    BY <2>1, <2>2
  <2> QED
    BY <1>1, <2>3 DEF Settled
<1>4. Known'
  BY <1>0, <1>1, <1>3 DEF Known, TypeOK
<1>5. KeysInRange'
  <2>1. \A a, b : Less(a, b)' <=> Less(a, b)
    BY <1>1 DEF Less
  <2> QED
    BY <1>0, <1>1, <1>3, <2>1 DEF KeysInRange
<1>6. Written'
  BY <1>0, <1>1 DEF Written, TypeOK
<1> QED
  BY <1>2, <1>4, <1>5, <1>6 DEF KeyInv

LEMMA NextIsWritten ==
  ASSUME KeyInv, type = "int", ~outrun, HasNext(maxKey) PROVE Canonical(Increment(maxKey))
<1>1. maxKey \in Key /\ Increment(maxKey) \in Key /\ Increment(maxKey) # <<>>
  BY IncrementType DEF KeyInv, TypeOK
<1>2. maxKey # <<>> => Proper(Front(maxKey))
  BY <1>1, ProperIsCanonical DEF KeyInv, Known, Written
<1>3. Proper(Increment(maxKey))
  BY <1>1, <1>2, IncrementIsNext DEF HasNext
<1> QED
  BY <1>1, <1>3, ProperIsCanonical

LEMMA KeyInvStep == KeyInv /\ [Next]_vars => KeyInv'
<1> SUFFICES ASSUME KeyInv, [Next]_vars PROVE KeyInv'
  OBVIOUS
<1>0. TypeOK /\ Known /\ KeysInRange /\ Written
  BY DEF KeyInv
<1>1. ASSUME NEW h \in Handler, NEW k \in Named, InsertNamed(h, k) PROVE KeyInv'
  <2>1. k \in Key
    BY AutoKeyAssumption DEF Key
  <2>2. Begin(h, k) /\ outrun' = outrun /\ (type = "int" => Canonical(k))
    BY <1>1 DEF InsertNamed
  <2>3. outrun \in BOOLEAN
    BY <1>0 DEF TypeOK
  <2> QED
    BY <2>1, <2>2, <2>3, BeginStep
<1>2. ASSUME NEW h \in Handler, PriKeyIncrement(h) PROVE KeyInv'
  <2>1. Begin(h, Increment(maxKey)) /\ outrun' = (outrun \/ ~HasNext(maxKey))
    BY <1>2 DEF PriKeyIncrement
  <2>2. Increment(maxKey) \in Key /\ outrun \in BOOLEAN
    BY <1>0, IncrementType DEF TypeOK
  <2>3. outrun' \in BOOLEAN /\ (~outrun' => ~outrun /\ HasNext(maxKey))
    BY <2>1, <2>2, Zenon
  <2>4. type = "int" /\ ~outrun' => Canonical(Increment(maxKey))
    BY <2>3, NextIsWritten
  <2> QED
    BY <2>1, <2>2, <2>3, <2>4, BeginStep
<1>3. ASSUME NEW h \in Handler, FindSet(h) PROVE KeyInv'
  <2>1. TypeOK'
    BY <1>0, <1>3 DEF FindSet, TypeOK
  <2>2. Settled' = Settled
    <3>1. \A g \in Handler : pc'[g] = "keys" <=> pc[g] = "keys"
      BY <1>0, <1>3 DEF TypeOK, FindSet
    <3> QED
      BY <1>3, <3>1 DEF Settled, FindSet
  <2>3. \A a, b : Less(a, b)' <=> Less(a, b)
    BY <1>3 DEF Less, FindSet
  <2>4. Known' /\ Written'
    BY <1>0, <1>3, <2>2 DEF Known, Written, FindSet, TypeOK
  <2>5. KeysInRange'
    BY <1>0, <1>3, <2>2, <2>3 DEF KeysInRange, FindSet
  <2> QED
    BY <2>1, <2>4, <2>5 DEF KeyInv
<1>4. ASSUME NEW h \in Handler, InsertSet(h) PROVE KeyInv'
  <2>1. /\ holder = NoHandler /\ records' = records \cup {dataKey[h]} /\ pc' = [pc EXCEPT ![h] = "keys"]
        /\ pc[h] = "lock" /\ holder' = h
        /\ UNCHANGED <<type, minKey, maxKey, dataKey, begun, outrun>>
    BY <1>4 DEF InsertSet
  <2>2. \A g \in Handler : pc[g] # "keys"
    BY <1>0, <2>1, AutoKeyAssumption DEF TypeOK
  <2>3. TypeOK'
    <3>1. \A g \in Handler : pc'[g] = "keys" <=> holder' = g
      BY <1>0, <2>1, <2>2 DEF TypeOK
    <3>2. holder' # NoHandler
      BY <2>1, AutoKeyAssumption
    <3> QED
      BY <1>0, <2>1, <3>1, <3>2 DEF TypeOK
  <2>4. Settled' = records \ {dataKey[h]} /\ Settled = records
    <3>1. {dataKey'[g] : g \in {e \in Handler : pc'[e] = "keys"}} = {dataKey[h]}
      BY <1>0, <2>1, <2>2 DEF TypeOK
    <3> QED
      BY <2>1, <2>2, <3>1 DEF Settled
  <2>5. Known'
    BY <1>0, <2>1, <2>2, <2>4 DEF Known, TypeOK
  <2>6. Written'
    BY <1>0, <2>1 DEF Written, TypeOK
  <2>7. KeysInRange'
    <3>1. \A a, b : Less(a, b)' <=> Less(a, b)
      BY <2>1 DEF Less
    <3> QED
      BY <1>0, <2>1, <2>4, <3>1 DEF KeysInRange
  <2> QED
    BY <2>3, <2>5, <2>6, <2>7 DEF KeyInv
<1>5. ASSUME NEW h \in Handler, CheckIncrementField(h) PROVE KeyInv'
  <2> DEFINE d == dataKey[h]
  <2>1. /\ pc[h] = "keys" /\ minKey' = Lower(minKey, d) /\ maxKey' = Raise(maxKey, d)
        /\ holder' = NoHandler /\ pc' = [pc EXCEPT ![h] = "idle"]
        /\ UNCHANGED <<type, records, dataKey, begun, outrun>>
    BY <1>5 DEF CheckIncrementField
  <2>2. /\ records \subseteq Key /\ d \in Key /\ minKey \in Key /\ maxKey \in Key
        /\ d \in records
        /\ \A g \in Handler : pc[g] = "keys" <=> g = h
    BY <1>0, <2>1 DEF TypeOK, Known
  <2>3. Settled = records \ {d} /\ Settled' = records
    <3>1. {dataKey[g] : g \in {e \in Handler : pc[e] = "keys"}} = {d}
      BY <2>2
    <3>2. \A g \in Handler : pc'[g] # "keys"
      BY <1>0, <2>1, <2>2 DEF TypeOK
    <3> QED
      BY <2>1, <3>1, <3>2 DEF Settled
  <2> HIDE DEF d
  <2>4. minKey' \in records /\ maxKey' \in records
    BY <1>0, <2>1, <2>2 DEF Known, Lower, Raise
  <2>5. TypeOK'
    <3>1. \A g \in Handler : pc'[g] = "keys" <=> holder' = g
      BY <1>0, <2>1, <2>2, AutoKeyAssumption DEF TypeOK
    <3> QED
      BY <1>0, <2>1, <2>2, <2>4, <3>1 DEF TypeOK
  <2>6. ASSUME NEW k \in records PROVE ~Less(maxKey', k)
    <3>1. CASE k = d
      BY <2>1, <2>2, <3>1, LessIsOrder DEF Raise
    <3>2. CASE k # d
      <4>1. ~Less(maxKey, k) /\ (maxKey = <<>> => k = <<>>)
        BY <1>0, <2>3, <3>2 DEF KeysInRange, Known
      <4>2. CASE maxKey = <<>>
        BY <2>1, <2>2, <4>1, <4>2, LessIsOrder DEF Raise
      <4>3. CASE Less(maxKey, d)
        <5>1. Less(k, d)
          BY <2>2, <4>1, <4>3, LessIsOrder
        <5> QED
          BY <2>1, <2>2, <4>3, <5>1, LessIsOrder DEF Raise
      <4> QED
        BY <2>1, <4>1, <4>2, <4>3 DEF Raise
    <3> QED
      BY <3>1, <3>2
  <2>7. ASSUME NEW k \in records, <<>> \notin records PROVE ~Less(k, minKey')
    <3>1. CASE k = d
      BY <2>1, <2>2, <3>1, LessIsOrder DEF Lower
    <3>2. CASE k # d
      <4>1. ~Less(k, minKey) /\ minKey # <<>>
        BY <1>0, <2>3, <2>7, <3>2 DEF KeysInRange, Known
      <4>2. CASE Less(d, minKey)
        <5>1. Less(d, k)
          BY <2>2, <4>1, <4>2, LessIsOrder
        <5> QED
          BY <2>1, <2>2, <4>2, <5>1, LessIsOrder DEF Lower
      <4> QED
        BY <2>1, <4>1, <4>2 DEF Lower
    <3> QED
      BY <3>1, <3>2
  <2>8. KeysInRange'
    <3>1. \A a, b : Less(a, b)' <=> Less(a, b)
      BY <2>1 DEF Less
    <3>2. \A k \in records : Less(maxKey, k)' <=> Less(maxKey', k)
      BY <2>1 DEF Less
    <3>3. \A k \in records : Less(k, minKey)' <=> Less(k, minKey')
      BY <2>1 DEF Less
    <3> QED
      BY <2>1, <2>3, <2>6, <2>7, <3>2, <3>3 DEF KeysInRange
  <2>9. Known'
    <3>1. maxKey' = <<>> => records \subseteq {<<>>}
      <4>1. maxKey' = <<>> => maxKey = <<>> /\ d = <<>>
        BY <2>1, <2>2, LessIsOrder DEF Raise
      <4> QED
        BY <1>0, <2>3, <4>1 DEF Known
    <3>2. \A g \in Handler : pc'[g] # "keys"
      BY <1>0, <2>1, <2>2 DEF TypeOK
    <3> QED
      BY <2>1, <2>3, <2>4, <3>1, <3>2 DEF Known
  <2>10. Written'
    BY <1>0, <2>1 DEF Written, TypeOK
  <2> QED
    BY <2>5, <2>8, <2>9, <2>10 DEF KeyInv
<1>6. CASE UNCHANGED vars
  <2>1. TypeOK' /\ Written' /\ Settled' = Settled
    BY <1>0, <1>6 DEF vars, TypeOK, Written, Settled
  <2>2. \A a, b : Less(a, b)' <=> Less(a, b)
    BY <1>6 DEF vars, Less
  <2> QED
    BY <1>0, <1>6, <2>1, <2>2 DEF vars, KeyInv, Known, KeysInRange
<1> QED
  BY <1>1, <1>2, <1>3, <1>4, <1>5, <1>6 DEF Next

(* What a table knows of its keys stays typed, and once it has a record,   *)
(* its least and greatest keys are keys of records it has.                 *)
THEOREM KeyTypeCorrect == Spec => []TypeOK
<1>1. KeyInv => TypeOK
  BY DEF KeyInv
<1> QED
  BY KeyInvInit, KeyInvStep, <1>1, PTL DEF Spec

(* However the inserts of any number of handlers interleave, no record but *)
(* the one being inserted is greater than what the table takes for its     *)
(* greatest key, nor, without an empty key, less than its least            *)
(* (DBTable.cpp:428-442).                                                  *)
THEOREM KeysAreInRange == Spec => []KeysInRange
<1>1. KeyInv => KeysInRange
  BY DEF KeyInv
<1> QED
  BY KeyInvInit, KeyInvStep, <1>1, PTL DEF Spec

(* Keys of a column of numbers are numbers the database tells apart, until *)
(* a key was computed from one without a next (DBTable.cpp:96-99).         *)
THEOREM NumbersAreNotGivenTwice == Spec => []NumbersDiffer
<1>1. ASSUME KeyInv, type = "int", ~outrun, NEW k \in records, NEW l \in records,
             Value(k) = Value(l)
      PROVE  k = l
  <2>1. k \in Key /\ l \in Key /\ Canonical(k) /\ Canonical(l)
    BY <1>1 DEF KeyInv, TypeOK, Written
  <2> QED
    BY <1>1, <2>1, CanonicalAreUnique
<1>2. KeyInv => NumbersDiffer
  BY <1>1 DEF NumbersDiffer
<1> QED
  BY KeyInvInit, KeyInvStep, <1>2, PTL DEF Spec

(* A key computed from one that has a next, while nobody is inserting, is  *)
(* greater than every record's, for keys of any length over any digits     *)
(* (UtilsConvert.cpp:143-195, DBTable.cpp:444-457).                        *)
THEOREM NextKeyIsGreater == Spec => NextIsGreater
<1> DEFINE Greater == \A h \in Handler : PriKeyIncrement(h) /\ holder = NoHandler /\ HasNext(maxKey) =>
                         \A k \in records : Less(k, dataKey'[h])
<1>1. ASSUME KeyInv, NEW h \in Handler, PriKeyIncrement(h), holder = NoHandler, HasNext(maxKey),
             NEW k \in records
      PROVE  Less(k, dataKey'[h])
  <2>1. k \in Key /\ maxKey \in Key /\ dataKey'[h] = Increment(maxKey) /\ Increment(maxKey) \in Key
    BY <1>1, IncrementType DEF KeyInv, TypeOK, PriKeyIncrement, Begin
  <2>2. k \in Settled
    BY <1>1, AutoKeyAssumption DEF KeyInv, TypeOK, Settled
  <2>3. ~Less(maxKey, k)
    BY <1>1, <2>2 DEF KeyInv, KeysInRange
  <2>4. Less(maxKey, Increment(maxKey))
    BY <1>1, <2>1, IncrementIsGreater
  <2> QED
    BY <2>1, <2>3, <2>4, LessIsOrder
<1>2. KeyInv => [Greater]_vars
  BY <1>1
<1> QED
  BY KeyInvInit, KeyInvStep, <1>2, PTL DEF Spec, NextIsGreater

=============================================================================
