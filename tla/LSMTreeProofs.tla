--------------------------- MODULE LSMTreeProofs ---------------------------
(***************************************************************************)
(* Proofs about the LSM tree engine for any keys, values, closing threads, *)
(* limits and movements of the clock that names the files.                 *)
(*                                                                         *)
(* What flush_memtable and compact_sstables do is proved of engines, the   *)
(* records that these operators map to engines, and carried over to the    *)
(* steps that they are part of.                                            *)
(***************************************************************************)
EXTENDS MCLSMTreeHistory, FiniteSetTheorems, SequenceTheorems, TLAPS

-----------------------------------------------------------------------------
(* Finite sets of numbers                                                  *)

\* Of finitely many numbers one is the greatest.
LEMMA GreatestMember ==
  ASSUME NEW S \in SUBSET Int, IsFiniteSet(S), S # {}
  PROVE  \E m \in S : \A n \in S : n <= m
<1> DEFINE Over(m) == {n \in S : n > m}
           A == {Over(m) : m \in S}
<1>1. IsWellFoundedOn(StrictSubsetOrdering(S), FiniteSubsetsOf(S))
  BY FS_StrictSubsetOrderingWellFounded
<1>2. A \subseteq FiniteSubsetsOf(S) /\ A # {}
  <2>1. FiniteSubsetsOf(S) = SUBSET S
    BY FS_FiniteSubsetsOfFinite
  <2>2. A \subseteq SUBSET S /\ A # {}
    OBVIOUS
  <2> QED
    BY <2>1, <2>2
<1>3. PICK a \in A : \A b \in A : ~ (<<b, a>> \in StrictSubsetOrdering(S))
  <2> HIDE DEF A
  <2> QED
    BY <1>1, <1>2, WFMin
<1>4. PICK m \in S : a = Over(m)
  OBVIOUS
<1>5. ASSUME NEW n \in S, n > m PROVE FALSE
  <2>1. m \in Int /\ n \in Int
    OBVIOUS
  <2>2. ASSUME NEW k \in S, k > n PROVE k > m
    <3>1. k \in Int
      OBVIOUS
    <3> QED
      BY <1>5, <2>1, <2>2, <3>1
  <2>3. ~ (n > n)
    BY <2>1
  <2>4. Over(n) \subseteq Over(m) /\ n \in Over(m) /\ n \notin Over(n)
    BY <1>5, <2>2, <2>3
  <2>5. Over(n) \in SUBSET S /\ Over(m) \in SUBSET S
    OBVIOUS
  <2>6. <<Over(n), Over(m)>> \in StrictSubsetOrdering(S)
    <3> HIDE DEF Over
    <3> QED
      BY <2>4, <2>5 DEF StrictSubsetOrdering
  <2> QED
    BY <1>3, <1>4, <2>6
<1> QED
  <2>1. ASSUME NEW n \in S PROVE ~ (n > m)
    BY <1>5
  <2> QED
    BY <2>1

\* And one is the least.
LEMMA LeastMember ==
  ASSUME NEW S \in SUBSET Int, IsFiniteSet(S), S # {}
  PROVE  \E m \in S : \A n \in S : m <= n
<1> DEFINE Under(m) == {n \in S : n < m}
           A == {Under(m) : m \in S}
<1>1. IsWellFoundedOn(StrictSubsetOrdering(S), FiniteSubsetsOf(S))
  BY FS_StrictSubsetOrderingWellFounded
<1>2. A \subseteq FiniteSubsetsOf(S) /\ A # {}
  <2>1. FiniteSubsetsOf(S) = SUBSET S
    BY FS_FiniteSubsetsOfFinite
  <2>2. A \subseteq SUBSET S /\ A # {}
    OBVIOUS
  <2> QED
    BY <2>1, <2>2
<1>3. PICK a \in A : \A b \in A : ~ (<<b, a>> \in StrictSubsetOrdering(S))
  <2> HIDE DEF A
  <2> QED
    BY <1>1, <1>2, WFMin
<1>4. PICK m \in S : a = Under(m)
  OBVIOUS
<1>5. ASSUME NEW n \in S, n < m PROVE FALSE
  <2>1. m \in Int /\ n \in Int
    OBVIOUS
  <2>2. ASSUME NEW k \in S, k < n PROVE k < m
    <3>1. k \in Int
      OBVIOUS
    <3> QED
      BY <1>5, <2>1, <2>2, <3>1
  <2>3. ~ (n < n)
    BY <2>1
  <2>4. Under(n) \subseteq Under(m) /\ n \in Under(m) /\ n \notin Under(n)
    BY <1>5, <2>2, <2>3
  <2>5. Under(n) \in SUBSET S /\ Under(m) \in SUBSET S
    OBVIOUS
  <2>6. <<Under(n), Under(m)>> \in StrictSubsetOrdering(S)
    <3> HIDE DEF Under
    <3> QED
      BY <2>4, <2>5 DEF StrictSubsetOrdering
  <2> QED
    BY <1>3, <1>4, <2>6
<1> QED
  <2>1. ASSUME NEW n \in S PROVE ~ (n < m)
    BY <1>5
  <2> QED
    BY <2>1

\* A finite set of numbers has a k-th member: k of them are not greater.
LEMMA NthMember ==
  ASSUME NEW S \in SUBSET Int, IsFiniteSet(S), NEW k \in 1..Cardinality(S)
  PROVE  \E n \in S : Cardinality({m \in S : m <= n}) = k
<1> DEFINE UpTo(n) == {m \in S : m <= n}
           Enough == {n \in S : Cardinality(UpTo(n)) >= k}
<1>1. /\ Cardinality(S) \in Nat /\ k \in Nat /\ k >= 1 /\ k <= Cardinality(S)
      /\ \A T \in SUBSET S : IsFiniteSet(T) /\ Cardinality(T) \in Nat
  <2>1. \A T \in SUBSET S : IsFiniteSet(T)
    BY FS_Subset
  <2>2. Cardinality(S) \in Nat
    BY FS_CardinalityType
  <2> QED
    BY <2>1, <2>2, FS_CardinalityType
<1>2. S # {}
  BY <1>1, FS_EmptySet
<1>3. Enough # {}
  <2>1. PICK m \in S : \A n \in S : n <= m
    BY <1>2, GreatestMember
  <2>2. UpTo(m) = S
    BY <2>1
  <2> QED
    BY <1>1, <2>1, <2>2
<1>4. PICK n \in Enough : \A m \in Enough : n <= m
  <2>1. Enough \in SUBSET S /\ Enough \in SUBSET Int
    OBVIOUS
  <2> HIDE DEF Enough
  <2> QED
    BY <1>1, <1>3, <2>1, LeastMember
<1>5. n \in S /\ n \in Int /\ UpTo(n) \in SUBSET S /\ Cardinality(UpTo(n)) >= k
  BY <1>4
<1> DEFINE U == UpTo(n) \ {n}
<1>6. U \in SUBSET S /\ n \in UpTo(n) /\ UpTo(n) = U \cup {n} /\ n \notin U
  BY <1>5
<1>7. Cardinality(UpTo(n)) = Cardinality(U) + 1
  <2> HIDE DEF U, UpTo
  <2>1. IsFiniteSet(U)
    BY <1>1, <1>6
  <2> QED
    BY <1>6, <2>1, FS_AddElement
<1>8. Cardinality(U) < k
  <2>0. Cardinality(U) \in Nat /\ IsFiniteSet(U)
    BY <1>1, <1>6
  <2>1. CASE U = {}
    BY <1>1, <2>1, FS_EmptySet
  <2>2. CASE U # {}
    <3>1. PICK g \in U : \A m \in U : m <= g
      <4>1. U \in SUBSET Int
        BY <1>6
      <4> HIDE DEF U
      <4> QED
        BY <2>0, <2>2, <4>1, GreatestMember
    <3>2. g \in S /\ g < n /\ g \notin Enough
      BY <1>4, <1>5, <3>1
    <3>3. U \subseteq UpTo(g) /\ UpTo(g) \in SUBSET S
      BY <1>6, <3>1
    <3>4. Cardinality(U) <= Cardinality(UpTo(g))
      <4> HIDE DEF U, UpTo
      <4> QED
        BY <1>1, <3>3, FS_Subset
    <3>5. Cardinality(UpTo(g)) < k
      <4>1. Cardinality(UpTo(g)) \in Nat
        BY <1>1, <3>3
      <4>2. ~ (Cardinality(UpTo(g)) >= k)
        BY <3>2
      <4> HIDE DEF UpTo
      <4> QED
        BY <1>1, <4>1, <4>2
    <3>6. Cardinality(UpTo(g)) \in Nat
      BY <1>1, <3>3
    <3> HIDE DEF U, UpTo
    <3> QED
      BY <1>1, <2>0, <3>4, <3>5, <3>6
  <2> QED
    BY <2>1, <2>2
<1>9. Cardinality(UpTo(n)) = k
  <2>1. Cardinality(U) \in Nat
    BY <1>1, <1>6
  <2> HIDE DEF U, UpTo
  <2> QED
    BY <1>1, <1>5, <1>7, <1>8, <2>1
<1> QED
  BY <1>5, <1>9

\* Of a greater member more are not greater.
LEMMA CountGrows ==
  ASSUME NEW S \in SUBSET Int, IsFiniteSet(S), NEW a \in S, NEW b \in S, a < b
  PROVE  /\ Cardinality({m \in S : m <= a}) \in Nat
         /\ Cardinality({m \in S : m <= b}) \in Nat
         /\ Cardinality({m \in S : m <= a}) < Cardinality({m \in S : m <= b})
<1> DEFINE A == {m \in S : m <= a}
           B == {m \in S : m <= b}
<1>1. B \subseteq S /\ A \subseteq B \ {b} /\ b \in B
  <2>1. a \in Int /\ b \in Int
    OBVIOUS
  <2>2. ASSUME NEW m \in S, m <= a PROVE m <= b /\ m # b
    <3>1. m \in Int
      OBVIOUS
    <3>. QED
      BY <2>1, <2>2, <3>1
  <2>3. A \subseteq B \ {b}
    BY <2>2
  <2>4. B \subseteq S /\ b \in B
    BY <2>1
  <2>. QED
    BY <2>3, <2>4
<1>. HIDE DEF A, B
<1>2. IsFiniteSet(B)
  BY <1>1, FS_Subset
<1>3. IsFiniteSet(B \ {b}) /\ Cardinality(B \ {b}) = Cardinality(B) - 1
  BY <1>1, <1>2, FS_RemoveElement
<1>4. IsFiniteSet(A) /\ Cardinality(A) <= Cardinality(B \ {b})
  BY <1>1, <1>3, FS_Subset
<1>5. Cardinality(A) \in Nat /\ Cardinality(B) \in Nat
  BY <1>2, <1>4, FS_CardinalityType
<1>6. Cardinality(A) < Cardinality(B)
  BY <1>3, <1>4, <1>5
<1>. QED
  BY <1>5, <1>6 DEF A, B

-----------------------------------------------------------------------------
(* Engines                                                                 *)

Indexes == UNION {[T -> Key] : T \in SUBSET Key}
Descriptor == [name : Time, index : Indexes]
Files == [Time -> Table \cup {None, Torn}]
EngineType == [mem : Table, imm : Table \cup {None}, sst : Seq(Descriptor),
               files : Files, now : 0..MaxTime]

\* The readings of LSMTree, of an engine.
IndexIn(e, s) ==
  IF s.index = NoIndex /\ e.files[s.name] \notin {None, Torn}
  THEN load_index(e.files[s.name]) ELSE s.index
ReadAt(file, index, it, k) ==
  LET same == {j \in Entries(file) : to_string(j) = to_string(k)}
  IN  IF file \in {None, Torn} \/ it \notin DOMAIN index THEN Absent
      ELSE IF index[it] # k \/ same = {} THEN Absent
      ELSE file[IF it \in same THEN it ELSE CHOOSE j \in same : TRUE]
ReadIn(e, s, k) ==
  ReadAt(e.files[s.name], IndexIn(e, s), lower_bound(IndexIn(e, s), k), k)
HitsIn(e, k) == {i \in DOMAIN e.sst : ReadIn(e, e.sst[i], k) \in Value}

TablesGet(e, k) ==
  IF HitsIn(e, k) = {} THEN Absent
  ELSE ReadIn(e, e.sst[CHOOSE i \in HitsIn(e, k) : \A j \in HitsIn(e, k) : j <= i], k)

GetIn(e, k) ==
  IF Found(e.mem, k) THEN e.mem[k]
  ELSE IF e.imm # None /\ Found(e.imm, k) THEN e.imm[k]
  ELSE TablesGet(e, k)

\* Every value lies under the key it was put under.
Keyed(table) == \A k \in Key : table[k] \in Value => table[k][1] = k
KeyedFiles(fs) == \A n \in Time : fs[n] \notin {None, Torn} => Keyed(fs[n])
KeyedEngine(e) ==
  /\ Keyed(e.mem)
  /\ e.imm # None => Keyed(e.imm)
  /\ KeyedFiles(e.files)

\* The clock moves forward from one file name to the next.
Forward == \A d \in NameStep : d > 0

\* No table and no file has a name that is still to come.
NoneAfter(t, fs) == \A n \in Time : n > t => fs[n] = None
FreshEngine(e) ==
  /\ \A i \in DOMAIN e.sst : e.sst[i].name <= e.now
  /\ NoneAfter(e.now, e.files)

-----------------------------------------------------------------------------
(* Engines                                                                 *)

LEMMA EmptyTable ==
  /\ Empty \in Table /\ Keyed(Empty) /\ Entries(Empty) = {}
  /\ \A k \in Key : ~ Found(Empty, k)
BY MarkAssumption DEF Empty, Table, Keyed, Entries, Found

\* A key is read back as the key that its string is split into.
LEMMA RereadKey ==
  ASSUME NEW k \in Key
  PROVE  /\ Reread[k] \in Key
         /\ primary_key[Reread[k]] = <<Head(to_string(k))>>
         /\ secondary_key[Reread[k]] = Tail(to_string(k))
<1> DEFINE P(j) == /\ primary_key[j] = <<Head(to_string(k))>>
                   /\ secondary_key[j] = Tail(to_string(k))
<1>1. \E j \in Key : P(j)
  BY KeyAssumption
<1>2. Reread[k] = CHOOSE j \in Key : P(j)
  BY DEF Reread, from_string
<1>. HIDE DEF P
<1>3. Reread[k] \in Key /\ P(Reread[k])
  BY <1>1, <1>2
<1>. QED
  BY <1>3 DEF P

\* Splitting at the first colon undoes joining when the primary key has none.
LEMMA PlainReread ==
  ASSUME NEW k \in Key, Plain(k)
  PROVE  Reread[k] = k
<1> DEFINE p == primary_key[k]
           t == secondary_key[k]
           j == Reread[k]
<1>1. p \in Seq(Part) /\ t \in Seq(Part) /\ Len(p) = 1
  BY KeyAssumption DEF Plain, Text
<1>2. /\ j \in Key /\ primary_key[j] = <<Head(p \o t)>>
      /\ secondary_key[j] = Tail(p \o t)
  BY RereadKey DEF to_string
<1>3. primary_key[j] \in Seq(Part) /\ secondary_key[j] \in Seq(Part)
  BY <1>2, KeyAssumption DEF Text
<1>. HIDE DEF p, t, j
<1>4. /\ p \o t \in Seq(Part) /\ Len(p \o t) = 1 + Len(t) /\ Len(t) \in Nat
      /\ \A i \in 1..(1 + Len(t)) : (p \o t)[i] = IF i <= 1 THEN p[i] ELSE t[i - 1]
  <2>1. Len(t) \in Nat
    BY <1>1, LenProperties
  <2>2. /\ p \o t \in Seq(Part) /\ Len(p \o t) = Len(p) + Len(t)
        /\ \A i \in 1..(Len(p) + Len(t)) :
             (p \o t)[i] = IF i <= Len(p) THEN p[i] ELSE t[i - Len(p)]
    BY <1>1, ConcatProperties
  <2>. QED
    BY <1>1, <2>1, <2>2
<1>5. p \o t # <<>> /\ Head(p \o t) = p[1]
  BY <1>4
<1>6. primary_key[j] = p
  <2>1. Len(<<Head(p \o t)>>) = 1 /\ <<Head(p \o t)>>[1] = p[1]
    BY <1>5
  <2>2. Len(primary_key[j]) = Len(p) /\ \A i \in 1..Len(p) : primary_key[j][i] = p[i]
    BY <1>1, <1>2, <2>1
  <2>. QED
    BY <1>1, <1>3, <2>2, SeqEqual
<1>7. secondary_key[j] = t
  <2>1. /\ Len(Tail(p \o t)) = Len(p \o t) - 1
        /\ \A i \in 1..Len(Tail(p \o t)) : Tail(p \o t)[i] = (p \o t)[i + 1]
    BY <1>4, <1>5, HeadTailProperties
  <2>2. Len(Tail(p \o t)) = Len(t) /\ \A i \in 1..Len(t) : Tail(p \o t)[i] = t[i]
    BY <1>4, <2>1
  <2>. QED
    BY <1>1, <1>2, <1>3, <2>2, SeqEqual
<1>. QED
  BY <1>2, <1>6, <1>7, KeyAssumption DEF p, t, j

LEMMA IndexTypes ==
  /\ NoIndex \in Indexes
  /\ \A table : written_index(table) \in Indexes /\ load_index(table) \in Indexes
<1>1. \A table : Entries(table) \in SUBSET Key
  BY DEF Entries
<1>2. NoIndex \in [{} -> Key]
  BY DEF NoIndex
<1>3. \A table : written_index(table) \in [Entries(table) -> Key]
  BY <1>1 DEF written_index
<1>4. \A table : load_index(table) \in [Entries(table) -> Key]
  BY <1>1, RereadKey DEF load_index
<1>. QED
  BY <1>1, <1>2, <1>3, <1>4 DEF Indexes

\* A table that has been written: its descriptor is the last, its file has its
\* entries.
LEMMA Written ==
  ASSUME NEW e \in EngineType, NEW table \in Table, NEW w \in WriteTable(e, table)
  PROVE  \E n \in generate_sstable_filename(e.now) :
           w = [mem |-> e.mem, imm |-> e.imm,
                sst |-> Append(e.sst, [name |-> n, index |-> written_index(table)]),
                files |-> [e.files EXCEPT ![n] = table], now |-> n]
<1>1. PICK n \in generate_sstable_filename(e.now) :
        w = [e EXCEPT !.sst = Append(@, [name |-> n, index |-> written_index(table)]),
                      !.files[n] = table,
                      !.now = n]
  BY DEF WriteTable
<1>. QED
  BY <1>1 DEF EngineType

LEMMA WriteTyped ==
  ASSUME NEW e \in EngineType, NEW table \in Table, NEW w \in WriteTable(e, table)
  PROVE  w \in EngineType /\ w.mem = e.mem /\ w.imm = e.imm
<1>1. PICK n \in generate_sstable_filename(e.now) :
           w = [mem |-> e.mem, imm |-> e.imm,
                sst |-> Append(e.sst, [name |-> n, index |-> written_index(table)]),
                files |-> [e.files EXCEPT ![n] = table], now |-> n]
  BY Written
<1>2. n \in Time /\ n \in 0..MaxTime
  BY TimeAssumption DEF generate_sstable_filename, Time
<1>3. Append(e.sst, [name |-> n, index |-> written_index(table)]) \in Seq(Descriptor)
  <2>1. [name |-> n, index |-> written_index(table)] \in Descriptor
    BY <1>2, IndexTypes DEF Descriptor
  <2>2. e.sst \in Seq(Descriptor)
    BY DEF EngineType
  <2>. QED
    BY <2>1, <2>2
<1>4. [e.files EXCEPT ![n] = table] \in Files
  BY <1>2 DEF EngineType, Files
<1>. QED
  BY <1>1, <1>2, <1>3, <1>4 DEF EngineType

LEMMA WriteKeyed ==
  ASSUME NEW e \in EngineType, NEW table \in Table, NEW w \in WriteTable(e, table),
         KeyedEngine(e), Keyed(table)
  PROVE  KeyedEngine(w)
<1>1. PICK n \in generate_sstable_filename(e.now) :
           w = [mem |-> e.mem, imm |-> e.imm,
                sst |-> Append(e.sst, [name |-> n, index |-> written_index(table)]),
                files |-> [e.files EXCEPT ![n] = table], now |-> n]
  BY Written
<1>2. e.files \in [Time -> Table \cup {None, Torn}]
  BY DEF EngineType, Files
<1>3. KeyedFiles(w.files)
  <2>. SUFFICES ASSUME NEW m \in Time, w.files[m] \notin {None, Torn}
                PROVE  Keyed(w.files[m])
    BY DEF KeyedFiles
  <2>1. w.files[m] = table \/ w.files[m] = e.files[m]
    BY <1>1, <1>2
  <2>. QED
    BY <2>1 DEF KeyedEngine, KeyedFiles
<1>. QED
  BY <1>1, <1>3 DEF KeyedEngine

LEMMA WriteFresh ==
  ASSUME NEW e \in EngineType, NEW table \in Table, NEW w \in WriteTable(e, table),
         Forward, FreshEngine(e)
  PROVE  FreshEngine(w) /\ w.now > e.now
<1>1. PICK n \in generate_sstable_filename(e.now) :
           w = [mem |-> e.mem, imm |-> e.imm,
                sst |-> Append(e.sst, [name |-> n, index |-> written_index(table)]),
                files |-> [e.files EXCEPT ![n] = table], now |-> n]
  BY Written
<1>2. n \in Time /\ n \in Int /\ e.now \in Int /\ n > e.now
  BY TimeAssumption DEF generate_sstable_filename, Time, Forward, EngineType
<1>3. /\ e.files \in [Time -> Table \cup {None, Torn}]
      /\ e.sst \in Seq(Descriptor) /\ \A i \in DOMAIN e.sst : e.sst[i].name \in Int
  <2>1. e.files \in Files /\ e.sst \in Seq(Descriptor)
    BY DEF EngineType
  <2>2. \A i \in DOMAIN e.sst : e.sst[i] \in Descriptor
    BY <2>1
  <2>. QED
    BY <2>1, <2>2 DEF Files, Descriptor, Time
<1>4. \A i \in DOMAIN w.sst : w.sst[i].name <= w.now
  <2>. SUFFICES ASSUME NEW i \in DOMAIN w.sst PROVE w.sst[i].name <= n
    BY <1>1
  <2>1. w.sst[i] = [name |-> n, index |-> written_index(table)]
          \/ (i \in DOMAIN e.sst /\ w.sst[i] = e.sst[i])
    BY <1>1, <1>3
  <2>2. CASE w.sst[i] = [name |-> n, index |-> written_index(table)]
    BY <1>2, <2>2
  <2>3. CASE i \in DOMAIN e.sst /\ w.sst[i] = e.sst[i]
    BY <1>2, <1>3, <2>3 DEF FreshEngine
  <2>. QED
    BY <2>1, <2>2, <2>3
<1>5. NoneAfter(w.now, w.files)
  <2>. SUFFICES ASSUME NEW m \in Time, m > n PROVE [e.files EXCEPT ![n] = table][m] = None
    BY <1>1 DEF NoneAfter
  <2>1. m \in Int /\ m # n /\ m > e.now
    BY <1>2 DEF Time
  <2>. QED
    BY <1>3, <2>1 DEF FreshEngine, NoneAfter
<1>. QED
  BY <1>1, <1>2, <1>4, <1>5 DEF FreshEngine

\* The memtable becomes the immutable one, which is then dropped.
Moved(e) == [e EXCEPT !.imm = e.mem, !.mem = Empty]
Dropped(e) == [e EXCEPT !.imm = None]

LEMMA MovedEngine ==
  ASSUME NEW e \in EngineType
  PROVE  /\ Moved(e) \in EngineType
         /\ Moved(e).mem = Empty /\ Moved(e).imm = e.mem
         /\ Moved(e).sst = e.sst /\ Moved(e).files = e.files /\ Moved(e).now = e.now
BY EmptyTable DEF EngineType, Moved

LEMMA DroppedEngine ==
  ASSUME NEW e \in EngineType
  PROVE  /\ Dropped(e) \in EngineType
         /\ Dropped(e).mem = e.mem /\ Dropped(e).imm = None
         /\ Dropped(e).sst = e.sst /\ Dropped(e).files = e.files
         /\ Dropped(e).now = e.now
BY DEF EngineType, Dropped

\* How far a flush may get: nowhere, to the second file, or to its end.
LEMMA Flushed ==
  ASSUME NEW e \in EngineType, NEW f \in flush_memtable(e)
  PROVE  \/ f = e
         \/ \E first \in IF e.imm = None THEN {e} ELSE WriteTable(e, e.imm) :
              \/ f = Moved(first)
              \/ \E w \in WriteTable(Moved(first), Moved(first).imm) : f = Dropped(w)
<1> DEFINE First == IF e.imm = None THEN {e} ELSE WriteTable(e, e.imm)
           Second == {Moved(first) : first \in First}
           Done == UNION {{Dropped(w) : w \in WriteTable(m, m.imm)} : m \in Second}
<1>1. CASE Entries(e.mem) = {}
  BY <1>1 DEF flush_memtable
<1>2. CASE Entries(e.mem) # {}
  <2>1. f \in (IF e.imm = None THEN {} ELSE {e}) \cup Second \cup Done
    BY <1>2 DEF flush_memtable, Moved, Dropped
  <2>2. CASE f \in IF e.imm = None THEN {} ELSE {e}
    BY <2>2
  <2>3. CASE f \in Second
    BY <2>3
  <2>4. CASE f \in Done
    <3>1. PICK first \in First : f \in {Dropped(w) : w \in WriteTable(Moved(first), Moved(first).imm)}
      <4>. HIDE DEF First
      <4>. QED
        BY <2>4
    <3>. QED
      BY <3>1
  <2>. QED
    BY <2>1, <2>2, <2>3, <2>4
<1>. QED
  BY <1>1, <1>2

\* What every write of a table, move and drop keeps, a flush keeps.
LEMMA FlushTyped ==
  ASSUME NEW e \in EngineType, NEW f \in flush_memtable(e)
  PROVE  f \in EngineType
<1>1. CASE f = e
  BY <1>1
<1>2. ASSUME NEW first \in IF e.imm = None THEN {e} ELSE WriteTable(e, e.imm),
             f = Moved(first) \/ \E w \in WriteTable(Moved(first), Moved(first).imm) :
                                   f = Dropped(w)
      PROVE  f \in EngineType
  <2>1. first \in EngineType
    BY <1>2, WriteTyped DEF EngineType
  <2>2. Moved(first) \in EngineType /\ Moved(first).imm \in Table
    BY <2>1, MovedEngine DEF EngineType
  <2>. QED
    BY <1>2, <2>2, WriteTyped, DroppedEngine
<1>. QED
  BY <1>1, <1>2, Flushed

LEMMA FlushKeyed ==
  ASSUME NEW e \in EngineType, NEW f \in flush_memtable(e), KeyedEngine(e)
  PROVE  KeyedEngine(f)
<1>1. CASE f = e
  BY <1>1
<1>2. ASSUME NEW first \in IF e.imm = None THEN {e} ELSE WriteTable(e, e.imm),
             f = Moved(first) \/ \E w \in WriteTable(Moved(first), Moved(first).imm) :
                                   f = Dropped(w)
      PROVE  KeyedEngine(f)
  <2>1. first \in EngineType /\ KeyedEngine(first)
    <3>1. CASE e.imm = None
      BY <1>2, <3>1
    <3>2. CASE e.imm # None
      <4>1. e.imm \in Table /\ Keyed(e.imm) /\ first \in WriteTable(e, e.imm)
        BY <1>2, <3>2 DEF EngineType, KeyedEngine
      <4>. QED
        BY <4>1, WriteTyped, WriteKeyed
    <3>. QED
      BY <3>1, <3>2
  <2> DEFINE m == Moved(first)
  <2>2. m \in EngineType /\ m.imm \in Table /\ Keyed(m.imm) /\ KeyedEngine(m)
    BY <2>1, MovedEngine, EmptyTable DEF EngineType, KeyedEngine
  <2>3. ASSUME NEW w \in WriteTable(m, m.imm) PROVE KeyedEngine(Dropped(w))
    <3>. HIDE DEF m
    <3>1. w \in EngineType /\ KeyedEngine(w)
      BY <2>2, WriteTyped, WriteKeyed
    <3>. QED
      BY <3>1, DroppedEngine DEF KeyedEngine
  <2>. QED
    BY <1>2, <2>2, <2>3
<1>. QED
  BY <1>1, <1>2, Flushed

LEMMA FlushFresh ==
  ASSUME NEW e \in EngineType, NEW f \in flush_memtable(e), Forward, FreshEngine(e)
  PROVE  FreshEngine(f) /\ f.now >= e.now
<1>0. e.now \in Int
  BY DEF EngineType
<1>1. CASE f = e
  BY <1>0, <1>1
<1>2. ASSUME NEW first \in IF e.imm = None THEN {e} ELSE WriteTable(e, e.imm),
             f = Moved(first) \/ \E w \in WriteTable(Moved(first), Moved(first).imm) :
                                   f = Dropped(w)
      PROVE  FreshEngine(f) /\ f.now >= e.now
  <2>1. first \in EngineType /\ FreshEngine(first) /\ first.now >= e.now
    <3>1. CASE e.imm = None
      BY <1>0, <1>2, <3>1
    <3>2. CASE e.imm # None
      <4>1. e.imm \in Table /\ first \in WriteTable(e, e.imm)
        BY <1>2, <3>2 DEF EngineType
      <4>. QED
        BY <1>0, <4>1, WriteTyped, WriteFresh DEF EngineType
    <3>. QED
      BY <3>1, <3>2
  <2> DEFINE m == Moved(first)
  <2>2. m \in EngineType /\ m.imm \in Table /\ FreshEngine(m) /\ m.now >= e.now
    BY <2>1, MovedEngine DEF EngineType, FreshEngine
  <2>3. ASSUME NEW w \in WriteTable(m, m.imm) 
        PROVE  FreshEngine(Dropped(w)) /\ Dropped(w).now >= e.now
    <3>. HIDE DEF m
    <3>1. w \in EngineType /\ FreshEngine(w) /\ w.now >= e.now
      BY <1>0, <2>2, WriteTyped, WriteFresh DEF EngineType
    <3>. QED
      BY <3>1, DroppedEngine DEF FreshEngine
  <2>. QED
    BY <1>2, <2>2, <2>3
<1>. QED
  BY <1>1, <1>2, Flushed

\* compact_sstables leaves the tables from the third on.
LEMMA Compacted ==
  ASSUME NEW e \in EngineType, Len(e.sst) >= 2
  PROVE  /\ compact_sstables(e) \in EngineType
         /\ compact_sstables(e).mem = e.mem /\ compact_sstables(e).imm = e.imm
         /\ compact_sstables(e).files = e.files /\ compact_sstables(e).now = e.now
         /\ Len(compact_sstables(e).sst) = Len(e.sst) - 2
         /\ \A i \in 1..(Len(e.sst) - 2) : compact_sstables(e).sst[i] = e.sst[i + 2]
<1> DEFINE c == compact_sstables(e)
           s == e.sst
           r == SubSeq(s, 3, Len(s))
<1>1. s \in Seq(Descriptor) /\ Len(s) \in Nat
  BY DEF EngineType
<1>2. ~ (Len(e.sst) < 2)
  BY <1>1
<1>3. c = [e EXCEPT !.sst = r]
  BY <1>2 DEF compact_sstables
<1>4. /\ r \in Seq(Descriptor) /\ Len(r) = Len(s) - 2
      /\ \A i \in 1..(Len(s) - 2) : r[i] = s[i + 2]
  <2>. HIDE DEF s
  <2>1. /\ Len(r) = IF 3 <= Len(s) THEN Len(s) - 3 + 1 ELSE 0
        /\ \A i \in 1..(Len(s) - 3 + 1) : r[i] = s[3 + i - 1]
    BY <1>1, SubSeqProperties
  <2>2. r \in Seq(Descriptor)
    BY <1>1, SubSeqProperties
  <2>. QED
    BY <1>1, <1>2, <2>1, <2>2 DEF s
<1>. HIDE DEF r, c
<1>. QED
  BY <1>3, <1>4 DEF EngineType, c

\* What is known of an engine at any time.
EngineOK(e) ==
  /\ e \in EngineType
  /\ KeyedEngine(e)
  /\ Forward => FreshEngine(e)

LEMMA FlushOK ==
  ASSUME NEW e, EngineOK(e), NEW f \in flush_memtable(e)
  PROVE  EngineOK(f) /\ (Forward => f.now >= e.now)
BY FlushTyped, FlushKeyed, FlushFresh DEF EngineOK

LEMMA CompactOK ==
  ASSUME NEW e, EngineOK(e)
  PROVE  EngineOK(compact_sstables(e)) /\ (Forward => compact_sstables(e).now >= e.now)
<1>0. e.now \in Int /\ e.sst \in Seq(Descriptor) /\ Len(e.sst) \in Nat
  BY DEF EngineOK, EngineType
<1>1. CASE Len(e.sst) < 2
  BY <1>0, <1>1 DEF compact_sstables
<1>2. CASE ~ (Len(e.sst) < 2)
  <2> DEFINE c == compact_sstables(e)
  <2>1. /\ c \in EngineType /\ c.mem = e.mem /\ c.imm = e.imm
        /\ c.files = e.files /\ c.now = e.now
        /\ Len(c.sst) = Len(e.sst) - 2
        /\ \A i \in 1..(Len(e.sst) - 2) : c.sst[i] = e.sst[i + 2]
    BY <1>0, <1>2, Compacted DEF EngineOK
  <2>. HIDE DEF c
  <2>2. KeyedEngine(c)
    BY <2>1 DEF EngineOK, KeyedEngine
  <2>3. ASSUME Forward PROVE FreshEngine(c)
    <3>1. c.sst \in Seq(Descriptor)
      BY <2>1 DEF EngineType
    <3>2. ASSUME NEW i \in DOMAIN c.sst PROVE c.sst[i].name <= e.now
      <4>1. i \in 1..(Len(e.sst) - 2) /\ i + 2 \in DOMAIN e.sst
        BY <1>0, <2>1, <3>1
      <4>. QED
        BY <2>1, <2>3, <4>1 DEF EngineOK, FreshEngine
    <3>. QED
      BY <2>1, <2>3, <3>2 DEF EngineOK, FreshEngine
  <2>4. c.now >= e.now
    BY <1>0, <2>1
  <2>. QED
    BY <2>1, <2>2, <2>3, <2>4 DEF EngineOK, c
<1>. QED
  BY <1>1, <1>2

LEMMA RoundOK ==
  ASSUME NEW e, EngineOK(e), NEW f \in BackgroundRound(e)
  PROVE  EngineOK(f) /\ (Forward => f.now >= e.now)
<1>1. PICK g \in (IF should_flush(e.mem) THEN flush_memtable(e) ELSE {e}) :
        f = IF need_compaction(g) THEN compact_sstables(g) ELSE g
  BY DEF BackgroundRound
<1>2. EngineOK(g) /\ (Forward => g.now >= e.now) /\ e.now \in Int
  BY FlushOK DEF EngineOK, EngineType
<1>3. EngineOK(f) /\ (Forward => f.now >= g.now)
  BY <1>1, <1>2, CompactOK DEF EngineOK, EngineType
<1>. QED
  BY <1>2, <1>3 DEF EngineOK, EngineType

-----------------------------------------------------------------------------
(* The invariant                                                           *)

BackupOK == KeyedFiles(backup) /\ (Forward => NoneAfter(now, backup))

\* The log stays empty: its stream is never good.
NoLog == wal = <<>> /\ wal_good = FALSE

LSMInv == TypeOK /\ EngineOK(Engine) /\ BackupOK /\ NoLog

LEMMA EngineFields ==
  /\ Engine.mem = memtable /\ Engine.imm = immutable /\ Engine.sst = sstables
  /\ Engine.files = files /\ Engine.now = now
BY DEF Engine

LEMMA EngineTyped ==
  Engine \in EngineType <=> /\ memtable \in Table
                            /\ immutable \in Table \cup {None}
                            /\ sstables \in Seq(Descriptor)
                            /\ files \in [Time -> Table \cup {None, Torn}]
                            /\ now \in 0..MaxTime
BY DEF Engine, EngineType, Files

\* The threads and the flags.
LifeOK ==
  /\ wal_good \in BOOLEAN /\ is_open \in BOOLEAN /\ stop_background \in BOOLEAN
  /\ background \in {"none", "loop", "locking"}
  /\ closing \in [Closer -> {"no", "join", "joined"}]

LEMMA TypeParts ==
  TypeOK <=> /\ Engine \in EngineType
             /\ backup \in Files
             /\ wal \in Seq([key : Key, data : Value \cup {Tombstone}])
             /\ LifeOK
BY EngineTyped DEF TypeOK, LifeOK, Files, Descriptor, Indexes

LEMMA EngineNext ==
  ASSUME NEW e \in EngineType, EngineBecomes(e)
  PROVE  Engine' = e
BY DEF Engine, EngineBecomes, EngineType

LEMMA LSMInit == Init => LSMInv
<1>. SUFFICES ASSUME Init PROVE LSMInv
  OBVIOUS
<1>1. TypeOK
  <2>1. LifeOK
    BY Zenon DEF Init, LifeOK
  <2>2. Engine \in EngineType
    BY EmptyTable, EngineTyped, TimeAssumption DEF Init
  <2>3. backup \in Files /\ wal \in Seq([key : Key, data : Value \cup {Tombstone}])
    BY DEF Init, Files
  <2>. QED
    BY <2>1, <2>2, <2>3, TypeParts
<1>2. EngineOK(Engine)
  <2>1. Engine \in EngineType
    BY <1>1, TypeParts
  <2>2. KeyedEngine(Engine)
    BY EmptyTable DEF Init, Engine, KeyedEngine, KeyedFiles
  <2>3. FreshEngine(Engine)
    BY DEF Init, Engine, FreshEngine, NoneAfter
  <2>. QED
    BY <2>1, <2>2, <2>3 DEF EngineOK
<1>3. BackupOK /\ NoLog
  BY DEF Init, BackupOK, KeyedFiles, NoneAfter, NoLog
<1>. QED
  BY <1>1, <1>2, <1>3 DEF LSMInv

LEMMA LifeStep == LifeOK /\ [Next]_vars => LifeOK'
<1>. SUFFICES ASSUME LifeOK, [Next]_vars PROVE LifeOK'
  OBVIOUS
<1>1. CASE (\E k \in Stored, n \in Stamp : Put(k, n)) \/ \E k \in Removed : Remove(k)
  BY <1>1 DEF Remove, Put, lifeVars, LifeOK
<1>2. CASE Flush \/ Compact \/ Backup \/ Restore
  BY <1>2 DEF Flush, Compact, Backup, Restore, logVars, lifeVars, LifeOK
<1>3. CASE Open
  <2>1. is_open' = TRUE /\ stop_background' = FALSE /\ wal_good' = FALSE
        /\ background' = "loop" /\ closing' = closing
    BY <1>3 DEF Open, replay_from
  <2>. QED
    BY <2>1, Zenon DEF LifeOK
<1>4. CASE MemoryLost
  BY <1>4, Zenon DEF MemoryLost, LifeOK
<1>5. ASSUME NEW c \in Closer,
             CloseBegin(c) \/ CloseJoin(c) \/ CloseError(c) \/ CloseEnd(c)
      PROVE  LifeOK'
  <2>1. /\ wal_good' = wal_good /\ background' = background
        /\ \E p \in {"no", "join", "joined"} : closing' = [closing EXCEPT ![c] = p]
    BY <1>5 DEF CloseBegin, CloseJoin, CloseError, CloseEnd, logVars
  <2>2. is_open' \in {is_open, FALSE} /\ stop_background' \in {stop_background, TRUE}
    BY <1>5 DEF CloseBegin, CloseJoin, CloseError, CloseEnd
  <2>3. is_open' \in BOOLEAN /\ stop_background' \in BOOLEAN
    BY <2>2, Zenon DEF LifeOK
  <2>. QED
    BY <2>1, <2>3 DEF LifeOK
<1>6. CASE BackgroundWait \/ BackgroundWork
  BY <1>6 DEF BackgroundWait, BackgroundWork, logVars, LifeOK
<1>7. CASE UNCHANGED vars
  BY <1>7 DEF vars, logVars, lifeVars, LifeOK
<1>. QED
  BY <1>1, <1>2, <1>3, <1>4, <1>5, <1>6, <1>7 DEF Next, Exit, Crash

LEMMA LogStep == NoLog /\ [Next]_vars => NoLog'
<1>. SUFFICES ASSUME NoLog, [Next]_vars PROVE NoLog'
  OBVIOUS
<1>1. CASE (\E k \in Stored, n \in Stamp : Put(k, n)) \/ \E k \in Removed : Remove(k)
  BY <1>1 DEF Remove, Put, WalAppend, NoLog
<1>2. CASE Flush \/ Compact \/ Backup \/ Restore \/ Open
  BY <1>2 DEF Flush, Compact, Backup, Restore, Open, replay_from, logVars, NoLog
<1>3. CASE MemoryLost
  BY <1>3 DEF MemoryLost, NoLog
<1>4. CASE \E c \in Closer : CloseBegin(c) \/ CloseJoin(c) \/ CloseError(c) \/ CloseEnd(c)
  BY <1>4 DEF CloseBegin, CloseJoin, CloseError, CloseEnd, logVars, NoLog
<1>5. CASE BackgroundWait \/ BackgroundWork \/ UNCHANGED vars
  BY <1>5 DEF BackgroundWait, BackgroundWork, vars, logVars, NoLog
<1>. QED
  BY <1>1, <1>2, <1>3, <1>4, <1>5 DEF Next, Exit, Crash

\* Reopening: the log has nothing to replay, and every table found has a file.
LEMMA RecoverNothing ==
  ASSUME NoLog, memtable \in Table
  PROVE  recover_from_wal(memtable) = memtable
<1>1. \A k \in Key : {i \in DOMAIN replay_from.records :
                         replay_from.records[i].key = k} = {}
  BY DEF NoLog, replay_from
<1>2. recover_from_wal(memtable) = [k \in Key |-> memtable[k]]
  BY <1>1 DEF recover_from_wal
<1>. QED
  BY <1>2 DEF Table

\* The names that load_sstables loads, and the tables in their order.
Loaded(torn) == {n \in Time : files[n] \notin {None, Torn}} \cup torn

LEMMA LoadedTables ==
  ASSUME NEW torn \in SUBSET {n \in Time : files[n] = Torn}
  PROVE  /\ load_sstables(torn) \in Seq(Descriptor)
         /\ Len(load_sstables(torn)) = Cardinality(Loaded(torn))
         /\ \A i \in 1..Cardinality(Loaded(torn)) :
              /\ load_sstables(torn)[i].name \in Loaded(torn)
              /\ load_sstables(torn)[i].name \in torn => load_sstables(torn)[i].index = NoIndex
              /\ load_sstables(torn)[i].name \notin torn =>
                   load_sstables(torn)[i].index = load_index(files[load_sstables(torn)[i].name])
              /\ Cardinality({m \in Loaded(torn) : m <= load_sstables(torn)[i].name}) = i
<1> DEFINE N == Loaded(torn)
           P(i, n) == Cardinality({m \in N : m <= n}) = i
           nth == [i \in 1..Cardinality(N) |-> CHOOSE n \in N : P(i, n)]
           L == load_sstables(torn)
<1>1. N \subseteq Time /\ N \in SUBSET Int /\ IsFiniteSet(N) /\ Cardinality(N) \in Nat
  <2>1. N \subseteq Time
    BY DEF Loaded
  <2>2. IsFiniteSet(Time)
    BY TimeAssumption, FS_Interval DEF Time
  <2>3. IsFiniteSet(N)
    BY <2>1, <2>2, FS_Subset
  <2>. QED
    BY <2>1, <2>3, FS_CardinalityType DEF Time
<1>2. \A i \in 1..Cardinality(N) : nth[i] \in N /\ P(i, nth[i])
  <2>. SUFFICES ASSUME NEW i \in 1..Cardinality(N)
                PROVE  nth[i] \in N /\ P(i, nth[i])
    OBVIOUS
  <2>1. \E n \in N : P(i, n)
    <3>. HIDE DEF N
    <3>. QED
      BY <1>1, NthMember
  <2>. HIDE DEF N, P
  <2>. QED
    BY <2>1
<1>3. L = [i \in DOMAIN nth |->
             [name |-> nth[i],
              index |-> IF nth[i] \in torn THEN NoIndex ELSE load_index(files[nth[i]])]]
  BY DEF load_sstables, Loaded
<1>4. \A i \in 1..Cardinality(N) :
        /\ L[i] \in Descriptor /\ L[i].name = nth[i]
        /\ L[i].name \in torn => L[i].index = NoIndex
        /\ L[i].name \notin torn => L[i].index = load_index(files[L[i].name])
  <2>. HIDE DEF L, nth, N
  <2>1. DOMAIN nth = 1..Cardinality(N)
    BY DEF nth
  <2>. QED
    BY <1>1, <1>2, <1>3, <2>1, IndexTypes DEF Descriptor
<1>5. L \in Seq(Descriptor) /\ Len(L) = Cardinality(N)
  <2>1. DOMAIN L = 1..Cardinality(N) /\ L = [i \in 1..Cardinality(N) |-> L[i]]
    BY <1>3
  <2>. HIDE DEF L, N
  <2>2. L \in [1..Cardinality(N) -> Descriptor]
    BY <1>4, <2>1
  <2>3. L \in Seq(Descriptor)
    BY <1>1, <2>2, SeqDef
  <2>. QED
    BY <1>1, <2>1, <2>3
<1>. QED
  BY <1>2, <1>4, <1>5

\* Every file that is loaded has its table, and the tables are in the order of
\* the names.
LEMMA LoadedInOrder ==
  ASSUME NEW torn \in SUBSET {n \in Time : files[n] = Torn}
  PROVE  /\ \A n \in Loaded(torn) :
              \E i \in 1..Cardinality(Loaded(torn)) : load_sstables(torn)[i].name = n
         /\ \A i, j \in 1..Cardinality(Loaded(torn)) :
              load_sstables(torn)[i].name < load_sstables(torn)[j].name => i < j
<1> DEFINE N == Loaded(torn)
           L == load_sstables(torn)
           UpTo(n) == {m \in N : m <= n}
<1>1. N \in SUBSET Int /\ IsFiniteSet(N) /\ Cardinality(N) \in Nat
  <2>1. N \subseteq Time
    BY DEF Loaded
  <2>2. IsFiniteSet(Time)
    BY TimeAssumption, FS_Interval DEF Time
  <2>3. IsFiniteSet(N)
    BY <2>1, <2>2, FS_Subset
  <2>. QED
    BY <2>1, <2>3, FS_CardinalityType DEF Time
<1>2. \A i \in 1..Cardinality(N) : L[i].name \in N /\ Cardinality(UpTo(L[i].name)) = i
  BY LoadedTables
<1>3. \A a, b \in N : a < b => Cardinality(UpTo(a)) < Cardinality(UpTo(b))
  <2>. HIDE DEF N
  <2>. QED
    BY <1>1, CountGrows
<1>4. ASSUME NEW n \in N PROVE Cardinality(UpTo(n)) \in 1..Cardinality(N)
  <2>1. UpTo(n) \subseteq N /\ n \in UpTo(n)
    BY <1>1
  <2>. HIDE DEF N, UpTo
  <2>2. IsFiniteSet(UpTo(n)) /\ Cardinality(UpTo(n)) <= Cardinality(N)
    BY <1>1, <2>1, FS_Subset
  <2>3. Cardinality(UpTo(n)) \in Nat /\ Cardinality(UpTo(n)) # 0
    BY <2>1, <2>2, FS_CardinalityType, FS_EmptySet
  <2>. QED
    BY <1>1, <2>2, <2>3
<1>. HIDE DEF N, L, UpTo
<1>5. ASSUME NEW n \in N PROVE \E i \in 1..Cardinality(N) : L[i].name = n
  <2>. DEFINE i == Cardinality(UpTo(n))
  <2>1. i \in 1..Cardinality(N)
    BY <1>4
  <2>2. L[i].name \in N /\ Cardinality(UpTo(L[i].name)) = i
    BY <1>2, <2>1
  <2>3. ~ (L[i].name < n) /\ ~ (n < L[i].name)
    BY <1>3, <2>1, <2>2
  <2>. QED
    BY <1>1, <2>1, <2>2, <2>3
<1>6. ASSUME NEW i \in 1..Cardinality(N), NEW j \in 1..Cardinality(N),
             L[i].name < L[j].name
      PROVE  i < j
  BY <1>2, <1>3, <1>6
<1>. QED
  BY <1>5, <1>6 DEF N, L

\* Steps that change the engine by one of its operators.
LEMMA EngineBecomesOK ==
  ASSUME LSMInv, NEW e, EngineOK(e), Forward => e.now >= Engine.now, EngineBecomes(e)
  PROVE  EngineOK(Engine)' /\ (Forward => now' >= now)
<1>1. Engine' = e
  BY EngineNext DEF EngineOK
<1>. QED
  BY <1>1 DEF Engine, EngineOK, EngineType, EngineBecomes

LEMMA PutOK ==
  ASSUME LSMInv, NEW k \in Key, NEW data \in Value \cup {Tombstone},
         data \in Value => data[1] = k,
         memtable' = MemTablePut(memtable, k, data),
         UNCHANGED <<immutable, sstables, files, now>>
  PROVE  EngineOK(Engine)'
<1>1. EngineOK(Engine) /\ memtable \in Table
  BY DEF LSMInv, TypeOK
<1>2. memtable' = [memtable EXCEPT ![k] = data]
  BY DEF MemTablePut
<1>3. memtable' \in Table
  BY <1>1, <1>2 DEF Table
<1>4. Keyed(memtable')
  <2>1. Keyed(memtable)
    BY <1>1, EngineFields DEF EngineOK, KeyedEngine
  <2>. QED
    BY <1>1, <1>2, <2>1 DEF Keyed, Table
<1>. QED
  BY <1>1, <1>3, <1>4 DEF Engine, EngineOK, EngineType, KeyedEngine, FreshEngine

LEMMA OpenOK ==
  ASSUME LSMInv, Open
  PROVE  EngineOK(Engine)' /\ now' = now
<1>1. EngineOK(Engine) /\ memtable \in Table /\ NoLog /\ sstables \in Seq(Descriptor)
  BY DEF LSMInv, TypeOK, Descriptor, Indexes
<1>2. memtable' = memtable /\ UNCHANGED <<immutable, files, now>>
  BY <1>1, RecoverNothing DEF Open
<1>3. PICK torn \in SUBSET {n \in Time : files[n] = Torn} :
        sstables' = sstables \o load_sstables(torn)
  BY DEF Open
<1> DEFINE L == load_sstables(torn)
<1>4. /\ L \in Seq(Descriptor) /\ Len(L) = Cardinality(Loaded(torn))
      /\ \A i \in 1..Cardinality(Loaded(torn)) : L[i].name \in Loaded(torn)
  BY LoadedTables
<1>. HIDE DEF L
<1>5. sstables' \in Seq(Descriptor)
  BY <1>1, <1>3, <1>4 DEF L
<1>6. ASSUME Forward, NEW i \in DOMAIN sstables' PROVE sstables'[i].name <= now
  <2>0. FreshEngine(Engine)
    BY <1>1, <1>6 DEF EngineOK
  <2>1. (i \in DOMAIN sstables /\ sstables'[i] = sstables[i])
        \/ \E j \in DOMAIN L : sstables'[i] = L[j]
    BY <1>1, <1>3, <1>4, <1>6 DEF L
  <2>2. CASE i \in DOMAIN sstables /\ sstables'[i] = sstables[i]
    BY <2>0, <2>2 DEF FreshEngine, Engine
  <2>3. ASSUME NEW j \in DOMAIN L, sstables'[i] = L[j] PROVE sstables'[i].name <= now
    <3>1. L[j].name \in Loaded(torn)
      BY <1>4
    <3>2. L[j].name \in Time /\ files[L[j].name] # None
      BY <3>1, MarkAssumption DEF Loaded
    <3>3. ~ (L[j].name > now)
      BY <2>0, <3>2 DEF FreshEngine, NoneAfter, Engine
    <3>4. L[j].name \in Int /\ now \in Int
      BY <3>2 DEF Time, LSMInv, TypeOK
    <3>. QED
      BY <2>3, <3>3, <3>4
  <2>. QED
    BY <2>1, <2>2, <2>3
<1>7. Forward => FreshEngine(Engine)'
  BY <1>1, <1>2, <1>6 DEF Engine, EngineOK, FreshEngine
<1>8. (Engine \in EngineType)'
  BY <1>1, <1>2, <1>5 DEF Engine, EngineOK, EngineType
<1>9. KeyedEngine(Engine)'
  BY <1>1, <1>2 DEF Engine, EngineOK, KeyedEngine
<1>. QED
  BY <1>2, <1>7, <1>8, <1>9 DEF EngineOK

LEMMA LostOK ==
  ASSUME LSMInv, MemoryLost,
         \/ UNCHANGED <<files, now>>
         \/ \E n \in generate_sstable_filename(now) :
              files' = [files EXCEPT ![n] = Torn] /\ now' = n
  PROVE  EngineOK(Engine)' /\ (Forward => now' >= now)
<1>1. EngineOK(Engine) /\ files \in Files /\ now \in 0..MaxTime /\ now \in Int
  BY DEF LSMInv, TypeOK, Files
<1>2. memtable' = Empty /\ immutable' = None /\ sstables' = <<>>
  BY DEF MemoryLost
<1>3. \/ UNCHANGED <<files, now>>
      \/ \E n \in Time : /\ n \in 0..MaxTime /\ (Forward => n > now)
                         /\ files' = [files EXCEPT ![n] = Torn] /\ now' = n
  BY <1>1, TimeAssumption DEF generate_sstable_filename, Time, Forward
<1>4. /\ files' \in Files /\ now' \in 0..MaxTime /\ (Forward => now' >= now)
      /\ \A n \in Time : files'[n] = files[n] \/ files'[n] = Torn
      /\ \A n \in Time : Forward /\ n > now' => files'[n] = files[n]
  <2>1. CASE UNCHANGED <<files, now>>
    BY <1>1, <2>1
  <2>2. ASSUME NEW n \in Time, n \in 0..MaxTime, Forward => n > now,
               files' = [files EXCEPT ![n] = Torn], now' = n
        PROVE  <1>4!1 /\ <1>4!2 /\ <1>4!3
    BY <1>1, <2>2 DEF Files, Time
  <2>. QED
    BY <1>3, <2>1, <2>2
<1>5. (Engine \in EngineType)'
  BY <1>2, <1>4, EmptyTable DEF Engine, EngineType
<1>6. KeyedEngine(Engine)'
  <2>1. KeyedFiles(files)
    BY <1>1 DEF Engine, EngineOK, KeyedEngine
  <2>2. KeyedFiles(files')
    BY <1>4, <2>1 DEF KeyedFiles
  <2>. QED
    BY <1>2, <2>2, EmptyTable DEF Engine, KeyedEngine
<1>7. ASSUME Forward PROVE FreshEngine(Engine)'
  <2>1. NoneAfter(now, files)
    BY <1>1, <1>7 DEF Engine, EngineOK, FreshEngine
  <2>2. NoneAfter(now', files')
    BY <1>1, <1>4, <1>7, <2>1 DEF NoneAfter, Time
  <2>. QED
    BY <1>2, <2>2 DEF Engine, FreshEngine
<1>. QED
  BY <1>4, <1>5, <1>6, <1>7 DEF EngineOK

LEMMA EngineStep ==
  ASSUME LSMInv, [Next]_vars
  PROVE  EngineOK(Engine)' /\ (Forward => now' >= now)
<1>0. EngineOK(Engine) /\ BackupOK /\ backup \in Files /\ now \in Int
  BY DEF LSMInv, TypeOK, Files
<1>1. ASSUME NEW k \in Removed, Remove(k) PROVE EngineOK(Engine)' /\ now' = now
  BY <1>1, PutOK, MarkAssumption, StoredAssumption DEF Remove
<1>2. ASSUME NEW k \in Stored, NEW n \in Stamp, Put(k, n)
      PROVE  EngineOK(Engine)' /\ now' = now
  <2>1. k \in Key /\ <<k, n>> \in Value /\ <<k, n>>[1] = k
    BY StoredAssumption DEF Value
  <2>. QED
    BY <1>2, <2>1, PutOK DEF Put
<1>3. CASE Flush \/ \E c \in Closer : CloseEnd(c)
  <2>1. PICK e \in flush_memtable(Engine) : EngineBecomes(e)
    BY <1>3 DEF Flush, CloseEnd
  <2>. QED
    BY <1>0, <2>1, FlushOK, EngineBecomesOK
<1>4. CASE Compact
  <2>1. EngineBecomes(compact_sstables(Engine))
    BY <1>4 DEF Compact
  <2>. QED
    BY <1>0, <2>1, CompactOK, EngineBecomesOK
<1>5. CASE BackgroundWork
  <2>1. PICK e \in BackgroundRound(Engine) : EngineBecomes(e)
    BY <1>5 DEF BackgroundWork
  <2>. QED
    BY <1>0, <2>1, RoundOK, EngineBecomesOK
<1>6. CASE Restore
  <2>1. PICK names : files' = Copied(names, backup, [n \in Time |-> None])
    BY <1>6 DEF Restore
  <2>2. /\ UNCHANGED <<memtable, immutable, sstables, now>>
        /\ files' \in Files
        /\ \A n \in Time : files'[n] \in {None, backup[n]}
    BY <1>0, <1>6, <2>1 DEF Restore, Copied, Files
  <2>3. KeyedFiles(files') /\ (Forward => NoneAfter(now, files'))
    <3>1. ASSUME NEW n \in Time, files'[n] \notin {None, Torn} PROVE Keyed(files'[n])
      BY <1>0, <2>2, <3>1 DEF BackupOK, KeyedFiles
    <3>2. ASSUME Forward, NEW n \in Time, n > now PROVE files'[n] = None
      BY <1>0, <2>2, <3>2 DEF BackupOK, NoneAfter
    <3>. QED
      BY <3>1, <3>2 DEF KeyedFiles, NoneAfter
  <2>. QED
    BY <1>0, <2>2, <2>3 DEF Engine, EngineOK, EngineType, KeyedEngine, FreshEngine
<1>7. CASE Open
  BY <1>0, <1>7, OpenOK
<1>8. CASE Exit \/ Crash
  BY <1>8, LostOK DEF Exit, Crash
<1>9. CASE \/ Backup \/ BackgroundWait \/ UNCHANGED vars
           \/ \E c \in Closer : CloseBegin(c) \/ CloseJoin(c) \/ CloseError(c)
  <2>1. UNCHANGED engineVars
    BY <1>9 DEF Backup, BackgroundWait, vars, CloseBegin, CloseJoin, CloseError
  <2>2. Engine' = Engine /\ now' = now
    BY <2>1 DEF engineVars, Engine
  <2>. QED
    BY <1>0, <2>2
<1>. QED
  BY <1>0, <1>1, <1>2, <1>3, <1>4, <1>5, <1>6, <1>7, <1>8, <1>9 DEF Next

\* backup copies files of the engine over files of earlier backups.
LEMMA BackupStep ==
  ASSUME LSMInv, [Next]_vars
  PROVE  /\ backup' \in Files /\ KeyedFiles(backup')
         /\ Forward => NoneAfter(now, backup')
<1>0. /\ backup \in Files /\ files \in Files /\ KeyedFiles(backup) /\ KeyedFiles(files)
      /\ Forward => NoneAfter(now, backup) /\ NoneAfter(now, files)
  BY DEF LSMInv, TypeOK, Files, BackupOK, EngineOK, KeyedEngine, FreshEngine, Engine
<1>1. CASE Backup
  <2>1. PICK names : backup' = Copied(names, files, backup)
    BY <1>1 DEF Backup
  <2>2. /\ backup' \in Files
        /\ \A n \in Time : backup'[n] = files[n] \/ backup'[n] = backup[n]
    BY <1>0, <2>1 DEF Copied, Files
  <2>3. KeyedFiles(backup')
    <3>. SUFFICES ASSUME NEW n \in Time, backup'[n] \notin {None, Torn}
                  PROVE  Keyed(backup'[n])
      BY DEF KeyedFiles
    <3>. QED
      BY <1>0, <2>2 DEF KeyedFiles
  <2>. QED
    BY <1>0, <2>2, <2>3 DEF NoneAfter
<1>2. CASE backup' = backup
  BY <1>0, <1>2
<1>3. Backup \/ backup' = backup
  BY DEF Next, Remove, Put, Flush, Compact, Restore, Open, Exit, Crash, MemoryLost,
         CloseBegin, CloseJoin, CloseError, CloseEnd, BackgroundWait, BackgroundWork, vars
<1>. QED
  BY <1>1, <1>2, <1>3

LEMMA LSMStep == LSMInv /\ [Next]_vars => LSMInv'
<1>. SUFFICES ASSUME LSMInv, [Next]_vars PROVE LSMInv'
  OBVIOUS
<1>1. EngineOK(Engine)' /\ (Forward => now' >= now)
  BY EngineStep
<1>2. LifeOK' /\ NoLog'
  BY LifeStep, LogStep, TypeParts DEF LSMInv
<1>3. BackupOK' /\ backup' \in Files
  <2>1. now \in Int /\ now' \in Int
    BY <1>1 DEF LSMInv, TypeOK, EngineOK, EngineType, Engine
  <2>. QED
    BY <1>1, <2>1, BackupStep DEF BackupOK, NoneAfter, Time
<1>4. TypeOK'
  <2>1. (Engine \in EngineType)'
    BY <1>1 DEF EngineOK
  <2>2. wal' \in Seq([key : Key, data : Value \cup {Tombstone}])
    BY <1>2 DEF NoLog
  <2>. QED
    BY <1>2, <1>3, <2>1, <2>2 DEF TypeOK, LifeOK, EngineType, Engine, Files, Descriptor, Indexes
<1>. QED
  BY <1>1, <1>2, <1>3, <1>4 DEF LSMInv

\* Every variable of the engine keeps its type, for any keys, values, limits and
\* file names: in particular compactions leave no null pointer in sstables_.
THEOREM LSMTypeCorrect == Spec => []TypeOK
<1>1. LSMInv => TypeOK
  BY DEF LSMInv
<1>. QED
  BY <1>1, LSMInit, LSMStep, PTL DEF Spec

-----------------------------------------------------------------------------
(* Reading                                                                 *)

LEMMA GetOfEngine == \A k \in Key : get(k) = GetIn(Engine, k)
<1>. SUFFICES ASSUME NEW k \in Key PROVE get(k) = GetIn(Engine, k)
  OBVIOUS
<1>1. \A s : ReadIn(Engine, s, k) = read(s, k)
  BY EngineFields DEF ReadIn, ReadAt, read, Index, IndexIn
<1>2. HitsIn(Engine, k) = Hits(k)
  BY <1>1, EngineFields DEF HitsIn, Hits
<1>3. TablesGet(Engine, k) = get_from_sstables(k)
  BY <1>1, <1>2, EngineFields DEF TablesGet, get_from_sstables
<1>. QED
  BY <1>3, EngineFields DEF get, GetIn

\* If a table has a value, the newest that has one answers.
LEMMA NewestExists ==
  ASSUME NEW e \in EngineType, NEW k, HitsIn(e, k) # {}
  PROVE  \E i \in HitsIn(e, k) : \A j \in HitsIn(e, k) : j <= i
<1>1. e.sst \in Seq(Descriptor)
  BY DEF EngineType
<1>2. DOMAIN e.sst = 1..Len(e.sst) /\ Len(e.sst) \in Nat
  BY <1>1
<1>3. HitsIn(e, k) \subseteq 1..Len(e.sst) /\ HitsIn(e, k) \in SUBSET Int
  BY <1>2 DEF HitsIn
<1>4. IsFiniteSet(HitsIn(e, k))
  <2>1. IsFiniteSet(1..Len(e.sst))
    BY <1>2, FS_Interval
  <2>. QED
    BY <1>3, <2>1, FS_Subset
<1>. QED
  BY <1>3, <1>4, GreatestMember

LEMMA NewestAnswers ==
  ASSUME NEW e \in EngineType, NEW k, NEW i \in HitsIn(e, k),
         \A j \in HitsIn(e, k) : j <= i
  PROVE  TablesGet(e, k) = ReadIn(e, e.sst[i], k)
<1> DEFINE H == HitsIn(e, k)
           c == CHOOSE x \in H : \A j \in H : j <= x
<1>1. H \subseteq Int
  <2>1. e.sst \in Seq(Descriptor)
    BY DEF EngineType
  <2>2. DOMAIN e.sst \subseteq Int
    BY <2>1
  <2>. QED
    BY <2>2 DEF HitsIn
<1>2. c \in H /\ \A j \in H : j <= c
  <2>. HIDE DEF H
  <2>1. \E x \in H : \A j \in H : j <= x
    BY DEF H
  <2>. QED
    BY <2>1
<1>3. c = i
  <2>. HIDE DEF H, c
  <2>1. i \in H /\ c <= i /\ i <= c /\ i \in Int /\ c \in Int
    BY <1>1, <1>2 DEF H
  <2>. QED
    BY <2>1
<1>4. TablesGet(e, k) = ReadIn(e, e.sst[c], k)
  BY DEF TablesGet
<1>. QED
  BY <1>3, <1>4

\* What a table answers with is an entry of its file under the same string.
LEMMA ReadEntry ==
  ASSUME NEW e, NEW s, NEW k, ReadIn(e, s, k) # Absent
  PROVE  /\ e.files[s.name] \notin {None, Torn}
         /\ \E j \in Entries(e.files[s.name]) :
              /\ to_string(j) = to_string(k)
              /\ ReadIn(e, s, k) = e.files[s.name][j]
<1> DEFINE file == e.files[s.name]
           it == lower_bound(IndexIn(e, s), k)
           same == {j \in Entries(file) : to_string(j) = to_string(k)}
           entry == IF it \in same THEN it ELSE CHOOSE j \in same : TRUE
<1>1. file \notin {None, Torn} /\ same # {} /\ ReadIn(e, s, k) = file[entry]
  BY DEF ReadIn, ReadAt
<1>2. entry \in same
  BY <1>1
<1>. HIDE DEF entry
<1>. QED
  BY <1>1, <1>2

LEMMA KeyedRead ==
  ASSUME NEW e \in EngineType, KeyedEngine(e), NEW k \in Key
  PROVE  GetIn(e, k) = Absent \/ to_string(GetIn(e, k)[1]) = to_string(k)
<1>1. CASE Found(e.mem, k)
  BY <1>1 DEF GetIn, Found, KeyedEngine, Keyed
<1>2. CASE ~ Found(e.mem, k) /\ e.imm # None /\ Found(e.imm, k)
  BY <1>2 DEF GetIn, Found, KeyedEngine, Keyed
<1>3. CASE ~ Found(e.mem, k) /\ ~ (e.imm # None /\ Found(e.imm, k))
  <2>1. GetIn(e, k) = TablesGet(e, k)
    BY <1>3 DEF GetIn
  <2>2. CASE HitsIn(e, k) = {}
    BY <2>1, <2>2 DEF TablesGet
  <2>3. CASE HitsIn(e, k) # {}
    <3>1. PICK i \in HitsIn(e, k) : \A j \in HitsIn(e, k) : j <= i
      BY <2>3, NewestExists
    <3>2. TablesGet(e, k) = ReadIn(e, e.sst[i], k)
      BY <3>1, NewestAnswers
    <3>3. i \in DOMAIN e.sst /\ ReadIn(e, e.sst[i], k) \in Value
      BY DEF HitsIn
    <3>4. e.sst[i] \in Descriptor
      <4>1. e.sst \in Seq(Descriptor)
        BY DEF EngineType
      <4>. QED
        BY <3>3, <4>1
    <3>. DEFINE n == e.sst[i].name
    <3>5. n \in Time
      BY <3>4 DEF Descriptor
    <3>6. ReadIn(e, e.sst[i], k) # Absent
      BY <3>3, MarkAssumption
    <3>7. e.files[n] \notin {None, Torn}
      BY <3>6, ReadEntry
    <3>8. PICK j \in Entries(e.files[n]) : /\ to_string(j) = to_string(k)
                                          /\ ReadIn(e, e.sst[i], k) = e.files[n][j]
      BY <3>6, ReadEntry
    <3>9. Keyed(e.files[n])
      BY <3>5, <3>7 DEF KeyedEngine, KeyedFiles
    <3>10. j \in Key
      BY DEF Entries
    <3>11. ReadIn(e, e.sst[i], k)[1] = j
      BY <3>3, <3>8, <3>9, <3>10 DEF Keyed
    <3>. QED
      BY <2>1, <3>2, <3>8, <3>11
  <2>. QED
    BY <2>2, <2>3
<1>. QED
  BY <1>1, <1>2, <1>3

\* get answers with a value put under a key of the same string, whatever the
\* search in an index comes to: overwritten files, torn files, restores and
\* indexes read back from the file never lead into an entry of another string.
THEOREM ValuesUnderTheirStrings == Spec => []GetAnswersItsString
<1>1. LSMInv => GetAnswersItsString
  <2>. SUFFICES ASSUME LSMInv, NEW k \in Key
                PROVE  get(k) = Absent \/ to_string(get(k)[1]) = to_string(k)
    BY DEF GetAnswersItsString
  <2>1. Engine \in EngineType /\ KeyedEngine(Engine)
    BY DEF LSMInv, EngineOK
  <2>. QED
    BY <2>1, KeyedRead, GetOfEngine
<1>. QED
  BY <1>1, LSMInit, LSMStep, PTL DEF Spec

-----------------------------------------------------------------------------
(* Flushing                                                                *)

\* A table whose index is as its file was written answers with its entries.
LEMMA WrittenRead ==
  ASSUME NEW e, NEW s, NEW k \in Key, e.files[s.name] \notin {None, Torn},
         IndexIn(e, s) = written_index(e.files[s.name])
  PROVE  ReadIn(e, s, k) = e.files[s.name][k]
<1> DEFINE file == e.files[s.name]
           it == lower_bound(written_index(file), k)
           same == {j \in Entries(file) : to_string(j) = to_string(k)}
<1>1. /\ DOMAIN written_index(file) = Entries(file)
      /\ \A j \in Entries(file) : written_index(file)[j] = j
  BY DEF written_index
<1>2. ReadIn(e, s, k) = ReadAt(file, written_index(file), it, k)
  BY DEF ReadIn
<1>3. CASE k \in Entries(file)
  <2>1. Entries(file) \in SUBSET Key
    BY DEF Entries
  <2>2. it = k
    BY <1>3, <2>1, SearchAssumption DEF written_index
  <2>3. k \in same
    BY <1>3
  <2>. HIDE DEF it, file
  <2>4. file \notin {None, Torn}
    BY DEF file
  <2>5. k \in DOMAIN written_index(file) /\ written_index(file)[k] = k
    BY <1>1, <1>3
  <2>6. ReadAt(file, written_index(file), k, k) = file[k]
    BY <2>3, <2>4, <2>5 DEF ReadAt
  <2>. QED
    BY <1>2, <2>2, <2>6 DEF file
<1>4. CASE k \notin Entries(file)
  <2>1. file[k] = Absent
    BY <1>4 DEF Entries
  <2>. HIDE DEF it, file
  <2>2. it \notin DOMAIN written_index(file) \/ written_index(file)[it] # k
    BY <1>1, <1>4
  <2>3. ReadAt(file, written_index(file), it, k) = Absent
    BY <2>2 DEF ReadAt
  <2>. QED
    BY <1>2, <2>1, <2>3 DEF file
<1>. QED
  BY <1>3, <1>4

\* The index of an empty file is empty either way.
LEMMA EmptyIndexes ==
  ASSUME NEW table, written_index(table) = NoIndex \/ load_index(table) = NoIndex
  PROVE  written_index(table) = NoIndex /\ load_index(table) = NoIndex
<1>1. /\ DOMAIN written_index(table) = Entries(table)
      /\ DOMAIN load_index(table) = Entries(table) /\ DOMAIN NoIndex = {}
  BY DEF written_index, load_index, NoIndex
<1>2. Entries(table) = {}
  BY <1>1
<1>. QED
  BY <1>2 DEF written_index, load_index, NoIndex

LEMMA SameTables ==
  ASSUME NEW e, NEW f, e.sst = f.sst, e.files = f.files, NEW k
  PROVE  TablesGet(e, k) = TablesGet(f, k)
<1>1. \A s : ReadIn(e, s, k) = ReadIn(f, s, k)
  BY DEF ReadIn, IndexIn
<1>2. HitsIn(e, k) = HitsIn(f, k)
  BY <1>1 DEF HitsIn
<1>. QED
  BY <1>1, <1>2 DEF TablesGet

\* A table written under a new name answers before the older tables and leaves
\* what they answer.
LEMMA WriteRead ==
  ASSUME NEW e \in EngineType, NEW table \in Table, NEW w \in WriteTable(e, table),
         Forward, FreshEngine(e), NEW k \in Key
  PROVE  TablesGet(w, k) = IF Found(table, k) THEN table[k] ELSE TablesGet(e, k)
<1>1. PICK n \in generate_sstable_filename(e.now) :
           w = [mem |-> e.mem, imm |-> e.imm,
                sst |-> Append(e.sst, [name |-> n, index |-> written_index(table)]),
                files |-> [e.files EXCEPT ![n] = table], now |-> n]
  BY Written
<1>2. n \in Time /\ n \in Int /\ e.now \in Int /\ n > e.now
  BY TimeAssumption DEF generate_sstable_filename, Time, Forward, EngineType
<1>3. /\ w \in EngineType /\ e.files \in Files /\ e.sst \in Seq(Descriptor)
      /\ Len(e.sst) \in Nat
  BY WriteTyped DEF EngineType
<1> DEFINE l == Len(e.sst) + 1
<1>4. /\ DOMAIN e.sst = 1..Len(e.sst) /\ DOMAIN w.sst = 1..l
      /\ w.sst[l] = [name |-> n, index |-> written_index(table)]
      /\ \A i \in DOMAIN e.sst : w.sst[i] = e.sst[i] /\ e.sst[i] \in Descriptor
  BY <1>1, <1>3
<1>5. ASSUME NEW i \in DOMAIN e.sst
      PROVE  ReadIn(w, w.sst[i], k) = ReadIn(e, e.sst[i], k)
  <2>1. e.sst[i].name \in Time /\ e.sst[i].name <= e.now
    BY <1>4 DEF FreshEngine, Descriptor
  <2>2. e.sst[i].name # n
    BY <1>2, <2>1 DEF Time
  <2>3. w.files[e.sst[i].name] = e.files[e.sst[i].name]
    BY <1>1, <1>3, <2>1, <2>2 DEF Files
  <2>. QED
    BY <1>4, <2>3 DEF ReadIn, IndexIn
<1>6. ReadIn(w, w.sst[l], k) = table[k]
  <2>1. w.files[n] = table /\ table \notin {None, Torn}
    BY <1>1, <1>2, <1>3, MarkAssumption DEF Files
  <2>2. IndexIn(w, w.sst[l]) = written_index(table)
    BY <1>4, <2>1, EmptyIndexes DEF IndexIn
  <2>3. w.sst[l].name = n
    BY <1>4
  <2>. QED
    BY <2>1, <2>2, <2>3, WrittenRead
<1>7. CASE Found(table, k)
  <2>1. l \in HitsIn(w, k) /\ \A j \in HitsIn(w, k) : j <= l
    BY <1>3, <1>4, <1>6, <1>7 DEF HitsIn, Found
  <2>. QED
    BY <1>3, <1>6, <1>7, <2>1, NewestAnswers
<1>8. CASE ~ Found(table, k)
  <2>1. HitsIn(w, k) = HitsIn(e, k)
    BY <1>3, <1>4, <1>5, <1>6, <1>8 DEF HitsIn, Found
  <2>2. CASE HitsIn(e, k) = {}
    BY <1>8, <2>1, <2>2 DEF TablesGet
  <2>3. CASE HitsIn(e, k) # {}
    <3>1. PICK i \in HitsIn(e, k) : \A j \in HitsIn(e, k) : j <= i
      BY <2>3, NewestExists
    <3>2. TablesGet(e, k) = ReadIn(e, e.sst[i], k)
      BY <3>1, NewestAnswers
    <3>3. TablesGet(w, k) = ReadIn(w, w.sst[i], k)
      BY <1>3, <2>1, <3>1, NewestAnswers
    <3>4. i \in DOMAIN e.sst
      BY DEF HitsIn
    <3>. QED
      BY <1>5, <1>8, <3>2, <3>3, <3>4
  <2>. QED
    BY <2>2, <2>3
<1>. QED
  BY <1>7, <1>8

\* Moving the memtable changes no answer if the immutable memtable it replaces
\* is in the newest table, or there was none.
LEMMA MoveRead ==
  ASSUME NEW e \in EngineType, Forward, FreshEngine(e), NEW k \in Key,
         NEW first \in IF e.imm = None THEN {e} ELSE WriteTable(e, e.imm)
  PROVE  GetIn(Moved(first), k) = GetIn(e, k)
<1>1. first \in EngineType /\ first.mem = e.mem
  BY WriteTyped DEF EngineType
<1>2. /\ Moved(first).mem = Empty /\ Moved(first).imm = e.mem
      /\ e.mem # None
      /\ Moved(first).sst = first.sst /\ Moved(first).files = first.files
  BY <1>1, MovedEngine, MarkAssumption DEF EngineType
<1>3. TablesGet(Moved(first), k) = TablesGet(first, k)
  BY <1>2, SameTables
<1>4. GetIn(Moved(first), k) = IF Found(e.mem, k) THEN e.mem[k] ELSE TablesGet(first, k)
  BY <1>2, <1>3, EmptyTable DEF GetIn
<1>5. CASE e.imm = None
  BY <1>4, <1>5 DEF GetIn
<1>6. CASE e.imm # None
  <2>1. e.imm \in Table /\ first \in WriteTable(e, e.imm)
    BY <1>6 DEF EngineType
  <2>2. TablesGet(first, k) = IF Found(e.imm, k) THEN e.imm[k] ELSE TablesGet(e, k)
    BY <2>1, WriteRead
  <2>. QED
    BY <1>4, <1>6, <2>2 DEF GetIn
<1>. QED
  BY <1>5, <1>6

\* Nor does dropping an immutable memtable that has been written.
LEMMA DropRead ==
  ASSUME NEW m \in EngineType, Forward, FreshEngine(m), NEW k \in Key,
         m.mem = Empty, m.imm \in Table, NEW w \in WriteTable(m, m.imm)
  PROVE  GetIn(Dropped(w), k) = GetIn(m, k)
<1>1. w \in EngineType /\ w.mem = Empty
  BY WriteTyped
<1>2. /\ Dropped(w).mem = Empty /\ Dropped(w).imm = None
      /\ Dropped(w).sst = w.sst /\ Dropped(w).files = w.files
  BY <1>1, DroppedEngine
<1>3. GetIn(Dropped(w), k) = TablesGet(w, k)
  BY <1>2, SameTables, EmptyTable DEF GetIn
<1>4. TablesGet(w, k) = IF Found(m.imm, k) THEN m.imm[k] ELSE TablesGet(m, k)
  BY WriteRead
<1>. QED
  BY <1>3, <1>4, EmptyTable, MarkAssumption DEF GetIn

LEMMA FlushRead ==
  ASSUME NEW e, EngineOK(e), Forward, NEW f \in flush_memtable(e), NEW k \in Key
  PROVE  GetIn(f, k) = GetIn(e, k)
<1>0. e \in EngineType /\ FreshEngine(e)
  BY DEF EngineOK
<1>1. CASE f = e
  BY <1>1
<1>2. ASSUME NEW first \in IF e.imm = None THEN {e} ELSE WriteTable(e, e.imm),
             f = Moved(first) \/ \E w \in WriteTable(Moved(first), Moved(first).imm) :
                                   f = Dropped(w)
      PROVE  GetIn(f, k) = GetIn(e, k)
  <2> DEFINE m == Moved(first)
  <2>1. first \in EngineType /\ FreshEngine(first)
    BY <1>0, WriteTyped, WriteFresh DEF EngineType
  <2>2. m \in EngineType /\ m.mem = Empty /\ m.imm \in Table /\ FreshEngine(m)
    BY <2>1, MovedEngine DEF EngineType, FreshEngine
  <2>3. GetIn(m, k) = GetIn(e, k)
    BY <1>0, MoveRead
  <2>4. ASSUME NEW w \in WriteTable(m, m.imm) PROVE GetIn(Dropped(w), k) = GetIn(e, k)
    <3>. HIDE DEF m
    <3>. QED
      BY <2>2, <2>3, DropRead
  <2>. QED
    BY <1>2, <2>3, <2>4
<1>. QED
  BY <1>0, <1>1, <1>2, Flushed

\* A flush adds at most two tables; the last that it adds has a new name.
LEMMA WriteLast ==
  ASSUME NEW e \in EngineType, NEW table \in Table, NEW w \in WriteTable(e, table)
  PROVE  Len(w.sst) = Len(e.sst) + 1 /\ w.sst[Len(w.sst)].name = w.now
<1>1. PICK n \in generate_sstable_filename(e.now) :
           w = [mem |-> e.mem, imm |-> e.imm,
                sst |-> Append(e.sst, [name |-> n, index |-> written_index(table)]),
                files |-> [e.files EXCEPT ![n] = table], now |-> n]
  BY Written
<1>2. e.sst \in Seq(Descriptor)
  BY DEF EngineType
<1>. QED
  BY <1>1, <1>2

LEMMA FlushGrows ==
  ASSUME NEW e, EngineOK(e), Forward, NEW f \in flush_memtable(e)
  PROVE  /\ Len(f.sst) >= Len(e.sst) /\ Len(f.sst) <= Len(e.sst) + 2
         /\ Len(f.sst) > Len(e.sst) => f.sst[Len(f.sst)].name > e.now
<1>0. e \in EngineType /\ FreshEngine(e) /\ Len(e.sst) \in Nat /\ e.now \in Int
  BY DEF EngineOK, EngineType
<1>1. CASE f = e
  BY <1>0, <1>1
<1>2. ASSUME NEW first \in IF e.imm = None THEN {e} ELSE WriteTable(e, e.imm),
             f = Moved(first) \/ \E w \in WriteTable(Moved(first), Moved(first).imm) :
                                   f = Dropped(w)
      PROVE  /\ Len(f.sst) >= Len(e.sst) /\ Len(f.sst) <= Len(e.sst) + 2
             /\ Len(f.sst) > Len(e.sst) => f.sst[Len(f.sst)].name > e.now
  <2>1. /\ first \in EngineType /\ FreshEngine(first) /\ first.now \in Int
        /\ first.now >= e.now
        /\ \/ Len(first.sst) = Len(e.sst)
           \/ Len(first.sst) = Len(e.sst) + 1 /\ first.sst[Len(first.sst)].name > e.now
    <3>1. CASE e.imm = None
      BY <1>0, <1>2, <3>1
    <3>2. CASE e.imm # None
      <4>1. e.imm \in Table /\ first \in WriteTable(e, e.imm)
        BY <1>0, <1>2, <3>2 DEF EngineType
      <4>2. /\ first \in EngineType /\ FreshEngine(first) /\ first.now > e.now
            /\ Len(first.sst) = Len(e.sst) + 1
            /\ first.sst[Len(first.sst)].name = first.now
        BY <1>0, <4>1, WriteTyped, WriteFresh, WriteLast
      <4>. QED
        BY <1>0, <4>2 DEF EngineType
    <3>. QED
      BY <3>1, <3>2
  <2> DEFINE m == Moved(first)
  <2>2. /\ m \in EngineType /\ m.imm \in Table /\ FreshEngine(m)
        /\ m.sst = first.sst /\ m.now = first.now
    BY <2>1, MovedEngine DEF EngineType, FreshEngine
  <2>. HIDE DEF m
  <2>3. CASE f = m
    BY <1>0, <2>1, <2>2, <2>3
  <2>4. ASSUME NEW w \in WriteTable(m, m.imm), f = Dropped(w)
        PROVE  /\ Len(f.sst) >= Len(e.sst) /\ Len(f.sst) <= Len(e.sst) + 2
               /\ Len(f.sst) > Len(e.sst) => f.sst[Len(f.sst)].name > e.now
    <3>1. /\ w \in EngineType /\ w.now > m.now /\ Len(w.sst) = Len(m.sst) + 1
          /\ w.sst[Len(w.sst)].name = w.now
      BY <1>0, <2>2, WriteTyped, WriteFresh, WriteLast
    <3>2. f.sst = w.sst /\ w.now \in Int
      BY <2>4, <3>1, DroppedEngine DEF EngineType
    <3>. QED
      BY <1>0, <2>1, <2>2, <3>1, <3>2
  <2>. QED
    BY <1>2, <2>3, <2>4 DEF m
<1>. QED
  BY <1>0, <1>1, <1>2, Flushed

\* A round that compacts does not leave the tables it found in place: the last
\* table has a name that none of them has.
LEMMA RoundRead ==
  ASSUME NEW e, EngineOK(e), Forward, MaxSSTables >= 2, NEW f \in BackgroundRound(e),
         SX!IsPrefix(e.sst, f.sst), NEW k \in Key
  PROVE  GetIn(f, k) = GetIn(e, k)
<1>0. /\ e \in EngineType /\ FreshEngine(e) /\ e.now \in Int
      /\ e.sst \in Seq(Descriptor) /\ Len(e.sst) \in Nat
  BY DEF EngineOK, EngineType
<1>1. PICK g \in (IF should_flush(e.mem) THEN flush_memtable(e) ELSE {e}) :
        f = IF need_compaction(g) THEN compact_sstables(g) ELSE g
  BY DEF BackgroundRound
<1>2. GetIn(g, k) = GetIn(e, k)
  BY FlushRead
<1>3. /\ g \in EngineType /\ Len(g.sst) \in Nat
      /\ Len(g.sst) >= Len(e.sst) /\ Len(g.sst) <= Len(e.sst) + 2
      /\ Len(g.sst) > Len(e.sst) => g.sst[Len(g.sst)].name > e.now
  <2>1. EngineOK(g)
    BY FlushOK
  <2>. QED
    BY <1>0, <2>1, FlushGrows DEF EngineOK, EngineType
<1>4. ASSUME need_compaction(g) PROVE FALSE
  <2> DEFINE l == Len(e.sst)
  <2>1. Len(g.sst) > 2
    BY <1>3, <1>4, LimitAssumption DEF need_compaction
  <2>2. /\ f \in EngineType /\ Len(f.sst) = Len(g.sst) - 2
        /\ \A i \in 1..(Len(g.sst) - 2) : f.sst[i] = g.sst[i + 2]
    <3>1. f = compact_sstables(g)
      BY <1>1, <1>4
    <3>2. Len(g.sst) >= 2
      BY <1>3, <2>1
    <3>. QED
      BY <1>3, <3>1, <3>2, Compacted
  <2>3. l <= Len(f.sst) /\ SubSeq(e.sst, 1, l) = SubSeq(f.sst, 1, l)
    BY DEF SX!IsPrefix
  <2>4. Len(g.sst) = l + 2 /\ l >= 1 /\ Len(f.sst) = l
    BY <1>0, <1>3, <2>1, <2>2, <2>3
  <2>5. e.sst[l] = f.sst[l]
    <3>1. f.sst \in Seq(Descriptor) /\ l \in 1..l
      BY <1>0, <2>2, <2>4 DEF EngineType
    <3>2. SubSeq(e.sst, 1, l)[l] = e.sst[l]
      BY <1>0, <2>4, <3>1
    <3>3. SubSeq(f.sst, 1, l)[l] = f.sst[l]
      BY <1>0, <2>4, <3>1
    <3>. QED
      BY <2>3, <3>2, <3>3
  <2>6. f.sst[l] = g.sst[l + 2] /\ g.sst[l + 2].name > e.now
    BY <1>0, <1>3, <2>2, <2>4
  <2>7. e.sst[l].name <= e.now /\ e.sst[l].name \in Int
    <3>1. l \in DOMAIN e.sst
      BY <1>0, <2>4
    <3>2. e.sst[l] \in Descriptor
      BY <1>0, <3>1
    <3>. QED
      BY <1>0, <3>1, <3>2 DEF FreshEngine, Descriptor, Time
  <2>. QED
    BY <1>0, <2>5, <2>6, <2>7
<1>. QED
  BY <1>1, <1>2, <1>4

LEMMA GetOfNextEngine == \A k \in Key : get(k)' = GetIn(Engine, k)'
<1>1. (\A k \in Key : get(k) = GetIn(Engine, k))'
  BY GetOfEngine, PTL
<1>. QED
  BY <1>1

\* A flush changes no answer of get, whoever asks for it and however far it
\* gets, as long as no two files get the same name (two tables at least are
\* kept before a compaction: max_sstables_ is 10).
THEOREM FlushesKeepReads ==
  ASSUME Forward, MaxSSTables >= 2
  PROVE  Spec => FlushKeepsReads
<1>. DEFINE Keeps == (\/ Flush
                      \/ \E c \in Closer : CloseEnd(c)
                      \/ BackgroundWork /\ SX!IsPrefix(sstables, sstables'))
                       => \A k \in Key : get(k)' = get(k)
<1>1. ASSUME LSMInv, [Next]_vars PROVE Keeps
  <2>0. EngineOK(Engine)
    BY <1>1 DEF LSMInv
  <2>1. ASSUME NEW e, EngineOK(e), EngineBecomes(e), NEW k \in Key,
               GetIn(e, k) = GetIn(Engine, k)
        PROVE  get(k)' = get(k)
    <3>1. Engine' = e
      BY <2>1, EngineNext DEF EngineOK
    <3>2. get(k)' = GetIn(Engine', k)
      BY <2>1, GetOfNextEngine
    <3>. QED
      BY <2>1, <3>1, <3>2, GetOfEngine
  <2>2. ASSUME Flush \/ \E c \in Closer : CloseEnd(c), NEW k \in Key
        PROVE  get(k)' = get(k)
    <3>1. PICK e \in flush_memtable(Engine) : EngineBecomes(e)
      BY <2>2 DEF Flush, CloseEnd
    <3>. QED
      BY <2>0, <2>1, <3>1, FlushOK, FlushRead
  <2>3. ASSUME BackgroundWork, SX!IsPrefix(sstables, sstables'), NEW k \in Key
        PROVE  get(k)' = get(k)
    <3>1. PICK e \in BackgroundRound(Engine) : EngineBecomes(e)
      BY <2>3 DEF BackgroundWork
    <3>2. Engine.sst = sstables /\ e.sst = sstables'
      BY <3>1 DEF EngineBecomes, Engine
    <3>3. SX!IsPrefix(Engine.sst, e.sst)
      BY <2>3, <3>2
    <3>. QED
      BY <2>0, <2>1, <3>1, <3>3, RoundOK, RoundRead
  <2>. QED
    BY <2>2, <2>3
<1>2. LSMInv /\ [Next]_vars => [Keeps]_vars
  BY <1>1
<1>. QED
  BY <1>2, LSMInit, LSMStep, PTL DEF Spec, FlushKeepsReads

-----------------------------------------------------------------------------
(* Range scans                                                             *)

Below(S, k) == {j \in S : j < k}

LEMMA LowestMember ==
  \A S, n, k : k \in Scan!Lowest(S, n) <=> k \in S /\ Cardinality(Below(S, k)) < n
<1>. SUFFICES ASSUME NEW S, NEW n, NEW k
              PROVE  k \in Scan!Lowest(S, n) <=> k \in S /\ Cardinality(Below(S, k)) < n
  OBVIOUS
<1>1. Scan!Lowest(S, n) = {j \in S : Cardinality(Below(S, j)) < n}
  BY DEF Scan!Lowest, Below, Cardinality, Scan!Cardinality, IsFiniteSet, Scan!IsFiniteSet
<1>. HIDE DEF Below
<1>. QED
  BY <1>1

LEMMA LowestSub == \A S, n : Scan!Lowest(S, n) \subseteq S
BY DEF Scan!Lowest

\* Of a smaller set no more members are below.
LEMMA FewerBelow ==
  ASSUME NEW B, IsFiniteSet(B), NEW A \in SUBSET B
  PROVE  /\ Cardinality(A) \in Nat /\ Cardinality(B) \in Nat
         /\ Cardinality(A) <= Cardinality(B)
<1>1. IsFiniteSet(A) /\ Cardinality(A) <= Cardinality(B)
  BY FS_Subset
<1>. QED
  BY <1>1, FS_CardinalityType

\* What is among the first of a set is among the first of every part it is in.
LEMMA LowestOfPart ==
  ASSUME NEW S, IsFiniteSet(S), NEW T \in SUBSET S, NEW n \in Int,
         NEW k \in T, k \in Scan!Lowest(S, n)
  PROVE  k \in Scan!Lowest(T, n)
<1>1. Below(T, k) \in SUBSET Below(S, k) /\ Below(S, k) \in SUBSET S
  BY DEF Below
<1>2. IsFiniteSet(Below(S, k))
  BY <1>1, FS_Subset
<1>3. Cardinality(Below(S, k)) < n
  BY LowestMember
<1>4. Cardinality(Below(T, k)) < n
  BY <1>1, <1>2, <1>3, FewerBelow
<1>. QED
  BY <1>4, LowestMember

\* Leaving out members that are not among the first changes nothing.
LEMMA LowestOfEnough ==
  ASSUME NEW S \in SUBSET Int, IsFiniteSet(S), NEW T \in SUBSET S, NEW n \in Int,
         Scan!Lowest(S, n) \subseteq T
  PROVE  Scan!Lowest(T, n) = Scan!Lowest(S, n)
<1>1. ASSUME NEW k \in Scan!Lowest(S, n) PROVE k \in Scan!Lowest(T, n)
  BY <1>1, LowestOfPart
<1>2. ASSUME NEW k \in Scan!Lowest(T, n), k \notin Scan!Lowest(S, n) PROVE FALSE
  <2> DEFINE Rest == S \ Scan!Lowest(S, n)
  <2>1. k \in T /\ k \in Rest
    BY <1>2, LowestSub
  <2>2. PICK m \in Rest : \A j \in Rest : m <= j
    <3>1. Rest \in SUBSET Int /\ Rest # {} /\ Rest \subseteq S
      BY <2>1
    <3>2. IsFiniteSet(Rest)
      BY <3>1, FS_Subset
    <3>. HIDE DEF Rest
    <3>. QED
      BY <3>1, <3>2, LeastMember
  <2>3. m <= k /\ m \in Int /\ k \in Int /\ m \in S
    BY <2>1, <2>2
  <2>4. Below(S, m) \in SUBSET Below(T, k)
    <3>. SUFFICES ASSUME NEW j \in S, j < m PROVE j \in T /\ j < k
      BY DEF Below
    <3>1. j \in Int /\ j \notin Rest
      BY <2>2, <2>3
    <3>. QED
      BY <2>3, <3>1
  <2>5. ~ (Cardinality(Below(S, m)) < n) /\ Cardinality(Below(T, k)) < n
    BY <2>2, <2>3, <1>2, LowestMember
  <2>6. IsFiniteSet(Below(T, k))
    <3>1. Below(T, k) \subseteq S
      BY DEF Below
    <3>. QED
      BY <3>1, FS_Subset
  <2>. QED
    BY <2>4, <2>5, <2>6, FewerBelow
<1>. QED
  BY <1>1, <1>2

\* A limit that does not bind.
LEMMA LowestOfAll ==
  ASSUME NEW S \in SUBSET Int, IsFiniteSet(S), NEW T \in SUBSET S
  PROVE  Scan!Lowest(T, Cardinality(S)) = T
<1>1. ASSUME NEW k \in T PROVE k \in Scan!Lowest(T, Cardinality(S))
  <2>1. k \in S /\ k \in Int
    OBVIOUS
  <2>2. Below(T, k) \in SUBSET (S \ {k})
    <3>. SUFFICES ASSUME NEW j \in T, j < k PROVE j \in S /\ j # k
      BY DEF Below
    <3>. QED
      BY <2>1
  <2>3. /\ Cardinality(S) \in Nat /\ IsFiniteSet(S \ {k})
        /\ Cardinality(S \ {k}) = Cardinality(S) - 1
    BY <2>1, FS_RemoveElement, FS_CardinalityType
  <2>4. Cardinality(Below(T, k)) < Cardinality(S)
    BY <2>2, <2>3, FewerBelow
  <2>. QED
    BY <2>4, LowestMember
<1>. QED
  BY <1>1, LowestSub

\* RangeScan counts as FiniteSets does.
LEMMA SameCount == \A S : Scan!Cardinality(S) = Cardinality(S)
BY DEF Cardinality, Scan!Cardinality, IsFiniteSet, Scan!IsFiniteSet

\* The keys in the range that a layer has a value for.
WithValue(layer, q) == {j \in ScanKey : Scan!in_range(q, j) /\ layer[j] \in ScanValue}

\* A limit that does not bind, or no deletion marks: no exception to
\* ScanAgreesWithGet.
Undisturbed(n, layers, q) ==
  \/ q.limit = Cardinality(ScanKey)
  \/ \A i \in 1..n, k \in ScanKey : layers[i][k] # Tombstone

\* The scan of a layer is the first of its values.
LEMMA LayerScan ==
  ASSUME NEW n \in Nat, NEW layers \in [1..n -> Scan!Layer], NEW q,
         Undisturbed(n, layers, q), NEW i \in 1..n
  PROVE  Scan!layer_scan(layers[i], q) = Scan!Lowest(WithValue(layers[i], q), q.limit)
<1> DEFINE layer == layers[i]
           E == {j \in ScanKey : Scan!in_range(q, j) /\ layer[j] # Absent}
           W == WithValue(layer, q)
<1>1. layer \in [ScanKey -> ScanValue \cup {Tombstone, Absent}]
  BY DEF Scan!Layer
<1>2. Scan!layer_scan(layer, q) = {k \in Scan!Lowest(E, q.limit) : layer[k] # Tombstone}
  BY DEF Scan!layer_scan
<1>. HIDE DEF layer
<1>3. W \in SUBSET ScanKey /\ E \in SUBSET ScanKey /\ {k \in E : layer[k] # Tombstone} = W
  BY <1>1, ScanAssumption DEF WithValue
<1>4. CASE q.limit = Cardinality(ScanKey)
  <2>. HIDE DEF E, W
  <2>1. Scan!Lowest(E, q.limit) = E /\ Scan!Lowest(W, q.limit) = W
    BY <1>3, <1>4, LowestOfAll, ScanAssumption
  <2>. QED
    BY <1>2, <1>3, <2>1 DEF W, layer
<1>5. CASE \A k \in ScanKey : layer[k] # Tombstone
  <2>1. E = W
    BY <1>3, <1>5
  <2>2. \A k \in Scan!Lowest(E, q.limit) : layer[k] # Tombstone
    BY <1>3, <1>5, LowestSub
  <2>. HIDE DEF E, W
  <2>. QED
    BY <1>2, <2>1, <2>2 DEF W, layer
<1>. QED
  BY <1>4, <1>5 DEF Undisturbed, layer

\* The least number of a set is what CHOOSE finds.
LEMMA LeastChosen ==
  ASSUME NEW n \in Nat, NEW I \in SUBSET (1..n), I # {}
  PROVE  \E m \in I : /\ \A j \in I : m <= j
                      /\ m = CHOOSE i \in I : \A j \in I : i <= j
                      /\ m = CHOOSE i \in 1..n : i \in I /\ \A j \in 1..(i - 1) : j \notin I
<1>1. IsFiniteSet(I) /\ I \in SUBSET Int
  <2>1. IsFiniteSet(1..n)
    BY FS_Interval
  <2>2. IsFiniteSet(I)
    BY <2>1, FS_Subset
  <2>. QED
    BY <2>2
<1>2. PICK m \in I : \A j \in I : m <= j
  BY <1>1, LeastMember
<1>3. m = CHOOSE i \in I : \A j \in I : i <= j
  <2>. DEFINE c == CHOOSE i \in I : \A j \in I : i <= j
  <2>1. c \in I /\ \A j \in I : c <= j
    BY <1>2
  <2>. HIDE DEF c
  <2>2. c <= m /\ m <= c /\ c \in Int /\ m \in Int
    BY <1>1, <1>2, <2>1
  <2>3. c = m
    BY <2>2
  <2>. QED
    BY <2>3 DEF c
<1>4. m = CHOOSE i \in 1..n : i \in I /\ \A j \in 1..(i - 1) : j \notin I
  <2>. DEFINE First(i) == i \in I /\ \A j \in 1..(i - 1) : j \notin I
              c == CHOOSE i \in 1..n : First(i)
  <2>1. m \in 1..n /\ First(m)
    BY <1>1, <1>2
  <2>2. c \in 1..n /\ First(c)
    <3>. HIDE DEF First
    <3>. QED
      BY <2>1
  <2>. HIDE DEF c
  <2>3. c = m
    BY <1>1, <1>2, <2>1, <2>2
  <2>. QED
    BY <2>3 DEF c
<1>. QED
  BY <1>2, <1>3, <1>4

\* range_scan answers as get does, over any number of layers of any finite set
\* of keys, so long as the limit does not bind or nothing was deleted.
LEMMA ScanIsGet ==
  ASSUME NEW n \in Nat, NEW layers \in [1..n -> Scan!Layer], NEW q, q.limit \in Nat,
         Undisturbed(n, layers, q)
  PROVE  Scan!range_scan(layers, q) =
           [k \in Scan!Lowest({j \in ScanKey : Scan!in_range(q, j)
                                               /\ Scan!Valued(layers, j) # {}}, q.limit)
              |-> Scan!Answer(layers, k)]
<1> DEFINE l == q.limit
           W(i) == WithValue(layers[i], q)
           S(i) == Scan!layer_scan(layers[i], q)
           V == {j \in ScanKey : Scan!in_range(q, j) /\ Scan!Valued(layers, j) # {}}
           found == UNION {S(i) : i \in DOMAIN layers}
<1>1. DOMAIN layers = 1..n /\ \A i \in 1..n : S(i) = Scan!Lowest(W(i), l)
  BY LayerScan
<1>2. \A i \in 1..n, k \in V : k \in W(i) <=> i \in Scan!Valued(layers, k)
  BY <1>1 DEF WithValue, Scan!Valued
<1>3. \A i \in 1..n : W(i) \in SUBSET V
  BY <1>1 DEF WithValue, Scan!Valued
<1>4. V \in SUBSET Int /\ IsFiniteSet(V) /\ \A k \in V : Scan!Valued(layers, k) # {}
  <2>1. V \subseteq ScanKey /\ \A k \in V : Scan!Valued(layers, k) # {}
    OBVIOUS
  <2>. HIDE DEF V
  <2>. QED
    BY <2>1, FS_Subset, ScanAssumption
<1>5. \A k \in V : Scan!Valued(layers, k) \in SUBSET (1..n)
  BY <1>1 DEF Scan!Valued
<1>. HIDE DEF V, W, S
<1>6. ASSUME NEW k \in Scan!Lowest(V, l), NEW i \in 1..n
      PROVE  k \in V /\ (k \in S(i) <=> i \in Scan!Valued(layers, k))
  <2>1. k \in V
    BY LowestSub
  <2>2. k \in S(i) => k \in W(i)
    BY <1>1, LowestSub
  <2>3. k \in W(i) => k \in S(i)
    BY <1>1, <1>3, <1>4, LowestOfPart
  <2>. QED
    BY <1>2, <2>1, <2>2, <2>3
<1>7. Scan!Lowest(found, l) = Scan!Lowest(V, l)
  <2>1. found \in SUBSET V
    BY <1>1, <1>3, LowestSub
  <2>2. Scan!Lowest(V, l) \subseteq found
    <3>. SUFFICES ASSUME NEW k \in Scan!Lowest(V, l) PROVE k \in found
      OBVIOUS
    <3>1. PICK i \in 1..n : i \in Scan!Valued(layers, k)
      BY <1>4, <1>5, LowestSub
    <3>. QED
      BY <1>1, <1>6, <3>1
  <2>. HIDE DEF found
  <2>. QED
    BY <1>4, <2>1, <2>2, LowestOfEnough
<1>8. ASSUME NEW k \in Scan!Lowest(V, l)
      PROVE  layers[Scan!merge(layers, q, k)][k] = Scan!Answer(layers, k)
  <2> DEFINE I == Scan!Valued(layers, k)
  <2>1. k \in V /\ I \in SUBSET (1..n) /\ I # {}
    BY <1>4, <1>5, LowestSub
  <2>2. PICK m \in I :
          /\ \A j \in I : m <= j
          /\ m = CHOOSE i \in I : \A j \in I : i <= j
          /\ m = CHOOSE i \in 1..n : i \in I /\ \A j \in 1..(i - 1) : j \notin I
    <3>. HIDE DEF I
    <3>. QED
      BY <2>1, LeastChosen, Zenon
  <2>3. Scan!Answer(layers, k) = layers[m][k]
    BY <2>2 DEF Scan!Answer
  <2>4. Scan!merge(layers, q, k)
          = CHOOSE i \in 1..n : k \in S(i) /\ \A j \in 1..(i - 1) : k \notin S(j)
    BY <1>1 DEF Scan!merge, S
  <2>5. \A i \in 1..n : (k \in S(i) /\ \A j \in 1..(i - 1) : k \notin S(j))
                          <=> (i \in I /\ \A j \in 1..(i - 1) : j \notin I)
    <3>. SUFFICES ASSUME NEW i \in 1..n
                  PROVE  (k \in S(i) /\ \A j \in 1..(i - 1) : k \notin S(j))
                           <=> (i \in I /\ \A j \in 1..(i - 1) : j \notin I)
      OBVIOUS
    <3>1. \A j \in 1..(i - 1) : j \in 1..n
      OBVIOUS
    <3>. QED
      BY <1>6, <3>1
  <2>6. Scan!merge(layers, q, k) = m
    <3>. DEFINE P(i) == k \in S(i) /\ \A j \in 1..(i - 1) : k \notin S(j)
                R(i) == i \in I /\ \A j \in 1..(i - 1) : j \notin I
    <3>1. /\ Scan!merge(layers, q, k) = CHOOSE i \in 1..n : P(i)
          /\ m = CHOOSE i \in 1..n : R(i)
          /\ \A i \in 1..n : P(i) <=> R(i)
      BY <2>2, <2>4, <2>5
    <3>. HIDE DEF P, R
    <3>. QED
      BY <3>1
  <2>. QED
    BY <2>3, <2>6
<1>9. Scan!range_scan(layers, q)
        = [k \in Scan!Lowest(found, l) |-> layers[Scan!merge(layers, q, k)][k]]
  BY DEF Scan!range_scan, S
<1>. HIDE DEF found, l
<1>10. Scan!range_scan(layers, q) = [k \in Scan!Lowest(V, l) |-> Scan!Answer(layers, k)]
  BY <1>7, <1>8, <1>9
<1>. QED
  BY <1>10 DEF V, l

\* The code's range is what the query asks for and perhaps the end key, which
\* no other key comes after.
LEMMA RangeIsAsked ==
  ASSUME NEW q \in Scan!RangeQuery, NEW k \in ScanKey
  PROVE  /\ k \in Scan!Asked(q) => Scan!in_range(q, k)
         /\ Scan!in_range(q, k) /\ k \notin Scan!Asked(q)
              => k = q.end_key /\ ~ q.inclusive_end
         /\ k \in Scan!Asked(q) => \A j \in ScanKey :
              Scan!in_range(q, j) /\ j < k => j \in Scan!Asked(q)
<1>1. k \in Int /\ q.start_key \in Int /\ q.end_key \in Int /\ ScanKey \subseteq Int
  BY ScanAssumption DEF Scan!RangeQuery
<1>. QED
  BY <1>1 DEF Scan!Asked, Scan!in_range

\* So the first that are found are the first of those asked for, with perhaps
\* the end key.
LEMMA FirstAsked ==
  ASSUME NEW q \in Scan!RangeQuery, NEW V \in SUBSET ScanKey, NEW l,
         \A k \in V : Scan!in_range(q, k)
  PROVE  /\ Scan!Lowest(V, l) \cap Scan!Asked(q) = Scan!Lowest(V \cap Scan!Asked(q), l)
         /\ \A k \in Scan!Lowest(V, l) \ Scan!Asked(q) :
              k = q.end_key /\ ~ q.inclusive_end
<1> DEFINE A == Scan!Asked(q)
<1>1. ASSUME NEW k \in V \cap A PROVE Below(V, k) = Below(V \cap A, k)
  BY RangeIsAsked DEF Below
<1>2. \A k : k \in Scan!Lowest(V, l) \cap A <=> k \in Scan!Lowest(V \cap A, l)
  <2>. SUFFICES ASSUME NEW k
                PROVE  k \in Scan!Lowest(V, l) \cap A <=> k \in Scan!Lowest(V \cap A, l)
    OBVIOUS
  <2>. HIDE DEF A
  <2>1. CASE k \in V \cap A
    BY <1>1, <2>1, LowestMember
  <2>2. CASE k \notin V \cap A
    BY <2>2, LowestSub
  <2>. QED
    BY <2>1, <2>2
<1>3. ASSUME NEW k \in Scan!Lowest(V, l) \ A PROVE k = q.end_key /\ ~ q.inclusive_end
  <2>1. k \in V /\ k \in ScanKey
    BY LowestSub
  <2>. QED
    BY <2>1, RangeIsAsked
<1>. QED
  BY <1>2, <1>3

\* The property the run looks at on small stacks of layers, for every finite set
\* of keys, any values and any depth.
THEOREM ScansAgree == Spec => []ScanAgreesWithGet
<1>1. ASSUME NEW n \in 1..Depth, NEW layers \in [1..n -> Scan!Layer],
             NEW q \in Scan!RangeQuery,
             ~ (/\ q.limit < Scan!Cardinality(ScanKey)
                /\ \E i \in 1..n, k \in ScanKey : layers[i][k] = Tombstone),
             NEW scan, scan = Scan!range_scan(layers, q)
      PROVE  /\ DOMAIN scan \cap Scan!Asked(q)
                  = Scan!Lowest({k \in Scan!Asked(q) : Scan!Valued(layers, k) # {}}, q.limit)
             /\ \A k \in DOMAIN scan : scan[k] = Scan!Answer(layers, k)
             /\ \A k \in DOMAIN scan \ Scan!Asked(q) : k = q.end_key /\ ~ q.inclusive_end
  <2> DEFINE V == {j \in ScanKey : Scan!in_range(q, j) /\ Scan!Valued(layers, j) # {}}
  <2>1. n \in Nat
    BY ScanAssumption
  <2>2. Cardinality(ScanKey) \in Nat /\ Scan!Cardinality(ScanKey) = Cardinality(ScanKey)
    BY FS_CardinalityType, SameCount, ScanAssumption
  <2>3. q.limit \in 0..Cardinality(ScanKey)
    BY <2>2 DEF Scan!RangeQuery
  <2>4. q.limit \in Nat /\ Undisturbed(n, layers, q)
    BY <1>1, <2>2, <2>3 DEF Undisturbed
  <2>5. scan = [k \in Scan!Lowest(V, q.limit) |-> Scan!Answer(layers, k)]
    BY <1>1, <2>1, <2>4, ScanIsGet
  <2>6. {k \in Scan!Asked(q) : Scan!Valued(layers, k) # {}} = V \cap Scan!Asked(q)
    <3>1. Scan!Asked(q) \subseteq ScanKey
      BY DEF Scan!Asked
    <3>. QED
      BY <3>1, RangeIsAsked
  <2>7. V \in SUBSET ScanKey /\ \A k \in V : Scan!in_range(q, k)
    OBVIOUS
  <2>. HIDE DEF V
  <2>8. /\ DOMAIN scan = Scan!Lowest(V, q.limit)
        /\ \A k \in DOMAIN scan : scan[k] = Scan!Answer(layers, k)
    BY <2>5
  <2>9. /\ DOMAIN scan \cap Scan!Asked(q) = Scan!Lowest(V \cap Scan!Asked(q), q.limit)
        /\ \A k \in DOMAIN scan \ Scan!Asked(q) : k = q.end_key /\ ~ q.inclusive_end
    <3> DEFINE D == Scan!Lowest(V, q.limit)
               A == Scan!Asked(q)
    <3>1. /\ D \cap A = Scan!Lowest(V \cap A, q.limit)
          /\ \A k \in D \ A : k = q.end_key /\ ~ q.inclusive_end
      BY <2>7, FirstAsked
    <3>. QED
      BY <2>8, <3>1, Zenon
  <2>. QED
    BY <2>6, <2>8, <2>9, Zenon
<1>2. ScanAgreesWithGet
  BY <1>1 DEF ScanAgreesWithGet, Scan!ScanAgreesWithGet
<1>. QED
  BY <1>2, PTL

-----------------------------------------------------------------------------
(* Reopening                                                               *)

\* The files that are whole.
Good(fs) == {n \in Time : fs[n] \notin {None, Torn}}

\* Of those, the ones that have a value for a key, and the value in the one with
\* the last name: what an engine that opens the directory reads.
FileHits(fs, k) == {n \in Good(fs) : fs[n][k] \in Value}

FilesGet(fs, k) ==
  IF FileHits(fs, k) = {} THEN Absent
  ELSE fs[CHOOSE n \in FileHits(fs, k) : \A m \in FileHits(fs, k) : m <= n][k]

Recalled(e, k) ==
  IF Found(e.mem, k) THEN e.mem[k]
  ELSE IF e.imm # None /\ Found(e.imm, k) THEN e.imm[k]
  ELSE FilesGet(e.files, k)

\* A file with a later name than a table's has a later table.
Ordered(e) ==
  \A i \in DOMAIN e.sst, m \in Good(e.files) :
    m > e.sst[i].name => \E j \in DOMAIN e.sst : j > i /\ e.sst[j].name = m

\* The index of a table is that of the file of its name, if there is one.
Fits(e, fs) ==
  \A i \in DOMAIN e.sst : e.sst[i].name \in Good(fs) =>
    e.sst[i].index \in {NoIndex, written_index(fs[e.sst[i].name]),
                        load_index(fs[e.sst[i].name])}

\* So are the engine's and the backup's, which are the same where both have one.
FitsBoth(e, fs) ==
  /\ Fits(e, e.files) /\ Fits(e, fs)
  /\ \A n \in Good(e.files) \cap Good(fs) : e.files[n] = fs[n]

\* When no primary key has a colon, a table answers with its file's entries,
\* whether its index was written or read.
LEMMA PlainRead ==
  ASSUME NEW e \in EngineType, Fits(e, e.files), PlainFiles(e.files),
         NEW i \in DOMAIN e.sst, NEW k \in Key
  PROVE  /\ e.sst[i].name \in Time /\ i \in Int
         /\ ReadIn(e, e.sst[i], k) = IF e.sst[i].name \in Good(e.files)
                                     THEN e.files[e.sst[i].name][k] ELSE Absent
<1> DEFINE s == e.sst[i]
           file == e.files[s.name]
<1>1. s.name \in Time /\ i \in Int
  <2>1. e.sst \in Seq(Descriptor)
    BY DEF EngineType
  <2>2. s \in Descriptor /\ i \in Int
    BY <2>1
  <2>. QED
    BY <2>2 DEF Descriptor
<1>2. CASE s.name \notin Good(e.files)
  <2>1. file \in {None, Torn}
    BY <1>1, <1>2 DEF Good
  <2>2. ReadIn(e, s, k) = Absent
    BY <2>1 DEF ReadIn, ReadAt
  <2>. QED
    BY <1>1, <1>2, <2>2
<1>3. CASE s.name \in Good(e.files)
  <2>1. file \notin {None, Torn}
    BY <1>3 DEF Good
  <2>2. load_index(file) = written_index(file)
    <3>1. \A j \in Entries(file) : j \in Key /\ Reread[j] = j
      BY <1>1, <2>1, PlainReread DEF PlainFiles, Entries
    <3>. QED
      BY <3>1 DEF load_index, written_index
  <2>3. s.index \in {NoIndex, written_index(file), load_index(file)}
    BY <1>3 DEF Fits
  <2>4. IndexIn(e, s) = written_index(file)
    <3>. HIDE DEF s
    <3>. QED
      BY <2>1, <2>2, <2>3 DEF IndexIn
  <2>5. ReadIn(e, s, k) = file[k]
    BY <2>1, <2>4, WrittenRead
  <2>. QED
    BY <1>1, <1>3, <2>5
<1>. QED
  BY <1>2, <1>3

LEMMA PlainHits ==
  ASSUME NEW e \in EngineType, Fits(e, e.files), PlainFiles(e.files), NEW k \in Key
  PROVE  \A i \in DOMAIN e.sst :
           i \in HitsIn(e, k) <=> e.sst[i].name \in FileHits(e.files, k)
BY PlainRead, MarkAssumption DEF HitsIn, FileHits

LEMMA FileHitsFinite ==
  ASSUME NEW fs, NEW k
  PROVE  FileHits(fs, k) \in SUBSET Int /\ IsFiniteSet(FileHits(fs, k))
<1>1. FileHits(fs, k) \subseteq Time
  BY DEF FileHits, Good
<1>2. IsFiniteSet(Time) /\ Time \subseteq Int
  BY TimeAssumption, FS_Interval DEF Time
<1>. QED
  BY <1>1, <1>2, FS_Subset

LEMMA LastFileExists ==
  ASSUME NEW fs, NEW k, FileHits(fs, k) # {}
  PROVE  \E n \in FileHits(fs, k) : \A m \in FileHits(fs, k) : m <= n
BY FileHitsFinite, GreatestMember

LEMMA LastFileAnswers ==
  ASSUME NEW fs, NEW k, NEW n \in FileHits(fs, k), \A m \in FileHits(fs, k) : m <= n
  PROVE  FilesGet(fs, k) = fs[n][k]
<1> DEFINE H == FileHits(fs, k)
           c == CHOOSE x \in H : \A m \in H : m <= x
<1>1. H \subseteq Int
  BY FileHitsFinite
<1>2. c \in H /\ \A m \in H : m <= c
  <2>. HIDE DEF H
  <2>1. \E x \in H : \A m \in H : m <= x
    BY DEF H
  <2>. QED
    BY <2>1
<1>3. c = n
  <2>. HIDE DEF H, c
  <2>1. n \in H /\ c <= n /\ n <= c /\ n \in Int /\ c \in Int
    BY <1>1, <1>2 DEF H
  <2>. QED
    BY <2>1
<1>4. FilesGet(fs, k) = fs[c][k]
  BY DEF FilesGet
<1>. QED
  BY <1>3, <1>4

\* In an ordered engine the newest table with a value has the last file's.
LEMMA OrderedReads ==
  ASSUME NEW e \in EngineType, Ordered(e), Fits(e, e.files), PlainFiles(e.files),
         NEW k \in Key, HitsIn(e, k) # {}
  PROVE  TablesGet(e, k) = FilesGet(e.files, k)
<1>1. PICK i \in HitsIn(e, k) : \A j \in HitsIn(e, k) : j <= i
  BY NewestExists
<1> DEFINE n == e.sst[i].name
<1>2. i \in DOMAIN e.sst
  BY DEF HitsIn
<1>3. n \in FileHits(e.files, k) /\ ReadIn(e, e.sst[i], k) = e.files[n][k] /\ i \in Int
  BY <1>2, PlainHits, PlainRead DEF FileHits
<1>4. ASSUME NEW m \in FileHits(e.files, k) PROVE m <= n
  <2>1. m \in Int /\ n \in Int
    BY <1>3, FileHitsFinite
  <2>2. ASSUME m > n PROVE FALSE
    <3>1. PICK j \in DOMAIN e.sst : j > i /\ e.sst[j].name = m
      BY <1>2, <2>2 DEF Ordered, FileHits
    <3>2. j \in HitsIn(e, k)
      BY <3>1, PlainHits
    <3>3. j \in Int /\ j <= i
      BY <1>1, <3>2, PlainRead
    <3>. QED
      BY <1>3, <3>1, <3>3
  <2>. QED
    BY <2>1, <2>2
<1>. HIDE DEF n
<1>5. FilesGet(e.files, k) = e.files[n][k]
  BY <1>3, <1>4, LastFileAnswers
<1>6. TablesGet(e, k) = ReadIn(e, e.sst[i], k)
  BY <1>1, NewestAnswers
<1>. QED
  BY <1>3, <1>5, <1>6

LEMMA OrderedRecalls ==
  ASSUME NEW e \in EngineType, Ordered(e), Fits(e, e.files), PlainFiles(e.files),
         NEW k \in Key, GetIn(e, k) # Absent
  PROVE  Recalled(e, k) = GetIn(e, k)
<1>1. TablesGet(e, k) # Absent => TablesGet(e, k) = FilesGet(e.files, k)
  BY OrderedReads DEF TablesGet
<1>. QED
  BY <1>1 DEF Recalled, GetIn

\* A new file is the last, and so is its table.
LEMMA WriteOrdered ==
  ASSUME NEW e \in EngineType, NEW table \in Table, NEW w \in WriteTable(e, table),
         Forward, FreshEngine(e)
  PROVE  /\ Ordered(e) => Ordered(w)
         /\ \A b : FitsBoth(e, b) /\ NoneAfter(e.now, b) => FitsBoth(w, b)
         /\ \A n \in Time : n <= e.now => w.files[n] = e.files[n]
         /\ \A k \in Key : FilesGet(w.files, k) =
              IF Found(table, k) THEN table[k] ELSE FilesGet(e.files, k)
<1>1. PICK n \in generate_sstable_filename(e.now) :
           w = [mem |-> e.mem, imm |-> e.imm,
                sst |-> Append(e.sst, [name |-> n, index |-> written_index(table)]),
                files |-> [e.files EXCEPT ![n] = table], now |-> n]
  BY Written
<1>2. n \in Time /\ n \in Int /\ e.now \in Int /\ n > e.now
  BY TimeAssumption DEF generate_sstable_filename, Time, Forward, EngineType
<1>3. /\ w \in EngineType /\ e.files \in Files /\ e.sst \in Seq(Descriptor)
      /\ Len(e.sst) \in Nat
  BY WriteTyped DEF EngineType
<1>4. /\ w.files[n] = table /\ table \notin {None, Torn}
      /\ \A m \in Time : m # n => w.files[m] = e.files[m]
      /\ \A m \in Time : m > e.now => e.files[m] = None
  BY <1>1, <1>2, <1>3, MarkAssumption DEF Files, FreshEngine, NoneAfter
<1>5. \A m \in Time : m <= e.now => w.files[m] = e.files[m]
  BY <1>2, <1>4 DEF Time
<1>6. /\ n \in Good(w.files)
      /\ \A m \in Time : m # n => (m \in Good(w.files) <=> m \in Good(e.files))
      /\ \A m \in Good(e.files) : m <= e.now /\ m # n
  BY <1>2, <1>4 DEF Good, Time
<1>7. ASSUME NEW k
      PROVE  /\ n \in FileHits(w.files, k) <=> table[k] \in Value
             /\ \A m \in Time : m # n => (m \in FileHits(w.files, k)
                                            <=> m \in FileHits(e.files, k))
             /\ \A m \in FileHits(e.files, k) : m <= e.now
  BY <1>4, <1>6 DEF FileHits
<1>8. ASSUME NEW k \in Key
      PROVE  FilesGet(w.files, k) = IF Found(table, k) THEN table[k] ELSE FilesGet(e.files, k)
  <2>0. FileHits(e.files, k) \subseteq Time /\ FileHits(w.files, k) \subseteq Time
    BY DEF FileHits, Good
  <2>1. CASE table[k] \in Value
    <3>1. n \in FileHits(w.files, k) /\ \A m \in FileHits(w.files, k) : m <= n
      <4>1. \A m \in FileHits(w.files, k) : m = n \/ m \in FileHits(e.files, k)
        BY <1>7, <2>0
      <4>2. \A m \in FileHits(e.files, k) : m \in Int
        BY FileHitsFinite
      <4>. QED
        BY <1>2, <1>7, <2>1, <4>1, <4>2
    <3>. QED
      BY <1>4, <2>1, <3>1, LastFileAnswers DEF Found
  <2>2. CASE table[k] \notin Value
    <3>1. FileHits(w.files, k) = FileHits(e.files, k)
      <4>1. n \notin FileHits(e.files, k) /\ n \notin FileHits(w.files, k)
        BY <1>2, <1>7, <2>2
      <4>2. ASSUME NEW m \in Time
            PROVE  m \in FileHits(w.files, k) <=> m \in FileHits(e.files, k)
        <5>1. CASE m = n
          BY <4>1, <5>1
        <5>2. CASE m # n
          BY <1>7, <5>2
        <5>. QED
          BY <5>1, <5>2
      <4>. QED
        BY <2>0, <4>2
    <3>2. CASE FileHits(e.files, k) = {}
      BY <2>2, <3>1, <3>2 DEF FilesGet, Found
    <3>3. CASE FileHits(e.files, k) # {}
      <4>1. PICK m \in FileHits(e.files, k) : \A x \in FileHits(e.files, k) : x <= m
        BY <3>3, LastFileExists
      <4>2. FilesGet(e.files, k) = e.files[m][k] /\ FilesGet(w.files, k) = w.files[m][k]
        BY <3>1, <4>1, LastFileAnswers
      <4>3. m \in Time /\ m <= e.now
        BY <1>7, <2>0
      <4>. QED
        BY <1>5, <2>2, <4>2, <4>3 DEF Found
    <3>. QED
      BY <3>2, <3>3
  <2>. QED
    BY <2>1, <2>2
<1> DEFINE l == Len(e.sst) + 1
<1>9. /\ DOMAIN e.sst = 1..Len(e.sst) /\ DOMAIN w.sst = 1..l
      /\ w.sst[l].name = n /\ w.sst[l].index = written_index(table)
      /\ \A x \in DOMAIN e.sst : /\ w.sst[x] = e.sst[x] /\ x \in Int /\ x < l
                                 /\ e.sst[x].name \in Time /\ e.sst[x].name <= e.now
                                 /\ e.sst[x].name # n
      /\ \A x \in DOMAIN w.sst : x = l \/ x \in DOMAIN e.sst
  <2>1. /\ DOMAIN e.sst = 1..Len(e.sst) /\ DOMAIN w.sst = 1..l
        /\ w.sst[l] = [name |-> n, index |-> written_index(table)]
        /\ \A x \in DOMAIN e.sst : w.sst[x] = e.sst[x] /\ e.sst[x] \in Descriptor
    BY <1>1, <1>3
  <2>2. ASSUME NEW x \in DOMAIN e.sst
        PROVE  e.sst[x].name \in Time /\ e.sst[x].name <= e.now /\ e.sst[x].name # n
    BY <1>2, <2>1 DEF FreshEngine, Descriptor, Time
  <2>. QED
    BY <1>3, <2>1, <2>2
<1>10. ASSUME Ordered(e), NEW i \in DOMAIN w.sst, NEW m \in Good(w.files), m > w.sst[i].name
       PROVE  \E j \in DOMAIN w.sst : j > i /\ w.sst[j].name = m
  <2>1. m \in Time /\ m \in Int /\ l \in DOMAIN w.sst
    BY <1>3, <1>9 DEF Good, Time
  <2>2. i # l
    BY <1>2, <1>6, <1>9, <1>10, <2>1
  <2>3. i \in DOMAIN e.sst /\ w.sst[i] = e.sst[i] /\ l > i
    BY <1>3, <1>9, <2>2
  <2>4. CASE m = n
    BY <1>9, <2>1, <2>3, <2>4
  <2>5. CASE m # n
    <3>1. m \in Good(e.files)
      BY <1>6, <2>1, <2>5
    <3>2. PICK j \in DOMAIN e.sst : j > i /\ e.sst[j].name = m
      BY <1>10, <2>3, <3>1 DEF Ordered
    <3>3. j \in DOMAIN w.sst /\ w.sst[j] = e.sst[j]
      BY <1>3, <1>9
    <3>. QED
      BY <3>2, <3>3
  <2>. QED
    BY <2>4, <2>5
<1>11. Ordered(e) => Ordered(w)
  BY <1>10 DEF Ordered
<1>12. ASSUME NEW b, FitsBoth(e, b), NoneAfter(e.now, b) PROVE FitsBoth(w, b)
  <2>1. n \notin Good(b)
    BY <1>2, <1>12 DEF NoneAfter, Good
  <2>2. Fits(w, b)
    BY <1>9, <1>12, <2>1 DEF FitsBoth, Fits
  <2>3. Fits(w, w.files)
    <3>. SUFFICES ASSUME NEW i \in DOMAIN w.sst, w.sst[i].name \in Good(w.files)
                  PROVE  w.sst[i].index \in {NoIndex, written_index(w.files[w.sst[i].name]),
                                             load_index(w.files[w.sst[i].name])}
      BY DEF Fits
    <3>1. CASE i = l
      BY <1>4, <1>9, <3>1
    <3>2. CASE i \in DOMAIN e.sst
      <4>1. w.sst[i] = e.sst[i] /\ e.sst[i].name \in Time /\ e.sst[i].name # n
        BY <1>9, <3>2
      <4>2. /\ e.sst[i].name \in Good(e.files)
            /\ w.files[e.sst[i].name] = e.files[e.sst[i].name]
        BY <1>4, <1>6, <4>1
      <4>. QED
        BY <1>12, <3>2, <4>1, <4>2 DEF FitsBoth, Fits
    <3>. QED
      BY <1>9, <3>1, <3>2
  <2>4. ASSUME NEW m \in Good(w.files) \cap Good(b) PROVE w.files[m] = b[m]
    <3>1. m \in Time /\ m # n
      BY <2>1 DEF Good
    <3>2. m \in Good(e.files) /\ w.files[m] = e.files[m]
      BY <1>4, <1>6, <3>1
    <3>. QED
      BY <1>12, <3>2 DEF FitsBoth
  <2>. QED
    BY <2>2, <2>3, <2>4 DEF FitsBoth
<1>. QED
  BY <1>5, <1>8, <1>11, <1>12

\* What flushes and compactions keep: the order, the indexes, the files that
\* there are, and what they answer together with the memtables.
KeepsFiles(e, f) ==
  /\ Ordered(e) => Ordered(f)
  /\ \A b : FitsBoth(e, b) /\ NoneAfter(e.now, b) => FitsBoth(f, b)
  /\ \A n \in Time : n <= e.now => f.files[n] = e.files[n]
  /\ \A k \in Key : Recalled(f, k) = Recalled(e, k)

LEMMA SameOrder ==
  ASSUME NEW e, NEW f, e.sst = f.sst, e.files = f.files
  PROVE  /\ Ordered(e) => Ordered(f)
         /\ \A b : FitsBoth(e, b) => FitsBoth(f, b)
BY DEF Ordered, FitsBoth, Fits

LEMMA FlushOrdered ==
  ASSUME NEW e, EngineOK(e), Forward, NEW f \in flush_memtable(e)
  PROVE  KeepsFiles(e, f)
<1>0. e \in EngineType /\ FreshEngine(e) /\ e.now \in Int
  BY DEF EngineOK, EngineType
<1>1. CASE f = e
  BY <1>1 DEF KeepsFiles
<1>2. ASSUME NEW first \in IF e.imm = None THEN {e} ELSE WriteTable(e, e.imm),
             f = Moved(first) \/ \E w \in WriteTable(Moved(first), Moved(first).imm) :
                                   f = Dropped(w)
      PROVE  KeepsFiles(e, f)
  <2>1. /\ first \in EngineType /\ FreshEngine(first) /\ first.now >= e.now
        /\ first.mem = e.mem /\ (Ordered(e) => Ordered(first))
        /\ \A b : FitsBoth(e, b) /\ NoneAfter(e.now, b) => FitsBoth(first, b)
        /\ \A n \in Time : n <= e.now => first.files[n] = e.files[n]
        /\ \A k \in Key : FilesGet(first.files, k) =
             IF e.imm # None /\ Found(e.imm, k) THEN e.imm[k] ELSE FilesGet(e.files, k)
    <3>1. CASE e.imm = None
      BY <1>0, <1>2, <3>1
    <3>2. CASE e.imm # None
      <4>1. e.imm \in Table /\ first \in WriteTable(e, e.imm)
        BY <1>0, <1>2, <3>2 DEF EngineType
      <4>2. /\ first \in EngineType /\ FreshEngine(first) /\ first.now > e.now
            /\ first.mem = e.mem
        BY <1>0, <4>1, WriteTyped, WriteFresh
      <4>3. /\ Ordered(e) => Ordered(first)
            /\ \A b : FitsBoth(e, b) /\ NoneAfter(e.now, b) => FitsBoth(first, b)
            /\ \A n \in Time : n <= e.now => first.files[n] = e.files[n]
            /\ \A k \in Key : FilesGet(first.files, k) =
                 IF Found(e.imm, k) THEN e.imm[k] ELSE FilesGet(e.files, k)
        BY <1>0, <4>1, WriteOrdered
      <4>4. first.now >= e.now
        BY <1>0, <4>2 DEF EngineType
      <4>. QED
        BY <3>2, <4>2, <4>3, <4>4
    <3>. QED
      BY <3>1, <3>2
  <2> DEFINE m == Moved(first)
  <2>2. /\ m \in EngineType /\ m.imm = e.mem /\ m.imm \in Table /\ m.mem = Empty
        /\ m.files = first.files /\ m.sst = first.sst /\ m.now = first.now
    BY <1>0, <2>1, MovedEngine DEF EngineType
  <2>. HIDE DEF m
  <2>3. /\ FreshEngine(m) /\ m.now >= e.now /\ m.now \in Int
        /\ Ordered(e) => Ordered(m)
        /\ \A b : FitsBoth(e, b) /\ NoneAfter(e.now, b) => FitsBoth(m, b)
        /\ \A n \in Time : n <= e.now => m.files[n] = e.files[n]
    <3>1. /\ Ordered(first) => Ordered(m)
          /\ \A b : FitsBoth(first, b) => FitsBoth(m, b)
      BY <2>2, SameOrder
    <3>2. FreshEngine(m) /\ m.now >= e.now /\ m.now \in Int
      BY <2>1, <2>2 DEF FreshEngine, EngineType
    <3>. QED
      BY <2>1, <2>2, <3>1, <3>2
  <2>4. \A k \in Key : Recalled(e, k) =
          IF Found(m.imm, k) THEN m.imm[k] ELSE FilesGet(m.files, k)
    BY <2>1, <2>2 DEF Recalled
  <2>5. \A k \in Key : ~ Found(Empty, k)
    BY MarkAssumption DEF Found, Empty
  <2>6. CASE f = m
    <3>1. m.imm # None
      BY <2>2, MarkAssumption
    <3>2. \A k \in Key : Recalled(m, k) = Recalled(e, k)
      BY <2>2, <2>4, <2>5, <3>1 DEF Recalled
    <3>. QED
      BY <2>3, <2>6, <3>2 DEF KeepsFiles
  <2>7. ASSUME NEW w \in WriteTable(m, m.imm), f = Dropped(w)
        PROVE  KeepsFiles(e, f)
    <3>1. w \in EngineType /\ w.mem = Empty
      BY <2>2, WriteTyped
    <3>2. /\ Ordered(m) => Ordered(w)
          /\ \A b : FitsBoth(m, b) /\ NoneAfter(m.now, b) => FitsBoth(w, b)
          /\ \A n \in Time : n <= m.now => w.files[n] = m.files[n]
          /\ \A k \in Key : FilesGet(w.files, k) =
               IF Found(m.imm, k) THEN m.imm[k] ELSE FilesGet(m.files, k)
      BY <2>2, <2>3, WriteOrdered
    <3>3. f.mem = Empty /\ f.imm = None /\ f.sst = w.sst /\ f.files = w.files
      BY <2>7, <3>1, DroppedEngine
    <3>4. /\ Ordered(w) => Ordered(f)
          /\ \A b : FitsBoth(w, b) => FitsBoth(f, b)
      BY <3>3, SameOrder
    <3>5. ASSUME NEW b, NoneAfter(e.now, b) PROVE NoneAfter(m.now, b)
      BY <1>0, <2>3, <3>5 DEF NoneAfter, Time
    <3>6. ASSUME NEW b, FitsBoth(e, b), NoneAfter(e.now, b) PROVE FitsBoth(f, b)
      BY <2>3, <3>2, <3>4, <3>5, <3>6
    <3>7. ASSUME NEW n \in Time, n <= e.now PROVE f.files[n] = e.files[n]
      <4>1. n <= m.now
        BY <1>0, <2>3, <3>7 DEF Time
      <4>. QED
        BY <2>3, <3>2, <3>3, <3>7, <4>1
    <3>8. \A k \in Key : Recalled(f, k) = Recalled(e, k)
      BY <2>4, <2>5, <3>2, <3>3 DEF Recalled
    <3>9. Ordered(e) => Ordered(f)
      BY <2>3, <3>2, <3>4
    <3>. QED
      BY <3>6, <3>7, <3>8, <3>9 DEF KeepsFiles
  <2>. QED
    BY <1>2, <2>6, <2>7 DEF m
<1>. QED
  BY <1>0, <1>1, <1>2, Flushed

\* A compaction drops the first tables, and leaves their files.
LEMMA CompactOrdered ==
  ASSUME NEW e \in EngineType
  PROVE  KeepsFiles(e, compact_sstables(e)) /\ compact_sstables(e).now = e.now
<1>0. e.sst \in Seq(Descriptor) /\ Len(e.sst) \in Nat /\ DOMAIN e.sst = 1..Len(e.sst)
  BY DEF EngineType
<1>1. CASE Len(e.sst) < 2
  BY <1>1 DEF compact_sstables, KeepsFiles
<1>2. CASE Len(e.sst) >= 2
  <2> DEFINE c == compact_sstables(e)
  <2>1. /\ c \in EngineType /\ c.mem = e.mem /\ c.imm = e.imm /\ c.files = e.files
        /\ c.now = e.now /\ Len(c.sst) = Len(e.sst) - 2
        /\ \A i \in 1..(Len(e.sst) - 2) : c.sst[i] = e.sst[i + 2]
    BY <1>2, Compacted
  <2>. HIDE DEF c
  <2>2. /\ DOMAIN c.sst = 1..(Len(e.sst) - 2)
        /\ \A i \in DOMAIN c.sst : i \in Int /\ i + 2 \in DOMAIN e.sst /\ c.sst[i] = e.sst[i + 2]
    <3>1. c.sst \in Seq(Descriptor)
      BY <2>1 DEF EngineType
    <3>. QED
      BY <1>0, <2>1, <3>1
  <2>3. ASSUME Ordered(e), NEW i \in DOMAIN c.sst, NEW m \in Good(c.files), m > c.sst[i].name
        PROVE  \E j \in DOMAIN c.sst : j > i /\ c.sst[j].name = m
    <3>1. m \in Good(e.files) /\ m > e.sst[i + 2].name /\ i \in Int /\ i >= 1
      BY <1>0, <2>1, <2>2, <2>3
    <3>2. PICK j \in DOMAIN e.sst : j > i + 2 /\ e.sst[j].name = m
      BY <2>2, <2>3, <3>1 DEF Ordered
    <3> DEFINE p == j - 2
    <3>3. p \in Int /\ p + 2 = j /\ p > i /\ p \in DOMAIN c.sst
      BY <1>0, <2>2, <3>1, <3>2
    <3>. HIDE DEF p
    <3>. QED
      BY <2>2, <3>2, <3>3
  <2>4. ASSUME NEW fs, Fits(e, fs) PROVE Fits(c, fs)
    BY <2>2, <2>4 DEF Fits
  <2>5. \A k \in Key : Recalled(c, k) = Recalled(e, k)
    BY <2>1 DEF Recalled
  <2>6. Ordered(e) => Ordered(c)
    BY <2>3 DEF Ordered
  <2>7. \A b : FitsBoth(e, b) => FitsBoth(c, b)
    BY <2>1, <2>4 DEF FitsBoth
  <2>8. KeepsFiles(e, c)
    BY <2>1, <2>5, <2>6, <2>7 DEF KeepsFiles
  <2>. QED
    BY <2>1, <2>8 DEF c
<1>. QED
  BY <1>0, <1>1, <1>2

LEMMA RoundOrdered ==
  ASSUME NEW e, EngineOK(e), Forward, NEW f \in BackgroundRound(e)
  PROVE  KeepsFiles(e, f)
<1>1. PICK g \in (IF should_flush(e.mem) THEN flush_memtable(e) ELSE {e}) :
        f = IF need_compaction(g) THEN compact_sstables(g) ELSE g
  BY DEF BackgroundRound
<1>2. KeepsFiles(e, g) /\ EngineOK(g) /\ g.now >= e.now
  <2>1. e.now >= e.now
    BY DEF EngineOK, EngineType
  <2>. QED
    BY <2>1, FlushOK, FlushOrdered DEF KeepsFiles
<1>3. CASE need_compaction(g)
  <2>1. KeepsFiles(g, f) /\ f = compact_sstables(g)
    BY <1>1, <1>2, <1>3, CompactOrdered DEF EngineOK
  <2>2. e.now \in Int /\ g.now \in Int
    BY <1>2 DEF EngineOK, EngineType
  <2>3. \A n \in Time : n <= e.now => n <= g.now
    BY <1>2, <2>2 DEF Time
  <2>4. \A b : NoneAfter(e.now, b) => NoneAfter(g.now, b)
    BY <1>2, <2>2 DEF Time, NoneAfter
  <2>. QED
    BY <1>2, <2>1, <2>3, <2>4 DEF KeepsFiles
<1>. QED
  BY <1>1, <1>2, <1>3

\* After open the tables of the files come last, in the order of the names.
LEMMA OpenOrdered ==
  ASSUME LSMInv, Open, FitsBoth(Engine, backup)
  PROVE  /\ Ordered(Engine') /\ FitsBoth(Engine', backup)
         /\ PlainFiles(files) => \A k \in Key : TablesGet(Engine', k) = FilesGet(files, k)
<1>1. /\ sstables \in Seq(Descriptor) /\ Engine' \in EngineType
      /\ Engine'.sst = sstables' /\ Engine'.files = files
      /\ Engine.sst = sstables /\ Engine.files = files
  <2>1. EngineOK(Engine)'
    BY OpenOK
  <2>. QED
    BY <2>1 DEF LSMInv, TypeOK, Descriptor, Indexes, EngineOK, Open, Engine
<1>2. PICK torn \in SUBSET {n \in Time : files[n] = Torn} :
        sstables' = sstables \o load_sstables(torn)
  BY DEF Open
<1> DEFINE L == load_sstables(torn)
           N == Loaded(torn)
           l == Len(sstables)
           e == Engine'
<1>3. /\ L \in Seq(Descriptor) /\ Len(L) = Cardinality(N)
      /\ \A p \in DOMAIN L : /\ L[p].name \notin torn => L[p].index = load_index(files[L[p].name])
                             /\ L[p].name \in torn => L[p].index = NoIndex
      /\ \A n \in N : \E p \in DOMAIN L : L[p].name = n
      /\ \A p, q \in DOMAIN L : L[p].name < L[q].name => p < q
      /\ \A p \in DOMAIN L : L[p].name \in N
  <2>1. L \in Seq(Descriptor) /\ Len(L) = Cardinality(N) /\ DOMAIN L = 1..Cardinality(N)
    BY LoadedTables
  <2>. QED
    BY <2>1, LoadedTables, LoadedInOrder
<1>. HIDE DEF L
<1>4. /\ l \in Nat /\ Len(L) \in Nat /\ DOMAIN L = 1..Len(L) /\ DOMAIN sstables = 1..l
      /\ DOMAIN e.sst = 1..(l + Len(L))
      /\ \A p \in DOMAIN L : e.sst[l + p] = L[p] /\ l + p \in DOMAIN e.sst
      /\ \A p \in DOMAIN sstables : e.sst[p] = sstables[p]
      /\ \A p \in DOMAIN L : L[p] \in Descriptor
  BY <1>1, <1>2, <1>3 DEF L
<1>5. \A m \in Good(files) : \E p \in DOMAIN L : L[p].name = m
  <2>1. Good(files) \subseteq N
    BY DEF Loaded, Good
  <2>. QED
    BY <1>3, <2>1
<1>. HIDE DEF l, e, N
<1>6. ASSUME NEW i \in DOMAIN e.sst PROVE i \in DOMAIN sstables \/ \E q \in DOMAIN L : i = l + q
  <2>1. i \in Int /\ i >= 1 /\ i <= l + Len(L) /\ l \in Int /\ Len(L) \in Int
    BY <1>4
  <2>2. CASE i <= l
    BY <1>4, <2>1, <2>2
  <2>3. CASE i > l
    <3>1. i - l \in DOMAIN L /\ i = l + (i - l)
      BY <1>4, <2>1, <2>3
    <3>. QED
      BY <3>1
  <2>. QED
    BY <2>1, <2>2, <2>3
<1>7. ASSUME NEW i \in DOMAIN e.sst, NEW m \in Good(e.files), m > e.sst[i].name
      PROVE  \E j \in DOMAIN e.sst : j > i /\ e.sst[j].name = m
  <2>1. PICK p \in DOMAIN L : L[p].name = m
    BY <1>1, <1>5 DEF e
  <2>2. i \in 1..(l + Len(L)) /\ i \in Int /\ p \in 1..Len(L) /\ p \in Int
    BY <1>4
  <2>3. e.sst[l + p].name = m /\ l + p \in DOMAIN e.sst
    BY <1>4, <2>1
  <2>4. l + p > i
    <3>1. CASE i \in DOMAIN sstables
      BY <1>4, <2>2, <3>1
    <3>2. ASSUME NEW q \in DOMAIN L, i = l + q PROVE l + p > i
      <4>1. e.sst[i] = L[q] /\ q \in Int
        BY <1>4, <3>2
      <4>2. L[q].name \in Int /\ L[p].name \in Int
        BY <1>4 DEF Descriptor, Time
      <4>3. L[q].name < L[p].name
        BY <1>7, <2>1, <4>1, <4>2
      <4>4. q < p
        BY <1>3, <4>3
      <4>. QED
        BY <1>4, <2>2, <3>2, <4>1, <4>4
    <3>. QED
      BY <1>6, <3>1, <3>2
  <2>. QED
    BY <2>3, <2>4
<1>8. Ordered(e)
  BY <1>7 DEF Ordered
<1>9. \A n \in Good(files) \cap Good(backup) : files[n] = backup[n]
  BY <1>1 DEF FitsBoth
<1>10. ASSUME NEW fs, fs = files \/ fs = backup PROVE Fits(e, fs)
  <2>. SUFFICES ASSUME NEW i \in DOMAIN e.sst, e.sst[i].name \in Good(fs)
                PROVE  e.sst[i].index \in {NoIndex, written_index(fs[e.sst[i].name]),
                                           load_index(fs[e.sst[i].name])}
    BY DEF Fits
  <2>1. CASE i \in DOMAIN sstables
    BY <1>1, <1>4, <1>10, <2>1 DEF FitsBoth, Fits
  <2>2. ASSUME NEW q \in DOMAIN L, i = l + q
        PROVE  e.sst[i].index \in {NoIndex, load_index(fs[e.sst[i].name])}
    <3>1. e.sst[i] = L[q] /\ L[q].name \in N
      BY <1>3, <1>4, <2>2
    <3>2. CASE L[q].name \in torn
      BY <1>3, <3>1, <3>2
    <3>3. CASE L[q].name \notin torn
      <4>1. L[q].name \in Good(files)
        BY <3>1, <3>3 DEF N, Loaded, Good
      <4>2. files[L[q].name] = fs[L[q].name]
        BY <1>9, <1>10, <3>1, <4>1
      <4>. QED
        BY <1>3, <3>1, <3>3, <4>2
    <3>. QED
      BY <3>2, <3>3
  <2>. QED
    BY <1>6, <2>1, <2>2
<1>11. FitsBoth(e, backup) /\ e \in EngineType /\ e.files = files
  BY <1>1, <1>9, <1>10 DEF FitsBoth, e
<1>12. ASSUME PlainFiles(files), NEW k \in Key PROVE TablesGet(e, k) = FilesGet(files, k)
  <2>1. CASE FileHits(files, k) = {}
    <3>1. HitsIn(e, k) = {}
      <4>1. HitsIn(e, k) \subseteq DOMAIN e.sst
        BY DEF HitsIn
      <4>. QED
        BY <1>11, <1>12, <2>1, <4>1, PlainHits DEF FitsBoth
    <3>. QED
      BY <2>1, <3>1 DEF TablesGet, FilesGet
  <2>2. CASE FileHits(files, k) # {}
    <3>1. PICK m \in FileHits(files, k) : TRUE
      BY <2>2
    <3>2. PICK p \in DOMAIN L : L[p].name = m
      BY <1>5 DEF FileHits
    <3>3. l + p \in DOMAIN e.sst /\ e.sst[l + p].name = m
      BY <1>4, <3>2
    <3>4. l + p \in HitsIn(e, k)
      BY <1>11, <1>12, <3>3, PlainHits DEF FitsBoth
    <3>. QED
      BY <1>8, <1>11, <1>12, <3>4, OrderedReads DEF FitsBoth
  <2>. QED
    BY <2>1, <2>2
<1>. QED
  BY <1>8, <1>11, <1>12 DEF e

\* What is known of the files beyond LSMInv when no name is used twice.  (A
\* restore may leave a closed engine out of order; open restores the order.)
InOrder == is_open \/ closed_view # None => Ordered(Engine)

\* What was answered when close finished can still be read in the files.
ViewKept ==
  ~ is_open /\ closed_view # None /\ PlainFiles(files)
    => \A k \in Key : closed_view[k] # Absent => Recalled(Engine, k) = closed_view[k]

FilesInv == FitsBoth(Engine, backup) /\ InOrder /\ ViewKept

\* Every step is one of the engine's.
LEMMA HistoryStep == [HNext]_hvars => [Next]_vars
<1>. SUFFICES ASSUME [HNext]_hvars PROVE [Next]_vars
  OBVIOUS
<1>1. CASE HOther
  BY <1>1 DEF HOther, Next
<1>2. CASE HCrashOrRestore
  BY <1>2 DEF HCrashOrRestore, Next
<1>3. CASE UNCHANGED hvars
  BY <1>3 DEF hvars
<1>. QED
  BY <1>1, <1>2, <1>3 DEF HNext, HCloseEnd, HExit, Next

\* A step that flushes or compacts, whoever asks for it.
LEMMA WorkKeepsFiles ==
  ASSUME Forward, LSMInv, NEW e, EngineBecomes(e),
         \/ e \in flush_memtable(Engine)
         \/ e = compact_sstables(Engine)
         \/ e \in BackgroundRound(Engine)
  PROVE  /\ KeepsFiles(Engine, Engine')
         /\ FitsBoth(Engine, backup) => FitsBoth(Engine', backup)
         /\ PlainFiles(files') => PlainFiles(files)
<1>0. EngineOK(Engine) /\ Engine \in EngineType /\ NoneAfter(now, backup)
  BY DEF LSMInv, EngineOK, BackupOK
<1>1. EngineOK(e)
  BY <1>0, FlushOK, CompactOK, RoundOK
<1>2. Engine' = e /\ e.files = files' /\ Engine.files = files /\ Engine.now = now
  BY <1>1, EngineNext, EngineFields DEF EngineOK, EngineBecomes
<1>3. KeepsFiles(Engine, Engine')
  BY <1>0, <1>2, FlushOrdered, CompactOrdered, RoundOrdered
<1>4. FitsBoth(Engine, backup) => FitsBoth(Engine', backup)
  BY <1>0, <1>2, <1>3 DEF KeepsFiles
<1>5. ASSUME PlainFiles(files') PROVE PlainFiles(files)
  <2>1. NoneAfter(now, files) /\ now \in Int
    BY <1>0, <1>2 DEF EngineOK, FreshEngine, EngineType
  <2>2. ASSUME NEW n \in Time, files[n] \notin {None, Torn} PROVE files'[n] = files[n]
    <3>1. n <= now
      BY <2>1, <2>2 DEF NoneAfter, Time
    <3>. QED
      BY <1>2, <1>3, <3>1 DEF KeepsFiles
  <2>. QED
    BY <1>5, <2>2 DEF PlainFiles
<1>. QED
  BY <1>3, <1>4, <1>5

\* Those steps, and what they leave alone.
Work == Flush \/ Compact \/ BackgroundWork \/ \E c \in Closer : CloseEnd(c)

LEMMA WorkStep ==
  ASSUME Forward, LSMInv, Work
  PROVE  /\ KeepsFiles(Engine, Engine')
         /\ FitsBoth(Engine, backup) => FitsBoth(Engine', backup)
         /\ PlainFiles(files') => PlainFiles(files)
         /\ backup' = backup
<1>1. backup' = backup
  BY DEF Work, Flush, BackgroundWork, Compact, CloseEnd
<1>2. \E e : /\ EngineBecomes(e)
             /\ \/ e \in flush_memtable(Engine)
                \/ e = compact_sstables(Engine)
                \/ e \in BackgroundRound(Engine)
  BY DEF Work, Flush, BackgroundWork, Compact, CloseEnd
<1>. QED
  BY <1>1, <1>2, WorkKeepsFiles

\* The steps that leave the engine's tables and files alone.
Writing == (\E k \in Stored, n \in Stamp : Put(k, n)) \/ \E k \in Removed : Remove(k)
Idle == \/ Backup \/ BackgroundWait \/ UNCHANGED vars
        \/ \E c \in Closer : CloseBegin(c) \/ CloseJoin(c) \/ CloseError(c)

LEMMA IdleStep == Idle => Engine' = Engine /\ is_open' = is_open /\ files' = files
<1>. SUFFICES ASSUME Idle PROVE Engine' = Engine /\ is_open' = is_open /\ files' = files
  OBVIOUS
<1>1. UNCHANGED engineVars /\ is_open' = is_open
  BY DEF Idle, Backup, BackgroundWait, vars, CloseBegin, CloseJoin, CloseError, lifeVars
<1>. QED
  BY <1>1 DEF engineVars, Engine

LEMMA WritingStep ==
  ASSUME Writing
  PROVE  /\ Engine'.sst = Engine.sst /\ Engine'.files = Engine.files
         /\ backup' = backup /\ is_open /\ is_open' = is_open
BY DEF Writing, Remove, Put, Engine, lifeVars

LEMMA FitsStep ==
  ASSUME Forward, LSMInv, FitsBoth(Engine, backup), [Next]_vars
  PROVE  FitsBoth(Engine', backup')
<1>1. CASE Writing
  BY <1>1, WritingStep, SameOrder
<1>2. CASE Work
  BY <1>2, WorkStep
<1>3. CASE Restore
  <2>1. PICK names : files' = Copied(names, backup, [n \in Time |-> None])
    BY <1>3 DEF Restore
  <2>2. /\ Engine'.sst = Engine.sst /\ Engine'.files = files' /\ backup' = backup
        /\ \A n \in Time : files'[n] \in {None, backup[n]}
    BY <1>3, <2>1 DEF Restore, Copied, Engine
  <2>3. \A n \in Good(files') : n \in Good(backup) /\ files'[n] = backup[n]
    BY <2>2 DEF Good
  <2>. QED
    BY <2>2, <2>3 DEF FitsBoth, Fits
<1>4. CASE Open
  <2>1. backup' = backup
    BY <1>4 DEF Open
  <2>. QED
    BY <1>4, <2>1, OpenOrdered
<1>5. CASE Exit \/ Crash
  <2>1. Engine'.sst = <<>> /\ Engine'.files = files' /\ backup' = backup
    BY <1>5 DEF Exit, Crash, MemoryLost, Engine
  <2>2. \A n \in Good(files') : n \in Good(files) /\ files'[n] = files[n]
    <3>0. files \in Files
      BY DEF LSMInv, TypeOK, Files
    <3>1. files' = files \/ \E m \in Time : files' = [files EXCEPT ![m] = Torn]
      BY <1>5 DEF Exit, Crash, generate_sstable_filename
    <3>. QED
      BY <3>0, <3>1 DEF Good, Files
  <2>3. \A n \in Good(files) \cap Good(backup) : files[n] = backup[n]
    BY EngineFields DEF FitsBoth
  <2>4. \A fs : Fits(Engine', fs)
    BY <2>1 DEF Fits
  <2>. QED
    BY <2>1, <2>2, <2>3, <2>4 DEF FitsBoth
<1>6. CASE Backup
  <2>1. PICK names : backup' = Copied(names, files, backup)
    BY <1>6 DEF Backup
  <2>2. \A n \in Time : backup'[n] \in {files[n], backup[n]}
    BY <2>1 DEF Copied
  <2>3. Engine' = Engine /\ Engine.files = files
    BY <1>6, IdleStep, EngineFields DEF Idle
  <2>4. \A n \in Good(backup') : \/ n \in Good(files) /\ backup'[n] = files[n]
                                 \/ n \in Good(backup) /\ backup'[n] = backup[n]
    BY <2>2 DEF Good
  <2>5. Fits(Engine, backup')
    <3>. SUFFICES ASSUME NEW i \in DOMAIN Engine.sst, Engine.sst[i].name \in Good(backup')
                  PROVE  Engine.sst[i].index
                           \in {NoIndex, written_index(backup'[Engine.sst[i].name]),
                                load_index(backup'[Engine.sst[i].name])}
      BY DEF Fits
    <3>. QED
      BY <2>3, <2>4 DEF FitsBoth, Fits
  <2>. QED
    BY <2>3, <2>4, <2>5 DEF FitsBoth
<1>7. CASE Idle /\ ~ Backup
  <2>1. backup' = backup
    BY <1>7 DEF Idle, BackgroundWait, vars, CloseBegin, CloseJoin, CloseError
  <2>. QED
    BY <1>7, <2>1, IdleStep
<1>. QED
  BY <1>1, <1>2, <1>3, <1>4, <1>5, <1>6, <1>7 DEF Next, Idle, Work, Writing

LEMMA OrderStep ==
  ASSUME Forward, LSMInv, FilesInv, [HNext]_hvars
  PROVE  InOrder'
<1>1. CASE Open
  BY <1>1, OpenOrdered DEF FilesInv, InOrder
<1>2. CASE HCrashOrRestore
  <2>1. closed_view' = None
    BY <1>2 DEF HCrashOrRestore
  <2>2. ~ is_open'
    <3>1. CASE Crash
      BY <3>1 DEF Crash, MemoryLost
    <3>2. CASE Restore
      <4>1. ~ is_open /\ is_open' = is_open
        BY <3>2 DEF Restore, lifeVars
      <4>. QED
        BY <4>1, Zenon
    <3>. QED
      BY <1>2, <3>1, <3>2 DEF HCrashOrRestore
  <2>. QED
    BY <2>1, <2>2 DEF InOrder
<1>3. CASE HExit
  <2>1. Engine'.sst = <<>>
    BY <1>3 DEF HExit, Exit, MemoryLost, Engine
  <2>. QED
    BY <2>1 DEF InOrder, Ordered
<1>4. CASE /\ Writing \/ Work \/ Idle
           /\ HOther \/ UNCHANGED hvars \/ \E c \in Closer : HCloseEnd(c)
  <2>1. Ordered(Engine) => Ordered(Engine')
    BY <1>4, WritingStep, SameOrder, WorkStep, IdleStep DEF KeepsFiles
  <2>2. CASE closed_view' = closed_view
    <3>1. is_open' => is_open
      <4>1. is_open' = is_open \/ is_open' = FALSE
        BY <1>4, WritingStep, IdleStep DEF Work, Flush, Compact, BackgroundWork, CloseEnd, lifeVars
      <4>. QED
        BY <4>1, Zenon
    <3>. QED
      BY <2>1, <2>2, <3>1 DEF FilesInv, InOrder
  <2>3. CASE is_open
    BY <2>1, <2>3 DEF FilesInv, InOrder
  <2>4. closed_view' = closed_view \/ is_open
    BY <1>4 DEF HOther, hvars, HCloseEnd
  <2>. QED
    BY <2>2, <2>3, <2>4
<1>. QED
  BY <1>1, <1>2, <1>3, <1>4 DEF HNext, HOther, HCloseEnd, hvars, Writing, Work, Idle

LEMMA ViewStep ==
  ASSUME Forward, LSMInv, FilesInv, [HNext]_hvars
  PROVE  ViewKept'
<1>0. Engine \in EngineType /\ Engine.files = files
  BY EngineFields DEF LSMInv, EngineOK
<1>1. ASSUME closed_view' = closed_view, ~ is_open' => ~ is_open,
             PlainFiles(files') => PlainFiles(files),
             \A k \in Key : Recalled(Engine', k) = Recalled(Engine, k)
      PROVE  ViewKept'
  BY <1>1 DEF ViewKept, FilesInv
<1>2. CASE Open \/ Flush \/ Compact \/ Writing
  <2>1. is_open'
    <3>1. CASE Open
      BY <3>1 DEF Open
    <3>2. CASE ~ Open
      <4>1. is_open /\ is_open' = is_open
        BY <1>2, <3>2, WritingStep DEF Flush, Compact, lifeVars
      <4>. QED
        BY <4>1, Zenon
    <3>. QED
      BY <3>1, <3>2
  <2>. QED
    BY <2>1 DEF ViewKept
<1>3. CASE HCrashOrRestore
  <2>1. closed_view' = None
    BY <1>3 DEF HCrashOrRestore
  <2>. QED
    BY <2>1 DEF ViewKept
<1>4. ASSUME NEW c \in Closer, HCloseEnd(c) PROVE ViewKept'
  <2>1. /\ \A k \in Key : Recalled(Engine', k) = Recalled(Engine, k)
        /\ PlainFiles(files') => PlainFiles(files)
    BY <1>4, WorkStep DEF HCloseEnd, Work, KeepsFiles
  <2>2. CASE is_open
    <3>1. \A k \in Key : closed_view'[k] = GetIn(Engine, k)
      BY <1>4, <2>2, GetOfEngine DEF HCloseEnd
    <3>2. ASSUME PlainFiles(files), NEW k \in Key, GetIn(Engine, k) # Absent
          PROVE  Recalled(Engine, k) = GetIn(Engine, k)
      BY <1>0, <2>2, <3>2, OrderedRecalls DEF FilesInv, InOrder, FitsBoth
    <3>. QED
      BY <2>1, <3>1, <3>2 DEF ViewKept
  <2>3. CASE ~ is_open
    BY <1>1, <1>4, <2>1, <2>3 DEF HCloseEnd
  <2>. QED
    BY <2>2, <2>3
<1>5. CASE HExit
  <2>1. CASE immutable = None /\ Entries(memtable) = {}
    <3>1. closed_view' = closed_view /\ ~ is_open /\ files' = files
      BY <1>5, <2>1 DEF HExit, Exit
    <3>2. ASSUME NEW k \in Key PROVE Recalled(Engine', k) = Recalled(Engine, k)
      <4>1. /\ Engine'.mem = Empty /\ Engine'.imm = None /\ Engine'.files = files
            /\ Engine.mem = memtable /\ Engine.imm = None /\ Engine.files = files
        BY <1>5, <2>1 DEF HExit, Exit, MemoryLost, Engine
      <4>2. ~ Found(Empty, k) /\ ~ Found(memtable, k)
        BY <2>1, MarkAssumption DEF Found, Empty, Entries
      <4>. QED
        BY <4>1, <4>2 DEF Recalled
    <3>. QED
      BY <1>1, <3>1, <3>2
  <2>2. CASE ~ (immutable = None /\ Entries(memtable) = {})
    <3>1. closed_view' = None
      BY <1>5, <2>2 DEF HExit
    <3>. QED
      BY <3>1 DEF ViewKept
  <2>. QED
    BY <2>1, <2>2
<1>6. CASE BackgroundWork /\ closed_view' = closed_view
  <2>1. /\ \A k \in Key : Recalled(Engine', k) = Recalled(Engine, k)
        /\ PlainFiles(files') => PlainFiles(files)
    BY <1>6, WorkStep DEF Work, KeepsFiles
  <2>2. ~ is_open' => ~ is_open
    <3>1. is_open' = is_open
      BY <1>6 DEF BackgroundWork
    <3>. QED
      BY <3>1, Zenon
  <2>. QED
    BY <1>1, <1>6, <2>1, <2>2
<1>7. CASE Idle /\ closed_view' = closed_view
  <2>1. is_open' = is_open /\ Engine' = Engine /\ files' = files
    BY <1>7, IdleStep
  <2>2. ~ is_open' => ~ is_open
    BY <2>1, Zenon
  <2>. QED
    BY <1>1, <1>7, <2>1, <2>2
<1>8. CASE HOther
  BY <1>2, <1>6, <1>7, <1>8 DEF HOther, Idle, Writing
<1>9. CASE UNCHANGED hvars
  BY <1>7, <1>9 DEF hvars, Idle
<1>. QED
  BY <1>3, <1>4, <1>5, <1>8, <1>9 DEF HNext

LEMMA FilesInit == HInit => FilesInv
<1>. SUFFICES ASSUME HInit PROVE FilesInv
  OBVIOUS
<1>1. Engine.sst = <<>> /\ Engine.files = files /\ \A n \in Time : files[n] = None
  BY DEF HInit, Init, Engine
<1>2. FitsBoth(Engine, backup)
  BY <1>1 DEF FitsBoth, Fits, Good
<1>3. InOrder
  BY <1>1 DEF InOrder, Ordered
<1>4. ViewKept
  BY DEF HInit, ViewKept
<1>. QED
  BY <1>2, <1>3, <1>4 DEF FilesInv

\* A value that get answered when close finished is answered again after the
\* next open, by the same engine or by one of a new process, whatever was
\* flushed, compacted, backed up and restored before, as long as no two files
\* get the same name and no entry of the files has a colon in its primary key,
\* which is where splitting a key string does not undo joining it.
THEOREM ReopensKeepReads ==
  ASSUME Forward
  PROVE  HSpec => ReopenKeepsReads
<1>. DEFINE Again == Open /\ closed_view # None /\ PlainFiles(files)
                       => \A k \in Key : closed_view[k] # Absent
                                           => get(k)' = closed_view[k]
            Inv == LSMInv /\ FilesInv
<1>1. HInit => Inv
  BY LSMInit, FilesInit DEF HInit
<1>2. ASSUME Inv, [HNext]_hvars PROVE Inv'
  <2>1. [Next]_vars
    BY <1>2, HistoryStep
  <2>2. LSMInv'
    BY <1>2, <2>1, LSMStep
  <2>3. FitsBoth(Engine', backup')
    BY <1>2, <2>1, FitsStep DEF FilesInv
  <2>4. InOrder' /\ ViewKept'
    BY <1>2, OrderStep, ViewStep
  <2>. QED
    BY <2>2, <2>3, <2>4 DEF FilesInv
<1>3. ASSUME Inv PROVE Again
  <2>. SUFFICES ASSUME Open, closed_view # None, PlainFiles(files),
                       NEW k \in Key, closed_view[k] # Absent
                PROVE  get(k)' = closed_view[k]
    OBVIOUS
  <2>1. Recalled(Engine, k) = closed_view[k]
    BY <1>3 DEF FilesInv, ViewKept, Open
  <2>2. /\ Engine'.mem = Engine.mem /\ Engine'.imm = Engine.imm
        /\ Engine.files = files
    BY <1>3, RecoverNothing DEF Open, Engine, LSMInv, TypeOK
  <2>3. TablesGet(Engine', k) = FilesGet(files, k)
    BY <1>3, OpenOrdered DEF FilesInv
  <2>4. GetIn(Engine', k) = Recalled(Engine, k)
    BY <2>2, <2>3 DEF GetIn, Recalled
  <2>. QED
    BY <2>1, <2>4, GetOfNextEngine
<1>4. Inv => [Again]_hvars
  BY <1>3
<1>. QED
  BY <1>1, <1>2, <1>4, PTL DEF HSpec, ReopenKeepsReads
=============================================================================
