----------------------------- MODULE RangeScan -----------------------------
(***************************************************************************)
(* range_scan of LSMTreeEngine over its layers, the memtable first and the *)
(* oldest table last, with the scans MemTable and SSTable make of one      *)
(* layer.  A layer maps a key to a value, to Tombstone or to Absent.       *)
(* Operators only: what is checked is a fact about all layers and queries. *)
(***************************************************************************)
EXTENDS Integers, FiniteSets

CONSTANTS ScanKey,    \* keys, as numbers in the order of MultiLevelKey
          ScanValue, Tombstone, Absent,
          Depth       \* bound on the number of layers

Layer == [ScanKey -> ScanValue \cup {Tombstone, Absent}]

\* RangeQuery; a limit of the number of keys is as good as any larger one.  (A
\* start after the end makes the loops run past the end of their containers.)
RangeQuery ==
  {q \in [start_key : ScanKey, end_key : ScanKey, inclusive_start : BOOLEAN,
          inclusive_end : BOOLEAN, limit : 0..Cardinality(ScanKey)] :
     q.start_key <= q.end_key}

\* lower_bound and upper_bound with their corrections: the end is always
\* included, whatever inclusive_end says.
in_range(q, k) ==
  /\ k >= q.start_key /\ k <= q.end_key
  /\ k = q.start_key => q.inclusive_start

\* The first n members of a set of keys.
Lowest(S, n) == {k \in S : Cardinality({j \in S : j < k}) < n}

\* The scan of one layer: its first entries in the range, up to the limit,
\* which deletion marks use up like values but do not appear.
layer_scan(layer, q) ==
  {k \in Lowest({j \in ScanKey : in_range(q, j) /\ layer[j] # Absent}, q.limit) :
     layer[k] # Tombstone}

\* An older layer's entry replaces a newer one's.
merge_OldestBug(layers, q, k) ==
  CHOOSE i \in DOMAIN layers :
    /\ k \in layer_scan(layers[i], q)
    /\ \A j \in (i + 1)..Cardinality(DOMAIN layers) : k \notin layer_scan(layers[j], q)

\* The layer whose entry for k gets into merged_results: the first that has one.
merge(layers, q, k) ==
  CHOOSE i \in DOMAIN layers :
    /\ k \in layer_scan(layers[i], q)
    /\ \A j \in 1..(i - 1) : k \notin layer_scan(layers[j], q)

range_scan(layers, q) ==
  LET found == UNION {layer_scan(layers[i], q) : i \in DOMAIN layers}
  IN  [k \in Lowest(found, q.limit) |-> layers[merge(layers, q, k)][k]]

-----------------------------------------------------------------------------
\* What get answers: the value in the newest layer that has one.
Valued(layers, k) == {i \in DOMAIN layers : layers[i][k] \in ScanValue}

Answer(layers, k) ==
  layers[CHOOSE i \in Valued(layers, k) : \A j \in Valued(layers, k) : i <= j][k]

\* The keys that a query asks for, by the meaning of its five fields.
Asked(q) ==
  {k \in ScanKey :
     /\ k > q.start_key \/ (k = q.start_key /\ q.inclusive_start)
     /\ k < q.end_key \/ (k = q.end_key /\ q.inclusive_end)}

\* What range_scan answers for the keys that the query asks for is what get
\* answers for the first of them that it finds, up to the limit, over layers
\* that overlap in any way; and the end key is the only other that it ever
\* answers, when it was not asked for but has a value (inclusive_end, FALSE by
\* default, is ignored).  Provided that the limit does not bind or nothing was
\* deleted: otherwise a deletion mark uses up the limit in its layer, and the
\* scan may answer with an older layer's value for the next key.
ScanAgreesWithGet ==
  \A n \in 1..Depth : \A layers \in [1..n -> Layer], q \in RangeQuery :
    \/ /\ q.limit < Cardinality(ScanKey)
       /\ \E i \in 1..n, k \in ScanKey : layers[i][k] = Tombstone
    \/ LET scan == range_scan(layers, q)
           due == Lowest({k \in Asked(q) : Valued(layers, k) # {}}, q.limit)
       IN  /\ DOMAIN scan \cap Asked(q) = due
           /\ \A k \in DOMAIN scan : scan[k] = Answer(layers, k)
           /\ \A k \in DOMAIN scan \ Asked(q) : k = q.end_key /\ ~ q.inclusive_end
=============================================================================
