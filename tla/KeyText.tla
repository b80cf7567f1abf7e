------------------------------ MODULE KeyText ------------------------------
(***************************************************************************)
(* MultiLevelKey (src/include/cache/common/types.h) and the string that    *)
(* stands for it in an SSTable file.  A string is the sequence of its      *)
(* parts between colons, so that joining two strings with ':' appends one  *)
(* sequence to the other.  The parts are compared only for equality.       *)
(***************************************************************************)
EXTENDS Integers, Sequences

CONSTANTS Part,          \* strings without a colon, the empty one among them
          Key,           \* the MultiLevelKeys
          primary_key,   \* their two strings
          secondary_key

Text == Seq(Part) \ {<<>>}

\* primary_key + ":" + secondary_key.
to_string(k) == primary_key[k] \o secondary_key[k]

\* The file's key strings are split at the last colon.
from_string_LastColonBug(s) ==
  CHOOSE k \in Key : /\ primary_key[k] = SubSeq(s, 1, Len(s) - 1)
                     /\ secondary_key[k] = <<s[Len(s)]>>

\* load_index splits a key string at the first colon.
from_string(s) ==
  CHOOSE k \in Key : primary_key[k] = <<Head(s)>> /\ secondary_key[k] = Tail(s)

\* No colon in the primary part: splitting undoes joining.
Plain(k) == Len(primary_key[k]) = 1

\* Keys with the same strings are the same, and every key that a key's string
\* is read back as is among them.
ASSUME KeyAssumption ==
  /\ primary_key \in [Key -> Text] /\ secondary_key \in [Key -> Text]
  /\ \A j, k \in Key : /\ primary_key[j] = primary_key[k]
                       /\ secondary_key[j] = secondary_key[k]
                       => j = k
  /\ \A k \in Key : \E j \in Key : /\ primary_key[j] = <<Head(to_string(k))>>
                                   /\ secondary_key[j] = Tail(to_string(k))
=============================================================================
