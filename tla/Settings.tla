------------------------------ MODULE Settings -------------------------------
(***************************************************************************)
(* The lists the configuration is read from (internal/config): BUCKETS and *)
(* IMAGES_SIZES, each split at its commas, its entries trimmed.            *)
(***************************************************************************)
EXTENDS MediaTypes, Integers

CONSTANTS
  Blank,   \* an entry with nothing in it
  Atoi     \* Atoi[e]: the number entry e of IMAGES_SIZES stands for, or Nil

\* Entries that are blank or no number are dropped, the others keep their order.
ImagesSizes(entries) ==
  LET numbers == SelectSeq(entries, LAMBDA e : e # Blank /\ Atoi[e] # Nil)
  IN  [i \in 1..Len(numbers) |-> Atoi[numbers[i]]]

\* Duplicates count once, and staging is always there.
GetBuckets(entries) ==
  ({entries[i] : i \in 1..Len(entries)} \ {Blank}) \cup {Staging}
=============================================================================
