--------------------------- MODULE MCObjectManager ---------------------------
(***************************************************************************)
(* A table of three slots, two types and three references: enough for a    *)
(* deletion within a deletion within a deletion, for a slot to be recycled *)
(* while references to its neighbour are owned, for one object to be       *)
(* referenced by several callers, and for the table and the registry to be *)
(* full.  "longA" is a name that does not fit the MAX_NAME_LEN buffer and  *)
(* is stored as "a".                                                       *)
(***************************************************************************)
EXTENDS ObjectManager, TLC

MCNames == {"a", "b", "longA"}
MCCut == [n \in MCNames |-> IF n = "longA" THEN "a" ELSE n]
MCSymmetry == Permutations(Refs) \cup Permutations(Bodies)
=============================================================================
