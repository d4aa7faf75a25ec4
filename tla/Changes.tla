------------------------------- MODULE Changes -------------------------------
(***************************************************************************)
(* Entities and changes.  A change sets some attributes; an insertion also *)
(* carries the id ("whole").  An entity is what an insertion leaves.  An   *)
(* entry is what a set of changes (DBChanges) holds for one id.            *)
(***************************************************************************)
CONSTANTS
  Ids,     \* the ids of the entities of a collection
  Attrs,   \* their attributes, but for the id
  Values,  \* what an attribute may hold
  None     \* undefined: no entity, no change

Fields == UNION {[D -> Values] : D \in SUBSET Attrs}
Change == [whole : BOOLEAN, fields : Fields]
Entity == {c \in Change : c.whole}
Patch == {c \in Change : ~c.whole /\ DOMAIN c.fields # {}}

ASSUME NoneAssumption == None \notin Change

(* Definitions named Bad... are plausible bugs: each replaces the one it   *)
(* precedes to show that a property notices.                               *)

(* deepObjectAssign: the attributes of d over those of c.                  *)
BadMerge(c, d) == d
Merge(c, d) ==
  [whole |-> c.whole \/ d.whole,
   fields |-> [x \in DOMAIN c.fields \union DOMAIN d.fields |->
                 IF x \in DOMAIN d.fields THEN d.fields[x] ELSE c.fields[x]]]

(* Whether a change is an insertion; a change over another, if there is    *)
(* either.                                                                 *)
IsInsert(c) == c # None /\ c.whole
Over(c, d) == IF d = None THEN c ELSE IF c = None THEN d ELSE Merge(c, d)

(* What a buffer, or a transaction's changes, hold for an id.              *)
Entry == [set : Change \union {None}, del : BOOLEAN]
NoEntry == [set |-> None, del |-> FALSE]
Deletes == [set |-> None, del |-> TRUE]
NoEntries == [i \in Ids |-> NoEntry]

(* mergeDBChanges: a later entry into an earlier one.                      *)
BadMerged(l, u) == [set |-> Over(l.set, u.set), del |-> l.del \/ u.del]
Merged(l, u) ==
  [set |-> IF u.del THEN u.set ELSE Over(l.set, u.set), del |-> l.del \/ u.del]

(* EntityDataStore.applyChanges: the delete first; an update of nothing is *)
(* skipped, an insertion of something is merged.                           *)
Applied(e, ch) ==
  LET current == IF ch.del THEN None ELSE e
  IN  IF ch.set = None \/ (current = None /\ ~IsInsert(ch.set)) THEN current
      ELSE Over(current, ch.set)
=============================================================================
