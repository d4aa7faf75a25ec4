------------------------------ MODULE MCOverlay ------------------------------
(* TLC's runs of Overlay, and a check of how a transaction folds its       *)
(* operations, for every transaction of up to MaxOps operations on an id.  *)
EXTENDS Overlay, SequencesExt

MaxOps == 3

Operation == [kind : {"insert"}, c : Entity] \union [kind : {"update"}, c : Patch]
             \union [kind : {"delete"}]

(* What the operations mean one after the other; an operation that does    *)
(* not fit what is there gives "undefined".                                *)
Meaning(e, op) ==
  CASE op.kind = "insert" /\ e = <<>> -> <<op.c>>
    [] op.kind = "update" /\ Len(e) = 1 -> <<Merge(e[1], op.c)>>
    [] op.kind = "delete" /\ Len(e) = 1 -> <<>>
    [] OTHER -> <<None, None>>

Staged(ch, op) ==
  CASE op.kind = "insert" -> StagedInsert(ch, op.c)
    [] op.kind = "update" -> StagedUpdate(ch, op.c)
    [] op.kind = "delete" -> StagedDelete(ch)

(* However a transaction that fits what it finds is folded into one set    *)
(* and one delete, a query sees, and the server stores, what its           *)
(* operations mean one after the other.                                    *)
ASSUME TransactionsFold ==
  \A e \in Entity \union {None} : \A ops \in SeqOf(Operation, MaxOps) :
    LET meant == FoldLeft(Meaning, IF e = None THEN <<>> ELSE <<e>>, ops)
        folded == FoldLeft(Staged, NoEntry, ops)
        one == IF meant = <<>> THEN None ELSE meant[1]
    IN  Len(meant) < 2 => /\ OnCollection(e, folded) = one
                          /\ Applied(e, folded) = one
=============================================================================
