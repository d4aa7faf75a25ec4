------------------------------ MODULE Snapshots ------------------------------
(***************************************************************************)
(* What the client's store promises, told without buffers, deletes or      *)
(* merges: for every entity there are four values,                         *)
(*   visible    what queries on the client show,                           *)
(*   pushed     what remains visible if the unsent writes are given up,    *)
(*   confirmed  what the client knows the server has,                      *)
(*   server     what the server has.                                       *)
(* Writes change the first; a push moves it down, one layer at a time.     *)
(* Overlay implements this with a cache and two buffers of changes.        *)
(***************************************************************************)
EXTENDS Changes

VARIABLES visible, pushed, confirmed, server
vars == <<visible, pushed, confirmed, server>>

Init ==
  /\ confirmed \in [Ids -> Entity \union {None}]
  /\ visible = confirmed
  /\ pushed = confirmed
  /\ server = confirmed

Insert(i, e) ==
  /\ visible[i] = None
  /\ visible' = [visible EXCEPT ![i] = e]
  /\ UNCHANGED <<pushed, confirmed, server>>

Update(i, c) ==
  /\ visible[i] # None
  /\ visible' = [visible EXCEPT ![i] = Merge(@, c)]
  /\ UNCHANGED <<pushed, confirmed, server>>

Delete(i) ==
  /\ visible[i] # None
  /\ visible' = [visible EXCEPT ![i] = None]
  /\ UNCHANGED <<pushed, confirmed, server>>

(* Unsent writes are given up.                                             *)
Clear(i) ==
  /\ visible' = [visible EXCEPT ![i] = pushed[i]]
  /\ UNCHANGED <<pushed, confirmed, server>>

ClearAll ==
  /\ visible' = pushed
  /\ UNCHANGED <<pushed, confirmed, server>>

(* A push starts, reaches the server, is confirmed or rejected.            *)
Push ==
  /\ pushed = confirmed
  /\ pushed' = visible
  /\ UNCHANGED <<visible, confirmed, server>>

Arrive ==
  /\ server' = pushed
  /\ UNCHANGED <<visible, pushed, confirmed>>

Confirm ==
  /\ server = pushed
  /\ confirmed' = pushed
  /\ UNCHANGED <<visible, pushed, server>>

Reject ==
  /\ server = confirmed
  /\ pushed' = confirmed
  /\ UNCHANGED <<visible, confirmed, server>>

Next ==
  \/ \E i \in Ids :
       \/ \E e \in Entity : Insert(i, e)
       \/ \E c \in Patch : Update(i, c)
       \/ Delete(i) \/ Clear(i)
  \/ ClearAll
  \/ Push \/ Arrive \/ Confirm \/ Reject

Spec == Init /\ [][Next]_vars
=============================================================================
