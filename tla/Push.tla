-------------------------------- MODULE Push --------------------------------
(***************************************************************************)
(* What the outbox promises, told without connections, messages, storage   *)
(* transactions or handlers: the writes of an application wait in a queue  *)
(* and are handed to the server in batches.  A batch takes all that is in  *)
(* the queue; the server gets it whole or not at all, maybe more than      *)
(* once; and it is confirmed, whole, when the server has it, or goes back  *)
(* to the queue.                                                           *)
(*                                                                         *)
(* Outbox implements this where storage operations do not yield.           *)
(***************************************************************************)
EXTENDS Naturals

CONSTANTS Entities, Writes

VARIABLES
  written,    \* the writes that were made
  queue,      \* per entity, those that wait
  batch,      \* those that are handed over
  confirmed,  \* those that the client knows the server has
  discarded,  \* those that the application gave up
  applied,    \* the writes that the server has applied
  server      \* per entity, what it applied last

vars == <<written, queue, batch, confirmed, discarded, applied, server>>

Nothing == [e \in Entities |-> {}]
With(q, r) == [e \in Entities |-> q[e] \union r[e]]
All(q) == UNION {q[e] : e \in Entities}

Init ==
  /\ written = {} /\ discarded = {} /\ applied = {}
  /\ queue = Nothing /\ batch = Nothing /\ confirmed = Nothing /\ server = Nothing

(* Writes are numbered in the order in which they are made.                *)
Write(e, w) ==
  /\ \A v \in written : v < w
  /\ written' = written \union {w}
  /\ queue' = [queue EXCEPT ![e] = @ \union {w}]
  /\ UNCHANGED <<batch, confirmed, discarded, applied, server>>

Discard(es) ==
  /\ queue' = [e \in Entities |-> IF e \in es THEN {} ELSE queue[e]]
  /\ discarded' = discarded \union UNION {queue[e] : e \in es}
  /\ UNCHANGED <<written, batch, confirmed, applied, server>>

(* One batch at a time.                                                    *)
Start ==
  /\ batch = Nothing
  /\ batch' = queue /\ queue' = Nothing
  /\ UNCHANGED <<written, confirmed, discarded, applied, server>>

Apply ==
  /\ applied' = applied \union All(batch)
  /\ server' = [e \in Entities |-> IF batch[e] = {} THEN server[e] ELSE batch[e]]
  /\ UNCHANGED <<written, queue, batch, confirmed, discarded>>

Confirm ==
  /\ All(batch) \subseteq applied
  /\ confirmed' = With(confirmed, batch) /\ batch' = Nothing
  /\ UNCHANGED <<written, queue, discarded, applied, server>>

(* The server refused the batch, or seems to have.                         *)
Return ==
  /\ queue' = With(queue, batch) /\ batch' = Nothing
  /\ UNCHANGED <<written, confirmed, discarded, applied, server>>

(* The client does not know after a restart which is the batch.            *)
Restart ==
  /\ queue' = batch /\ batch' = queue
  /\ UNCHANGED <<written, confirmed, discarded, applied, server>>

Next ==
  \/ \E e \in Entities, w \in Writes : Write(e, w)
  \/ \E es \in SUBSET Entities : Discard(es)
  \/ Start \/ Apply \/ Confirm \/ Return \/ Restart

Spec == Init /\ [][Next]_vars
=============================================================================
