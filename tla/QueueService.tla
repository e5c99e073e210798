---------------------------- MODULE QueueService ----------------------------
(***************************************************************************)
(* What QDB promises to its callers, without files, logs or recovery: a    *)
(* set of FIFO queues with leases, in which every operation is one atomic  *)
(* step.  QdbEngine implements it: the state below is what the database    *)
(* file holds durably, and it changes at the instant a header update       *)
(* reaches the file.                                                       *)
(***************************************************************************)
EXTENDS Integers, Sequences

CONSTANT Queues

VARIABLES
  fifo,       \* queue -> the messages that can be popped, oldest first
  leased,     \* lease id -> its message and the queue it came from
  done,       \* messages that were acknowledged
  last_msg,   \* last message id issued
  last_lease  \* last lease id issued

svars == <<fifo, leased, done, last_msg, last_lease>>

ServiceInit ==
  /\ fifo = [q \in Queues |-> << >>]
  /\ leased = [l \in {} |-> 0]
  /\ done = {}
  /\ last_msg = 0
  /\ last_lease = 0

\* A new message goes to the tail of its queue, under a fresh id.
Push(q) ==
  /\ last_msg' = last_msg + 1
  /\ fifo' = [fifo EXCEPT ![q] = Append(@, last_msg + 1)]
  /\ UNCHANGED <<leased, done, last_lease>>

\* The head of a queue is leased, under a fresh lease id.
Pop(q) ==
  /\ fifo[q] # << >>
  /\ last_lease' = last_lease + 1
  /\ fifo' = [fifo EXCEPT ![q] = Tail(@)]
  /\ leased' = [l \in DOMAIN leased \cup {last_lease + 1} |->
                  IF l = last_lease + 1 THEN [msg |-> Head(fifo[q]), queue |-> q]
                                        ELSE leased[l]]
  /\ UNCHANGED <<done, last_msg>>

EndLease(l) == leased' = [k \in DOMAIN leased \ {l} |-> leased[k]]

\* The holder of a lease acknowledges its message, for good.
Ack(l) ==
  /\ EndLease(l)
  /\ done' = done \cup {leased[l].msg}
  /\ UNCHANGED <<fifo, last_msg, last_lease>>

\* A nack or an expiry: the message goes back to the tail of its queue.
Return(l) ==
  /\ EndLease(l)
  /\ fifo' = [fifo EXCEPT ![leased[l].queue] = Append(@, leased[l].msg)]
  /\ UNCHANGED <<done, last_msg, last_lease>>

ServiceNext ==
  \/ \E q \in Queues : Push(q) \/ Pop(q)
  \/ \E l \in DOMAIN leased : Ack(l) \/ Return(l)

ServiceSpec == ServiceInit /\ [][ServiceNext]_svars
=============================================================================
