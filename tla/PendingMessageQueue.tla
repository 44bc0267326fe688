------------------------- MODULE PendingMessageQueue -------------------------
(***************************************************************************)
(* The steering and follow-up queues of an Agent                           *)
(* (class PendingMessageQueue of packages/agent/src/agent.ts).  A queue is *)
(* a sequence of messages; drain() hands out its whole content or only its *)
(* oldest message, depending on the queue's mode.                          *)
(***************************************************************************)
EXTENDS Naturals, Sequences

(* type QueueMode *)
QueueMode == {"all", "one-at-a-time"}

(* Mutant of Enqueue: the newest message goes to the front. *)
EnqueueInFront(queue, message) == << message >> \o queue

(* enqueue(message) *)
Enqueue(queue, message) == Append(queue, message)

(* What drain() returns. *)
Drained(queue, mode) ==
    IF mode = "all" \/ queue = << >> THEN queue ELSE << Head(queue) >>

(* What drain() leaves in the queue. *)
Remaining(queue, mode) ==
    IF mode = "all" \/ queue = << >> THEN << >> ELSE Tail(queue)

==============================================================================
