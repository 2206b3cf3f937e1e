-------------------------- MODULE MCBackgroundJobs --------------------------
(* Instances of BackgroundJobs for TLC. *)
EXTENDS BackgroundJobs

CONSTANT w1

\* Every worker polls all queues.
PollAll == [w \in Worker |-> AnyQueue]

\* One worker polls only the queue webhook deliveries are enqueued in.
PollMixed == [w \in Worker |-> IF w = w1 THEN "webhooks" ELSE AnyQueue]

OnePriority == {0}
TwoPriorities == {0, 10}
NoDelay == {0}
SomeDelay == {0, 1}
=============================================================================
