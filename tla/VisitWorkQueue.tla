--------------------------- MODULE VisitWorkQueue ---------------------------
(***************************************************************************)
(* What ctrlq.VisitWorkQueue promises its producers and consumers: it      *)
(* "appears to producers and consumers as a single queue"                  *)
(* (src/internal/ctrlq/main.go:36-80).  Order between messages is not      *)
(* promised (host queues are rate limited independently), and a full       *)
(* buffer may lose a message, but a message is never duplicated, never     *)
(* invented, and a retry always counts up from a job that was delivered.   *)
(***************************************************************************)
EXTENDS Naturals

CONSTANT Messages   \* Records with an id, a host and a number of retries.

VARIABLES
    waiting,        \* Messages published and not yet retrieved.
    delivered,      \* Messages retrieved through Consume.
    dropped         \* Messages a full buffer lost.

vars == <<waiting, delivered, dropped>>

Known == waiting \cup delivered \cup dropped

Init == waiting = {} /\ delivered = {} /\ dropped = {}

\* Publish makes a message with no retries, Republish one more than the job
\* of the same host it reschedules; both under an id never used before.
Fresh(m) ==
    /\ \A k \in Known : k.id # m.id
    /\ \/ m.retries = 0
       \/ \E j \in delivered : j.host = m.host /\ m.retries = j.retries + 1

Enqueue(m) == /\ Fresh(m)
              /\ waiting' = waiting \cup {m}
              /\ UNCHANGED <<delivered, dropped>>

Refuse(m) == /\ Fresh(m)
             /\ dropped' = dropped \cup {m}
             /\ UNCHANGED <<waiting, delivered>>

Deliver(m) == /\ m \in waiting
              /\ waiting' = waiting \ {m}
              /\ delivered' = delivered \cup {m}
              /\ UNCHANGED dropped

Lose(m) == /\ m \in waiting
           /\ waiting' = waiting \ {m}
           /\ dropped' = dropped \cup {m}
           /\ UNCHANGED delivered

Next == \/ \E m \in Messages : Enqueue(m) \/ Refuse(m)
        \/ \E m \in waiting : Deliver(m) \/ Lose(m)

Spec == Init /\ [][Next]_vars
=============================================================================
