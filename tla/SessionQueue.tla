---------------------------- MODULE SessionQueue ----------------------------
(***************************************************************************)
(* What the coordinator promises about discovery sessions, per daemon      *)
(* (spec 4.3: one active session per agent, the others queued): sessions   *)
(* join the back of their daemon's queue, leave it from anywhere (finished *)
(* or cancelled), and are handed to the daemon only as the head of the     *)
(* queue: at once when they join an empty queue, or when the session in   *)
(* front of them leaves.  A hand-over may be lost on the way.              *)
(*                                                                         *)
(* DiscoverySessions implements it under the mapping it names QueueSpec.   *)
(***************************************************************************)
EXTENDS Sequences, SequencesExt

CONSTANTS Daemons, Sessions

VARIABLES
    queue,   \* [Daemons -> Seq(Sessions)]: waiting and running sessions, oldest first
    sent     \* sessions handed to their daemon and not lost on the way

vars == <<queue, sent>>

Queued == UNION {ToSet(queue[d]) : d \in Daemons}

TypeOK ==
    /\ queue \in [Daemons -> Seq(Sessions)]
    /\ sent \subseteq Sessions

Init ==
    /\ queue = [d \in Daemons |-> <<>>]
    /\ sent = {}

\* A new session joins the back of d's queue; it is handed over in the
\* same step only if the queue was empty.
Submit(d, s, handOver) ==
    /\ s \notin Queued \cup sent
    /\ queue' = [queue EXCEPT ![d] = Append(@, s)]
    /\ IF handOver THEN queue[d] = <<>> /\ sent' = sent \cup {s}
                   ELSE UNCHANGED sent

\* A queued session leaves; the session now in front may be handed over.
Leave(d, s, handOver) ==
    /\ s \in ToSet(queue[d])
    /\ queue' = [queue EXCEPT ![d] = Remove(@, s)]
    /\ IF handOver THEN queue'[d] # <<>> /\ sent' = sent \cup {Head(queue'[d])}
                   ELSE UNCHANGED sent

\* A hand-over that never reached the daemon.
Lose(s) ==
    /\ s \in sent
    /\ sent' = sent \ {s}
    /\ UNCHANGED queue

Next ==
    \/ \E d \in Daemons, s \in Sessions, h \in BOOLEAN : Submit(d, s, h) \/ Leave(d, s, h)
    \/ \E s \in Sessions : Lose(s)

Spec == Init /\ [][Next]_vars
=============================================================================
