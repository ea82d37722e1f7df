--------------------------- MODULE TicketLifecycle ---------------------------
(***************************************************************************)
(* What the coordinator promises its client about one ticket, with neither *)
(* channels nor threads: a submitted fetch or store is announced once,     *)
(* then settled exactly once; "cancelled" is only ever the answer to a     *)
(* cancellation the client asked for; a rejected ticket is never heard of  *)
(* again.  Nothing is promised once the client has begun to shut down.     *)
(***************************************************************************)
EXTENDS Naturals

CONSTANT Tickets

VARIABLES
    status,   \* what the client knows of each ticket
    asked,    \* tickets the client tried to cancel
    open      \* the client has not begun to shut down

vars == <<status, asked, open>>

Outcomes == {"completed", "failed", "cancelled"}

Init ==
    /\ status = [t \in Tickets |-> "none"]
    /\ asked = {}
    /\ open = TRUE

\* A fetch or store is accepted, a plan is accepted without any promise of an
\* event, or the queue is full.
Submit(t) ==
    /\ open /\ status[t] = "none"
    /\ \E s \in {"pending", "unobserved", "rejected"} :
           status' = [status EXCEPT ![t] = s]
    /\ UNCHANGED <<asked, open>>

Cancel(t) ==
    /\ open /\ status[t] \in {"pending", "queued", "unobserved"}
    /\ asked' = asked \cup {t}
    /\ UNCHANGED <<status, open>>

Announce(t) ==
    /\ open /\ status[t] = "pending"
    /\ status' = [status EXCEPT ![t] = "queued"]
    /\ UNCHANGED <<asked, open>>

Settle(t, o) ==
    /\ open /\ status[t] = "queued"
    /\ o = "cancelled" => t \in asked
    /\ status' = [status EXCEPT ![t] = o]
    /\ UNCHANGED <<asked, open>>

Close == open /\ open' = FALSE /\ UNCHANGED <<status, asked>>

Next ==
    \/ \E t \in Tickets : Submit(t) \/ Cancel(t) \/ Announce(t)
    \/ \E t \in Tickets, o \in Outcomes : Settle(t, o)
    \/ Close

Spec == Init /\ [][Next]_vars
==============================================================================
