------------------------------- MODULE Outbox -------------------------------
(***************************************************************************)
(* What the send queue of a connection promises to those who write to it:  *)
(* within a priority messages leave in the order they came, each once; at  *)
(* any one time those of a higher priority leave first; and nothing is     *)
(* lost or left over for the next connection unless this one is closed.    *)
(***************************************************************************)
EXTENDS Naturals, Filter

CONSTANTS Priorities

VARIABLES
    open,       \* there is a connection
    pending,    \* of each priority, what waits
    delivered   \* what this connection has sent

vars == <<open, pending, delivered>>

OfPriority(p, messages) == Picked(messages, {i \in DOMAIN messages : messages[i].pri = p})
Leads(s, t) == Len(s) <= Len(t) /\ s = SubSeq(t, 1, Len(s))

Init == open = FALSE /\ pending = [p \in Priorities |-> <<>>] /\ delivered = <<>>

\* Messages come and messages go; when the connection is closed what is left is
\* dropped, a last message may go before that or after it.
Deliver ==
    /\ Leads(delivered, delivered')
    /\ LET out == SubSeq(delivered', Len(delivered) + 1, Len(delivered'))
           Dropped(left, waiting) ==
               \/ Leads(left, waiting)
               \/ Len(left) = 1 /\ \A i \in DOMAIN waiting : waiting[i] # left[1]
       IN  /\ \A i, j \in DOMAIN out : i < j => out[i].pri >= out[j].pri
           /\ \A p \in Priorities :
                \/ Leads(pending[p], OfPriority(p, out) \o pending'[p])
                \/ ~open' /\ pending'[p] = <<>> /\ Dropped(OfPriority(p, out), pending[p])

Reopen == delivered' = <<>> /\ pending' = [p \in Priorities |-> <<>>]

Next == Deliver \/ Reopen

Spec == Init /\ [][Next]_vars
=============================================================================
