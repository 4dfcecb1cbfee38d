----------------------------- MODULE WebSockets -----------------------------
(***************************************************************************)
(* WebSocketManager.broadcast of control_plane/dashboard/ws_manager.py, as *)
(* operators on its list of connections.  The loop goes over the list by   *)
(* position and suspends at each send; whatever changes the list meanwhile *)
(* shifts what is left of it.                                              *)
(***************************************************************************)
EXTENDS Naturals, FiniteSets, SequencesExt

\* A broadcast that begins; `sent` and `shifts` (removals by others since then) are
\* history.
Started == [at |-> 1, dead |-> << >>, sent |-> {}, shifts |-> 0]

AtEnd(b, connections) == b.at > Len(connections)

\* send_text to the connection that is next returns, or raises.
Sent(b, connections) == [b EXCEPT !.at = @ + 1, !.sent = @ \cup {connections[b.at]}]
Failed(b, connections) == [b EXCEPT !.at = @ + 1, !.dead = Append(@, connections[b.at])]

\* How many removals succeed: remove() of what is gone already raises, and the rest
\* of the dead stays in the list.
Removable(connections, dead) ==
    CHOOSE n \in 0..Len(dead) :
        /\ \A i \in 1..n : Contains(connections, dead[i])
        /\ n = Len(dead) \/ ~Contains(connections, dead[n + 1])

\* remove() of each member of `gone`: the k-th that stays is at k now.
Without(connections, gone) ==
    LET stay == {i \in 1..Len(connections) : connections[i] \notin gone}
        kth(k) == CHOOSE i \in stay : Cardinality(stay \cap 1..i) = k
    IN [k \in 1..Cardinality(stay) |-> connections[kth(k)]]

Swept(connections, dead) ==
    Without(connections, {dead[i] : i \in 1..Removable(connections, dead)})

\* The listed clients that a broadcast has neither reached nor found dead.
Missed(b, connections) == ToSet(connections) \ (b.sent \cup ToSet(b.dead))
=============================================================================
