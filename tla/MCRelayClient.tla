----------------------------- MODULE MCRelayClient -----------------------------
EXTENDS RelayClient

CONSTANTS old, new, q, l, p1, p2, n

Stored == {old}
OneEvent == [p \in Publish |-> new]

\* Everyone meets everyone who shares something with them: the socket, or an event.
Pairs == {{q, l}, {q, p1}, {p1, p2}, {l, p1}, {n, l}, {n, q}}
==============================================================================
