------------------------------ MODULE RelayClient ------------------------------
(***************************************************************************)
(* The client of one relay (roostr-nostr/src/relay): requests that share   *)
(* one socket, a thread per socket, and the loop that keeps a subscription *)
(* alive.  A request puts its slot in a table and its frame on the socket  *)
(* under one lock; the socket's thread settles slots as frames come back;  *)
(* a socket that goes takes every slot on it with it.                      *)
(*                                                                         *)
(* Ids are random except an event's, so only publishes can meet in one     *)
(* slot.  The relay is external: it answers a socket's frames in order.    *)
(* What a live subscription delivers after EOSE is not followed here.      *)
(***************************************************************************)
EXTENDS Naturals, Sequences, FiniteSets, SequencesExt

CONSTANTS
  Query, Feed, Publish, Neg,   \* the callers, by what they ask
  Casts,                       \* which of them share the client
  Event, EventOf,              \* the event each publisher sends
  Held,                        \* events the relay stores at first
  None,                        \* an empty slot
  Rounds,                      \* NEG messages a reconciliation takes
  MaxDrops,                    \* sockets lost or disconnected
  MaxRefusals,                 \* CLOSED, NOTICE, NEG-ERR and OK false
  MaxTimeouts

ASSUME RelayClientConstants ==
  /\ EventOf \in [Publish -> Event] /\ Held \subseteq Event
  /\ Casts \subseteq SUBSET (Query \cup Feed \cup Publish \cup Neg)
  /\ None \notin Query \cup Feed \cup Publish \cup Neg /\ IsFiniteSet(Event)
  /\ (Publish \cup Event) \cap (Query \cup Feed \cup Neg) = {}   \* no id is another's
  /\ Query \cap Feed = {} /\ (Query \cup Feed) \cap Neg = {}
  /\ Rounds \in Nat \ {0} /\ {MaxDrops, MaxRefusals, MaxTimeouts} \subseteq Nat

Caller == Query \cup Feed \cup Publish \cup Neg
Key == Query \cup Feed \cup Neg \cup Event
Socket == 1..MaxDrops + 1

KeyOf(r) == IF r \in Publish THEN EventOf[r] ELSE r

VARIABLES
  \* --- the locked state of the client ---
  gen, conn,   \* the newest socket, and whether it is held
  slot,        \* who waits under each key
  got,         \* events collected for each query
  \* --- the callers ---
  pc, reply, result, round,
  dropping,    \* the socket disconnect() read and has yet to drop
  closing,     \* CLOSE frames decided on and not yet sent
  \* --- the sockets and the relay ---
  sock, out, in, open, stored, refused,
  snapshot,    \* what the relay stored when it answered a query
  answered,    \* rounds it answered per socket and reconciliation
  budget

client == <<gen, conn, slot, got>>
callers == <<pc, reply, result, round, dropping, closing>>
relay == <<open, stored, refused, snapshot, answered>>
wires == <<sock, out, in>>
vars == <<client, callers, wires, relay, budget>>

Spend(what) ==
  /\ budget[what] > 0
  /\ budget' = [budget EXCEPT ![what] = @ - 1]

Frame(verb, id) == [verb |-> verb, id |-> id]

Waiting(r) == pc[r] = "waiting" /\ reply[r] = "none"

------------------------------------------------------------------------------
(* Under the client's lock *)

\* Inner::send_locked: dial when there is no socket, then queue the frame.
SendLocked(frame) ==
  LET g == IF conn THEN gen ELSE gen + 1
  IN  /\ g \in Socket
      /\ gen' = g /\ conn' = TRUE
      /\ sock' = [sock EXCEPT ![g] = IF conn THEN @ ELSE "up"]
      /\ out' = [out EXCEPT ![g] = Append(@, frame)]

\* Inner::send_if_connected, with its effect on `out` alone.
SendIfConnected(frame) ==
  out' = IF conn THEN [out EXCEPT ![gen] = Append(@, frame)] ELSE out

\* Mistaken: a query that loses its socket is given what had arrived.
FailShort(g) ==
  IF ~(conn /\ gen = g)
  THEN UNCHANGED <<conn, slot, reply>>
  ELSE LET holders == {slot[k] : k \in Key} \ {None}
       IN  /\ conn' = FALSE
           /\ reply' = [r \in Caller |-> IF r \notin holders \/ ~Waiting(r) THEN reply[r]
                                         ELSE IF r \in Query THEN "ok" ELSE "lost"]
           /\ slot' = [k \in Key |-> IF k \in Neg THEN slot[k] ELSE None]

\* Mistaken: the live subscriptions are left in the table.
FailKeepsFeeds(g) ==
  IF ~(conn /\ gen = g)
  THEN UNCHANGED <<conn, slot, reply>>
  ELSE LET holders == {slot[k] : k \in Key} \ {None}
       IN  /\ conn' = FALSE
           /\ reply' = [r \in Caller |->
                          IF r \in holders \ Feed /\ Waiting(r) THEN "lost" ELSE reply[r]]
           /\ slot' = [k \in Key |-> IF k \in Neg \cup Feed THEN slot[k] ELSE None]

\* Inner::fail: drop socket g if it is the current one and tell everyone who
\* waits on it.  A reconciliation keeps its slot: its guard removes it.
Fail(g) ==
  IF ~(conn /\ gen = g)
  THEN UNCHANGED <<conn, slot, reply>>
  ELSE LET holders == {slot[k] : k \in Key} \ {None}
       IN  /\ conn' = FALSE
           /\ reply' = [r \in Caller |->
                          IF r \in holders /\ Waiting(r) THEN "lost" ELSE reply[r]]
           /\ slot' = [k \in Key |-> IF k \in Neg THEN slot[k] ELSE None]

------------------------------------------------------------------------------
(* The callers *)

\* query, publish and reconcile up to their first wait.
Ask(r) ==
  /\ r \notin Feed /\ pc[r] = "idle"
  /\ pc' = [pc EXCEPT ![r] = "waiting"]
  /\ slot' = [slot EXCEPT ![KeyOf(r)] = r]
  /\ SendLocked(Frame(CASE r \in Query -> "REQ" [] r \in Publish -> "EVENT"
                        [] OTHER -> "NEG-OPEN", KeyOf(r)))
  /\ UNCHANGED <<got, reply, result, round, dropping, closing, in, relay, budget>>

\* live: subscribe at first, and again after the stream gave an error.
Subscribe(f) ==
  /\ f \in Feed
  /\ \/ pc[f] = "idle"
     \/ pc[f] = "waiting" /\ reply[f] # "none"
  /\ pc' = [pc EXCEPT ![f] = "waiting"]
  /\ reply' = [reply EXCEPT ![f] = "none"]
  /\ slot' = [slot EXCEPT ![f] = f]
  /\ SendLocked(Frame("REQ", f))
  /\ UNCHANGED <<got, result, round, dropping, closing, in, relay, budget>>

\* The answer of a query or a publish reaches its caller: the relay or fail()
\* already removed the slot.
Return(r) ==
  /\ r \in Query \cup Publish /\ pc[r] = "waiting" /\ reply[r] # "none"
  /\ pc' = [pc EXCEPT ![r] = "done"]
  /\ result' = [result EXCEPT ![r] = reply[r]]
  /\ UNCHANGED <<client, reply, round, dropping, closing, wires, relay, budget>>

\* A NEG-MSG that does not finish: the next message, on whatever socket there is.
NextRound(r) ==
  /\ r \in Neg /\ pc[r] = "waiting" /\ reply[r] = "ok" /\ round[r] + 1 < Rounds
  /\ round' = [round EXCEPT ![r] = @ + 1]
  /\ reply' = [reply EXCEPT ![r] = "none"]
  /\ slot' = [slot EXCEPT ![r] = r]
  /\ SendLocked(Frame("NEG-MSG", r))
  /\ UNCHANGED <<got, pc, result, dropping, closing, in, relay, budget>>

\* The last NEG-MSG: drop(guard), then NEG-CLOSE.
Reconciled(r) ==
  /\ r \in Neg /\ pc[r] = "waiting" /\ reply[r] = "ok" /\ round[r] + 1 = Rounds
  /\ pc' = [pc EXCEPT ![r] = "done"]
  /\ result' = [result EXCEPT ![r] = "ok"]
  /\ slot' = [slot EXCEPT ![r] = None]
  /\ closing' = closing \cup {r}
  /\ UNCHANGED <<gen, conn, got, reply, round, dropping, wires, relay, budget>>

\* The `fail` closure of reconcile: NEG-CLOSE unless the relay ended it; the
\* guard goes next.
NegFails(r) ==
  /\ r \in Neg /\ pc[r] = "waiting" /\ reply[r] \notin {"none", "ok"}
  /\ IF reply[r] = "refused" THEN UNCHANGED out ELSE SendIfConnected(Frame("CLOSE", r))
  /\ pc' = [pc EXCEPT ![r] = "leaving"]
  /\ result' = [result EXCEPT ![r] = reply[r]]
  /\ UNCHANGED <<client, reply, round, dropping, closing, sock, in, relay, budget>>

\* time::timeout fires before an answer.
TimeOut(r) ==
  /\ r \notin Feed /\ Waiting(r) /\ Spend("timeouts")
  /\ IF r \in Neg THEN SendIfConnected(Frame("CLOSE", r)) ELSE UNCHANGED out
  /\ pc' = [pc EXCEPT ![r] = "leaving"]
  /\ result' = [result EXCEPT ![r] = "timeout"]
  /\ UNCHANGED <<client, reply, round, dropping, closing, sock, in, relay>>

\* oneshot::Canceled: another publish of the event took or removed the slot.
Cancelled(r) ==
  /\ r \in Publish /\ Waiting(r) /\ slot[KeyOf(r)] # r
  /\ pc' = [pc EXCEPT ![r] = "leaving"]
  /\ result' = [result EXCEPT ![r] = "lost"]
  /\ UNCHANGED <<client, reply, round, dropping, closing, wires, relay, budget>>

\* Mistaken: a query given up on is not closed.
DropGuardSilently(r) ==
  /\ pc[r] = "leaving"
  /\ pc' = [pc EXCEPT ![r] = "done"]
  /\ slot' = [slot EXCEPT ![KeyOf(r)] = None]
  /\ UNCHANGED closing
  /\ UNCHANGED <<gen, conn, got, reply, result, round, dropping, wires, relay, budget>>

\* Mistaken: every request is closed, a publish too.
DropGuardClosesAll(r) ==
  /\ pc[r] = "leaving"
  /\ pc' = [pc EXCEPT ![r] = "done"]
  /\ slot' = [slot EXCEPT ![KeyOf(r)] = None]
  /\ closing' = closing \cup {r}
  /\ UNCHANGED <<gen, conn, got, reply, result, round, dropping, wires, relay, budget>>

\* Guard::drop removes the slot under the key, whoever holds it; a query that
\* was still there is closed after the lock.
DropGuard(r) ==
  /\ pc[r] = "leaving"
  /\ pc' = [pc EXCEPT ![r] = "done"]
  /\ slot' = [slot EXCEPT ![KeyOf(r)] = None]
  /\ closing' = closing \cup (IF r \in Query /\ slot[r] # None THEN {r} ELSE {})
  /\ UNCHANGED <<gen, conn, got, reply, result, round, dropping, wires, relay, budget>>

SendClose(r) ==
  /\ r \in closing /\ closing' = closing \ {r}
  /\ SendIfConnected(Frame("CLOSE", r))
  /\ UNCHANGED <<client, pc, reply, result, round, dropping, sock, in, relay, budget>>

\* disconnect() reads the socket under one lock and drops it under another.
Disconnect ==
  /\ dropping = 0 /\ conn /\ Spend("drops")
  /\ dropping' = gen
  /\ UNCHANGED <<client, pc, reply, result, round, closing, wires, relay>>

DisconnectDrops ==
  /\ dropping # 0 /\ dropping' = 0
  /\ Fail(dropping)
  /\ UNCHANGED <<gen, got, pc, result, round, closing, wires, relay, budget>>

CallerStep(r) ==
  \/ Subscribe(r) \/ Return(r) \/ NextRound(r) \/ Reconciled(r) \/ NegFails(r)
  \/ Cancelled(r) \/ DropGuard(r) \/ SendClose(r)

------------------------------------------------------------------------------
(* A socket's thread *)

\* Inner::with_current.
Current(g) == conn /\ gen = g

\* Mistaken: the loop of a live subscription is not told.
SettleNotFeeds(k, answer) ==
  IF slot[k] # None /\ Waiting(slot[k])
  THEN /\ reply' = IF k \in Feed THEN reply ELSE [reply EXCEPT ![slot[k]] = answer]
       /\ slot' = IF k \in Neg THEN slot ELSE [slot EXCEPT ![k] = None]
  ELSE UNCHANGED <<reply, slot>>

\* Answer whoever waits under a key, taking the slot unless it is a
\* reconciliation's, whose guard does.
Settle(k, answer) ==
  IF slot[k] # None /\ Waiting(slot[k])
  THEN /\ reply' = [reply EXCEPT ![slot[k]] = answer]
       /\ slot' = IF k \in Neg THEN slot ELSE [slot EXCEPT ![k] = None]
  ELSE UNCHANGED <<reply, slot>>

\* EVENT adds to a query; to a subscription it is an item, not followed here.
HandleEvent(f) ==
  /\ f.verb = "EVENT"
  /\ got' = [got EXCEPT ![f.id] = IF slot[f.id] = None THEN @ ELSE @ \cup {f.event}]
  /\ UNCHANGED <<slot, reply, closing>>

\* EOSE ends a query, which is closed after the lock.
HandleEose(f) ==
  /\ f.verb = "EOSE"
  /\ IF f.id \in Query /\ slot[f.id] # None
     THEN Settle(f.id, "ok") /\ closing' = closing \cup {f.id}
     ELSE UNCHANGED <<reply, slot, closing>>
  /\ UNCHANGED got

\* CLOSED, OK, NEG-MSG and NEG-ERR each settle one slot.
HandleAnswer(f) ==
  /\ f.verb \in {"CLOSED", "OK", "OK-FALSE", "NEG-MSG", "NEG-ERR"}
  /\ Settle(f.id, IF f.verb \in {"OK", "NEG-MSG"} THEN "ok" ELSE "refused")
  /\ UNCHANGED <<got, closing>>

\* NOTICE names no request: it answers every NEG-OPEN not yet answered.
HandleNotice(f) ==
  /\ f.verb = "NOTICE"
  /\ reply' = [r \in Caller |-> IF r \in Neg /\ slot[r] = r /\ Waiting(r) /\ round[r] = 0
                                THEN "unsupported" ELSE reply[r]]
  /\ UNCHANGED <<slot, got, closing>>

\* Inner::handle, for the next frame of socket g.
Handle(g) ==
  /\ sock[g] # "ended" /\ in[g] # <<>>
  /\ in' = [in EXCEPT ![g] = Tail(@)]
  /\ LET f == Head(in[g])
     IN  IF Current(g)
         THEN HandleEvent(f) \/ HandleEose(f) \/ HandleAnswer(f) \/ HandleNotice(f)
         ELSE UNCHANGED <<slot, got, reply, closing>>
  /\ UNCHANGED <<gen, conn, pc, result, round, dropping, sock, out, relay, budget>>

\* session() returned an error (a dead socket, no pong, a connect that failed):
\* run() reports it.
ThreadFails(g) ==
  /\ sock[g] = "broken"
  /\ sock' = [sock EXCEPT ![g] = "ended"]
  /\ out' = [out EXCEPT ![g] = <<>>] /\ in' = [in EXCEPT ![g] = <<>>]
  /\ Fail(g)
  /\ UNCHANGED <<gen, got, pc, result, round, dropping, closing, relay, budget>>

\* The sender was dropped: what it still queued is written, then the socket
\* closes.
ThreadEnds(g) ==
  /\ sock[g] = "up" /\ ~Current(g) /\ out[g] = <<>>
  /\ sock' = [sock EXCEPT ![g] = "ended"]
  /\ in' = [in EXCEPT ![g] = <<>>]
  /\ open' = [open EXCEPT ![g] = {}]
  /\ UNCHANGED <<client, callers, out, stored, refused, snapshot, answered, budget>>

ThreadStep(g) == Handle(g) \/ ThreadFails(g) \/ ThreadEnds(g)

------------------------------------------------------------------------------
(* The relay and the network: external *)

Break(g) ==
  /\ sock[g] = "up" /\ Spend("drops")
  /\ sock' = [sock EXCEPT ![g] = "broken"]
  /\ open' = [open EXCEPT ![g] = {}]
  /\ UNCHANGED <<client, callers, out, in, stored, refused, snapshot, answered>>

EventFrames(q) ==
  LET events == SetToSeq(stored)
  IN  [i \in DOMAIN events |-> [verb |-> "EVENT", id |-> q, event |-> events[i]]]

RelayReads(g, f, frames) ==
  /\ sock[g] = "up" /\ out[g] # <<>> /\ f = Head(out[g])
  /\ out' = [out EXCEPT ![g] = Tail(@)]
  /\ in' = [in EXCEPT ![g] = @ \o frames]
  /\ UNCHANGED <<client, callers, sock>>

RelayReq(g) ==
  \E r \in Query \cup Feed :
    /\ RelayReads(g, Frame("REQ", r),
                  (IF r \in Query THEN EventFrames(r) ELSE <<>>) \o <<Frame("EOSE", r)>>)
    /\ open' = [open EXCEPT ![g] = @ \cup {r}]
    /\ snapshot' = IF r \in Query THEN [snapshot EXCEPT ![r] = stored] ELSE snapshot
    /\ UNCHANGED <<stored, refused, answered, budget>>

RelayEvent(g) ==
  \E e \in Event :
    /\ RelayReads(g, Frame("EVENT", e), <<Frame("OK", e)>>)
    /\ stored' = stored \cup {e}
    /\ UNCHANGED <<open, refused, snapshot, answered, budget>>

RelayNeg(g) ==
  \E r \in Neg, verb \in {"NEG-OPEN", "NEG-MSG"} :
    /\ RelayReads(g, Frame(verb, r),
                  <<Frame(IF verb = "NEG-OPEN" \/ r \in open[g] THEN "NEG-MSG" ELSE "NEG-ERR", r)>>)
    /\ IF verb = "NEG-OPEN" \/ r \in open[g]
       THEN /\ open' = [open EXCEPT ![g] = @ \cup {r}]
            /\ answered' = [answered EXCEPT ![g][r] = @ + 1]
       ELSE UNCHANGED <<open, answered>>
    /\ UNCHANGED <<stored, refused, snapshot, budget>>

RelayClose(g) ==
  \E r \in Query \cup Feed \cup Neg :
    /\ RelayReads(g, Frame("CLOSE", r), <<>>)
    /\ open' = [open EXCEPT ![g] = @ \ {r}]
    /\ UNCHANGED <<stored, refused, snapshot, answered, budget>>

\* It refuses: an event, a request, or a NEG-OPEN it does not know.
RelayRefuses(g) ==
  /\ Spend("refusals")
  /\ \/ \E e \in Event :
          /\ RelayReads(g, Frame("EVENT", e), <<Frame("OK-FALSE", e)>>)
          /\ refused' = refused \cup {e}
     \/ \E r \in Query \cup Feed :
          /\ RelayReads(g, Frame("REQ", r), <<Frame("CLOSED", r)>>) /\ UNCHANGED refused
     \/ \E r \in Neg : \E verb \in {"NEG-ERR", "NOTICE"} :
          /\ RelayReads(g, Frame("NEG-OPEN", r), <<Frame(verb, r)>>) /\ UNCHANGED refused
  /\ UNCHANGED <<open, stored, snapshot, answered>>

\* It ends a live subscription.
RelayClosed(g) ==
  /\ sock[g] = "up" /\ Spend("refusals")
  /\ \E f \in Feed \cap open[g] :
       /\ open' = [open EXCEPT ![g] = @ \ {f}]
       /\ in' = [in EXCEPT ![g] = Append(@, Frame("CLOSED", f))]
  /\ UNCHANGED <<client, callers, sock, out, stored, refused, snapshot, answered>>

RelayStep(g) == RelayReq(g) \/ RelayEvent(g) \/ RelayNeg(g) \/ RelayClose(g)

------------------------------------------------------------------------------
Init ==
  /\ gen = 0 /\ conn = FALSE
  /\ slot = [k \in Key |-> None] /\ got = [q \in Query |-> {}]
  /\ \E cast \in Casts : pc = [r \in Caller |-> IF r \in cast THEN "idle" ELSE "done"]
  /\ reply = [r \in Caller |-> "none"]
  /\ result = [r \in Caller |-> "none"] /\ round = [r \in Neg |-> 0]
  /\ dropping = 0 /\ closing = {}
  /\ sock = [g \in Socket |-> "new"]
  /\ out = [g \in Socket |-> <<>>] /\ in = [g \in Socket |-> <<>>]
  /\ open = [g \in Socket |-> {}] /\ stored = Held /\ refused = {}
  /\ snapshot = [q \in Query |-> {}]
  /\ answered = [g \in Socket |-> [r \in Neg |-> 0]]
  /\ budget = [drops |-> MaxDrops, refusals |-> MaxRefusals, timeouts |-> MaxTimeouts]

Next ==
  \/ \E r \in Caller : Ask(r) \/ TimeOut(r) \/ CallerStep(r)
  \/ \E g \in Socket : ThreadStep(g) \/ RelayStep(g) \/ Break(g) \/ RelayRefuses(g)
                         \/ RelayClosed(g)
  \/ Disconnect \/ DisconnectDrops

Spec == Init /\ [][Next]_vars

\* Callers and threads run; the relay answers a socket that works.
Fairness ==
  /\ \A r \in Caller : WF_vars(CallerStep(r))
  /\ \A g \in Socket : WF_vars(ThreadStep(g)) /\ WF_vars(RelayStep(g))
  /\ WF_vars(DisconnectDrops)

FairSpec == Spec /\ Fairness

------------------------------------------------------------------------------
Answers == {"none", "ok", "lost", "refused", "unsupported", "timeout"}

\* Each variable holds a value of its type.
TypeOK ==
  /\ gen \in Socket \cup {0} /\ conn \in BOOLEAN /\ dropping \in Socket \cup {0}
  /\ slot \in [Key -> Caller \cup {None}]
  /\ got \in [Query -> SUBSET Event] /\ snapshot \in [Query -> SUBSET Event]
  /\ pc \in [Caller -> {"idle", "waiting", "leaving", "done"}]
  /\ reply \in [Caller -> Answers] /\ result \in [Caller -> Answers]
  /\ round \in [Neg -> 0..Rounds - 1]
  /\ closing \subseteq Query \cup Neg
  /\ sock \in [Socket -> {"new", "up", "broken", "ended"}]
  /\ \A g \in Socket : open[g] \subseteq Query \cup Feed \cup Neg
  /\ stored \subseteq Event /\ refused \subseteq Event

\* What a caller is told is what the relay said, whichever sockets came and
\* went: a query that succeeds has everything the relay stored when it answered,
\* never the part that arrived before a socket died; a publish that succeeds is
\* stored; a reconciliation that succeeds ran whole in one session of the relay.
ToldTheTruth ==
  \A r \in Caller :
    result[r] = "ok" =>
      CASE r \in Query -> got[r] = snapshot[r]
        [] r \in Publish -> EventOf[r] \in stored
        [] OTHER -> \E g \in Socket : answered[g][r] = Rounds

\* Nobody waits on a socket that is gone: a caller with no answer yet holds a
\* slot only while the client holds the socket that carried its frame, and a
\* live subscription with no error to read always holds one.
NobodyWaitsOnADeadSocket ==
  \A r \in Caller :
    Waiting(r) => \/ conn /\ slot[KeyOf(r)] = r
                  \/ r \in Publish /\ slot[KeyOf(r)] # r

\* Nothing outlives its request: a call that returned holds no slot, and once
\* every frame is read the relay has nothing open on the current socket but the
\* live subscriptions and the requests still waited for.
NothingLeft ==
  /\ \A r \in Caller : pc[r] = "done" => slot[KeyOf(r)] # r
  /\ conn /\ out[gen] = <<>> /\ closing = {} =>
       \A r \in open[gen] : r \in Feed \/ pc[r] \in {"waiting", "leaving"}

\* A live subscription comes back: once sockets stop failing and the relay stops
\* refusing, it stays open on the socket the client holds.
StaysSubscribed ==
  <>[](\A f \in Feed : pc[f] # "done" => conn /\ f \in open[gen] /\ slot[f] = f)

==============================================================================
