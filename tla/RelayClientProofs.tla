--------------------------- MODULE RelayClientProofs ---------------------------
(***************************************************************************)
(* What RelayClient promises its callers, for every number of callers,     *)
(* events, sockets and failures: nobody waits on a socket that is gone,    *)
(* a caller is told what the relay said, and nothing outlives its request. *)
(*                                                                         *)
(* The first needs what the table's keys and a frame's id mean (Typed).    *)
(* The others follow a request's frames down the wire and back: at most    *)
(* one frame asks or tells for it at a time (Token), an answer's events    *)
(* come before its end (QueryTruth), the rounds of a reconciliation are    *)
(* all answered in one session (NegTruth), and what was opened is followed *)
(* by its CLOSE (Closed).                                                  *)
(***************************************************************************)
EXTENDS RelayClient, FiniteSetTheorems, TLAPS

------------------------------------------------------------------------------
(* Sequences of frames, by the frames in them *)

Has(s, F) == \E i \in DOMAIN s : s[i] \in F
Single(s, F) == \A i, j \in DOMAIN s : s[i] \in F /\ s[j] \in F => i = j
Follows(s, A, B) == \A i \in DOMAIN s : s[i] \in A => \E j \in DOMAIN s : i < j /\ s[j] \in B

LEMMA TailOf ==
  ASSUME NEW S, NEW s \in Seq(S), s # <<>>
  PROVE  /\ \A F : Has(Tail(s), F) => Has(s, F)
         /\ \A F : Has(s, F) => Head(s) \in F \/ Has(Tail(s), F)
         /\ \A F : Single(s, F) => Single(Tail(s), F) /\ (Head(s) \in F => ~Has(Tail(s), F))
         /\ \A A, B : Follows(s, A, B) => Follows(Tail(s), A, B) /\ (Head(s) \in A => Has(Tail(s), B))
         /\ \A F : Head(s) \in F => Has(s, F)
<1>1. PICK t \in Seq(S), n \in Nat : t = Tail(s) /\ Len(t) = n /\ Len(s) = n + 1 /\ \A i \in 1..n : t[i] = s[i+1]
  <2>1. Tail(s) \in Seq(S) /\ Len(Tail(s)) \in Nat /\ Len(s) = Len(Tail(s)) + 1
    OBVIOUS
  <2>2. \A i \in 1..Len(Tail(s)) : Tail(s)[i] = s[i+1]
    OBVIOUS
  <2> QED BY <2>1, <2>2
<1>2. DOMAIN s = 1..n + 1 /\ DOMAIN t = 1..n /\ Head(s) = s[1]
  BY <1>1
<1>3. \A F : Has(t, F) => Has(s, F)
  BY <1>1, <1>2 DEF Has
<1>4. \A F : Has(s, F) => s[1] \in F \/ Has(t, F)
  <2> SUFFICES ASSUME NEW F, NEW i \in 1..n+1, s[i] \in F, i # 1 PROVE Has(t, F)
    BY <1>2 DEF Has
  <2>1. i - 1 \in 1..n /\ t[i - 1] = s[i]
    BY <1>1
  <2> QED BY <1>2, <2>1 DEF Has
<1>5. \A F : Single(s, F) => Single(t, F) /\ (s[1] \in F => ~Has(t, F))
  <2> SUFFICES ASSUME NEW F, Single(s, F) PROVE Single(t, F) /\ (s[1] \in F => ~Has(t, F))
    OBVIOUS
  <2>1. \A i \in 1..n : i + 1 \in 1..n+1 /\ i + 1 # 1 /\ t[i] = s[i+1]
    BY <1>1
  <2>2. 1 \in 1..n+1
    OBVIOUS
  <2>3. \A i, j \in 1..n : t[i] \in F /\ t[j] \in F => i + 1 = j + 1
    BY <1>2, <2>1 DEF Single
  <2>4. \A i, j \in 1..n : i + 1 = j + 1 => i = j
    OBVIOUS
  <2>5. Single(t, F)
    BY <1>2, <2>3, <2>4 DEF Single
  <2>6. s[1] \in F => ~Has(t, F)
    BY <1>2, <2>1, <2>2 DEF Single, Has
  <2> QED BY <2>5, <2>6
<1>6. \A A, B : Follows(s, A, B) => Follows(t, A, B) /\ (s[1] \in A => Has(t, B))
  <2> SUFFICES ASSUME NEW A, NEW B, Follows(s, A, B), NEW i \in 1..n+1, s[i] \in A
               PROVE  \E k \in 1..n : i < k + 1 /\ t[k] \in B
    <3>1. \A i \in 1..n : i + 1 \in 1..n+1 /\ t[i] = s[i+1]
      BY <1>1
    <3>2. \A i, k \in 1..n : i + 1 < k + 1 => i < k
      OBVIOUS
    <3>3. 1 \in 1..n+1
      OBVIOUS
    <3> QED BY <1>2, <3>1, <3>2, <3>3 DEF Follows, Has
  <2>1. PICK j \in 1..n+1 : i < j /\ s[j] \in B
    BY <1>2 DEF Follows
  <2>2. j - 1 \in 1..n /\ t[j - 1] = s[j] /\ i < (j - 1) + 1
    BY <1>1, <2>1
  <2> QED BY <2>1, <2>2
<1>7. \A F : s[1] \in F => Has(s, F)
  BY <1>2 DEF Has
<1> QED BY <1>1, <1>2, <1>3, <1>4, <1>5, <1>6, <1>7

LEMMA ConcatOf ==
  ASSUME NEW S, NEW s \in Seq(S), NEW t \in Seq(S)
  PROVE  /\ \A F : Has(s \o t, F) <=> Has(s, F) \/ Has(t, F)
         /\ \A F : Single(s, F) /\ ~Has(t, F) => Single(s \o t, F)
         /\ \A F : ~Has(s, F) /\ Single(t, F) => Single(s \o t, F)
         /\ \A A, B : Follows(s, A, B) /\ Follows(t, A, B) => Follows(s \o t, A, B)
         /\ \A A, B : Has(t, B) /\ Follows(t, A, B) => Follows(s \o t, A, B)
<1>1. PICK u \in Seq(S), m \in Nat, n \in Nat :
        /\ u = s \o t /\ Len(s) = m /\ Len(t) = n
        /\ DOMAIN s = 1..m /\ DOMAIN t = 1..n /\ DOMAIN u = 1..m + n
        /\ \A i \in 1..m : u[i] = s[i]
        /\ \A i \in 1..n : u[m + i] = t[i]
  <2>1. /\ s \o t \in Seq(S) /\ Len(s) \in Nat /\ Len(t) \in Nat
        /\ DOMAIN s = 1..Len(s) /\ DOMAIN t = 1..Len(t) /\ DOMAIN (s \o t) = 1..Len(s) + Len(t)
    OBVIOUS
  <2>2. \A i \in 1..Len(s) : (s \o t)[i] = s[i]
    OBVIOUS
  <2>3. \A i \in 1..Len(t) : (s \o t)[Len(s) + i] = t[i]
    OBVIOUS
  <2> QED BY <2>1, <2>2, <2>3
<1>2. /\ \A i \in 1..m : i \in 1..m + n
      /\ \A i \in 1..n : m + i \in 1..m + n
      /\ \A i \in 1..m + n : i \in 1..m \/ (i - m \in 1..n /\ i = m + (i - m))
  OBVIOUS
<1>3. \A i \in 1..m + n : i \notin 1..m => i - m \in 1..n /\ u[i] = t[i - m]
  BY <1>1, <1>2
<1>4. \A F : Has(u, F) <=> Has(s, F) \/ Has(t, F)
  BY <1>1, <1>2, <1>3 DEF Has
<1>5. \A F : Single(s, F) /\ ~Has(t, F) => Single(u, F)
  BY <1>1, <1>2, <1>3 DEF Has, Single
<1>6. \A F : ~Has(s, F) /\ Single(t, F) => Single(u, F)
  <2> SUFFICES ASSUME NEW F, ~Has(s, F), Single(t, F), NEW i \in 1..m+n, NEW j \in 1..m+n,
                      u[i] \in F, u[j] \in F
               PROVE  i = j
    BY <1>1 DEF Single
  <2>1. i \notin 1..m /\ j \notin 1..m
    BY <1>1 DEF Has
  <2>2. i - m = j - m
    BY <1>1, <1>3, <2>1 DEF Single
  <2> QED BY <2>2
<1>7. ASSUME NEW A, NEW B, Follows(t, A, B), NEW i \in 1..m+n, u[i] \in A, i \notin 1..m
      PROVE  \E j \in 1..m+n : i < j /\ u[j] \in B
  <2>1. PICK k \in 1..n : i - m < k /\ t[k] \in B
    BY <1>1, <1>3, <1>7 DEF Follows
  <2>2. m + k \in 1..m+n /\ i < m + k /\ u[m + k] \in B
    BY <1>1, <2>1
  <2> QED BY <2>2
<1>8. ASSUME NEW A, NEW B, Follows(s, A, B), Follows(t, A, B) PROVE Follows(u, A, B)
  <2>1. \A i \in 1..m : u[i] \in A => \E j \in 1..m+n : i < j /\ u[j] \in B
    BY <1>1, <1>2, <1>8 DEF Follows
  <2> QED BY <1>1, <1>7, <1>8, <2>1 DEF Follows
<1>9. ASSUME NEW A, NEW B, Has(t, B), Follows(t, A, B) PROVE Follows(u, A, B)
  <2>1. PICK k \in 1..n : t[k] \in B
    BY <1>1, <1>9 DEF Has
  <2>2. m + k \in 1..m+n /\ u[m + k] \in B /\ \A i \in 1..m : i < m + k
    BY <1>1, <2>1
  <2> QED BY <1>1, <1>7, <1>9, <2>2 DEF Follows
<1> QED BY <1>1, <1>4, <1>5, <1>6, <1>8, <1>9

LEMMA OneFrame ==
  ASSUME NEW f
  PROVE  /\ \A F : Has(<<f>>, F) <=> f \in F
         /\ \A F : Single(<<f>>, F)
         /\ \A A, B : f \notin A => Follows(<<f>>, A, B)
<1>1. DOMAIN <<f>> = {1} /\ <<f>>[1] = f
  OBVIOUS
<1> QED BY <1>1 DEF Has, Single, Follows

LEMMA NoFrame == \A F, A, B : ~Has(<<>>, F) /\ Single(<<>>, F) /\ Follows(<<>>, A, B)
<1>1. DOMAIN <<>> = {}
  OBVIOUS
<1> QED BY <1>1 DEF Has, Single, Follows
------------------------------------------------------------------------------
(* Types *)

PCs == {"idle", "waiting", "leaving", "done"}

\* What is sent, and what comes in.
OutFrame ==
  [verb : {"REQ", "CLOSE"}, id : Query \cup Feed \cup Neg] \cup [verb : {"EVENT"}, id : Event]
  \cup [verb : {"NEG-OPEN", "NEG-MSG"}, id : Neg]
InFrame ==
  [verb : {"EVENT"}, id : Query, event : Event] \cup [verb : {"EOSE", "CLOSED"}, id : Query \cup Feed]
  \cup [verb : {"OK", "OK-FALSE"}, id : Event] \cup [verb : {"NEG-MSG", "NEG-ERR", "NOTICE"}, id : Neg]

SlotsKeyed ==
  /\ slot \in [Key -> Caller \cup {None}]
  /\ \A k \in Key : slot[k] # None => KeyOf(slot[k]) = k

TypedClient ==
  /\ gen \in Socket \cup {0} /\ conn \in BOOLEAN /\ (conn => gen # 0)
  /\ SlotsKeyed /\ got \in [Query -> SUBSET Event]

TypedCallers ==
  /\ pc \in [Caller -> PCs] /\ reply \in [Caller -> Answers] /\ result \in [Caller -> Answers]
  /\ round \in [Neg -> 0..Rounds - 1]
  /\ dropping \in Socket \cup {0} /\ closing \subseteq Query \cup Neg

\* A socket that was never dialled is empty.
TypedWires ==
  /\ sock \in [Socket -> {"new", "up", "broken", "ended"}]
  /\ out \in [Socket -> Seq(OutFrame)] /\ in \in [Socket -> Seq(InFrame)]
  /\ \A g \in Socket : g > gen => out[g] = <<>> /\ in[g] = <<>> /\ open[g] = {}

TypedRelay ==
  /\ open \in [Socket -> SUBSET (Query \cup Feed \cup Neg)]
  /\ stored \subseteq Event /\ refused \subseteq Event
  /\ snapshot \in [Query -> SUBSET Event]
  /\ answered \in [Socket -> [Neg -> Nat]]

Typed == TypedClient /\ TypedCallers /\ TypedWires /\ TypedRelay

LEMMA TypedIsTypeOK == Typed => TypeOK
  BY DEF Typed, TypedClient, TypedCallers, TypedWires, TypedRelay, TypeOK, SlotsKeyed, PCs

\* What a slot's key is: a request's own id, or its event.
LEMMA Keys ==
  /\ \A r \in Caller : KeyOf(r) \in Key /\ r # None
  /\ \A r \in Caller \ Publish : KeyOf(r) = r
  /\ \A r, q \in Caller : KeyOf(r) = KeyOf(q) => r = q \/ {r, q} \subseteq Publish
  /\ \A r \in Neg \cup Feed \cup Query : r \in Caller \ Publish /\ r \in Key
<1>1. \A r \in Publish : KeyOf(r) = EventOf[r] /\ EventOf[r] \in Event
  BY RelayClientConstants DEF KeyOf
<1>2. \A r \in Caller \ Publish : KeyOf(r) = r /\ r \in Query \cup Feed \cup Neg
  BY DEF KeyOf, Caller
<1> QED BY <1>1, <1>2, RelayClientConstants DEF Key, Caller

\* A frame for the current socket, or for a new one that nothing was on.
LEMMA Sent ==
  ASSUME Typed, NEW f \in OutFrame, SendLocked(f)
  PROVE  /\ gen' \in Socket /\ conn' = TRUE
         /\ sock' \in [Socket -> {"new", "up", "broken", "ended"}]
         /\ out' \in [Socket -> Seq(OutFrame)]
         /\ out' = [out EXCEPT ![gen'] = Append(@, f)]
         /\ (conn /\ gen' = gen) \/ (~conn /\ gen' = gen + 1)
         /\ \A g \in Socket : g > gen' => g > gen /\ out'[g] = out[g]
<1>1. PICK h : h = IF conn THEN gen ELSE gen + 1
  OBVIOUS
<1>2. /\ h \in Socket /\ gen' = h /\ conn' = TRUE
      /\ sock' = [sock EXCEPT ![h] = IF conn THEN @ ELSE "up"]
      /\ out' = [out EXCEPT ![h] = Append(@, f)]
  BY <1>1 DEF SendLocked
<1>3. out[h] \in Seq(OutFrame)
  BY <1>2 DEF Typed, TypedWires
<1>4. Append(out[h], f) \in Seq(OutFrame)
  BY <1>3
<1>5. gen \in Nat /\ h \in Nat /\ \A g \in Socket : g \in Nat
  BY <1>2, RelayClientConstants DEF Typed, TypedClient, Socket
<1>6. \A g \in Socket : g > h => g > gen /\ g # h
  BY <1>1, <1>5
<1> QED BY <1>1, <1>2, <1>4, <1>6 DEF Typed, TypedWires

LEMMA SentIfConnected ==
  ASSUME Typed, NEW f \in OutFrame, SendIfConnected(f)
  PROVE  /\ out' \in [Socket -> Seq(OutFrame)]
         /\ out' = IF conn THEN [out EXCEPT ![gen] = Append(@, f)] ELSE out
         /\ \A g \in Socket : g > gen => out'[g] = out[g]
<1>1. CASE conn
  <2>1. gen \in Socket /\ out[gen] \in Seq(OutFrame)
    BY <1>1 DEF Typed, TypedClient, TypedWires
  <2>2. Append(out[gen], f) \in Seq(OutFrame)
    BY <2>1
  <2>3. \A g \in Socket : g > gen => g # gen
    BY RelayClientConstants, <2>1 DEF Socket
  <2> QED BY <1>1, <2>1, <2>2, <2>3 DEF SendIfConnected, Typed, TypedWires
<1> QED BY <1>1 DEF SendIfConnected, Typed, TypedWires

\* fail() leaves the table keyed.
LEMMA FailTypes ==
  ASSUME Typed, NEW g, Fail(g), UNCHANGED <<gen, got>>
  PROVE  TypedClient' /\ reply' \in [Caller -> Answers]
<1>1. CASE UNCHANGED <<conn, slot, reply>>
  BY <1>1 DEF Typed, TypedClient, TypedCallers, SlotsKeyed
<1>2. CASE ~ UNCHANGED <<conn, slot, reply>>
  <2>1. PICK holders : holders = {slot[k] : k \in Key} \ {None}
    OBVIOUS
  <2>2. /\ conn' = FALSE
        /\ reply' = [r \in Caller |-> IF r \in holders /\ Waiting(r) THEN "lost" ELSE reply[r]]
        /\ slot' = [k \in Key |-> IF k \in Neg THEN slot[k] ELSE None]
    BY <1>2, <2>1 DEF Fail
  <2>3. SlotsKeyed'
    BY <2>2 DEF Typed, TypedClient, SlotsKeyed
  <2>4. reply' \in [Caller -> Answers]
    BY <2>2 DEF Typed, TypedCallers, Answers
  <2> QED BY <2>2, <2>3, <2>4 DEF Typed, TypedClient
<1> QED BY <1>1, <1>2

LEMMA SettleTypes ==
  ASSUME Typed, NEW k \in Key, NEW answer \in Answers, Settle(k, answer)
  PROVE  SlotsKeyed' /\ reply' \in [Caller -> Answers]
<1>1. CASE UNCHANGED <<reply, slot>>
  BY <1>1 DEF Typed, TypedClient, TypedCallers, SlotsKeyed
<1>2. CASE ~ UNCHANGED <<reply, slot>>
  <2>1. PICK h \in Caller : h = slot[k]
    BY <1>2 DEF Settle, Typed, TypedClient, SlotsKeyed
  <2>2. reply' = [reply EXCEPT ![h] = answer]
        /\ (slot' = slot \/ slot' = [slot EXCEPT ![k] = None])
    BY <1>2, <2>1 DEF Settle
  <2> QED BY <2>2 DEF Typed, TypedClient, TypedCallers, SlotsKeyed
<1> QED BY <1>1, <1>2

\* An answer to a query is one frame for each event the relay stores.
LEMMA EventFramesOf ==
  ASSUME NEW q \in Query, stored \subseteq Event
  PROVE  /\ EventFrames(q) \in Seq(InFrame)
         /\ \A i \in DOMAIN EventFrames(q) :
              \E e \in stored : EventFrames(q)[i] = [verb |-> "EVENT", id |-> q, event |-> e]
         /\ \A e \in stored : \E i \in DOMAIN EventFrames(q) :
              EventFrames(q)[i] = [verb |-> "EVENT", id |-> q, event |-> e]
<1>1. PICK n \in Nat : n = Cardinality(stored) /\ IsFiniteSet(stored)
  BY RelayClientConstants, FS_Subset, FS_CardinalityType
<1>2. \E f \in [1..n -> stored] : IsInjective(f)
  BY <1>1, FS_CardinalityType DEF ExistsBijection, Bijection, Injection
<1>3. SetToSeq(stored) \in [1..n -> stored] /\ IsInjective(SetToSeq(stored))
  BY <1>1, <1>2, Zenon DEF SetToSeq
<1>4. PICK events \in [1..n -> stored] : events = SetToSeq(stored) /\ IsInjective(events)
  BY <1>3
<1>5. \A e \in stored : \E i \in 1..n : events[i] = e
  <2>1. events \in Injection(1..n, stored)
    BY <1>4 DEF Injection
  <2>2. IsFiniteSet(1..n) /\ Cardinality(1..n) = n
    BY FS_Interval
  <2>3. events \in Surjection(1..n, stored)
    BY <1>1, <2>1, <2>2, FS_Injection
  <2> QED BY <2>3 DEF Surjection
<1>6. PICK frames : frames = [i \in 1..n |-> [verb |-> "EVENT", id |-> q, event |-> events[i]]]
  OBVIOUS
<1>7. EventFrames(q) = frames
  BY <1>4, <1>6 DEF EventFrames
<1>8. \A i \in 1..n : frames[i] = [verb |-> "EVENT", id |-> q, event |-> events[i]] /\ events[i] \in stored
  BY <1>4, <1>6
<1>9. frames \in [1..n -> InFrame]
  BY <1>4, <1>6 DEF InFrame
<1>10. frames \in Seq(InFrame) /\ DOMAIN frames = 1..n
  BY <1>9
<1> QED BY <1>5, <1>7, <1>8, <1>10

LEMMA CallersTyped ==
  ASSUME Typed, NEW r \in Caller, Ask(r) \/ TimeOut(r) \/ CallerStep(r)
  PROVE  Typed'
<1> USE Keys
<1>1. CASE Ask(r) \/ Subscribe(r) \/ NextRound(r)
  <2>1. \E f \in OutFrame : SendLocked(f)
    <3>1. CASE Ask(r)
      <4>1. SendLocked(Frame(CASE r \in Query -> "REQ" [] r \in Publish -> "EVENT"
                               [] OTHER -> "NEG-OPEN", KeyOf(r))) /\ r \notin Feed
        BY <3>1 DEF Ask
      <4>2. CASE r \in Query
        BY <4>1, <4>2 DEF OutFrame, Frame
      <4>3. CASE r \in Publish /\ r \notin Query
        BY <4>1, <4>3, RelayClientConstants DEF OutFrame, Frame, KeyOf
      <4>4. CASE r \in Neg /\ r \notin Query \cup Publish
        BY <4>1, <4>4 DEF OutFrame, Frame
      <4> QED BY <4>1, <4>2, <4>3, <4>4 DEF Caller
    <3> QED BY <1>1, <3>1 DEF Subscribe, NextRound, OutFrame, Frame
  <2>2. PICK f \in OutFrame : SendLocked(f)
    BY <2>1
  <2>3. slot' = [slot EXCEPT ![KeyOf(r)] = r] /\ UNCHANGED <<got, result, dropping, closing, in, relay>>
    BY <1>1 DEF Ask, Subscribe, NextRound
  <2>4. /\ pc' \in [Caller -> PCs] /\ reply' \in [Caller -> Answers]
        /\ round' \in [Neg -> 0..Rounds - 1]
    BY <1>1, RelayClientConstants
       DEF Ask, Subscribe, NextRound, Typed, TypedCallers, PCs, Answers
  <2>5. SlotsKeyed'
    BY <2>3 DEF Typed, TypedClient, SlotsKeyed
  <2>6. gen' # 0 /\ gen' \in Socket
    <3>1. \A g \in Socket : g # 0
      BY RelayClientConstants DEF Socket
    <3> QED BY <2>2, <3>1, Sent
  <2>7. TypedClient'
    BY <2>2, <2>3, <2>5, <2>6, Sent DEF Typed, TypedClient
  <2>8. TypedWires'
    BY <2>2, <2>3, Sent DEF Typed, TypedWires, relay
  <2> QED BY <2>3, <2>4, <2>7, <2>8 DEF Typed, TypedCallers, TypedRelay, relay
<1>2. CASE Return(r) \/ Reconciled(r) \/ NegFails(r) \/ TimeOut(r) \/ Cancelled(r) \/ DropGuard(r)
           \/ SendClose(r)
  <2>1. UNCHANGED out \/ \E f \in OutFrame : SendIfConnected(f)
    BY <1>2 DEF Return, Reconciled, NegFails, TimeOut, Cancelled, DropGuard, SendClose, wires,
                OutFrame, Frame, Typed, TypedCallers
  <2>2. UNCHANGED <<gen, conn, got, reply, round, dropping, sock, in, relay>>
    BY <1>2 DEF Return, Reconciled, NegFails, TimeOut, Cancelled, DropGuard, SendClose,
                wires, client
  <2>3. /\ pc' \in [Caller -> PCs] /\ result' \in [Caller -> Answers]
        /\ closing' \subseteq Query \cup Neg
    BY <1>2 DEF Return, Reconciled, NegFails, TimeOut, Cancelled, DropGuard, SendClose,
                Typed, TypedCallers, PCs, Answers
  <2>4. slot' = [slot EXCEPT ![KeyOf(r)] = None] \/ UNCHANGED slot
    BY <1>2 DEF Return, Reconciled, NegFails, TimeOut, Cancelled, DropGuard, SendClose, client
  <2>5. SlotsKeyed'
    BY <2>4 DEF Typed, TypedClient, SlotsKeyed
  <2>6. TypedWires'
    BY <2>1, <2>2, SentIfConnected DEF Typed, TypedWires, relay
  <2> QED BY <2>2, <2>3, <2>5, <2>6 DEF Typed, TypedClient, TypedCallers, TypedRelay, relay
<1> QED BY <1>1, <1>2 DEF CallerStep

\* The next frame of a socket that has one.
LEMMA NextIn ==
  ASSUME Typed, NEW g \in Socket, in[g] # <<>>
  PROVE  /\ in[g] \in Seq(InFrame) /\ Head(in[g]) \in InFrame /\ Tail(in[g]) \in Seq(InFrame)
         /\ \A h \in Socket : h > gen => h # g
<1>1. in[g] \in Seq(InFrame) /\ ~(g > gen)
  BY DEF Typed, TypedWires
<1> QED BY <1>1

LEMMA NextOut ==
  ASSUME Typed, NEW g \in Socket, out[g] # <<>>
  PROVE  /\ out[g] \in Seq(OutFrame) /\ Head(out[g]) \in OutFrame /\ Tail(out[g]) \in Seq(OutFrame)
         /\ \A h \in Socket : h > gen => h # g
<1>1. out[g] \in Seq(OutFrame) /\ ~(g > gen)
  BY DEF Typed, TypedWires
<1> QED BY <1>1

LEMMA HandleTyped ==
  ASSUME Typed, NEW g \in Socket, Handle(g)
  PROVE  Typed'
<1>1. /\ in[g] # <<>> /\ in' = [in EXCEPT ![g] = Tail(@)]
      /\ UNCHANGED <<gen, conn, pc, result, round, dropping, sock, out, relay>>
  BY DEF Handle
<1>2. PICK f \in InFrame : f = Head(in[g])
  BY <1>1, NextIn
<1>3. f.id \in Key /\ (f.verb = "EVENT" => f.id \in Query /\ f.event \in Event)
  BY <1>2, Keys DEF InFrame, Key
<1>4. TypedWires'
  <2>1. PICK rest \in Seq(InFrame) : rest = Tail(in[g])
    BY <1>1, NextIn
  <2>2. in' = [in EXCEPT ![g] = rest]
    BY <1>1, <2>1
  <2>3. \A h \in Socket : h > gen => h # g
    BY <1>1, NextIn
  <2> QED BY <1>1, <2>1, <2>2, <2>3 DEF Typed, TypedWires, relay
<1>5. SlotsKeyed' /\ reply' \in [Caller -> Answers]
  <2>1. CASE UNCHANGED <<slot, reply>>
    BY <2>1 DEF Typed, TypedClient, TypedCallers, SlotsKeyed
  <2>2. CASE \E answer \in Answers : Settle(f.id, answer)
    BY <1>3, <2>2, SettleTypes
  <2>3. CASE HandleNotice(f)
    BY <2>3 DEF HandleNotice, Typed, TypedClient, TypedCallers, SlotsKeyed, Answers
  <2> QED BY <1>2, <2>1, <2>2, <2>3
       DEF Handle, HandleEvent, HandleEose, HandleAnswer, Answers
<1>6. got' \in [Query -> SUBSET Event]
  BY <1>2, <1>3 DEF Handle, HandleEvent, HandleEose, HandleAnswer, HandleNotice,
                    Typed, TypedClient
<1>7. closing' \subseteq Query \cup Neg
  BY <1>2 DEF Handle, HandleEvent, HandleEose, HandleAnswer, HandleNotice, Typed, TypedCallers
<1> QED BY <1>1, <1>4, <1>5, <1>6, <1>7 DEF Typed, TypedClient, TypedCallers, TypedRelay, relay

LEMMA SocketsTyped ==
  ASSUME Typed, NEW g \in Socket, ThreadFails(g) \/ ThreadEnds(g) \/ Break(g)
  PROVE  Typed'
<1>1. TypedClient' /\ TypedCallers'
  <2>1. CASE ThreadFails(g)
    BY <2>1, FailTypes DEF ThreadFails, Typed, TypedCallers
  <2>2. CASE ThreadEnds(g) \/ Break(g)
    BY <2>2 DEF ThreadEnds, Break, client, callers, Typed, TypedClient, TypedCallers, SlotsKeyed
  <2> QED BY <2>1, <2>2
<1>2. UNCHANGED <<gen, stored, refused, snapshot, answered>>
  BY DEF ThreadFails, ThreadEnds, Break, client, relay
<1>3. <<>> \in Seq(OutFrame) /\ <<>> \in Seq(InFrame)
  OBVIOUS
<1>4. /\ sock' \in [Socket -> {"new", "up", "broken", "ended"}]
      /\ out' = out \/ out' = [out EXCEPT ![g] = <<>>]
      /\ in' = in \/ in' = [in EXCEPT ![g] = <<>>]
      /\ open' = open \/ open' = [open EXCEPT ![g] = {}]
  BY DEF ThreadFails, ThreadEnds, Break, relay, Typed, TypedWires
<1>5. TypedWires' /\ open' \in [Socket -> SUBSET (Query \cup Feed \cup Neg)]
  BY <1>2, <1>3, <1>4 DEF Typed, TypedWires, TypedRelay
<1> QED BY <1>1, <1>2, <1>5 DEF Typed, TypedRelay

\* The relay reads one frame and answers with frames that may come in.
LEMMA ReadsTyped ==
  ASSUME Typed, NEW g \in Socket, NEW f, NEW frames \in Seq(InFrame), RelayReads(g, f, frames),
         open' \in [Socket -> SUBSET (Query \cup Feed \cup Neg)],
         \A h \in Socket : h # g => open'[h] = open[h]
  PROVE  TypedClient' /\ TypedCallers' /\ TypedWires'
<1>1. /\ out[g] # <<>> /\ out' = [out EXCEPT ![g] = Tail(@)] /\ in' = [in EXCEPT ![g] = @ \o frames]
      /\ UNCHANGED <<client, callers, sock>>
  BY DEF RelayReads
<1>2. in[g] \in Seq(InFrame)
  BY DEF Typed, TypedWires
<1>3. PICK t \in Seq(OutFrame), u \in Seq(InFrame) : t = Tail(out[g]) /\ u = in[g] \o frames
  <2>1. in[g] \o frames \in Seq(InFrame)
    BY <1>2
  <2> QED BY <1>1, <2>1, NextOut
<1>4. out' = [out EXCEPT ![g] = t] /\ in' = [in EXCEPT ![g] = u]
  BY <1>1, <1>3
<1>5. \A h \in Socket : h > gen => h # g
  BY <1>1, NextOut
<1>6. TypedWires'
  BY <1>1, <1>4, <1>5 DEF Typed, TypedWires, client
<1> QED BY <1>1, <1>6 DEF Typed, TypedClient, TypedCallers, SlotsKeyed, client, callers

LEMMA OneFrameSeq == \A f \in InFrame : <<f>> \in Seq(InFrame)
  OBVIOUS

\* What the relay answers a REQ with.
ReqAnswer(r) == (IF r \in Query THEN EventFrames(r) ELSE <<>>) \o <<Frame("EOSE", r)>>

LEMMA ReqAnswerTyped ==
  ASSUME Typed, NEW r \in Query \cup Feed PROVE ReqAnswer(r) \in Seq(InFrame)
<1>1. PICK e : e = (IF r \in Query THEN EventFrames(r) ELSE <<>>)
  OBVIOUS
<1>2. e \in Seq(InFrame)
  <2>1. <<>> \in Seq(InFrame)
    OBVIOUS
  <2> QED BY <1>1, <2>1, EventFramesOf DEF Typed, TypedRelay
<1>3. <<Frame("EOSE", r)>> \in Seq(InFrame)
  BY OneFrameSeq DEF InFrame, Frame
<1>4. e \o <<Frame("EOSE", r)>> \in Seq(InFrame)
  BY <1>2, <1>3
<1> QED BY <1>1, <1>4 DEF ReqAnswer

LEMMA RelayTyped ==
  ASSUME Typed, NEW g \in Socket, RelayStep(g) \/ RelayRefuses(g) \/ RelayClosed(g)
  PROVE  Typed'
<1> USE DEF TypedRelay
<1>1. CASE RelayReq(g)
  <2>1. PICK r \in Query \cup Feed :
          /\ RelayReads(g, Frame("REQ", r), ReqAnswer(r))
          /\ open' = [open EXCEPT ![g] = @ \cup {r}]
          /\ snapshot' = IF r \in Query THEN [snapshot EXCEPT ![r] = stored] ELSE snapshot
          /\ UNCHANGED <<stored, refused, answered>>
    BY <1>1 DEF RelayReq, ReqAnswer
  <2>2. /\ open' \in [Socket -> SUBSET (Query \cup Feed \cup Neg)]
        /\ \A h \in Socket : h # g => open'[h] = open[h]
    BY <2>1 DEF Typed
  <2> QED BY <2>1, <2>2, ReqAnswerTyped, ReadsTyped DEF Typed
<1>2. CASE RelayEvent(g)
  <2>1. PICK e \in Event : /\ RelayReads(g, Frame("EVENT", e), <<Frame("OK", e)>>)
                           /\ stored' = stored \cup {e} /\ UNCHANGED <<open, refused, snapshot, answered>>
    BY <1>2 DEF RelayEvent
  <2>2. Frame("OK", e) \in InFrame
    BY DEF InFrame, Frame
  <2> QED BY <2>1, <2>2, OneFrameSeq, ReadsTyped DEF Typed
<1>3. CASE RelayNeg(g)
  <2>1. PICK r \in Neg, verb \in {"NEG-OPEN", "NEG-MSG"} :
          /\ RelayReads(g, Frame(verb, r),
                  <<Frame(IF verb = "NEG-OPEN" \/ r \in open[g] THEN "NEG-MSG" ELSE "NEG-ERR", r)>>)
          /\ \/ /\ open' = [open EXCEPT ![g] = @ \cup {r}]
                /\ answered' = [answered EXCEPT ![g][r] = @ + 1]
             \/ UNCHANGED <<open, answered>>
          /\ UNCHANGED <<stored, refused, snapshot>>
    BY <1>3 DEF RelayNeg
  <2>2. Frame("NEG-MSG", r) \in InFrame /\ Frame("NEG-ERR", r) \in InFrame
    BY DEF InFrame, Frame
  <2>3. /\ open' \in [Socket -> SUBSET (Query \cup Feed \cup Neg)]
        /\ \A h \in Socket : h # g => open'[h] = open[h]
    BY <2>1 DEF Typed
  <2>4. answered' \in [Socket -> [Neg -> Nat]]
    <3>1. PICK row \in [Neg -> Nat] : row = [answered[g] EXCEPT ![r] = @ + 1]
      <4>1. PICK old \in [Neg -> Nat] : old = answered[g]
        BY DEF Typed
      <4>2. [old EXCEPT ![r] = @ + 1] \in [Neg -> Nat]
        OBVIOUS
      <4> QED BY <4>1, <4>2
    <3>2. answered' = [answered EXCEPT ![g][r] = @ + 1] \/ UNCHANGED answered
      BY <2>1
    <3>3. answered' = [answered EXCEPT ![g] = row] \/ UNCHANGED answered
      BY <3>1, <3>2 DEF Typed
    <3> QED BY <3>3 DEF Typed
  <2>5. <<Frame(IF verb = "NEG-OPEN" \/ r \in open[g] THEN "NEG-MSG" ELSE "NEG-ERR", r)>> \in Seq(InFrame)
    BY <2>2, OneFrameSeq
  <2>6. TypedClient' /\ TypedCallers' /\ TypedWires'
    BY <2>1, <2>3, <2>5, ReadsTyped
  <2> QED BY <2>1, <2>3, <2>4, <2>6 DEF Typed
<1>4. CASE RelayClose(g)
  <2>1. PICK r \in Query \cup Feed \cup Neg :
          /\ RelayReads(g, Frame("CLOSE", r), <<>>)
          /\ open' = [open EXCEPT ![g] = @ \ {r}]
          /\ UNCHANGED <<stored, refused, snapshot, answered>>
    BY <1>4 DEF RelayClose
  <2>2. <<>> \in Seq(InFrame)
    OBVIOUS
  <2>3. /\ open' \in [Socket -> SUBSET (Query \cup Feed \cup Neg)]
        /\ \A h \in Socket : h # g => open'[h] = open[h]
    BY <2>1 DEF Typed
  <2> QED BY <2>1, <2>2, <2>3, ReadsTyped DEF Typed
<1>5. CASE RelayRefuses(g)
  <2>1. PICK f : \E h \in InFrame : RelayReads(g, f, <<h>>)
    BY <1>5 DEF RelayRefuses, InFrame, Frame
  <2>2. UNCHANGED <<open, stored, snapshot, answered>> /\ refused' \subseteq Event
    BY <1>5 DEF RelayRefuses, Typed
  <2> QED BY <2>1, <2>2, OneFrameSeq, ReadsTyped DEF Typed
<1>6. CASE RelayClosed(g)
  <2>1. PICK f \in Feed \cap open[g] :
          /\ open' = [open EXCEPT ![g] = @ \ {f}]
          /\ in' = [in EXCEPT ![g] = Append(@, Frame("CLOSED", f))]
          /\ UNCHANGED <<client, callers, sock, out, stored, refused, snapshot, answered>>
    BY <1>6 DEF RelayClosed
  <2>2. Frame("CLOSED", f) \in InFrame /\ in[g] \in Seq(InFrame)
    BY DEF InFrame, Frame, Typed, TypedWires
  <2>3. PICK u \in Seq(InFrame) : u = Append(in[g], Frame("CLOSED", f))
    <3>1. \A s \in Seq(InFrame), x \in InFrame : Append(s, x) \in Seq(InFrame)
      OBVIOUS
    <3> QED BY <2>2, <3>1
  <2>4. in' = [in EXCEPT ![g] = u]
    BY <2>1, <2>3
  <2>5. \A h \in Socket : h > gen => h # g
    BY <2>1 DEF Typed, TypedWires
  <2>6. TypedRelay'
    BY <2>1 DEF Typed
  <2>7. TypedWires'
    BY <2>1, <2>4, <2>5 DEF Typed, TypedWires, client
  <2> QED BY <2>1, <2>6, <2>7 DEF Typed, TypedClient, TypedCallers, SlotsKeyed, client, callers
<1> QED BY <1>1, <1>2, <1>3, <1>4, <1>5, <1>6 DEF RelayStep

LEMMA TypedStep == Typed /\ [Next]_vars => Typed'
<1> SUFFICES ASSUME Typed, [Next]_vars PROVE Typed'
  OBVIOUS
<1>1. ASSUME NEW r \in Caller, Ask(r) \/ TimeOut(r) \/ CallerStep(r) PROVE Typed'
  BY <1>1, CallersTyped
<1>2. ASSUME NEW g \in Socket, ThreadStep(g) \/ RelayStep(g) \/ Break(g) \/ RelayRefuses(g)
                               \/ RelayClosed(g)
      PROVE  Typed'
  BY <1>2, HandleTyped, SocketsTyped, RelayTyped DEF ThreadStep
<1>3. CASE Disconnect \/ UNCHANGED vars
  <2>1. TypedCallers'
    BY <1>3 DEF Disconnect, vars, client, callers, Typed, TypedClient, TypedCallers
  <2>2. UNCHANGED <<client, wires, relay>>
    BY <1>3 DEF Disconnect, vars
  <2> QED BY <2>1, <2>2 DEF Typed, TypedClient, TypedWires, TypedRelay, SlotsKeyed,
                            client, wires, relay
<1>4. CASE DisconnectDrops
  <2>1. /\ Fail(dropping) /\ dropping' = 0
        /\ UNCHANGED <<gen, got, pc, result, round, closing, wires, relay>>
    BY <1>4 DEF DisconnectDrops
  <2>2. TypedClient' /\ reply' \in [Caller -> Answers]
    BY <2>1, FailTypes
  <2> QED BY <2>1, <2>2 DEF Typed, TypedCallers, TypedWires, TypedRelay, wires, relay
<1> QED BY <1>1, <1>2, <1>3, <1>4 DEF Next

LEMMA InitTyped == Init => Typed
<1> SUFFICES ASSUME Init PROVE Typed
  OBVIOUS
<1>1. TypedClient
  BY RelayClientConstants DEF Init, TypedClient, SlotsKeyed
<1>2. TypedCallers
  BY RelayClientConstants DEF Init, TypedCallers, PCs, Answers
<1>3. <<>> \in Seq(OutFrame) /\ <<>> \in Seq(InFrame)
  OBVIOUS
<1>4. TypedWires
  BY <1>3 DEF Init, TypedWires
<1>5. TypedRelay
  BY RelayClientConstants DEF Init, TypedRelay
<1> QED BY <1>1, <1>2, <1>4, <1>5 DEF Typed

LEMMA TypedAlways == Spec => []Typed
  BY InitTyped, TypedStep, PTL DEF Spec

\* Every variable keeps its type, and every frame on a wire is one that the
\* relay or the client handles.
THEOREM RelayClientTypes == Spec => []TypeOK
  BY TypedAlways, TypedIsTypeOK, PTL

------------------------------------------------------------------------------
(* Nobody waits on a socket that is gone *)

WaitInv == Typed /\ NobodyWaitsOnADeadSocket

\* A caller takes its key's slot, and asks on the socket the client holds.
LEMMA TakesSlot ==
  ASSUME WaitInv, NEW r \in Caller,
         slot' = [slot EXCEPT ![KeyOf(r)] = r], conn' = TRUE,
         pc' = [pc EXCEPT ![r] = "waiting"] \/ UNCHANGED pc,
         reply' = [reply EXCEPT ![r] = "none"] \/ UNCHANGED reply
  PROVE  NobodyWaitsOnADeadSocket'
<1> USE Keys DEF WaitInv, Typed, TypedClient, TypedCallers, SlotsKeyed
<1>1. ASSUME NEW q \in Caller, Waiting(q)'
      PROVE  \/ conn' /\ slot'[KeyOf(q)] = q
             \/ q \in Publish /\ slot'[KeyOf(q)] # q
  <2>1. CASE q = r
    BY <2>1
  <2>2. CASE q # r /\ KeyOf(q) = KeyOf(r)
    BY <2>2
  <2>3. CASE q # r /\ KeyOf(q) # KeyOf(r)
    <3>1. Waiting(q)
      BY <1>1, <2>3 DEF Waiting
    <3> QED BY <2>3, <3>1 DEF NobodyWaitsOnADeadSocket
  <2> QED BY <2>1, <2>2, <2>3
<1> QED BY <1>1 DEF NobodyWaitsOnADeadSocket, Waiting

\* A caller that goes waits for nothing, and may take its slot along.
LEMMA Leaves ==
  ASSUME WaitInv, NEW r \in Caller, NEW to \in PCs \ {"waiting"},
         pc' = [pc EXCEPT ![r] = to],
         slot' = [slot EXCEPT ![KeyOf(r)] = None] \/ UNCHANGED slot,
         UNCHANGED <<conn, reply>>
  PROVE  NobodyWaitsOnADeadSocket'
<1> USE Keys DEF WaitInv, Typed, TypedClient, TypedCallers, SlotsKeyed
<1>1. ASSUME NEW q \in Caller, Waiting(q)'
      PROVE  \/ conn' /\ slot'[KeyOf(q)] = q
             \/ q \in Publish /\ slot'[KeyOf(q)] # q
  <2>1. q # r /\ Waiting(q)
    BY <1>1 DEF Waiting
  <2> QED BY <2>1 DEF NobodyWaitsOnADeadSocket
<1> QED BY <1>1 DEF NobodyWaitsOnADeadSocket, Waiting

\* Fewer wait, on the same slots.
LEMMA Others ==
  ASSUME WaitInv, UNCHANGED <<pc, conn, slot>>, \A r \in Caller : reply'[r] = "none" => reply[r] = "none"
  PROVE  NobodyWaitsOnADeadSocket'
  BY DEF WaitInv, NobodyWaitsOnADeadSocket, Waiting

\* fail() tells everyone who waits on the socket it drops.
LEMMA FailKeeps ==
  ASSUME WaitInv, NEW g, Fail(g), UNCHANGED pc
  PROVE  NobodyWaitsOnADeadSocket'
<1>1. CASE UNCHANGED <<conn, slot, reply>>
  BY <1>1, Others
<1>2. CASE ~ UNCHANGED <<conn, slot, reply>>
  <2>1. PICK holders : holders = {slot[k] : k \in Key} \ {None}
    OBVIOUS
  <2>2. /\ conn' = FALSE
        /\ reply' = [r \in Caller |-> IF r \in holders /\ Waiting(r) THEN "lost" ELSE reply[r]]
        /\ slot' = [k \in Key |-> IF k \in Neg THEN slot[k] ELSE None]
    BY <1>2, <2>1 DEF Fail
  <2>3. ASSUME NEW q \in Caller, Waiting(q)'
        PROVE  q \in Publish /\ slot'[KeyOf(q)] # q
    <3>1. Waiting(q) /\ q \notin holders
      BY <2>2, <2>3 DEF Waiting
    <3>2. slot[KeyOf(q)] # q
      BY <2>1, <3>1, Keys
    <3>3. q \in Publish
      BY <3>1, <3>2 DEF WaitInv, NobodyWaitsOnADeadSocket
    <3> QED BY <2>2, <3>2, <3>3, Keys
  <2> QED BY <2>3 DEF NobodyWaitsOnADeadSocket, Waiting
<1> QED BY <1>1, <1>2

\* Who is settled has its answer.
LEMMA SettleKeeps ==
  ASSUME WaitInv, NEW k \in Key, NEW answer \in Answers \ {"none"}, Settle(k, answer),
         UNCHANGED <<pc, conn>>
  PROVE  NobodyWaitsOnADeadSocket'
<1>1. CASE UNCHANGED <<reply, slot>>
  BY <1>1, Others
<1>2. CASE ~ UNCHANGED <<reply, slot>>
  <2> USE DEF WaitInv, Typed, TypedClient, TypedCallers, SlotsKeyed
  <2>1. PICK h \in Caller : h = slot[k] /\ KeyOf(h) = k
    BY <1>2, Keys DEF Settle
  <2>2. reply' = [reply EXCEPT ![h] = answer]
        /\ (slot' = slot \/ slot' = [slot EXCEPT ![k] = None])
    BY <1>2, <2>1 DEF Settle
  <2>3. ASSUME NEW q \in Caller, Waiting(q)'
        PROVE  \/ conn' /\ slot'[KeyOf(q)] = q
               \/ q \in Publish /\ slot'[KeyOf(q)] # q
    <3>1. q # h /\ Waiting(q)
      BY <2>2, <2>3 DEF Waiting
    <3>2. CASE KeyOf(q) # k
      BY <2>2, <3>1, <3>2, Keys DEF NobodyWaitsOnADeadSocket
    <3>3. CASE KeyOf(q) = k
      BY <2>1, <2>2, <3>1, <3>3, Keys
    <3> QED BY <3>2, <3>3
  <2> QED BY <2>3 DEF NobodyWaitsOnADeadSocket, Waiting
<1> QED BY <1>1, <1>2

LEMMA CallersKeep ==
  ASSUME WaitInv, NEW r \in Caller, Ask(r) \/ TimeOut(r) \/ CallerStep(r)
  PROVE  NobodyWaitsOnADeadSocket'
<1>1. CASE Ask(r) \/ Subscribe(r) \/ NextRound(r)
  <2>1. slot' = [slot EXCEPT ![KeyOf(r)] = r] /\ conn' = TRUE
    BY <1>1, Keys DEF Ask, Subscribe, NextRound, SendLocked
  <2>2. /\ pc' = [pc EXCEPT ![r] = "waiting"] \/ UNCHANGED pc
        /\ reply' = [reply EXCEPT ![r] = "none"] \/ UNCHANGED reply
    BY <1>1 DEF Ask, Subscribe, NextRound
  <2> QED BY <2>1, <2>2, TakesSlot
<1>2. CASE Return(r) \/ Reconciled(r) \/ NegFails(r) \/ TimeOut(r) \/ Cancelled(r) \/ DropGuard(r)
  <2>1. \E to \in PCs \ {"waiting"} : pc' = [pc EXCEPT ![r] = to]
    BY <1>2 DEF Return, Reconciled, NegFails, TimeOut, Cancelled, DropGuard, PCs
  <2>2. /\ slot' = [slot EXCEPT ![KeyOf(r)] = None] \/ UNCHANGED slot
        /\ UNCHANGED <<conn, reply>>
    BY <1>2, Keys DEF Return, Reconciled, NegFails, TimeOut, Cancelled, DropGuard, client
  <2> QED BY <2>1, <2>2, Leaves
<1>3. CASE SendClose(r)
  BY <1>3, Others DEF SendClose, client
<1> QED BY <1>1, <1>2, <1>3 DEF CallerStep

LEMMA HandleKeeps ==
  ASSUME WaitInv, NEW g \in Socket, Handle(g)
  PROVE  NobodyWaitsOnADeadSocket'
<1>1. in[g] # <<>> /\ UNCHANGED <<pc, conn>>
  BY DEF Handle
<1>2. PICK f \in InFrame : f = Head(in[g])
  BY <1>1, NextIn DEF WaitInv
<1>3. f.id \in Key
  BY Keys DEF InFrame, Key
<1>4. CASE UNCHANGED <<slot, reply>>
  BY <1>1, <1>4, Others
<1>5. CASE \E answer \in Answers \ {"none"} : Settle(f.id, answer)
  BY <1>1, <1>3, <1>5, SettleKeeps
<1>6. CASE HandleNotice(f)
  <2>1. \A r \in Caller : reply'[r] = "none" => reply[r] = "none"
    BY <1>6 DEF HandleNotice
  <2> QED BY <1>1, <1>6, <2>1, Others DEF HandleNotice
<1> QED BY <1>2, <1>4, <1>5, <1>6
     DEF Handle, HandleEvent, HandleEose, HandleAnswer, Answers

LEMMA StepKeepsWaits ==
  ASSUME WaitInv, [Next]_vars
  PROVE  NobodyWaitsOnADeadSocket'
<1>1. ASSUME NEW r \in Caller, Ask(r) \/ TimeOut(r) \/ CallerStep(r) PROVE NobodyWaitsOnADeadSocket'
  BY <1>1, CallersKeep
<1>2. ASSUME NEW g \in Socket, Handle(g) PROVE NobodyWaitsOnADeadSocket'
  BY <1>2, HandleKeeps
<1>3. ASSUME NEW g \in Socket, ThreadFails(g) PROVE NobodyWaitsOnADeadSocket'
  BY <1>3, FailKeeps DEF ThreadFails
<1>4. CASE DisconnectDrops
  BY <1>4, FailKeeps DEF DisconnectDrops
<1>5. CASE UNCHANGED <<pc, conn, slot, reply>>
  BY <1>5, Others
<1>6. ASSUME NEW g \in Socket, ThreadEnds(g) \/ Break(g) \/ RelayStep(g) \/ RelayRefuses(g) \/ RelayClosed(g)
      PROVE  UNCHANGED <<client, callers>>
  BY <1>6 DEF ThreadEnds, Break, RelayStep, RelayReq, RelayEvent, RelayNeg, RelayClose,
              RelayRefuses, RelayClosed, RelayReads
<1>7. ASSUME UNCHANGED <<client, callers>> PROVE NobodyWaitsOnADeadSocket'
  BY <1>5, <1>7 DEF client, callers
<1>8. CASE Disconnect \/ UNCHANGED vars
  BY <1>5, <1>8 DEF Disconnect, vars, client, callers
<1> QED BY <1>1, <1>2, <1>3, <1>4, <1>6, <1>7, <1>8 DEF Next, ThreadStep

\* A caller without an answer waits under its own key on the socket the client
\* holds, or, as a publisher, finds its slot taken and goes: Inner::fail, the
\* guards and the handlers leave nobody waiting on a socket that is gone.
THEOREM NobodyIsLeftWaiting == Spec => []NobodyWaitsOnADeadSocket
<1>1. Init => NobodyWaitsOnADeadSocket
  BY DEF Init, NobodyWaitsOnADeadSocket, Waiting
<1>2. Typed /\ NobodyWaitsOnADeadSocket /\ [Next]_vars => NobodyWaitsOnADeadSocket'
  BY StepKeepsWaits DEF WaitInv
<1> QED BY <1>1, <1>2, TypedAlways, PTL DEF Spec

------------------------------------------------------------------------------
(* The wires: a sequence of frames for each socket *)

Somewhere(w, F) == \E g \in Socket : Has(w[g], F)
Once(w, F) ==
  /\ \A g \in Socket : Single(w[g], F)
  /\ \A g, h \in Socket : Has(w[g], F) /\ Has(w[h], F) => g = h

\* No frame of F is new.
Keeps(w, v, F) == (Somewhere(v, F) => Somewhere(w, F)) /\ (Once(w, F) => Once(v, F))

LEMMA SameWire == \A w, F : Keeps(w, w, F)
  BY DEF Keeps

LEMMA TailWire ==
  ASSUME NEW S, NEW w \in [Socket -> Seq(S)], NEW g \in Socket, w[g] # <<>>,
         NEW v, v = [w EXCEPT ![g] = Tail(@)]
  PROVE  \A F : Keeps(w, v, F) /\ (Once(w, F) /\ Head(w[g]) \in F => ~Somewhere(v, F))
<1>1. v[g] = Tail(w[g]) /\ w[g] \in Seq(S) /\ \A h \in Socket : h # g => v[h] = w[h]
  OBVIOUS
<1>2. \A F : Has(v[g], F) => Has(w[g], F)
  BY <1>1, TailOf
<1>3. \A F : Single(w[g], F) => Single(v[g], F) /\ (Head(w[g]) \in F => ~Has(v[g], F))
  BY <1>1, TailOf
<1>4. \A F : Head(w[g]) \in F => Has(w[g], F)
  BY <1>1, TailOf
<1>5. \A F : \A h \in Socket : Has(v[h], F) => Has(w[h], F)
  BY <1>1, <1>2
<1> QED BY <1>1, <1>3, <1>4, <1>5 DEF Keeps, Somewhere, Once

LEMMA JoinWire ==
  ASSUME NEW S, NEW w \in [Socket -> Seq(S)], NEW g \in Socket, NEW s \in Seq(S),
         NEW v, v = [w EXCEPT ![g] = @ \o s]
  PROVE  \A F : /\ ~Has(s, F) => Keeps(w, v, F)
                /\ ~Somewhere(w, F) /\ Single(s, F) => Once(v, F)
<1>1. v[g] = w[g] \o s /\ w[g] \in Seq(S) /\ \A h \in Socket : h # g => v[h] = w[h]
  OBVIOUS
<1>2. \A F : Has(v[g], F) <=> Has(w[g], F) \/ Has(s, F)
  BY <1>1, ConcatOf
<1>3. \A F : /\ Single(w[g], F) /\ ~Has(s, F) => Single(v[g], F)
             /\ ~Has(w[g], F) /\ Single(s, F) => Single(v[g], F)
  BY <1>1, ConcatOf
<1>4. ASSUME NEW F, ~Has(s, F) PROVE Keeps(w, v, F)
  <2>1. \A h \in Socket : Has(v[h], F) => Has(w[h], F)
    BY <1>1, <1>2, <1>4
  <2> QED BY <1>1, <1>3, <1>4, <2>1 DEF Keeps, Somewhere, Once
<1>5. ASSUME NEW F, ~Somewhere(w, F), Single(s, F) PROVE Once(v, F)
  <2>1. \A h \in Socket : Has(v[h], F) => h = g
    BY <1>1, <1>5 DEF Somewhere
  <2>2. \A h \in Socket : h # g => Single(v[h], F)
    BY <1>1, <1>5 DEF Somewhere, Has, Single
  <2>3. Single(v[g], F)
    BY <1>3, <1>5 DEF Somewhere
  <2> QED BY <2>1, <2>2, <2>3 DEF Once
<1> QED BY <1>4, <1>5

LEMMA AddWire ==
  ASSUME NEW S, NEW w \in [Socket -> Seq(S)], NEW g \in Socket, NEW f \in S,
         NEW v, v = [w EXCEPT ![g] = Append(@, f)]
  PROVE  \A F : /\ f \notin F => Keeps(w, v, F)
                /\ ~Somewhere(w, F) => Once(v, F)
<1>1. <<f>> \in Seq(S) /\ w[g] \in Seq(S)
  OBVIOUS
<1>2. Append(w[g], f) = w[g] \o <<f>>
  BY <1>1
<1>3. v = [w EXCEPT ![g] = @ \o <<f>>]
  BY <1>2
<1> QED BY <1>1, <1>3, JoinWire, OneFrame

LEMMA CutWire ==
  ASSUME NEW S, NEW w \in [Socket -> Seq(S)], NEW g, NEW v,
         v = [w EXCEPT ![g] = <<>>] \/ v = w
  PROVE  \A F : Keeps(w, v, F)
<1>1. \A h \in Socket : v[h] = w[h] \/ v[h] = <<>>
  OBVIOUS
<1>2. \A F : \A h \in Socket : (Has(v[h], F) => Has(w[h], F)) /\ (Single(w[h], F) => Single(v[h], F))
  BY <1>1, NoFrame
<1> QED BY <1>2 DEF Keeps, Somewhere, Once

------------------------------------------------------------------------------
(* Who has an answer holds no slot *)

Released ==
  \A r \in Caller :
    /\ r \in Query \cup Publish /\ reply[r] # "none" => slot[KeyOf(r)] # r
    /\ pc[r] \in {"idle", "done"} => slot[KeyOf(r)] # r
    /\ pc[r] = "idle" => reply[r] = "none"

LEMMA ReleasedFail ==
  ASSUME Typed, Released, NEW g, Fail(g), UNCHANGED pc
  PROVE  Released'
<1>1. CASE UNCHANGED <<conn, slot, reply>>
  BY <1>1 DEF Released
<1>2. CASE ~ UNCHANGED <<conn, slot, reply>>
  <2>1. PICK holders : holders = {slot[k] : k \in Key} \ {None}
    OBVIOUS
  <2>2. /\ reply' = [r \in Caller |-> IF r \in holders /\ Waiting(r) THEN "lost" ELSE reply[r]]
        /\ slot' = [k \in Key |-> IF k \in Neg THEN slot[k] ELSE None]
    BY <1>2, <2>1 DEF Fail
  <2>3. \A r \in Caller : slot'[KeyOf(r)] = slot[KeyOf(r)] \/ slot'[KeyOf(r)] = None
    BY <2>2, Keys
  <2>4. \A r \in Query \cup Publish : KeyOf(r) \notin Neg /\ r \in Caller
    BY Keys, RelayClientConstants DEF KeyOf, Caller
  <2>5. \A r \in Query \cup Publish : slot'[KeyOf(r)] = None
    BY <2>2, <2>4, Keys
  <2>6. \A r \in Caller : pc[r] = "idle" => reply'[r] = reply[r]
    BY <2>2 DEF Waiting
  <2> QED BY <2>3, <2>5, <2>6, Keys DEF Released
<1> QED BY <1>1, <1>2

LEMMA ReleasedSettle ==
  ASSUME Typed, Released, NEW k \in Key, NEW answer \in Answers, Settle(k, answer), UNCHANGED pc
  PROVE  Released'
<1>1. CASE UNCHANGED <<reply, slot>>
  BY <1>1 DEF Released
<1>2. CASE ~ UNCHANGED <<reply, slot>>
  <2>1. PICK h \in Caller : h = slot[k] /\ KeyOf(h) = k /\ Waiting(h)
    BY <1>2, Keys DEF Settle, Typed, TypedClient, SlotsKeyed
  <2>2. reply' = [reply EXCEPT ![h] = answer]
        /\ slot' = IF k \in Neg THEN slot ELSE [slot EXCEPT ![k] = None]
    BY <1>2, <2>1 DEF Settle
  <2>3. h \in Query \cup Publish => k \notin Neg
    BY <2>1, RelayClientConstants DEF KeyOf
  <2>4. \A r \in Caller : slot'[KeyOf(r)] = slot[KeyOf(r)] \/ slot'[KeyOf(r)] = None
    BY <2>2, Keys DEF Typed, TypedClient, SlotsKeyed
  <2> QED BY <2>1, <2>2, <2>3, <2>4, Keys
       DEF Released, Waiting, Typed, TypedClient, TypedCallers, SlotsKeyed
<1> QED BY <1>1, <1>2

LEMMA ReleasedStep == Typed /\ Released /\ [Next]_vars => Released'
<1> SUFFICES ASSUME Typed, Released, [Next]_vars PROVE Released'
  OBVIOUS
<1>0. /\ pc \in [Caller -> PCs] /\ reply \in [Caller -> Answers]
      /\ slot \in [Key -> Caller \cup {None}] /\ \A k \in Key : slot[k] # None => KeyOf(slot[k]) = k
  BY DEF Typed, TypedClient, TypedCallers, SlotsKeyed
<1>1. ASSUME NEW r \in Caller, Ask(r) \/ Subscribe(r) \/ NextRound(r) PROVE Released'
  <2>1. /\ slot' = [slot EXCEPT ![KeyOf(r)] = r]
        /\ pc' = [pc EXCEPT ![r] = "waiting"] \/ (pc' = pc /\ pc[r] = "waiting")
        /\ reply' = [reply EXCEPT ![r] = "none"] \/ (reply' = reply /\ pc[r] = "idle")
    BY <1>1, Keys DEF Ask, Subscribe, NextRound
  <2>2. pc'[r] = "waiting" /\ reply'[r] = "none"
    BY <1>0, <2>1 DEF Released
  <2>3. \A q \in Caller : q # r => pc'[q] = pc[q] /\ reply'[q] = reply[q]
                                   /\ (slot'[KeyOf(q)] = q => slot[KeyOf(q)] = q)
    BY <1>0, <2>1, Keys
  <2> QED BY <2>2, <2>3 DEF Released
<1>2. ASSUME NEW r \in Caller, Return(r) \/ Reconciled(r) \/ NegFails(r) \/ TimeOut(r) \/ Cancelled(r)
                               \/ DropGuard(r) \/ SendClose(r)
      PROVE  Released'
  <2>1. /\ pc' = [pc EXCEPT ![r] = "done"] \/ pc' = [pc EXCEPT ![r] = "leaving"] \/ pc' = pc
        /\ slot' = [slot EXCEPT ![KeyOf(r)] = None] \/ slot' = slot
        /\ UNCHANGED reply
    BY <1>2, Keys DEF Return, Reconciled, NegFails, TimeOut, Cancelled, DropGuard, SendClose, client
  <2>2. pc' = [pc EXCEPT ![r] = "done"] => slot'[KeyOf(r)] # r
    <3>1. CASE Return(r)
      BY <1>0, <3>1 DEF Return, Released, client
    <3>2. CASE Reconciled(r) \/ DropGuard(r)
      BY <1>0, <3>2, Keys DEF Reconciled, DropGuard
    <3>3. CASE NegFails(r) \/ TimeOut(r) \/ Cancelled(r)
      <4>1. pc' = [pc EXCEPT ![r] = "leaving"]
        BY <3>3 DEF NegFails, TimeOut, Cancelled
      <4> QED BY <1>0, <4>1
    <3>4. CASE SendClose(r)
      <4>1. pc' = pc /\ slot' = slot
        BY <3>4 DEF SendClose, client
      <4> QED BY <1>0, <4>1 DEF Released
    <3> QED BY <1>2, <3>1, <3>2, <3>3, <3>4
  <2>3. \A q \in Caller : slot'[KeyOf(q)] = q => slot[KeyOf(q)] = q
    BY <1>0, <2>1, Keys
  <2>4. \A q \in Caller : q # r => pc'[q] = pc[q]
    BY <1>0, <2>1
  <2>5. (pc'[r] = "done" /\ pc' = [pc EXCEPT ![r] = "done"]) \/ pc'[r] = "leaving" \/ pc' = pc
    BY <1>0, <2>1
  <2> QED BY <2>1, <2>2, <2>3, <2>4, <2>5 DEF Released
<1>3. ASSUME NEW g \in Socket, Handle(g) PROVE Released'
  <2>1. in[g] # <<>> /\ UNCHANGED pc
    BY <1>3 DEF Handle
  <2>2. PICK f \in InFrame : f = Head(in[g])
    BY <2>1, NextIn
  <2>3. f.id \in Key
    BY Keys DEF InFrame, Key
  <2>4. CASE UNCHANGED <<slot, reply>>
    BY <2>1, <2>4 DEF Released
  <2>5. CASE \E answer \in Answers : Settle(f.id, answer)
    BY <2>1, <2>3, <2>5, ReleasedSettle
  <2>6. CASE HandleNotice(f)
    <3>1. \A r \in Caller : reply'[r] = reply[r] \/ (r \in Neg /\ pc[r] = "waiting")
      BY <2>6 DEF HandleNotice, Waiting
    <3>2. \A r \in Query \cup Publish : r \notin Neg
      BY RelayClientConstants
    <3> QED BY <2>1, <2>6, <3>1, <3>2 DEF HandleNotice, Released
  <2> QED BY <1>3, <2>2, <2>4, <2>5, <2>6
       DEF Handle, HandleEvent, HandleEose, HandleAnswer, Answers
<1>4. ASSUME NEW g \in Socket, ThreadFails(g) PROVE Released'
  BY <1>4, ReleasedFail DEF ThreadFails
<1>5. CASE DisconnectDrops
  BY <1>5, ReleasedFail DEF DisconnectDrops
<1>6. CASE UNCHANGED <<slot, reply, pc>>
  BY <1>6 DEF Released
<1>7. ASSUME NEW g \in Socket, ThreadEnds(g) \/ Break(g) \/ RelayStep(g) \/ RelayRefuses(g) \/ RelayClosed(g)
      PROVE  UNCHANGED <<client, callers>>
  BY <1>7 DEF ThreadEnds, Break, RelayStep, RelayReq, RelayEvent, RelayNeg, RelayClose,
              RelayRefuses, RelayClosed, RelayReads
<1>8. ASSUME UNCHANGED <<client, callers>> PROVE Released'
  BY <1>6, <1>8 DEF client, callers
<1>9. CASE Disconnect \/ UNCHANGED vars
  BY <1>6, <1>9 DEF Disconnect, vars, client, callers
<1> QED BY <1>1, <1>2, <1>3, <1>4, <1>5, <1>7, <1>8, <1>9 DEF Next, CallerStep, ThreadStep

------------------------------------------------------------------------------
(* One frame at a time asks or tells for a request *)

Opens(r) == {Frame("REQ", r), Frame("NEG-OPEN", r)}
Asks(r) == Opens(r) \cup {Frame("NEG-MSG", r)}
Ends(r) == {Frame("EOSE", r)}
Refusals(r) == {Frame("CLOSED", r), Frame("NEG-ERR", r)}
Brings(r, e) == {[verb |-> "EVENT", id |-> r, event |-> e]}
BringsAny(r) == {[verb |-> "EVENT", id |-> r, event |-> e] : e \in Event}
Tells(r) == Refusals(r) \cup {Frame("EOSE", r), Frame("NEG-MSG", r), Frame("NOTICE", r)}

NothingOnItsWay(r) == ~Somewhere(out, Asks(r)) /\ ~Somewhere(in, Tells(r))

Token(r) ==
  /\ Once(out, Asks(r)) /\ Once(in, Tells(r))
  /\ ~(Somewhere(out, Asks(r)) /\ Somewhere(in, Tells(r)))
  /\ pc[r] = "idle" \/ reply[r] = "ok" => NothingOnItsWay(r)

Tokens == \A r \in Query \cup Neg : Token(r)

LEMMA FramesOf ==
  /\ \A v, r, x : Frame(v, x) \in Asks(r) <=> x = r /\ v \in {"REQ", "NEG-OPEN", "NEG-MSG"}
  /\ \A v, r, x : Frame(v, x) \in Opens(r) <=> x = r /\ v \in {"REQ", "NEG-OPEN"}
  /\ \A v, r, x : Frame(v, x) \in Tells(r) <=>
       x = r /\ v \in {"CLOSED", "NEG-ERR", "EOSE", "NEG-MSG", "NOTICE"}
  /\ \A v, r, x : Frame(v, x) \in Refusals(r) <=> x = r /\ v \in {"CLOSED", "NEG-ERR"}
  /\ \A v, r, x : Frame(v, x) \in Ends(r) <=> x = r /\ v = "EOSE"
  /\ \A v, x, w, r : Frame(v, x) = Frame(w, r) <=> v = w /\ x = r
  /\ \A q, e, r : /\ [verb |-> "EVENT", id |-> q, event |-> e] \notin Tells(r)
                  /\ [verb |-> "EVENT", id |-> q, event |-> e] \in BringsAny(r) => r = q
  /\ \A q, e, v, r : v # "EVENT" => [verb |-> "EVENT", id |-> q, event |-> e] # Frame(v, r)
  /\ \A v, x, r : v # "EVENT" => Frame(v, x) \notin BringsAny(r)
  /\ \A r : Refusals(r) \subseteq Tells(r) /\ Ends(r) \subseteq Tells(r) /\ Opens(r) \subseteq Asks(r)
  /\ \A r, f : f \in Tells(r) => f.id = r
<1>1. \A v, x, w, r : Frame(v, x) = Frame(w, r) <=> v = w /\ x = r
  <2> SUFFICES ASSUME NEW v, NEW x, NEW w, NEW r, Frame(v, x) = Frame(w, r) PROVE v = w /\ x = r
    OBVIOUS
  <2>1. Frame(v, x).verb = v /\ Frame(v, x).id = x /\ Frame(w, r).verb = w /\ Frame(w, r).id = r
    BY DEF Frame
  <2> QED BY <2>1
<1>2. \A q, e, v, r : [verb |-> "EVENT", id |-> q, event |-> e] # Frame(v, r) \/ v = "EVENT"
  <2> SUFFICES ASSUME NEW q, NEW e, NEW v, NEW r, [verb |-> "EVENT", id |-> q, event |-> e] = Frame(v, r)
               PROVE  v = "EVENT"
    OBVIOUS
  <2>1. [verb |-> "EVENT", id |-> q, event |-> e].verb = "EVENT" /\ Frame(v, r).verb = v
    BY DEF Frame
  <2> QED BY <2>1
<1>3. \A v, r : Frame(v, r).id = r
  BY DEF Frame
<1>4. \A q, e, r : [verb |-> "EVENT", id |-> q, event |-> e] \in BringsAny(r) => r = q
  <2> SUFFICES ASSUME NEW q, NEW e, NEW r, NEW x,
                      [verb |-> "EVENT", id |-> q, event |-> e] = [verb |-> "EVENT", id |-> r, event |-> x]
               PROVE  r = q
    BY DEF BringsAny
  <2>1. [verb |-> "EVENT", id |-> q, event |-> e].id = q /\ [verb |-> "EVENT", id |-> r, event |-> x].id = r
    OBVIOUS
  <2> QED BY <2>1
<1>5. \A v, x, r : v # "EVENT" => Frame(v, x) \notin BringsAny(r)
  BY <1>2 DEF BringsAny
<1> QED BY <1>1, <1>2, <1>3, <1>4, <1>5 DEF Asks, Opens, Tells, Refusals, Ends

\* Nothing of r's is new.
LEMMA TokenKept ==
  ASSUME NEW r \in Query \cup Neg, Token(r),
         Keeps(out, out', Asks(r)), Keeps(in, in', Tells(r)),
         pc'[r] = "idle" => pc[r] = "idle", reply'[r] = "ok" => reply[r] = "ok"
  PROVE  Token(r)'
  BY DEF Token, NothingOnItsWay, Keeps

LEMMA QuietReplies ==
  ASSUME Typed, NEW g, Fail(g)
  PROVE  \A r \in Caller : reply'[r] = "ok" => reply[r] = "ok"
<1>1. CASE UNCHANGED <<conn, slot, reply>>
  BY <1>1
<1>2. CASE ~ UNCHANGED <<conn, slot, reply>>
  <2>1. PICK holders : holders = {slot[k] : k \in Key} \ {None}
    OBVIOUS
  <2>2. reply' = [r \in Caller |-> IF r \in holders /\ Waiting(r) THEN "lost" ELSE reply[r]]
    BY <1>2, <2>1 DEF Fail
  <2> QED BY <2>2
<1> QED BY <1>1, <1>2

\* Only who waits under the key of a frame is settled by it.
LEMMA SettlesItsOwn ==
  ASSUME Typed, NEW k \in Key, NEW answer, Settle(k, answer)
  PROVE  /\ \A r \in Query \cup Neg : r # k => reply'[r] = reply[r] /\ slot'[r] = slot[r]
         /\ \A r \in Query \cup Neg : r = k =>
              \/ UNCHANGED <<reply, slot>>
              \/ /\ slot[r] = r /\ Waiting(r) /\ reply'[r] = answer
                 /\ slot'[r] = IF r \in Neg THEN slot[r] ELSE None
<1>1. CASE UNCHANGED <<reply, slot>>
  BY <1>1
<1>2. CASE ~ UNCHANGED <<reply, slot>>
  <2>1. PICK h \in Caller : h = slot[k] /\ KeyOf(h) = k /\ Waiting(h)
    BY <1>2, Keys DEF Settle, Typed, TypedClient, SlotsKeyed
  <2>2. reply' = [reply EXCEPT ![h] = answer]
        /\ slot' = IF k \in Neg THEN slot ELSE [slot EXCEPT ![k] = None]
    BY <1>2, <2>1 DEF Settle
  <2>3. \A r \in Query \cup Neg : r = h <=> r = k
    BY <2>1, Keys
  <2>4. \A r \in Query \cup Neg : r \in Key /\ r \in Caller
    BY Keys
  <2> QED BY <2>1, <2>2, <2>3, <2>4
       DEF Typed, TypedClient, TypedCallers, SlotsKeyed
<1> QED BY <1>1, <1>2

\* What the relay reads and answers with.
AnswersOnly(f, frames) ==
  /\ frames \in Seq(InFrame)
  /\ \A r \in Query \cup Neg : /\ f \notin Asks(r) => ~Has(frames, Tells(r))
                               /\ Single(frames, Tells(r))

LEMMA ReqAnswerTells ==
  ASSUME Typed, NEW r \in Query \cup Feed
  PROVE  AnswersOnly(Frame("REQ", r), ReqAnswer(r))
<1>1. PICK e \in Seq(InFrame) :
        /\ e = (IF r \in Query THEN EventFrames(r) ELSE <<>>)
        /\ \A x : ~Has(e, Tells(x))
  <2>1. CASE r \in Query
    <3>1. EventFrames(r) \in Seq(InFrame)
      BY <2>1, EventFramesOf DEF Typed, TypedRelay
    <3>2. \A i \in DOMAIN EventFrames(r) :
            \E v : EventFrames(r)[i] = [verb |-> "EVENT", id |-> r, event |-> v]
      BY <2>1, EventFramesOf DEF Typed, TypedRelay
    <3>3. \A x : ~Has(EventFrames(r), Tells(x))
      BY <3>2, FramesOf DEF Has
    <3> QED BY <2>1, <3>1, <3>3
  <2>2. CASE r \notin Query
    <3>1. <<>> \in Seq(InFrame)
      OBVIOUS
    <3> QED BY <2>2, <3>1, NoFrame
  <2> QED BY <2>1, <2>2
<1>2. Frame("EOSE", r) \in InFrame
  BY DEF InFrame, Frame
<1>3. <<Frame("EOSE", r)>> \in Seq(InFrame)
  BY <1>2, OneFrameSeq
<1>4. ReqAnswer(r) = e \o <<Frame("EOSE", r)>>
  BY <1>1 DEF ReqAnswer
<1>5. PICK eose : eose = <<Frame("EOSE", r)>> /\ eose \in Seq(InFrame)
  BY <1>3
<1>6. /\ \A F : Has(eose, F) <=> Frame("EOSE", r) \in F
      /\ \A F : Single(eose, F)
  BY <1>5, OneFrame
<1>7. /\ \A F : Has(e \o eose, F) <=> Has(e, F) \/ Has(eose, F)
      /\ \A F : ~Has(e, F) /\ Single(eose, F) => Single(e \o eose, F)
  BY <1>1, <1>5, ConcatOf
<1>8. \A x : /\ Frame("EOSE", r) \notin Tells(x) => ~Has(ReqAnswer(r), Tells(x))
             /\ Single(ReqAnswer(r), Tells(x))
  BY <1>1, <1>4, <1>5, <1>6, <1>7, Zenon
<1> QED BY <1>8, ReqAnswerTyped, FramesOf DEF AnswersOnly

\* The events of an answer, and the frames that are in it.
LEMMA ReqAnswerHas ==
  ASSUME Typed, NEW r \in Query \cup Feed
  PROVE  /\ \A F : Has(ReqAnswer(r), F) => \E e : Frame("EOSE", r) \in F
                                               \/ [verb |-> "EVENT", id |-> r, event |-> e] \in F
         /\ r \in Query => \A e \in Event : Has(ReqAnswer(r), Brings(r, e)) <=> e \in stored
         /\ Follows(ReqAnswer(r), BringsAny(r), Ends(r))
<1>1. PICK e \in Seq(InFrame) : e = (IF r \in Query THEN EventFrames(r) ELSE <<>>)
  <2>1. <<>> \in Seq(InFrame)
    OBVIOUS
  <2> QED BY <2>1, EventFramesOf DEF Typed, TypedRelay
<1>2. PICK eose \in Seq(InFrame) : eose = <<Frame("EOSE", r)>>
  <2>1. Frame("EOSE", r) \in InFrame
    BY DEF InFrame, Frame
  <2> QED BY <2>1, OneFrameSeq
<1>3. ReqAnswer(r) = e \o eose
  BY <1>1, <1>2 DEF ReqAnswer
<1>4. /\ \A F : Has(e \o eose, F) <=> Has(e, F) \/ Has(eose, F)
      /\ \A A, B : Has(eose, B) /\ Follows(eose, A, B) => Follows(e \o eose, A, B)
  BY ConcatOf
<1>5. /\ \A F : Has(eose, F) <=> Frame("EOSE", r) \in F
      /\ \A A, B : Frame("EOSE", r) \notin A => Follows(eose, A, B)
  BY <1>2, OneFrame
<1>6. \A F : Has(e, F) => \E x : r \in Query /\ x \in stored /\ [verb |-> "EVENT", id |-> r, event |-> x] \in F
  <2>1. CASE r \in Query
    <3>1. \A i \in DOMAIN e : \E x \in stored : e[i] = [verb |-> "EVENT", id |-> r, event |-> x]
      BY <1>1, <2>1, EventFramesOf DEF Typed, TypedRelay
    <3> QED BY <2>1, <3>1 DEF Has
  <2>2. CASE r \notin Query
    BY <1>1, <2>2, NoFrame
  <2> QED BY <2>1, <2>2
<1>7. \A F : Has(ReqAnswer(r), F) => \E x : Frame("EOSE", r) \in F
                                             \/ [verb |-> "EVENT", id |-> r, event |-> x] \in F
  BY <1>3, <1>4, <1>5, <1>6
<1>8. ASSUME r \in Query, NEW x \in Event
      PROVE  Has(ReqAnswer(r), Brings(r, x)) <=> x \in stored
  <2>1. x \in stored => Has(e, Brings(r, x))
    BY <1>1, <1>8, EventFramesOf DEF Typed, TypedRelay, Has, Brings
  <2>2. Has(e, Brings(r, x)) => x \in stored
    <3>1. \A y : [verb |-> "EVENT", id |-> r, event |-> y] \in Brings(r, x) => y = x
      <4> SUFFICES ASSUME NEW y, [verb |-> "EVENT", id |-> r, event |-> y] = [verb |-> "EVENT", id |-> r, event |-> x]
                   PROVE  y = x
        BY DEF Brings
      <4>1. [verb |-> "EVENT", id |-> r, event |-> y].event = y /\ [verb |-> "EVENT", id |-> r, event |-> x].event = x
        OBVIOUS
      <4> QED BY <4>1
    <3> QED BY <1>6, <3>1
  <2>3. ~Has(eose, Brings(r, x))
    BY <1>5, FramesOf DEF Brings
  <2> QED BY <1>3, <1>4, <2>1, <2>2, <2>3
<1>9. Follows(ReqAnswer(r), BringsAny(r), Ends(r))
  <2>1. Has(eose, Ends(r)) /\ Frame("EOSE", r) \notin BringsAny(r)
    BY <1>5, FramesOf
  <2> QED BY <1>3, <1>4, <1>5, <2>1
<1> QED BY <1>7, <1>8, <1>9

LEMMA OneAnswer ==
  ASSUME NEW f, NEW h \in InFrame, \A r \in Query \cup Neg : h \in Tells(r) => f \in Asks(r)
  PROVE  AnswersOnly(f, <<h>>)
  BY OneFrameSeq, OneFrame DEF AnswersOnly

\* What is open afterwards was open or is what it read; it refuses what is not.
OpensOnly(g, f, frames) ==
  \A r \in Query \cup Neg :
    /\ \A h \in Socket : r \in open'[h] => r \in open[h] \/ (h = g /\ f \in Opens(r))
    /\ f = Frame("CLOSE", r) => r \notin open'[g]
    /\ Has(frames, Refusals(r)) => r \notin open'[g] \/ (f \in Opens(r) /\ UNCHANGED open)

\* It answers a query with all it stores, and nothing else with events.
BringsAll(f, frames) ==
  \A r \in Query :
    \/ f = Frame("REQ", r) /\ frames = ReqAnswer(r) /\ snapshot'[r] = stored
    \/ ~Has(frames, BringsAny(r)) /\ ~Has(frames, Ends(r)) /\ snapshot'[r] = snapshot[r]

\* It counts what it answers of a reconciliation.
CountsRounds(g, f, frames) ==
  \A r \in Neg :
    \/ /\ ~Has(frames, {Frame("NEG-MSG", r)})
       /\ \A h \in Socket : answered'[h][r] = answered[h][r] /\ (r \in open'[h] => r \in open[h])
    \/ /\ f \in Asks(r) /\ (f \in Opens(r) \/ r \in open[g])
       /\ \A h \in Socket : answered'[h][r] = IF h = g THEN answered[h][r] + 1 ELSE answered[h][r]

\* It stores what it acknowledges.
StoresWhatItOks(frames) ==
  /\ stored \subseteq stored'
  /\ \A e \in Event : Has(frames, {Frame("OK", e)}) => e \in stored'

Answering(g, f, frames) ==
  /\ RelayReads(g, f, frames) /\ AnswersOnly(f, frames) /\ OpensOnly(g, f, frames)
  /\ BringsAll(f, frames) /\ CountsRounds(g, f, frames) /\ StoresWhatItOks(frames)

LEMMA AnswersReq ==
  ASSUME Typed, NEW g \in Socket, RelayReq(g)
  PROVE  \E f, frames : Answering(g, f, frames)
<1>1. PICK q \in Query \cup Feed :
        /\ RelayReads(g, Frame("REQ", q), ReqAnswer(q))
        /\ open' = [open EXCEPT ![g] = @ \cup {q}]
        /\ snapshot' = IF q \in Query THEN [snapshot EXCEPT ![q] = stored] ELSE snapshot
        /\ UNCHANGED <<stored, refused, answered>>
  BY DEF RelayReq, ReqAnswer
<1>2. /\ AnswersOnly(Frame("REQ", q), ReqAnswer(q))
      /\ \A F : Has(ReqAnswer(q), F) => \E e : Frame("EOSE", q) \in F
                                              \/ [verb |-> "EVENT", id |-> q, event |-> e] \in F
  BY ReqAnswerTells, ReqAnswerHas
<1>3. PICK answer : answer = ReqAnswer(q)
  OBVIOUS
<1>4. ASSUME NEW F, \A e : [verb |-> "EVENT", id |-> q, event |-> e] \notin F, Frame("EOSE", q) \notin F
      PROVE  ~Has(answer, F)
  BY <1>2, <1>3, <1>4
<1>5. \A r : ~Has(answer, Refusals(r)) /\ ~Has(answer, {Frame("NEG-MSG", r)}) /\ ~Has(answer, {Frame("OK", r)})
  <2> SUFFICES ASSUME NEW r
               PROVE  ~Has(answer, Refusals(r)) /\ ~Has(answer, {Frame("NEG-MSG", r)}) /\ ~Has(answer, {Frame("OK", r)})
    OBVIOUS
  <2>1. /\ \A e : [verb |-> "EVENT", id |-> q, event |-> e] \notin Refusals(r)
        /\ Frame("EOSE", q) \notin Refusals(r)
    BY FramesOf
  <2>2. /\ \A e : [verb |-> "EVENT", id |-> q, event |-> e] \notin {Frame("NEG-MSG", r)}
        /\ Frame("EOSE", q) \notin {Frame("NEG-MSG", r)}
    BY FramesOf
  <2>3. /\ \A e : [verb |-> "EVENT", id |-> q, event |-> e] \notin {Frame("OK", r)}
        /\ Frame("EOSE", q) \notin {Frame("OK", r)}
    BY FramesOf
  <2> QED BY <1>4, <2>1, <2>2, <2>3
<1>6. \A r : r # q => ~Has(answer, BringsAny(r)) /\ ~Has(answer, Ends(r))
  <2> SUFFICES ASSUME NEW r, r # q PROVE ~Has(answer, BringsAny(r)) /\ ~Has(answer, Ends(r))
    OBVIOUS
  <2>1. /\ \A e : [verb |-> "EVENT", id |-> q, event |-> e] \notin BringsAny(r)
        /\ Frame("EOSE", q) \notin BringsAny(r)
    BY FramesOf
  <2>2. /\ \A e : [verb |-> "EVENT", id |-> q, event |-> e] \notin Ends(r)
        /\ Frame("EOSE", q) \notin Ends(r)
    <3>1. \A e : [verb |-> "EVENT", id |-> q, event |-> e] \notin Tells(r)
      BY FramesOf
    <3> QED BY <3>1, FramesOf
  <2> QED BY <1>4, <2>1, <2>2
<1>7. OpensOnly(g, Frame("REQ", q), ReqAnswer(q))
  <2>1. \A r \in Query \cup Neg, h \in Socket :
          r \in open'[h] => r \in open[h] \/ (h = g /\ Frame("REQ", q) \in Opens(r))
    BY <1>1, FramesOf DEF Typed, TypedRelay
  <2>2. \A r : Frame("REQ", q) # Frame("CLOSE", r)
    BY FramesOf
  <2>3. \A r : ~Has(ReqAnswer(q), Refusals(r))
    BY <1>3, <1>5
  <2> QED BY <2>1, <2>2, <2>3 DEF OpensOnly
<1>8. BringsAll(Frame("REQ", q), ReqAnswer(q))
  <2>1. ASSUME NEW r \in Query, r # q
        PROVE  ~Has(ReqAnswer(q), BringsAny(r)) /\ ~Has(ReqAnswer(q), Ends(r)) /\ snapshot'[r] = snapshot[r]
    BY <1>1, <1>3, <1>6, <2>1 DEF Typed, TypedRelay
  <2>2. q \in Query => snapshot'[q] = stored
    BY <1>1 DEF Typed, TypedRelay
  <2> QED BY <2>1, <2>2 DEF BringsAll
<1>9. CountsRounds(g, Frame("REQ", q), ReqAnswer(q))
  <2>1. \A r \in Neg, h \in Socket : r \in open'[h] => r \in open[h]
    BY <1>1, RelayClientConstants DEF Typed, TypedRelay
  <2> QED BY <1>1, <1>3, <1>5, <2>1 DEF CountsRounds
<1>10. StoresWhatItOks(ReqAnswer(q))
  BY <1>1, <1>3, <1>5 DEF StoresWhatItOks
<1> QED BY <1>1, <1>2, <1>7, <1>8, <1>9, <1>10 DEF Answering

LEMMA AnswersNeg ==
  ASSUME Typed, NEW g \in Socket, RelayNeg(g)
  PROVE  \E f, frames : Answering(g, f, frames)
<1>1. PICK q \in Neg, verb \in {"NEG-OPEN", "NEG-MSG"}, back \in {"NEG-MSG", "NEG-ERR"} :
        /\ RelayReads(g, Frame(verb, q), <<Frame(back, q)>>)
        /\ IF verb = "NEG-OPEN" \/ q \in open[g]
           THEN /\ open' = [open EXCEPT ![g] = @ \cup {q}] /\ back = "NEG-MSG"
                /\ answered' = [answered EXCEPT ![g][q] = @ + 1]
           ELSE UNCHANGED <<open, answered>> /\ back = "NEG-ERR"
        /\ UNCHANGED <<stored, refused, snapshot>>
  BY DEF RelayNeg
<1>2. AnswersOnly(Frame(verb, q), <<Frame(back, q)>>)
  <2>1. Frame(back, q) \in InFrame /\ \A x : Frame(back, q) \in Tells(x) => Frame(verb, q) \in Asks(x)
    BY FramesOf DEF InFrame, Frame
  <2> QED BY <2>1, OneAnswer
<1>3. \A F : Has(<<Frame(back, q)>>, F) <=> Frame(back, q) \in F
  BY OneFrame
<1>4. OpensOnly(g, Frame(verb, q), <<Frame(back, q)>>)
  <2>1. \A r \in Query \cup Neg, h \in Socket :
          r \in open'[h] => r \in open[h] \/ (h = g /\ Frame(verb, q) \in Opens(r))
    BY <1>1, FramesOf DEF Typed, TypedRelay
  <2>2. \A r : Frame(verb, q) # Frame("CLOSE", r)
    BY FramesOf
  <2>3. \A r : Has(<<Frame(back, q)>>, Refusals(r)) => r = q /\ back = "NEG-ERR"
    BY <1>3, FramesOf
  <2>4. back = "NEG-ERR" => q \notin open'[g]
    BY <1>1
  <2> QED BY <2>1, <2>2, <2>3, <2>4 DEF OpensOnly
<1>5. BringsAll(Frame(verb, q), <<Frame(back, q)>>)
  BY <1>1, <1>3, FramesOf DEF BringsAll
<1>6. CountsRounds(g, Frame(verb, q), <<Frame(back, q)>>)
  <2>1. CASE back = "NEG-ERR"
    BY <1>1, <1>3, <2>1, FramesOf DEF CountsRounds
  <2>2. CASE back = "NEG-MSG"
    <3>1. /\ \A r \in Neg \ {q} : \A h \in Socket :
               answered'[h][r] = answered[h][r] /\ (r \in open'[h] => r \in open[h])
          /\ \A h \in Socket : answered'[h][q] = IF h = g THEN answered[h][q] + 1 ELSE answered[h][q]
      BY <1>1, <2>2 DEF Typed, TypedRelay
    <3>2. \A r \in Neg \ {q} : ~Has(<<Frame(back, q)>>, {Frame("NEG-MSG", r)})
      BY <1>3, FramesOf
    <3>3. Frame(verb, q) \in Asks(q) /\ (Frame(verb, q) \in Opens(q) \/ q \in open[g])
      BY <1>1, <2>2, FramesOf
    <3> QED BY <3>1, <3>2, <3>3 DEF CountsRounds
  <2> QED BY <2>1, <2>2
<1>7. StoresWhatItOks(<<Frame(back, q)>>)
  BY <1>1, <1>3, FramesOf DEF StoresWhatItOks
<1> QED BY <1>1, <1>2, <1>4, <1>5, <1>6, <1>7 DEF Answering

\* A refusal answers what it refuses, and opens nothing.
LEMMA AnswersRefused ==
  ASSUME Typed, NEW g \in Socket, NEW f, NEW back \in InFrame,
         RelayReads(g, f, <<back>>), UNCHANGED <<open, stored, snapshot, answered>>,
         \/ \E e \in Event : f = Frame("EVENT", e) /\ back = Frame("OK-FALSE", e)
         \/ \E r \in Query \cup Feed : f = Frame("REQ", r) /\ back = Frame("CLOSED", r)
         \/ \E r \in Neg, verb \in {"NEG-ERR", "NOTICE"} : f = Frame("NEG-OPEN", r) /\ back = Frame(verb, r)
  PROVE  Answering(g, f, <<back>>)
<1>1. \A F : Has(<<back>>, F) <=> back \in F
  BY OneFrame
<1>2. \A r : /\ back \in Tells(r) => f \in Opens(r) /\ f \in Asks(r)
             /\ back \in Refusals(r) => back \in Tells(r)
             /\ f # Frame("CLOSE", r) /\ back # Frame("OK", r) /\ back # Frame("NEG-MSG", r)
             /\ back \notin BringsAny(r) /\ back \notin Ends(r)
  BY FramesOf
<1>3. AnswersOnly(f, <<back>>)
  BY <1>2, OneAnswer
<1>4. OpensOnly(g, f, <<back>>)
  BY <1>1, <1>2 DEF OpensOnly
<1>5. BringsAll(f, <<back>>) /\ CountsRounds(g, f, <<back>>) /\ StoresWhatItOks(<<back>>)
  BY <1>1, <1>2 DEF BringsAll, CountsRounds, StoresWhatItOks
<1> QED BY <1>3, <1>4, <1>5 DEF Answering

LEMMA RelayAnswers ==
  ASSUME Typed, NEW g \in Socket, RelayStep(g) \/ RelayRefuses(g)
  PROVE  \E f, frames : Answering(g, f, frames)
<1>1. CASE RelayReq(g)
  BY <1>1, AnswersReq
<1>2. CASE RelayEvent(g)
  <2>1. PICK e \in Event : /\ RelayReads(g, Frame("EVENT", e), <<Frame("OK", e)>>)
                           /\ stored' = stored \cup {e} /\ UNCHANGED <<open, snapshot, answered>>
    BY <1>2 DEF RelayEvent
  <2>2. \A F : Has(<<Frame("OK", e)>>, F) <=> Frame("OK", e) \in F
    BY OneFrame
  <2>3. Frame("OK", e) \in InFrame
    BY DEF InFrame, Frame
  <2>4. \A r : /\ Frame("OK", e) \notin Tells(r) /\ Frame("OK", e) \notin Refusals(r)
               /\ Frame("OK", e) \notin BringsAny(r) /\ Frame("OK", e) \notin Ends(r)
               /\ Frame("OK", e) # Frame("NEG-MSG", r) /\ Frame("EVENT", e) # Frame("CLOSE", r)
    BY FramesOf
  <2>5. AnswersOnly(Frame("EVENT", e), <<Frame("OK", e)>>)
    BY <2>3, <2>4, OneAnswer
  <2>6. /\ OpensOnly(g, Frame("EVENT", e), <<Frame("OK", e)>>)
        /\ BringsAll(Frame("EVENT", e), <<Frame("OK", e)>>)
        /\ CountsRounds(g, Frame("EVENT", e), <<Frame("OK", e)>>)
    BY <2>1, <2>2, <2>4 DEF OpensOnly, BringsAll, CountsRounds
  <2>7. StoresWhatItOks(<<Frame("OK", e)>>)
    BY <2>1, <2>2, FramesOf DEF StoresWhatItOks
  <2> QED BY <2>1, <2>5, <2>6, <2>7 DEF Answering
<1>3. CASE RelayNeg(g)
  BY <1>3, AnswersNeg
<1>4. CASE RelayClose(g)
  <2>1. PICK q : /\ RelayReads(g, Frame("CLOSE", q), <<>>)
                 /\ open' = [open EXCEPT ![g] = @ \ {q}] /\ UNCHANGED <<stored, snapshot, answered>>
    BY <1>4 DEF RelayClose
  <2>2. <<>> \in Seq(InFrame) /\ \A F : ~Has(<<>>, F) /\ Single(<<>>, F)
    BY NoFrame
  <2>3. OpensOnly(g, Frame("CLOSE", q), <<>>)
    BY <2>1, <2>2, FramesOf DEF OpensOnly, Typed, TypedRelay
  <2>4. /\ AnswersOnly(Frame("CLOSE", q), <<>>) /\ BringsAll(Frame("CLOSE", q), <<>>)
        /\ StoresWhatItOks(<<>>)
    BY <2>1, <2>2 DEF AnswersOnly, BringsAll, StoresWhatItOks
  <2>5. CountsRounds(g, Frame("CLOSE", q), <<>>)
    BY <2>1, <2>2 DEF CountsRounds, Typed, TypedRelay
  <2> QED BY <2>1, <2>3, <2>4, <2>5 DEF Answering
<1>5. CASE RelayRefuses(g)
  <2>1. UNCHANGED <<open, stored, snapshot, answered>>
    BY <1>5 DEF RelayRefuses
  <2>2. CASE \E e \in Event : RelayReads(g, Frame("EVENT", e), <<Frame("OK-FALSE", e)>>)
    <3>1. \A e \in Event : Frame("OK-FALSE", e) \in InFrame
      BY DEF InFrame, Frame
    <3> QED BY <2>1, <2>2, <3>1, AnswersRefused
  <2>3. CASE \E r \in Query \cup Feed : RelayReads(g, Frame("REQ", r), <<Frame("CLOSED", r)>>)
    <3>1. \A r \in Query \cup Feed : Frame("CLOSED", r) \in InFrame
      BY DEF InFrame, Frame
    <3> QED BY <2>1, <2>3, <3>1, AnswersRefused
  <2>4. CASE \E r \in Neg : \E verb \in {"NEG-ERR", "NOTICE"} :
               RelayReads(g, Frame("NEG-OPEN", r), <<Frame(verb, r)>>)
    <3>1. \A r \in Neg, verb \in {"NEG-ERR", "NOTICE"} : Frame(verb, r) \in InFrame
      BY DEF InFrame, Frame
    <3> QED BY <2>1, <2>4, <3>1, AnswersRefused
  <2> QED BY <1>5, <2>2, <2>3, <2>4 DEF RelayRefuses
<1> QED BY <1>1, <1>2, <1>3, <1>4, <1>5 DEF RelayStep

\* The frame of a request goes out under its own id.
LEMMA Sends ==
  ASSUME Typed, NEW p \in Caller, Ask(p) \/ Subscribe(p) \/ NextRound(p)
  PROVE  \E verb \in {"REQ", "NEG-OPEN", "NEG-MSG", "EVENT"}, k \in Key :
           /\ SendLocked(Frame(verb, k)) /\ Frame(verb, k) \in OutFrame
           /\ \A r \in Query \cup Neg : k = r => p = r
           /\ verb = "NEG-MSG" <=> NextRound(p)
<1>0. /\ \A r \in Query \cup Neg : r \notin Feed \cup Publish /\ r \notin Event
      /\ Query \cup Feed \cup Neg \cup Event \subseteq Key
  BY RelayClientConstants DEF Key
<1>1. CASE Subscribe(p)
  <2>1. SendLocked(Frame("REQ", p)) /\ p \in Feed /\ ~NextRound(p)
    BY <1>1, RelayClientConstants DEF Subscribe, NextRound
  <2> QED BY <1>0, <2>1 DEF OutFrame, Frame
<1>2. CASE NextRound(p)
  <2>1. SendLocked(Frame("NEG-MSG", p)) /\ p \in Neg
    BY <1>2 DEF NextRound
  <2> QED BY <1>0, <1>2, <2>1 DEF OutFrame, Frame
<1>3. CASE Ask(p)
  <2>1. SendLocked(Frame(CASE p \in Query -> "REQ" [] p \in Publish -> "EVENT"
                               [] OTHER -> "NEG-OPEN", KeyOf(p))) /\ p \notin Feed
        /\ pc[p] = "idle"
    BY <1>3 DEF Ask
  <2>2. ~NextRound(p)
    BY <2>1 DEF NextRound
  <2>3. CASE p \in Query
    <3>1. SendLocked(Frame("REQ", p)) /\ Frame("REQ", p) \in OutFrame
      BY <2>1, <2>3, Keys DEF OutFrame, Frame
    <3> QED BY <1>0, <2>2, <2>3, <3>1
  <2>4. CASE p \in Publish
    <3>1. KeyOf(p) \in Event /\ p \notin Query
      BY <2>4, RelayClientConstants DEF KeyOf
    <3>2. SendLocked(Frame("EVENT", KeyOf(p))) /\ Frame("EVENT", KeyOf(p)) \in OutFrame
      BY <2>1, <2>4, <3>1 DEF OutFrame, Frame
    <3> QED BY <1>0, <2>2, <3>1, <3>2
  <2>5. CASE p \in Neg
    <3>1. KeyOf(p) = p /\ p \notin Publish /\ p \notin Query
      BY <2>5, Keys, RelayClientConstants
    <3>2. SendLocked(Frame("NEG-OPEN", p)) /\ Frame("NEG-OPEN", p) \in OutFrame
      BY <2>1, <2>5, <3>1 DEF OutFrame, Frame
    <3> QED BY <1>0, <2>2, <2>5, <3>2
  <2> QED BY <2>1, <2>3, <2>4, <2>5 DEF Caller
<1> QED BY <1>1, <1>2, <1>3

LEMMA TokensStep == Typed /\ Released /\ Tokens /\ [Next]_vars => Tokens'
<1> SUFFICES ASSUME Typed, Released, Tokens, [Next]_vars, NEW r \in Query \cup Neg PROVE Token(r)'
  BY DEF Tokens
<1>0. /\ Token(r) /\ r \in Caller /\ KeyOf(r) = r /\ r \notin Feed \cup Publish
      /\ pc \in [Caller -> PCs] /\ reply \in [Caller -> Answers]
      /\ out \in [Socket -> Seq(OutFrame)] /\ in \in [Socket -> Seq(InFrame)]
  BY Keys, RelayClientConstants DEF Tokens, Typed, TypedCallers, TypedWires
<1>1. CASE UNCHANGED <<out, in>> /\ (pc'[r] = "idle" => pc[r] = "idle") /\ (reply'[r] = "ok" => reply[r] = "ok")
  BY <1>0, <1>1, TokenKept, SameWire
<1>2. ASSUME NEW p \in Caller, Ask(p) \/ Subscribe(p) \/ NextRound(p) PROVE Token(r)'
  <2>1. PICK verb \in {"REQ", "NEG-OPEN", "NEG-MSG", "EVENT"}, k \in Key :
          /\ SendLocked(Frame(verb, k)) /\ Frame(verb, k) \in OutFrame
          /\ k = r => p = r /\ (pc[r] = "idle" \/ reply[r] = "ok")
    <3>1. p = r => pc[r] = "idle" \/ reply[r] = "ok"
      BY <1>0, <1>2 DEF Ask, Subscribe, NextRound
    <3> QED BY <1>2, <3>1, Sends
  <2>2. /\ gen' \in Socket /\ out' = [out EXCEPT ![gen'] = Append(@, Frame(verb, k))]
    BY <2>1, Sent
  <2>3. /\ UNCHANGED in
        /\ pc'[r] = "idle" => pc[r] = "idle" /\ p # r
        /\ reply'[r] = "ok" => reply[r] = "ok" /\ (p # r \/ pc[r] = "idle")
    BY <1>0, <1>2 DEF Ask, Subscribe, NextRound
  <2>4. \A F : /\ Frame(verb, k) \notin F => Keeps(out, out', F)
               /\ ~Somewhere(out, F) => Once(out', F)
    BY <1>0, <2>1, <2>2, AddWire
  <2>5. CASE k # r
    <3>1. Frame(verb, k) \notin Asks(r)
      BY <2>5, FramesOf
    <3>2. Keeps(out, out', Asks(r)) /\ Keeps(in, in', Tells(r))
      BY <2>3, <2>4, <3>1, SameWire
    <3> QED BY <1>0, <2>3, <3>2, TokenKept
  <2>6. CASE k = r
    <3>1. NothingOnItsWay(r)
      BY <1>0, <2>1, <2>6 DEF Token
    <3>2. pc'[r] # "idle" /\ reply'[r] # "ok"
      <4>1. pc[r] = "idle" => reply[r] # "ok"
        BY <1>0 DEF Released
      <4>2. NextRound(p) => reply'[r] = "none"
        BY <1>0, <2>1, <2>6 DEF NextRound
      <4>3. ~Subscribe(p)
        BY <1>0, <2>1, <2>6 DEF Subscribe
      <4>4. Ask(p) => UNCHANGED reply /\ pc[r] = "idle"
        BY <2>1, <2>6 DEF Ask
      <4> QED BY <1>2, <2>1, <2>3, <2>6, <4>1, <4>2, <4>3, <4>4
    <3> QED BY <2>3, <2>4, <3>1, <3>2, <1>0 DEF Token, NothingOnItsWay
  <2> QED BY <2>5, <2>6
<1>3. ASSUME NEW p \in Caller, Return(p) \/ Reconciled(p) \/ NegFails(p) \/ TimeOut(p) \/ Cancelled(p)
                               \/ DropGuard(p) \/ SendClose(p)
      PROVE  Token(r)'
  <2>1. /\ UNCHANGED <<in, reply>>
        /\ pc'[r] = "idle" => pc[r] = "idle"
    BY <1>0, <1>3 DEF Return, Reconciled, NegFails, TimeOut, Cancelled, DropGuard, SendClose, wires, client
  <2>2. CASE UNCHANGED out
    BY <1>1, <2>1, <2>2
  <2>3. CASE SendIfConnected(Frame("CLOSE", p)) /\ Frame("CLOSE", p) \in OutFrame
    <3>1. CASE conn
      <4>1. gen \in Socket /\ out' = [out EXCEPT ![gen] = Append(@, Frame("CLOSE", p))]
        BY <2>3, <3>1 DEF SendIfConnected, Typed, TypedClient
      <4>2. Frame("CLOSE", p) \notin Asks(r)
        BY FramesOf
      <4>3. \A F : Frame("CLOSE", p) \notin F => Keeps(out, out', F)
        BY <1>0, <2>3, <4>1, AddWire
      <4> QED BY <1>0, <2>1, <4>2, <4>3, TokenKept, SameWire
    <3>2. CASE ~conn
      BY <2>2, <2>3, <3>2 DEF SendIfConnected
    <3> QED BY <3>1, <3>2
  <2> QED BY <1>3, <2>2, <2>3 DEF Return, Reconciled, NegFails, TimeOut, Cancelled, DropGuard, SendClose,
             wires, OutFrame, Frame, Typed, TypedCallers
<1>4. ASSUME NEW g \in Socket, Handle(g) PROVE Token(r)'
  <2>1. in[g] # <<>> /\ in' = [in EXCEPT ![g] = Tail(@)] /\ UNCHANGED <<out, pc>>
    BY <1>4 DEF Handle
  <2>2. PICK f \in InFrame : f = Head(in[g])
    BY <2>1, NextIn
  <2>3. f.id \in Key
    BY Keys DEF InFrame, Key
  <2>4. /\ Keeps(in, in', Tells(r))
        /\ Once(in, Tells(r)) /\ f \in Tells(r) => ~Somewhere(in', Tells(r))
    BY <1>0, <2>1, <2>2, TailWire
  <2>5. CASE f \in Tells(r)
    <3>1. Somewhere(in, Tells(r))
      BY <1>0, <2>1, <2>2, <2>5, TailOf DEF Somewhere
    <3> QED BY <1>0, <2>1, <2>4, <2>5, <3>1 DEF Token, NothingOnItsWay, Once, Somewhere, Keeps
  <2>6. CASE f \notin Tells(r)
    <3>1. reply'[r] = "ok" => reply[r] = "ok"
      <4>1. CASE UNCHANGED reply
        BY <4>1
      <4>2. CASE HandleNotice(f)
        BY <1>0, <4>2 DEF HandleNotice
      <4>3. ASSUME NEW answer, Settle(f.id, answer), f.id # r \/ answer # "ok" PROVE reply'[r] = "ok" => reply[r] = "ok"
        BY <2>3, <4>3, SettlesItsOwn
      <4>4. CASE HandleEose(f) \/ HandleAnswer(f)
        <5>1. f.id = r => f.verb \notin {"EOSE", "NEG-MSG", "OK"}
          <6>1. \A v \in {"EOSE", "NEG-MSG"} : f.id = r /\ f.verb = v => f = Frame(v, r)
            BY DEF InFrame, Frame
          <6>2. f.verb = "OK" => f.id # r
            BY RelayClientConstants DEF InFrame
          <6> QED BY <2>6, <6>1, <6>2, FramesOf
        <5> QED BY <4>1, <4>3, <4>4, <5>1 DEF HandleEose, HandleAnswer
      <4> QED BY <1>4, <2>2, <4>1, <4>2, <4>4 DEF Handle, HandleEvent
    <3> QED BY <1>0, <2>1, <2>4, <3>1, TokenKept, SameWire
  <2> QED BY <2>5, <2>6
<1>5. ASSUME NEW g \in Socket, ThreadFails(g) \/ ThreadEnds(g) \/ Break(g) PROVE Token(r)'
  <2>1. /\ out' = [out EXCEPT ![g] = <<>>] \/ out' = out
        /\ in' = [in EXCEPT ![g] = <<>>] \/ in' = in
        /\ UNCHANGED pc
    BY <1>5 DEF ThreadFails, ThreadEnds, Break, callers
  <2>2. reply'[r] = "ok" => reply[r] = "ok"
    BY <1>0, <1>5, QuietReplies DEF ThreadFails, ThreadEnds, Break, callers
  <2>3. Keeps(out, out', Asks(r)) /\ Keeps(in, in', Tells(r))
    BY <1>0, <2>1, CutWire
  <2> QED BY <1>0, <2>1, <2>2, <2>3, TokenKept
<1>6. ASSUME NEW g \in Socket, RelayStep(g) \/ RelayRefuses(g) PROVE Token(r)'
  <2>1. PICK f, frames : RelayReads(g, f, frames) /\ AnswersOnly(f, frames)
    BY <1>6, RelayAnswers DEF Answering
  <2>2. /\ out[g] # <<>> /\ f = Head(out[g]) /\ out' = [out EXCEPT ![g] = Tail(@)]
        /\ in' = [in EXCEPT ![g] = @ \o frames] /\ UNCHANGED <<pc, reply>> /\ frames \in Seq(InFrame)
    BY <2>1 DEF RelayReads, callers, AnswersOnly
  <2>3. /\ Keeps(out, out', Asks(r))
        /\ Once(out, Asks(r)) /\ f \in Asks(r) => ~Somewhere(out', Asks(r))
    BY <1>0, <2>2, TailWire
  <2>4. /\ ~Has(frames, Tells(r)) => Keeps(in, in', Tells(r))
        /\ ~Somewhere(in, Tells(r)) /\ Single(frames, Tells(r)) => Once(in', Tells(r))
    BY <1>0, <2>2, JoinWire
  <2>5. CASE f \notin Asks(r)
    BY <1>0, <2>1, <2>2, <2>3, <2>4, <2>5, TokenKept DEF AnswersOnly
  <2>6. CASE f \in Asks(r)
    <3>1. Somewhere(out, Asks(r))
      BY <1>0, <2>2, <2>6, TailOf DEF Somewhere
    <3> QED BY <1>0, <2>1, <2>2, <2>3, <2>4, <2>6, <3>1 DEF Token, NothingOnItsWay, AnswersOnly, Keeps
  <2> QED BY <2>5, <2>6
<1>7. ASSUME NEW g \in Socket, RelayClosed(g) PROVE Token(r)'
  <2>1. PICK f \in Feed : in' = [in EXCEPT ![g] = Append(@, Frame("CLOSED", f))]
    BY <1>7 DEF RelayClosed
  <2>2. UNCHANGED <<out, pc, reply>>
    BY <1>7 DEF RelayClosed, callers
  <2>3. Frame("CLOSED", f) \in InFrame /\ Frame("CLOSED", f) \notin Tells(r)
    BY <1>0, FramesOf DEF InFrame, Frame
  <2>4. Keeps(in, in', Tells(r))
    BY <1>0, <2>1, <2>3, AddWire
  <2> QED BY <1>0, <2>2, <2>4, TokenKept, SameWire
<1>8. CASE Disconnect \/ UNCHANGED vars
  BY <1>1, <1>8 DEF Disconnect, vars, client, callers, wires
<1>9. CASE DisconnectDrops
  BY <1>0, <1>1, <1>9, QuietReplies DEF DisconnectDrops, wires
<1> QED BY <1>2, <1>3, <1>4, <1>5, <1>6, <1>7, <1>8, <1>9 DEF Next, CallerStep, ThreadStep

------------------------------------------------------------------------------
(* A publish that succeeds is stored *)

PublishTruth ==
  /\ \A e \in Event, g \in Socket : Has(in[g], {Frame("OK", e)}) => e \in stored
  /\ \A r \in Publish : reply[r] = "ok" \/ result[r] = "ok" => EventOf[r] \in stored

\* How a wire changes, by the frames on each socket: one is taken off, some
\* or one are put on.
Taken(w, v, g) ==
  /\ \A F : \A h \in Socket : Has(v[h], F) => Has(w[h], F)
  /\ \A F : \A h \in Socket : Has(w[h], F) => Has(v[h], F) \/ (h = g /\ Head(w[g]) \in F)
  /\ \A F : Head(w[g]) \in F => Has(w[g], F)
  /\ \A A, B : \A h \in Socket : Follows(w[h], A, B) => Follows(v[h], A, B)
  /\ \A A, B : Follows(w[g], A, B) /\ Head(w[g]) \in A => Has(v[g], B)
Joined(w, v, g, s) ==
  /\ \A F : \A h \in Socket : Has(v[h], F) <=> Has(w[h], F) \/ (h = g /\ Has(s, F))
  /\ \A A, B : \A h \in Socket :
       Follows(w[h], A, B) /\ (h = g => Follows(s, A, B)) => Follows(v[h], A, B)
  /\ \A A, B : Has(s, B) /\ Follows(s, A, B) => Follows(v[g], A, B)
Added(w, v, g, f) ==
  /\ \A F : \A h \in Socket : Has(v[h], F) <=> Has(w[h], F) \/ (h = g /\ f \in F)
  /\ \A A, B : \A h \in Socket : Follows(w[h], A, B) /\ f \notin A => Follows(v[h], A, B)
  /\ \A A, B : f \in B /\ f \notin A => Follows(v[g], A, B)

LEMMA TailHas ==
  ASSUME NEW S, NEW w \in [Socket -> Seq(S)], NEW g \in Socket, w[g] # <<>>
  PROVE  Taken(w, [w EXCEPT ![g] = Tail(@)], g)
<1>1. PICK v : v = [w EXCEPT ![g] = Tail(@)]
  OBVIOUS
<1>2. v[g] = Tail(w[g]) /\ w[g] \in Seq(S) /\ \A h \in Socket : h # g => v[h] = w[h]
  BY <1>1
<1>3. /\ \A F : Has(v[g], F) => Has(w[g], F)
      /\ \A F : Has(w[g], F) => Head(w[g]) \in F \/ Has(v[g], F)
      /\ \A A, B : Follows(w[g], A, B) => Follows(v[g], A, B) /\ (Head(w[g]) \in A => Has(v[g], B))
      /\ \A F : Head(w[g]) \in F => Has(w[g], F)
  BY <1>2, TailOf
<1>4. Taken(w, v, g)
  BY <1>2, <1>3 DEF Taken
<1> QED BY <1>1, <1>4

LEMMA JoinHas ==
  ASSUME NEW S, NEW w \in [Socket -> Seq(S)], NEW g \in Socket, NEW s \in Seq(S)
  PROVE  Joined(w, [w EXCEPT ![g] = @ \o s], g, s)
<1>1. PICK v : v = [w EXCEPT ![g] = @ \o s]
  OBVIOUS
<1>2. v[g] = w[g] \o s /\ w[g] \in Seq(S) /\ \A h \in Socket : h # g => v[h] = w[h]
  BY <1>1
<1>3. /\ \A F : Has(v[g], F) <=> Has(w[g], F) \/ Has(s, F)
      /\ \A A, B : Follows(w[g], A, B) /\ Follows(s, A, B) => Follows(v[g], A, B)
      /\ \A A, B : Has(s, B) /\ Follows(s, A, B) => Follows(v[g], A, B)
  BY <1>2, ConcatOf
<1>4. Joined(w, v, g, s)
  BY <1>2, <1>3 DEF Joined
<1> QED BY <1>1, <1>4

LEMMA AddHas ==
  ASSUME NEW S, NEW w \in [Socket -> Seq(S)], NEW g \in Socket, NEW f \in S
  PROVE  Added(w, [w EXCEPT ![g] = Append(@, f)], g, f)
<1>1. PICK s \in Seq(S) : s = <<f>> /\ w[g] \in Seq(S)
  <2>1. <<f>> \in Seq(S) /\ w[g] \in Seq(S)
    OBVIOUS
  <2> QED BY <2>1
<1>2. Append(w[g], f) = w[g] \o s
  BY <1>1
<1>3. PICK v : v = [w EXCEPT ![g] = Append(@, f)] /\ v = [w EXCEPT ![g] = @ \o s]
  BY <1>2
<1>4. /\ \A F : Has(s, F) <=> f \in F
      /\ \A A, B : f \notin A => Follows(s, A, B)
  BY <1>1, OneFrame
<1>5. Joined(w, v, g, s)
  <2>1. Joined(w, [w EXCEPT ![g] = @ \o s], g, s)
    BY <1>1, JoinHas
  <2> QED BY <1>3, <2>1
<1>6. Added(w, v, g, f)
  BY <1>4, <1>5 DEF Added, Joined
<1> QED BY <1>3, <1>6

LEMMA CutHas ==
  ASSUME NEW w, NEW g, NEW v, w \in [Socket -> Seq(InFrame)] \/ w \in [Socket -> Seq(OutFrame)],
         v = [w EXCEPT ![g] = <<>>] \/ v = w
  PROVE  /\ \A F : \A h \in Socket : Has(v[h], F) => Has(w[h], F)
         /\ \A A, B : \A h \in Socket : Follows(w[h], A, B) => Follows(v[h], A, B)
         /\ \A h \in Socket : v[h] = w[h] \/ h = g
<1>1. \A h \in Socket : v[h] = w[h] \/ (h = g /\ v[h] = <<>>)
  OBVIOUS
<1> QED BY <1>1, NoFrame

\* What a step of a socket's thread, or of a caller's, does to the frames in.
LEMMA InShrinks ==
  ASSUME Typed,
         \/ UNCHANGED in
         \/ \E g \in Socket : in[g] # <<>> /\ in' = [in EXCEPT ![g] = Tail(@)]
         \/ \E g \in Socket : in' = [in EXCEPT ![g] = <<>>]
  PROVE  /\ \A F : \A h \in Socket : Has(in'[h], F) => Has(in[h], F)
         /\ \A A, B : \A h \in Socket : Follows(in[h], A, B) => Follows(in'[h], A, B)
<1>1. in \in [Socket -> Seq(InFrame)]
  BY DEF Typed, TypedWires
<1>2. CASE UNCHANGED in
  BY <1>2
<1>3. ASSUME NEW g \in Socket, in[g] # <<>>, in' = [in EXCEPT ![g] = Tail(@)]
      PROVE  /\ \A F : \A h \in Socket : Has(in'[h], F) => Has(in[h], F)
             /\ \A A, B : \A h \in Socket : Follows(in[h], A, B) => Follows(in'[h], A, B)
  <2>1. Taken(in, in', g)
    BY <1>1, <1>3, TailHas
  <2> QED BY <2>1 DEF Taken
<1>4. ASSUME NEW g \in Socket, in' = [in EXCEPT ![g] = <<>>]
      PROVE  /\ \A F : \A h \in Socket : Has(in'[h], F) => Has(in[h], F)
             /\ \A A, B : \A h \in Socket : Follows(in[h], A, B) => Follows(in'[h], A, B)
  BY <1>1, <1>4, CutHas
<1> QED BY <1>2, <1>3, <1>4

LEMMA ThreadsShrink ==
  ASSUME Typed, NEW g \in Socket, Handle(g) \/ ThreadFails(g) \/ ThreadEnds(g) \/ Break(g)
  PROVE  /\ \A F : \A h \in Socket : Has(in'[h], F) => Has(in[h], F)
         /\ \A A, B : \A h \in Socket : Follows(in[h], A, B) => Follows(in'[h], A, B)
  BY InShrinks DEF Handle, ThreadFails, ThreadEnds, Break

LEMMA HeadHas ==
  ASSUME Typed, NEW g \in Socket, in[g] # <<>>
  PROVE  \E f \in InFrame : f = Head(in[g]) /\ Has(in[g], {f})
<1>1. in[g] \in Seq(InFrame) /\ Head(in[g]) \in InFrame
  BY NextIn
<1>2. \A F : Head(in[g]) \in F => Has(in[g], F)
  BY <1>1, TailOf
<1> QED BY <1>1, <1>2

\* Callers put nothing in.
LEMMA CallersSend ==
  ASSUME NEW r \in Caller, Ask(r) \/ TimeOut(r) \/ CallerStep(r)
  PROVE  UNCHANGED <<in, relay>>
  BY DEF Ask, TimeOut, CallerStep, Subscribe, Return, NextRound, Reconciled, NegFails, Cancelled,
         DropGuard, SendClose, wires

\* fail() tells nobody "ok", and nobody who has an answer.
LEMMA FailReplies ==
  ASSUME Typed, NEW g, Fail(g)
  PROVE  /\ \A r \in Caller : reply'[r] = reply[r] \/ (Waiting(r) /\ reply'[r] = "lost")
         /\ \A k \in Key : slot'[k] = slot[k] \/ slot'[k] = None
         /\ (conn' = conn /\ UNCHANGED slot) \/ conn' = FALSE
<1>1. CASE UNCHANGED <<conn, slot, reply>>
  BY <1>1
<1>2. CASE ~ UNCHANGED <<conn, slot, reply>>
  <2>1. PICK holders : holders = {slot[k] : k \in Key} \ {None}
    OBVIOUS
  <2>2. /\ reply' = [r \in Caller |-> IF r \in holders /\ Waiting(r) THEN "lost" ELSE reply[r]]
        /\ slot' = [k \in Key |-> IF k \in Neg THEN slot[k] ELSE None] /\ conn' = FALSE
    BY <1>2, <2>1 DEF Fail
  <2> QED BY <2>2
<1> QED BY <1>1, <1>2

LEMMA PublishStep == Typed /\ PublishTruth /\ [Next]_vars => PublishTruth'
<1> SUFFICES ASSUME Typed, PublishTruth, [Next]_vars PROVE PublishTruth'
  OBVIOUS
<1>0. /\ pc \in [Caller -> PCs] /\ reply \in [Caller -> Answers] /\ result \in [Caller -> Answers]
      /\ in \in [Socket -> Seq(InFrame)] /\ \A r \in Publish : r \in Caller /\ KeyOf(r) = EventOf[r]
  BY DEF Typed, TypedCallers, TypedWires, KeyOf, Caller
<1>1. ASSUME stored \subseteq stored',
             \A e \in Event, g \in Socket : Has(in'[g], {Frame("OK", e)}) => e \in stored',
             \A r \in Publish : reply'[r] = "ok" \/ result'[r] = "ok" => reply[r] = "ok" \/ result[r] = "ok"
      PROVE  PublishTruth'
  BY <1>1 DEF PublishTruth
<1>2. ASSUME NEW p \in Caller, Ask(p) \/ TimeOut(p) \/ CallerStep(p) PROVE PublishTruth'
  <2>1. UNCHANGED <<in, stored>>
    BY <1>2, CallersSend DEF relay
  <2>2. /\ reply' = reply \/ reply' = [reply EXCEPT ![p] = "none"]
        /\ \/ result' = result
           \/ \E a \in Answers : result' = [result EXCEPT ![p] = a]
                                 /\ (a = "ok" => reply[p] = "ok" /\ reply' = reply)
    BY <1>0, <1>2 DEF Ask, TimeOut, CallerStep, Subscribe, Return, NextRound, Reconciled, NegFails, Cancelled,
         DropGuard, SendClose, Answers
  <2>3. \A r \in Publish : reply'[r] = "ok" \/ result'[r] = "ok" => reply[r] = "ok" \/ result[r] = "ok"
    BY <1>0, <2>2
  <2> QED BY <1>1, <2>1, <2>3 DEF PublishTruth
<1>3. ASSUME NEW g \in Socket, Handle(g) PROVE PublishTruth'
  <2>1. in[g] # <<>> /\ in' = [in EXCEPT ![g] = Tail(@)] /\ UNCHANGED <<pc, result, stored>>
    BY <1>3 DEF Handle, relay
  <2>2. PICK f \in InFrame : f = Head(in[g]) /\ Has(in[g], {f})
    BY <2>1, HeadHas
  <2>3. f.id \in Key
    BY Keys DEF InFrame, Key
  <2>4. \A e \in Event, h \in Socket : Has(in'[h], {Frame("OK", e)}) => e \in stored'
    BY <1>3, <2>1, ThreadsShrink DEF PublishTruth
  <2>5. CASE \A r \in Publish : reply'[r] = "ok" => reply[r] = "ok"
    BY <1>1, <2>1, <2>4, <2>5
  <2>6. CASE f.verb = "OK" /\ Settle(f.id, "ok")
    <3>1. PICK e \in Event : f = Frame("OK", e) /\ f.id = e
      BY <2>6 DEF InFrame, Frame
    <3>2. e \in stored
      BY <2>2, <3>1 DEF PublishTruth
    <3>3. \A r \in Publish : reply'[r] = "ok" => reply[r] = "ok" \/ EventOf[r] = e
      <4>1. CASE UNCHANGED <<reply, slot>>
        BY <4>1
      <4>2. CASE ~ UNCHANGED <<reply, slot>>
        <5>1. PICK h \in Caller : h = slot[e] /\ KeyOf(h) = e
          BY <2>3, <2>6, <3>1, <4>2, Keys DEF Settle, Typed, TypedClient, SlotsKeyed
        <5>2. reply' = [reply EXCEPT ![h] = "ok"]
          BY <2>6, <3>1, <4>2, <5>1 DEF Settle
        <5> QED BY <1>0, <5>1, <5>2
      <4> QED BY <4>1, <4>2
    <3> QED BY <2>1, <2>4, <3>2, <3>3 DEF PublishTruth
  <2>7. CASE \E k \in Query \cup Neg : Settle(k, "ok")
    <3>1. PICK k \in Query \cup Neg : Settle(k, "ok")
      BY <2>7
    <3>2. CASE UNCHANGED <<reply, slot>>
      BY <2>5, <3>2
    <3>3. CASE ~ UNCHANGED <<reply, slot>>
      <4>1. PICK h \in Caller : h = slot[k] /\ KeyOf(h) = k
        BY <3>1, <3>3, Keys DEF Settle, Typed, TypedClient, SlotsKeyed
      <4>2. reply' = [reply EXCEPT ![h] = "ok"]
        BY <3>1, <3>3, <4>1 DEF Settle
      <4>3. h \notin Publish
        BY <1>0, <4>1, RelayClientConstants
      <4> QED BY <1>0, <2>5, <4>2, <4>3
    <3> QED BY <3>2, <3>3
  <2>8. CASE \E answer \in Answers \ {"ok"} : Settle(f.id, answer)
    <3>1. PICK answer \in Answers \ {"ok"} : Settle(f.id, answer)
      BY <2>8
    <3>2. reply' = reply \/ \E h \in Caller : reply' = [reply EXCEPT ![h] = answer]
      BY <2>3, <3>1 DEF Settle, Typed, TypedClient, SlotsKeyed
    <3> QED BY <1>0, <2>5, <3>1, <3>2
  <2>9. CASE HandleNotice(f)
    BY <1>0, <2>5, <2>9 DEF HandleNotice
  <2>10. CASE UNCHANGED reply
    BY <2>5, <2>10
  <2>11. f.verb = "NEG-MSG" => f.id \in Neg
    BY <2>2 DEF InFrame
  <2> QED BY <1>3, <2>2, <2>6, <2>7, <2>8, <2>9, <2>10, <2>11
       DEF Handle, HandleEvent, HandleEose, HandleAnswer, Answers
<1>4. ASSUME NEW g \in Socket, ThreadFails(g) \/ ThreadEnds(g) \/ Break(g) PROVE PublishTruth'
  <2>1. UNCHANGED <<result, stored>> /\ \A r \in Caller : reply'[r] = "ok" => reply[r] = "ok"
    BY <1>4, FailReplies DEF ThreadFails, ThreadEnds, Break, callers, relay
  <2> QED BY <1>0, <1>1, <1>4, <2>1, ThreadsShrink DEF PublishTruth
<1>5. ASSUME NEW g \in Socket, RelayStep(g) \/ RelayRefuses(g) PROVE PublishTruth'
  <2>1. PICK f, frames : Answering(g, f, frames)
    BY <1>5, RelayAnswers
  <2>2. /\ in' = [in EXCEPT ![g] = @ \o frames] /\ UNCHANGED <<reply, result>> /\ frames \in Seq(InFrame)
        /\ stored \subseteq stored' /\ \A e \in Event : Has(frames, {Frame("OK", e)}) => e \in stored'
    BY <2>1 DEF Answering, RelayReads, callers, AnswersOnly, StoresWhatItOks
  <2>3. Joined(in, in', g, frames)
    BY <1>0, <2>2, JoinHas
  <2> QED BY <1>1, <2>2, <2>3 DEF PublishTruth, Joined
<1>6. ASSUME NEW g \in Socket, RelayClosed(g) PROVE PublishTruth'
  <2>1. PICK f \in Feed : in' = [in EXCEPT ![g] = Append(@, Frame("CLOSED", f))]
    BY <1>6 DEF RelayClosed
  <2>2. UNCHANGED <<reply, result, stored>>
    BY <1>6 DEF RelayClosed, callers
  <2>3. Frame("CLOSED", f) \in InFrame /\ \A e : Frame("CLOSED", f) \notin {Frame("OK", e)}
    BY FramesOf DEF InFrame, Frame
  <2>4. Added(in, in', g, Frame("CLOSED", f))
    BY <1>0, <2>1, <2>3, AddHas
  <2> QED BY <1>1, <2>2, <2>3, <2>4 DEF PublishTruth, Added
<1>7. CASE Disconnect \/ UNCHANGED vars
  BY <1>1, <1>7 DEF Disconnect, vars, client, callers, wires, relay, PublishTruth
<1>8. CASE DisconnectDrops
  <2>1. UNCHANGED <<in, result, stored>> /\ \A r \in Caller : reply'[r] = "ok" => reply[r] = "ok"
    BY <1>8, FailReplies DEF DisconnectDrops, wires, relay
  <2> QED BY <1>0, <1>1, <2>1 DEF PublishTruth
<1> QED BY <1>2, <1>3, <1>4, <1>5, <1>6, <1>7, <1>8 DEF Next, ThreadStep

------------------------------------------------------------------------------
(* What was opened is closed *)

Ended(r) == (r \in Query /\ slot[r] # r) \/ (r \in Neg /\ pc[r] # "waiting")

\* Nothing of r's stays open on a socket once what was sent is read.
Clean(g, r) ==
  /\ Follows(out[g], Opens(r), {Frame("CLOSE", r)})
  /\ r \in open[g] => Has(out[g], {Frame("CLOSE", r)})

Closed(r) ==
  /\ pc[r] = "idle" \/ Somewhere(out, Opens(r)) => \A g \in Socket : r \notin open[g]
  /\ \A g \in Socket : Has(in[g], Refusals(r)) => r \notin open[g]
  /\ conn /\ Ended(r) => r \in closing \/ Clean(gen, r)
  /\ conn /\ r \in Neg /\ reply[r] = "refused" => r \notin open[gen] /\ ~Has(out[gen], Opens(r))

AllClosed == \A r \in Query \cup Neg : Closed(r)

\* A CLOSE goes to the socket the client holds, if it holds one.
LEMMA SendsClose ==
  ASSUME Typed, NEW p \in Query \cup Neg, SendIfConnected(Frame("CLOSE", p)), conn
  PROVE  gen \in Socket /\ Added(out, out', gen, Frame("CLOSE", p))
<1>1. gen \in Socket /\ out' = [out EXCEPT ![gen] = Append(@, Frame("CLOSE", p))]
  BY DEF SendIfConnected, Typed, TypedClient
<1>2. Frame("CLOSE", p) \in OutFrame /\ out \in [Socket -> Seq(OutFrame)]
  BY DEF OutFrame, Frame, Typed, TypedWires
<1> QED BY <1>1, <1>2, AddHas

\* A step that sends for another caller.
LEMMA ClosedOthers ==
  ASSUME Typed, NEW r \in Query \cup Neg, Closed(r),
         conn' = conn, gen' = gen, NEW f, f \notin Opens(r),
         UNCHANGED out \/ (gen \in Socket /\ Added(out, out', gen, f)),
         UNCHANGED <<in, open>>, pc'[r] = "idle" => pc[r] = "idle",
         r \in closing => r \in closing', (conn /\ Ended(r)') => Ended(r) \/ r \in closing',
         r \in Neg /\ reply'[r] = "refused" => reply[r] = "refused"
  PROVE  Closed(r)'
<1>1. CASE UNCHANGED out
  BY <1>1 DEF Closed, Clean
<1>2. CASE gen \in Socket /\ Added(out, out', gen, f)
  <2>1. \A h \in Socket : /\ Has(out'[h], Opens(r)) => Has(out[h], Opens(r))
                          /\ Has(out[h], {Frame("CLOSE", r)}) => Has(out'[h], {Frame("CLOSE", r)})
                          /\ Follows(out[h], Opens(r), {Frame("CLOSE", r)}) =>
                               Follows(out'[h], Opens(r), {Frame("CLOSE", r)})
    BY <1>2 DEF Added
  <2> QED BY <1>2, <2>1 DEF Closed, Clean, Somewhere
<1> QED BY <1>1, <1>2

LEMMA ClosedSends ==
  ASSUME Typed, Released, NEW r \in Query \cup Neg, Token(r), Closed(r),
         NEW p \in Caller, Ask(p) \/ Subscribe(p) \/ NextRound(p)
  PROVE  Closed(r)'
<1>0. /\ r \in Caller /\ KeyOf(r) = r
      /\ pc \in [Caller -> PCs] /\ reply \in [Caller -> Answers] /\ slot \in [Key -> Caller \cup {None}]
      /\ out \in [Socket -> Seq(OutFrame)] /\ KeyOf(p) \in Key /\ r \in Key
  BY Keys DEF Typed, TypedClient, TypedCallers, TypedWires, SlotsKeyed
<1>1. PICK verb \in {"REQ", "NEG-OPEN", "NEG-MSG", "EVENT"}, k \in Key :
        /\ SendLocked(Frame(verb, k)) /\ Frame(verb, k) \in OutFrame
        /\ k = r => p = r
        /\ verb = "NEG-MSG" <=> NextRound(p)
  BY Sends
<1>2. /\ gen' \in Socket /\ conn' = TRUE /\ out' = [out EXCEPT ![gen'] = Append(@, Frame(verb, k))]
      /\ (conn /\ gen' = gen) \/ (~conn /\ gen' = gen + 1)
  BY <1>1, Sent
<1>3. Added(out, out', gen', Frame(verb, k))
  BY <1>0, <1>1, <1>2, AddHas
<1>4. UNCHANGED <<in, open, closing>> /\ slot' = [slot EXCEPT ![KeyOf(p)] = p]
  BY Keys DEF Ask, Subscribe, NextRound, relay
<1>5. CASE p = r
  <2>1. pc'[r] = "waiting" /\ reply'[r] = "none" /\ (Ask(r) => pc[r] = "idle") /\ ~Subscribe(r)
    BY <1>0, <1>5, RelayClientConstants DEF Ask, Subscribe, NextRound, Released
  <2>2. ~Ended(r)'
    BY <1>0, <1>4, <1>5, <2>1 DEF Ended
  <2>3. Somewhere(out', Opens(r)) => \A g \in Socket : r \notin open[g]
    <3>1. CASE Ask(r)
      BY <2>1, <3>1 DEF Closed
    <3>2. CASE NextRound(r)
      <4>1. Frame(verb, k) \notin Opens(r)
        BY <1>1, <1>5, <3>2, FramesOf
      <4>2. Somewhere(out', Opens(r)) => Somewhere(out, Opens(r))
        BY <1>3, <4>1 DEF Added, Somewhere
      <4> QED BY <4>2 DEF Closed
    <3> QED BY <1>5, <2>1, <3>1, <3>2
  <2> QED BY <1>4, <2>1, <2>2, <2>3 DEF Closed
<1>6. CASE p # r
  <2>1. pc'[r] = pc[r] /\ reply'[r] = reply[r]
    BY <1>0, <1>6 DEF Ask, Subscribe, NextRound
  <2>2. slot'[r] = r <=> slot[r] = r
    <3>1. KeyOf(p) # r
      BY <1>0, <1>6, Keys, RelayClientConstants
    <3> QED BY <1>0, <1>4, <3>1
  <2>3. Frame(verb, k) \notin Opens(r)
    BY <1>1, <1>6, FramesOf
  <2>4. Ended(r)' <=> Ended(r)
    BY <2>1, <2>2 DEF Ended
  <2>5. CASE conn
    BY <1>2, <1>3, <1>4, <2>1, <2>3, <2>4, <2>5, ClosedOthers
  <2>6. CASE ~conn
    <3>1. gen' > gen
      BY <1>2, <2>6, RelayClientConstants DEF Typed, TypedClient, Socket
    <3>2. out[gen'] = <<>> /\ open[gen'] = {}
      BY <1>2, <3>1 DEF Typed, TypedWires
    <3>3. ~Has(out[gen'], Opens(r)) /\ Follows(out[gen'], Opens(r), {Frame("CLOSE", r)})
      BY <3>2, NoFrame
    <3>4. ~Has(out'[gen'], Opens(r)) /\ Follows(out'[gen'], Opens(r), {Frame("CLOSE", r)})
      BY <1>2, <1>3, <2>3, <3>3 DEF Added
    <3>5. \A h \in Socket : Has(out'[h], Opens(r)) => Has(out[h], Opens(r))
      BY <1>3, <2>3 DEF Added
    <3> QED BY <1>4, <2>1, <3>2, <3>4, <3>5 DEF Closed, Clean, Somewhere
  <2> QED BY <2>5, <2>6
<1> QED BY <1>5, <1>6

LEMMA ClosedLeaves ==
  ASSUME Typed, Released, NEW r \in Query \cup Neg, Token(r), Closed(r), NEW p \in Caller,
         Return(p) \/ Reconciled(p) \/ NegFails(p) \/ TimeOut(p) \/ Cancelled(p) \/ DropGuard(p) \/ SendClose(p)
  PROVE  Closed(r)'
<1>0. /\ r \in Caller /\ KeyOf(r) = r
      /\ pc \in [Caller -> PCs] /\ reply \in [Caller -> Answers] /\ slot \in [Key -> Caller \cup {None}]
      /\ KeyOf(p) \in Key /\ r \in Key /\ closing \subseteq Query \cup Neg /\ r # None
  BY Keys DEF Typed, TypedClient, TypedCallers, TypedWires, SlotsKeyed
<1>1. UNCHANGED <<in, open, conn, gen, reply>>
  BY DEF Return, Reconciled, NegFails, TimeOut, Cancelled, DropGuard, SendClose, wires, client, relay
<1>2. pc'[r] = "idle" => pc[r] = "idle"
  BY <1>0 DEF Return, Reconciled, NegFails, TimeOut, Cancelled, DropGuard, SendClose
<1>3. CASE p = r /\ SendIfConnected(Frame("CLOSE", r))
  <2>1. CASE ~conn
    BY <1>1, <1>2, <1>3, <2>1 DEF SendIfConnected, Closed
  <2>2. CASE conn
    <3>1. gen \in Socket /\ Added(out, out', gen, Frame("CLOSE", r))
      BY <1>3, <2>2, SendsClose
    <3>2. Frame("CLOSE", r) \notin Opens(r)
      BY FramesOf
    <3>3. Clean(gen, r)'
      <4>1. /\ Follows(out'[gen], Opens(r), {Frame("CLOSE", r)})
            /\ Has(out'[gen], {Frame("CLOSE", r)})
        BY <3>1, <3>2 DEF Added
      <4> QED BY <1>1, <4>1 DEF Clean
    <3>4. \A h \in Socket : Has(out'[h], Opens(r)) => Has(out[h], Opens(r))
      BY <3>1, <3>2 DEF Added
    <3> QED BY <1>1, <1>2, <3>1, <3>3, <3>4 DEF Closed, Somewhere
  <2> QED BY <2>1, <2>2
<1>4. CASE p # r
  <2>1. pc'[r] = pc[r] /\ slot'[r] = slot[r]
    <3>1. KeyOf(p) # r
      BY <1>0, <1>4, Keys, RelayClientConstants
    <3>2. /\ slot' = slot \/ slot' = [slot EXCEPT ![KeyOf(p)] = None]
          /\ pc' = pc \/ \E s : pc' = [pc EXCEPT ![p] = s]
      BY Keys DEF Return, Reconciled, NegFails, TimeOut, Cancelled, DropGuard, SendClose, client
    <3> QED BY <1>0, <1>4, <3>1, <3>2
  <2>2. r \in closing => r \in closing'
    BY <1>4 DEF Return, Reconciled, NegFails, TimeOut, Cancelled, DropGuard, SendClose
  <2>3. Ended(r)' <=> Ended(r)
    BY <2>1 DEF Ended
  <2>4. UNCHANGED out \/ (p \in Query \cup Neg /\ SendIfConnected(Frame("CLOSE", p)))
    BY <1>0 DEF Return, Reconciled, NegFails, TimeOut, Cancelled, DropGuard, SendClose, wires
  <2>5. UNCHANGED out \/ (gen \in Socket /\ Added(out, out', gen, Frame("CLOSE", p)))
    <3>1. ~conn /\ SendIfConnected(Frame("CLOSE", p)) => UNCHANGED out
      BY DEF SendIfConnected
    <3> QED BY <2>4, <3>1, SendsClose
  <2>6. Frame("CLOSE", p) \notin Opens(r)
    BY FramesOf
  <2> QED BY <1>1, <1>2, <2>2, <2>3, <2>5, <2>6, ClosedOthers
<1>5. CASE p = r /\ UNCHANGED out
  <2>1. r \in closing => r \in closing' \/ SendClose(r)
    BY <1>5 DEF Return, Reconciled, NegFails, TimeOut, Cancelled, DropGuard, SendClose
  <2>2. SendClose(r) => SendIfConnected(Frame("CLOSE", r))
    BY DEF SendClose
  <2>3. CASE ~SendIfConnected(Frame("CLOSE", r))
    <3>1. CASE (Ended(r)' => Ended(r) \/ r \in closing')
      <4>1. Frame("CLOSE", r) \notin Opens(r)
        BY FramesOf
      <4> QED BY <1>1, <1>2, <1>5, <2>1, <2>2, <2>3, <3>1, <4>1, ClosedOthers
    <3>2. CASE Return(r)
      <4>1. r \in Query /\ UNCHANGED slot
        BY <3>2, <1>0, RelayClientConstants DEF Return, client
      <4> QED BY <3>1, <4>1, RelayClientConstants DEF Ended
    <3>3. CASE Reconciled(r)
      BY <3>1, <3>3 DEF Reconciled
    <3>4. CASE NegFails(r)
      <4>1. reply[r] = "refused" /\ r \in Neg
        BY <2>3, <3>4 DEF NegFails
      <4>2. conn => r \notin open[gen] /\ ~Has(out[gen], Opens(r))
        BY <4>1 DEF Closed
      <4>3. conn => Clean(gen, r)'
        BY <1>1, <1>5, <4>2 DEF Clean, Has, Follows
      <4> QED BY <1>1, <1>2, <1>5, <4>3 DEF Closed
    <3>5. CASE TimeOut(r)
      <4>1. r \in Query /\ r \notin Neg /\ UNCHANGED slot
        BY <2>3, <3>5, RelayClientConstants DEF TimeOut, client
      <4> QED BY <3>1, <4>1 DEF Ended
    <3>6. CASE DropGuard(r)
      <4>1. CASE r \in Query
        <5>1. r \in closing' \/ slot[r] = None
          BY <3>6, <4>1 DEF DropGuard
        <5> QED BY <1>0, <3>1, <4>1, <5>1 DEF Ended
      <4>2. CASE r \in Neg
        BY <3>1, <3>6, <4>2 DEF DropGuard, Ended
      <4> QED BY <4>1, <4>2
    <3>7. ~Cancelled(r)
      BY RelayClientConstants DEF Cancelled
    <3> QED BY <1>5, <2>2, <2>3, <3>2, <3>3, <3>4, <3>5, <3>6, <3>7
  <2> QED BY <1>3, <1>5, <2>3
<1> QED BY <1>3, <1>4, <1>5 DEF Return, Reconciled, NegFails, TimeOut, Cancelled, DropGuard, SendClose, wires

LEMMA ClosedHandles ==
  ASSUME Typed, NEW r \in Query \cup Neg, Token(r), Closed(r), NEW g \in Socket, Handle(g)
  PROVE  Closed(r)'
<1>0. r \in Caller /\ r \in Key /\ reply \in [Caller -> Answers] /\ slot \in [Key -> Caller \cup {None}]
  BY Keys DEF Typed, TypedClient, TypedCallers, SlotsKeyed
<1>1. in[g] # <<>> /\ UNCHANGED <<gen, conn, pc, out, open>>
  BY DEF Handle, relay
<1>2. PICK f \in InFrame : f = Head(in[g]) /\ Has(in[g], {f})
  BY <1>1, HeadHas
<1>3. \A h \in Socket : Has(in'[h], Refusals(r)) => Has(in[h], Refusals(r))
  BY ThreadsShrink
<1>4. r \in closing => r \in closing'
  BY DEF Handle, HandleEvent, HandleEose, HandleAnswer, HandleNotice
<1>5. CASE (slot'[r] = r <=> slot[r] = r) /\ (reply'[r] = "refused" => reply[r] = "refused")
  BY <1>1, <1>3, <1>4, <1>5 DEF Closed, Ended, Clean
<1>6. CASE r \in closing' /\ (reply'[r] = "refused" => reply[r] = "refused")
  BY <1>1, <1>3, <1>6 DEF Closed
<1>7. CASE Current(g) /\ f \in Refusals(r)
  <2>1. Has(in[g], Refusals(r))
    BY <1>2, <1>7 DEF Has
  <2>2. gen = g /\ r \notin open[gen] /\ ~Has(out[gen], Opens(r))
    <3>1. ~Somewhere(out, Asks(r))
      BY <2>1, FramesOf DEF Token, Somewhere, Has
    <3>2. ~Has(out[g], Opens(r))
      BY <3>1, FramesOf DEF Somewhere, Has
    <3> QED BY <1>7, <2>1, <3>2 DEF Current, Closed
  <2>3. Clean(gen, r)'
    BY <1>1, <2>2 DEF Clean, Has, Follows
  <2> QED BY <1>1, <1>3, <2>2, <2>3 DEF Closed
<1>8. CASE Current(g) /\ f \notin Refusals(r)
  <2>1. CASE HandleEvent(f)
    BY <1>5, <2>1 DEF HandleEvent
  <2>2. CASE HandleNotice(f)
    BY <1>0, <1>5, <2>2 DEF HandleNotice
  <2>3. f.id \in Key
    BY Keys DEF InFrame, Key
  <2>4. ASSUME NEW answer, Settle(f.id, answer), f.id # r PROVE Closed(r)'
    BY <1>5, <2>3, <2>4, SettlesItsOwn
  <2>5. ASSUME NEW answer, Settle(r, answer), answer # "refused", r \in Neg \/ r \in closing' PROVE Closed(r)'
    <3>1. reply'[r] = "refused" => reply[r] = "refused"
      BY <1>0, <2>5, SettlesItsOwn
    <3>2. r \in Neg => slot'[r] = slot[r]
      BY <1>0, <2>5, SettlesItsOwn
    <3> QED BY <1>5, <1>6, <2>5, <3>1, <3>2
  <2>6. CASE HandleEose(f)
    BY <1>5, <2>3, <2>4, <2>5, <2>6 DEF HandleEose
  <2>7. CASE HandleAnswer(f)
    <3>1. CASE f.id # r
      BY <2>4, <2>7, <3>1 DEF HandleAnswer
    <3>2. CASE f.id = r
      <4>1. f.verb = "NEG-MSG" /\ r \in Neg
        <5>1. f.verb \in {"CLOSED", "NEG-ERR"} => f = Frame(f.verb, r)
          BY <3>2 DEF InFrame, Frame
        <5>2. f.verb \notin {"CLOSED", "NEG-ERR"}
          BY <1>8, <5>1, FramesOf
        <5>3. f.verb \in {"OK", "OK-FALSE"} => f.id \in Event
          BY DEF InFrame
        <5>4. f.verb = "NEG-MSG" => f.id \in Neg
          BY DEF InFrame
        <5> QED BY <2>7, <3>2, <5>2, <5>3, <5>4, RelayClientConstants DEF HandleAnswer
      <4> QED BY <2>5, <2>7, <3>2, <4>1 DEF HandleAnswer
    <3> QED BY <3>1, <3>2
  <2> QED BY <1>2, <1>8, <2>1, <2>2, <2>6, <2>7 DEF Handle
<1>9. CASE ~Current(g)
  BY <1>5, <1>9 DEF Handle
<1> QED BY <1>7, <1>8, <1>9

LEMMA ClosedRelay ==
  ASSUME Typed, NEW r \in Query \cup Neg, Token(r), Closed(r), NEW g \in Socket,
         RelayStep(g) \/ RelayRefuses(g)
  PROVE  Closed(r)'
<1>0. out \in [Socket -> Seq(OutFrame)] /\ in \in [Socket -> Seq(InFrame)] /\ (conn => gen \in Socket)
  BY DEF Typed, TypedClient, TypedWires
<1>1. PICK f, frames : Answering(g, f, frames)
  BY RelayAnswers
<1>2. /\ out[g] # <<>> /\ f = Head(out[g]) /\ out' = [out EXCEPT ![g] = Tail(@)]
      /\ in' = [in EXCEPT ![g] = @ \o frames] /\ frames \in Seq(InFrame)
      /\ UNCHANGED <<gen, conn, slot, pc, reply, closing>>
  BY <1>1 DEF Answering, RelayReads, client, callers, AnswersOnly
<1>3. Taken(out, out', g) /\ Joined(in, in', g, frames)
  BY <1>0, <1>2, TailHas, JoinHas
<1>4. /\ \A h \in Socket : r \in open'[h] => r \in open[h] \/ (h = g /\ f \in Opens(r))
      /\ f = Frame("CLOSE", r) => r \notin open'[g]
      /\ Has(frames, Refusals(r)) => r \notin open'[g] \/ (f \in Opens(r) /\ UNCHANGED open)
  BY <1>1 DEF Answering, OpensOnly
<1>5. f \in Opens(r) => /\ Somewhere(out, Opens(r)) /\ Somewhere(out, Asks(r))
                        /\ ~Somewhere(out', Opens(r))
                        /\ pc[r] # "idle" /\ ~Somewhere(in, Tells(r))
                        /\ \A h \in Socket : r \notin open[h]
  <2> SUFFICES ASSUME f \in Opens(r)
               PROVE  /\ Somewhere(out, Opens(r)) /\ Somewhere(out, Asks(r))
                      /\ ~Somewhere(out', Opens(r))
                      /\ pc[r] # "idle" /\ ~Somewhere(in, Tells(r))
                      /\ \A h \in Socket : r \notin open[h]
    OBVIOUS
  <2>1. f \in Asks(r)
    BY FramesOf
  <2>2. Somewhere(out, Opens(r)) /\ Somewhere(out, Asks(r))
    BY <1>2, <1>3, <2>1 DEF Taken, Somewhere
  <2>3. ~Somewhere(out', Asks(r))
    BY <1>0, <1>2, <2>1, TailWire DEF Token
  <2>4. ~Somewhere(out', Opens(r))
    BY <2>3, FramesOf DEF Somewhere, Has
  <2> QED BY <2>2, <2>4 DEF Token, NothingOnItsWay, Closed
<1>6. pc'[r] = "idle" \/ Somewhere(out', Opens(r)) => \A h \in Socket : r \notin open'[h]
  <2>1. Somewhere(out', Opens(r)) => Somewhere(out, Opens(r))
    BY <1>3 DEF Taken, Somewhere
  <2> QED BY <1>2, <1>4, <1>5, <2>1 DEF Closed
<1>7. ASSUME NEW h \in Socket, Has(in'[h], Refusals(r)) PROVE r \notin open'[h]
  <2>1. CASE Has(in[h], Refusals(r))
    <3>1. Somewhere(in, Tells(r)) /\ r \notin open[h]
      BY <2>1, FramesOf DEF Somewhere, Has, Closed
    <3> QED BY <1>4, <1>5, <3>1
  <2>2. CASE h = g /\ Has(frames, Refusals(r))
    BY <1>4, <1>5, <2>2
  <2> QED BY <1>3, <1>7, <2>1, <2>2 DEF Joined
<1>8. ASSUME conn, Clean(gen, r) PROVE Clean(gen, r)'
  <2>1. Follows(out[gen], Opens(r), {Frame("CLOSE", r)}) => Follows(out'[gen], Opens(r), {Frame("CLOSE", r)})
    BY <1>0, <1>3, <1>8 DEF Taken
  <2>2. ASSUME r \in open'[gen] PROVE Has(out'[gen], {Frame("CLOSE", r)})
    <3>1. CASE gen = g /\ f \in Opens(r)
      BY <1>2, <1>3, <1>8, <3>1 DEF Taken, Clean
    <3>2. CASE r \in open[gen]
      BY <1>0, <1>2, <1>3, <1>4, <1>8, <2>2, <3>2 DEF Taken, Clean
    <3> QED BY <1>0, <1>4, <1>8, <2>2, <3>1, <3>2
  <2> QED BY <1>2, <1>8, <2>1, <2>2 DEF Clean
<1>9. ASSUME conn, r \notin open[gen], ~Has(out[gen], Opens(r))
      PROVE  r \notin open'[gen] /\ ~Has(out'[gen], Opens(r))
  <2>1. ~(gen = g /\ f \in Opens(r))
    BY <1>0, <1>2, <1>3, <1>9 DEF Taken
  <2> QED BY <1>0, <1>3, <1>4, <1>9, <2>1 DEF Taken
<1>10. Ended(r)' <=> Ended(r)
  BY <1>2 DEF Ended
<1> QED BY <1>2, <1>6, <1>7, <1>8, <1>9, <1>10 DEF Closed

LEMMA ClosedStep == Typed /\ Released /\ Tokens /\ AllClosed /\ [Next]_vars => AllClosed'
<1> SUFFICES ASSUME Typed, Released, Tokens, AllClosed, [Next]_vars, NEW r \in Query \cup Neg
             PROVE  Closed(r)'
  BY DEF AllClosed
<1>0. Token(r) /\ Closed(r) /\ r \in Caller /\ r \in Key
      /\ out \in [Socket -> Seq(OutFrame)] /\ in \in [Socket -> Seq(InFrame)]
      /\ open \in [Socket -> SUBSET (Query \cup Feed \cup Neg)] /\ (conn => gen \in Socket)
  BY Keys DEF Tokens, AllClosed, Typed, TypedClient, TypedWires, TypedRelay
<1>1. ASSUME NEW p \in Caller, Ask(p) \/ TimeOut(p) \/ CallerStep(p) PROVE Closed(r)'
  BY <1>0, <1>1, ClosedSends, ClosedLeaves DEF CallerStep
<1>2. ASSUME NEW g \in Socket, Handle(g) PROVE Closed(r)'
  BY <1>0, <1>2, ClosedHandles
<1>3. ASSUME NEW g \in Socket, RelayStep(g) \/ RelayRefuses(g) PROVE Closed(r)'
  BY <1>0, <1>3, ClosedRelay
\* Less is on the wires and open, and a socket that was cut is not the one held.
<1>4. ASSUME \A h \in Socket : Has(out'[h], Opens(r)) => Has(out[h], Opens(r)),
             \A h \in Socket : Has(in'[h], Refusals(r)) => Has(in[h], Refusals(r)),
             \A h \in Socket : r \in open'[h] => r \in open[h],
             conn' => conn /\ gen' = gen /\ out'[gen] = out[gen] /\ UNCHANGED slot,
             pc'[r] = pc[r], UNCHANGED closing, reply'[r] = "refused" => reply[r] = "refused"
      PROVE  Closed(r)'
  <2>1. conn' /\ Ended(r)' => Ended(r)
    BY <1>4 DEF Ended
  <2>2. conn' /\ Clean(gen, r) => Clean(gen, r)'
    BY <1>0, <1>4 DEF Clean
  <2> QED BY <1>0, <1>4, <2>1, <2>2 DEF Closed, Somewhere
<1>5. ASSUME NEW g \in Socket, ThreadFails(g) PROVE Closed(r)'
  <2>1. /\ out' = [out EXCEPT ![g] = <<>>] /\ Fail(g) /\ UNCHANGED <<gen, pc, closing, open>>
    BY <1>5 DEF ThreadFails, relay
  <2>2. /\ conn' => conn /\ gen # g /\ UNCHANGED slot
        /\ reply'[r] = "refused" => reply[r] = "refused"
    <3>1. conn' => conn /\ gen # g /\ UNCHANGED slot
      BY <2>1 DEF Fail
    <3> QED BY <1>0, <2>1, <3>1, FailReplies
  <2>3. \A h \in Socket : Has(out'[h], Opens(r)) => Has(out[h], Opens(r))
    BY <1>0, <2>1, CutHas
  <2>4. conn' => out'[gen] = out[gen]
    BY <1>0, <2>1, <2>2
  <2> QED BY <1>4, <1>5, <2>1, <2>2, <2>3, <2>4, ThreadsShrink
<1>6. ASSUME NEW g \in Socket, ThreadEnds(g) \/ Break(g) PROVE Closed(r)'
  <2>1. /\ open' = [open EXCEPT ![g] = {}] /\ UNCHANGED <<out, gen, conn, slot, pc, closing, reply>>
    BY <1>6 DEF ThreadEnds, Break, client, callers
  <2>2. \A h \in Socket : r \in open'[h] => r \in open[h]
    BY <1>0, <2>1
  <2> QED BY <1>4, <1>6, <2>1, <2>2, ThreadsShrink
<1>7. ASSUME NEW g \in Socket, RelayClosed(g) PROVE Closed(r)'
  <2>1. PICK f \in Feed : /\ open' = [open EXCEPT ![g] = @ \ {f}]
                          /\ in' = [in EXCEPT ![g] = Append(@, Frame("CLOSED", f))]
                          /\ UNCHANGED <<out, gen, conn, slot, pc, closing, reply>>
    BY <1>7 DEF RelayClosed, client, callers
  <2>2. Frame("CLOSED", f) \in InFrame /\ f # r
    BY RelayClientConstants DEF InFrame, Frame
  <2>3. Added(in, in', g, Frame("CLOSED", f)) /\ Frame("CLOSED", f) \notin Refusals(r)
    BY <1>0, <2>1, <2>2, AddHas, FramesOf
  <2>4. /\ \A h \in Socket : Has(in'[h], Refusals(r)) => Has(in[h], Refusals(r))
        /\ \A h \in Socket : r \in open'[h] => r \in open[h]
    BY <1>0, <2>1, <2>3 DEF Added
  <2> QED BY <1>4, <2>1, <2>4
<1>8. CASE Disconnect \/ UNCHANGED vars
  BY <1>0, <1>4, <1>8 DEF Disconnect, vars, client, callers, wires, relay
<1>9. CASE DisconnectDrops
  <2>1. Fail(dropping) /\ UNCHANGED <<gen, pc, closing, out, in, open>>
    BY <1>9 DEF DisconnectDrops, wires, relay
  <2>2. conn' => conn /\ UNCHANGED slot
    BY <2>1 DEF Fail
  <2> QED BY <1>0, <1>4, <2>1, <2>2, FailReplies
<1> QED BY <1>1, <1>2, <1>3, <1>5, <1>6, <1>7, <1>8, <1>9 DEF Next, ThreadStep

------------------------------------------------------------------------------
(* A query that succeeds has everything the relay stored when it answered *)

\* What a query's caller has, with the events on the current socket, is what
\* the relay stored.
AllThere(r) == \A e \in Event : e \in snapshot[r] <=> e \in got[r] \/ Has(in[gen], Brings(r, e))

QueryTruth(r) ==
  /\ \A g \in Socket : Follows(in[g], BringsAny(r), Ends(r))
  /\ pc[r] = "idle" \/ Somewhere(out, Asks(r)) => got[r] = {}
  /\ conn /\ slot[r] = r /\ Has(in[gen], Ends(r)) => AllThere(r)
  /\ reply[r] = "ok" => got[r] = snapshot[r]
  /\ result[r] = "ok" => reply[r] = "ok"

QueriesTruth == \A r \in Query : QueryTruth(r)

LEMMA BringsOne ==
  /\ \A r : \A e \in Event : Brings(r, e) \subseteq BringsAny(r)
  /\ \A r, e, x : [verb |-> "EVENT", id |-> r, event |-> e] \in Brings(r, x) <=> x = e
  /\ \A r, f : f \in BringsAny(r) => \E e \in Event : f = [verb |-> "EVENT", id |-> r, event |-> e]
<1>1. \A r, e, x : [verb |-> "EVENT", id |-> r, event |-> e] \in Brings(r, x) <=> x = e
  <2> SUFFICES ASSUME NEW r, NEW e, NEW x,
                      [verb |-> "EVENT", id |-> r, event |-> e] = [verb |-> "EVENT", id |-> r, event |-> x]
               PROVE  x = e
    BY DEF Brings
  <2>1. [verb |-> "EVENT", id |-> r, event |-> e].event = e /\ [verb |-> "EVENT", id |-> r, event |-> x].event = x
    OBVIOUS
  <2> QED BY <2>1
<1> QED BY <1>1 DEF Brings, BringsAny

\* Events are on their way only before their EOSE.
LEMMA NoEvents ==
  ASSUME NEW r \in Query, QueryTruth(r), NEW h \in Socket, ~Has(in[h], Ends(r))
  PROVE  ~Has(in[h], BringsAny(r)) /\ \A e \in Event : ~Has(in[h], Brings(r, e))
<1>1. ~Has(in[h], BringsAny(r))
  BY DEF QueryTruth, Follows, Has
<1> QED BY <1>1, BringsOne DEF Has

LEMMA EndsTell ==
  ASSUME NEW r, NEW h \in Socket, Has(in[h], Ends(r))
  PROVE  Somewhere(in, Tells(r))
  BY FramesOf DEF Has, Somewhere

\* A frame settles whoever waits under its id, and only EOSE and NEG-MSG say ok.
LEMMA Answered ==
  ASSUME Typed, NEW r \in Query \cup Neg, NEW g \in Socket, Handle(g)
  PROVE  /\ slot'[r] = r => slot[r] = r
         /\ reply'[r] # reply[r] => Waiting(r)
         /\ reply'[r] = "ok" /\ reply[r] # "ok" =>
              /\ slot[r] = r /\ Current(g)
              /\ Head(in[g]) = Frame(IF r \in Query THEN "EOSE" ELSE "NEG-MSG", r)
<1>0. r \in Caller /\ r \in Key /\ r # None /\ reply \in [Caller -> Answers] /\ in[g] # <<>>
      /\ r \notin Event
  BY Keys, RelayClientConstants DEF Typed, TypedCallers, Handle
<1>1. PICK f \in InFrame : f = Head(in[g])
  BY <1>0, NextIn
<1>2. f.id \in Key
  BY Keys DEF InFrame, Key
<1>3. CASE UNCHANGED <<slot, reply>>
  BY <1>3
<1>4. CASE HandleNotice(f)
  BY <1>0, <1>4 DEF HandleNotice, Waiting
<1>5. ASSUME NEW answer, Settle(f.id, answer), f.id # r PROVE slot'[r] = slot[r] /\ reply'[r] = reply[r]
  BY <1>2, <1>5, SettlesItsOwn
<1>6. ASSUME NEW answer, Settle(r, answer)
      PROVE  (reply'[r] = reply[r] /\ slot'[r] = slot[r])
             \/ (slot[r] = r /\ Waiting(r) /\ reply'[r] = answer)
  BY <1>0, <1>6, SettlesItsOwn
<1>7. CASE HandleEose(f) /\ Current(g)
  <2>1. f.id = r => f = Frame("EOSE", r)
    BY <1>7 DEF HandleEose, InFrame, Frame
  <2> QED BY <1>0, <1>1, <1>3, <1>5, <1>6, <1>7, <2>1 DEF HandleEose
<1>8. CASE HandleAnswer(f) /\ Current(g)
  <2>1. CASE f.id # r
    BY <1>5, <1>8, <2>1 DEF HandleAnswer
  <2>2. CASE f.id = r
    <3>1. f.verb = "NEG-MSG" => f = Frame("NEG-MSG", r) /\ r \in Neg
      BY <2>2 DEF InFrame, Frame
    <3>2. f.verb # "OK"
      BY <1>0, <2>2 DEF InFrame
    <3>3. r \in Neg => r \notin Query
      BY RelayClientConstants
    <3> QED BY <1>1, <1>6, <1>8, <2>2, <3>1, <3>2, <3>3 DEF HandleAnswer
  <2> QED BY <2>1, <2>2
<1> QED BY <1>1, <1>3, <1>4, <1>7, <1>8 DEF Handle, HandleEvent

LEMMA QueryHandles ==
  ASSUME Typed, NEW r \in Query, Token(r), QueryTruth(r), NEW g \in Socket, Handle(g)
  PROVE  QueryTruth(r)'
<1>0. /\ in \in [Socket -> Seq(InFrame)] /\ (conn => gen \in Socket)
      /\ got \in [Query -> SUBSET Event] /\ snapshot \in [Query -> SUBSET Event]
      /\ r \in Query \cup Neg
  BY DEF Typed, TypedClient, TypedWires, TypedRelay
<1>1. /\ in[g] # <<>> /\ in' = [in EXCEPT ![g] = Tail(@)]
      /\ UNCHANGED <<gen, conn, pc, out, result, snapshot>>
  BY DEF Handle, relay
<1>2. PICK f \in InFrame : f = Head(in[g]) /\ Has(in[g], {f})
  BY <1>1, HeadHas
<1>3. Taken(in, in', g)
  BY <1>0, <1>1, TailHas
<1>4. /\ slot'[r] = r => slot[r] = r
      /\ reply'[r] # reply[r] => Waiting(r)
      /\ reply'[r] = "ok" /\ reply[r] # "ok" => slot[r] = r /\ Current(g) /\ f = Frame("EOSE", r)
  BY <1>0, <1>2, Answered
<1>5. \A h \in Socket : Follows(in'[h], BringsAny(r), Ends(r))
  BY <1>3 DEF Taken, QueryTruth
<1>6. result'[r] = "ok" => reply'[r] = "ok"
  BY <1>1, <1>4 DEF QueryTruth, Waiting
<1>7. CASE f \in BringsAny(r)
  <2>1. PICK e \in Event : f = [verb |-> "EVENT", id |-> r, event |-> e]
    BY <1>7, BringsOne
  <2>2. Has(in[g], Ends(r)) /\ Somewhere(in, Tells(r))
    <3>1. Has(in[g], BringsAny(r))
      BY <1>2, <1>7 DEF Has
    <3>2. Has(in[g], Ends(r))
      BY <3>1, NoEvents
    <3> QED BY <3>2, EndsTell
  <2>3. ~Somewhere(out, Asks(r)) /\ pc[r] # "idle" /\ reply[r] # "ok"
    BY <2>2 DEF Token, NothingOnItsWay
  <2>4. f # Frame("EOSE", r)
    BY <2>1, FramesOf
  <2>5. ASSUME conn, slot'[r] = r, Has(in'[gen], Ends(r)) PROVE AllThere(r)'
    <3>1. slot[r] = r /\ Has(in[gen], Ends(r)) /\ AllThere(r)
      BY <1>0, <1>3, <1>4, <2>5 DEF Taken, QueryTruth
    <3>2. gen = g
      BY <1>0, <2>2, <2>5, <3>1, FramesOf DEF Token, Once, Has
    <3>3. f.verb = "EVENT" /\ f.id = r /\ f.event = e /\ slot[r] # None
      BY <2>1, <3>1, Keys
    <3>4. HandleEvent(f)
      BY <1>2, <2>5, <3>2, <3>3 DEF Handle, Current, HandleEose, HandleAnswer, HandleNotice
    <3>5. got'[r] = got[r] \cup {e}
      BY <1>0, <3>3, <3>4 DEF HandleEvent
    <3>6. \A x \in Event : Has(in[gen], Brings(r, x)) <=> Has(in'[gen], Brings(r, x)) \/ x = e
      BY <1>0, <1>2, <1>3, <2>1, <3>2, BringsOne DEF Taken
    <3> QED BY <1>1, <3>1, <3>5, <3>6 DEF AllThere
  <2> QED BY <1>1, <1>4, <1>5, <1>6, <2>3, <2>4, <2>5 DEF QueryTruth
<1>8. CASE f \notin BringsAny(r)
  <2>1. got'[r] = got[r]
    <3>1. f.verb = "EVENT" /\ f.id = r => f \in BringsAny(r)
      BY DEF InFrame, BringsAny
    <3>2. CASE HandleEvent(f)
      BY <1>0, <1>8, <3>1, <3>2 DEF HandleEvent
    <3>3. CASE UNCHANGED got
      BY <3>3
    <3> QED BY <1>2, <3>2, <3>3 DEF Handle, HandleEose, HandleAnswer, HandleNotice
  <2>2. \A h \in Socket : /\ Has(in'[h], Ends(r)) => Has(in[h], Ends(r))
                          /\ \A x \in Event : Has(in[h], Brings(r, x)) <=> Has(in'[h], Brings(r, x))
    BY <1>2, <1>3, <1>8, BringsOne DEF Taken
  <2>3. ASSUME conn, slot'[r] = r, Has(in'[gen], Ends(r)) PROVE AllThere(r)'
    <3>1. AllThere(r)
      BY <1>0, <1>4, <2>2, <2>3 DEF QueryTruth
    <3> QED BY <1>0, <1>1, <2>1, <2>2, <2>3, <3>1 DEF AllThere
  <2>4. ASSUME reply'[r] = "ok", reply[r] # "ok" PROVE got[r] = snapshot[r]
    <3>1. slot[r] = r /\ conn /\ gen = g /\ f \in Ends(r) /\ f \in Tells(r)
      BY <1>4, <2>4, FramesOf DEF Current, Ends
    <3>2. Has(in[g], Ends(r)) /\ AllThere(r)
      BY <1>2, <3>1 DEF QueryTruth, Has
    <3>3. ~Somewhere(in', Tells(r))
      BY <1>0, <1>1, <1>2, <3>1, TailWire DEF Token
    <3>4. ~Has(in'[g], Ends(r))
      BY <3>3, FramesOf DEF Somewhere, Has
    <3>5. \A x \in Event : ~Has(in'[g], Brings(r, x))
      BY <1>5, <3>4, BringsOne DEF Follows, Has
    <3>6. \A x \in Event : ~Has(in[g], Brings(r, x))
      BY <2>2, <3>5
    <3> QED BY <1>0, <3>1, <3>2, <3>6 DEF AllThere
  <2> QED BY <1>1, <1>5, <1>6, <2>1, <2>3, <2>4 DEF QueryTruth
<1> QED BY <1>7, <1>8

LEMMA QueryRelay ==
  ASSUME Typed, NEW r \in Query, Token(r), QueryTruth(r), NEW g \in Socket,
         RelayStep(g) \/ RelayRefuses(g)
  PROVE  QueryTruth(r)'
<1>0. /\ out \in [Socket -> Seq(OutFrame)] /\ in \in [Socket -> Seq(InFrame)] /\ (conn => gen \in Socket)
      /\ got \in [Query -> SUBSET Event] /\ snapshot \in [Query -> SUBSET Event] /\ stored \subseteq Event
  BY DEF Typed, TypedClient, TypedWires, TypedRelay
<1>1. PICK f, frames : Answering(g, f, frames)
  BY RelayAnswers
<1>2. /\ out[g] # <<>> /\ f = Head(out[g]) /\ out' = [out EXCEPT ![g] = Tail(@)]
      /\ in' = [in EXCEPT ![g] = @ \o frames] /\ frames \in Seq(InFrame)
      /\ UNCHANGED <<gen, conn, slot, got, pc, reply, result>>
  BY <1>1 DEF Answering, RelayReads, client, callers, AnswersOnly
<1>3. Taken(out, out', g) /\ Joined(in, in', g, frames)
  BY <1>0, <1>2, TailHas, JoinHas
<1>4. Somewhere(out', Asks(r)) => Somewhere(out, Asks(r))
  BY <1>3 DEF Taken, Somewhere
<1>5. CASE f = Frame("REQ", r) /\ frames = ReqAnswer(r) /\ snapshot'[r] = stored
  <2>1. f \in Asks(r)
    BY <1>5, FramesOf
  <2>2. Somewhere(out, Asks(r))
    BY <1>2, <1>3, <2>1 DEF Taken, Somewhere
  <2>3. got[r] = {} /\ ~Somewhere(in, Tells(r)) /\ reply[r] # "ok"
    BY <2>2 DEF Token, NothingOnItsWay, QueryTruth
  <2>4. \A h \in Socket : ~Has(in[h], Ends(r))
    BY <2>3, EndsTell
  <2>5. \A h \in Socket : \A e \in Event : ~Has(in[h], Brings(r, e))
    BY <2>4, NoEvents
  <2>6. \A h \in Socket : Follows(in'[h], BringsAny(r), Ends(r))
    BY <1>3, <1>5, ReqAnswerHas DEF Joined, QueryTruth
  <2>7. ASSUME conn, Has(in'[gen], Ends(r)) PROVE AllThere(r)'
    <3>1. gen = g
      BY <1>0, <1>3, <2>4, <2>7 DEF Joined
    <3>2. \A e \in Event : Has(in'[gen], Brings(r, e)) <=> e \in stored
      BY <1>3, <1>5, <2>5, <3>1, ReqAnswerHas DEF Joined
    <3> QED BY <1>2, <1>5, <2>3, <3>2 DEF AllThere
  <2> QED BY <1>2, <1>4, <2>3, <2>6, <2>7 DEF QueryTruth
<1>6. CASE ~Has(frames, BringsAny(r)) /\ ~Has(frames, Ends(r)) /\ snapshot'[r] = snapshot[r]
  <2>1. /\ \A e \in Event : ~Has(frames, Brings(r, e))
        /\ Follows(frames, BringsAny(r), Ends(r))
    BY <1>6, BringsOne DEF Has, Follows
  <2>2. \A h \in Socket : Follows(in'[h], BringsAny(r), Ends(r))
    BY <1>3, <2>1 DEF Joined, QueryTruth
  <2>3. \A h \in Socket : /\ Has(in'[h], Ends(r)) <=> Has(in[h], Ends(r))
                          /\ \A e \in Event : Has(in'[h], Brings(r, e)) <=> Has(in[h], Brings(r, e))
    BY <1>3, <1>6, <2>1 DEF Joined
  <2>4. conn /\ AllThere(r) => AllThere(r)'
    BY <1>0, <1>2, <1>6, <2>3 DEF AllThere
  <2> QED BY <1>0, <1>2, <1>4, <1>6, <2>2, <2>3, <2>4 DEF QueryTruth
<1> QED BY <1>1, <1>5, <1>6 DEF Answering, BringsAll

LEMMA QueryCallers ==
  ASSUME Typed, Released, NEW r \in Query, Token(r), QueryTruth(r), NEW p \in Caller,
         Ask(p) \/ TimeOut(p) \/ CallerStep(p)
  PROVE  QueryTruth(r)'
<1>0. /\ r \in Caller /\ r \in Key /\ r # None /\ KeyOf(r) = r
      /\ pc \in [Caller -> PCs] /\ reply \in [Caller -> Answers] /\ result \in [Caller -> Answers]
      /\ slot \in [Key -> Caller \cup {None}] /\ (conn => gen \in Socket) /\ KeyOf(p) \in Key
      /\ out \in [Socket -> Seq(OutFrame)] /\ r \notin Feed \cup Neg \cup Publish
  BY Keys, RelayClientConstants DEF Typed, TypedClient, TypedCallers, TypedWires, SlotsKeyed
<1>1. CASE Ask(p) \/ Subscribe(p) \/ NextRound(p)
  <2>1. UNCHANGED <<in, got, snapshot, result>> /\ slot' = [slot EXCEPT ![KeyOf(p)] = p]
    BY <1>1, Keys DEF Ask, Subscribe, NextRound, relay
  <2>2. PICK verb \in {"REQ", "NEG-OPEN", "NEG-MSG", "EVENT"}, k \in Key :
          /\ SendLocked(Frame(verb, k)) /\ Frame(verb, k) \in OutFrame
          /\ k = r => p = r
    BY <1>1, Sends
  <2>3. /\ gen' \in Socket /\ conn' = TRUE /\ out' = [out EXCEPT ![gen'] = Append(@, Frame(verb, k))]
        /\ (conn /\ gen' = gen) \/ (~conn /\ gen' = gen + 1)
    BY <2>2, Sent
  <2>4. Added(out, out', gen', Frame(verb, k))
    BY <1>0, <2>2, <2>3, AddHas
  <2>5. CASE p = r
    <3>1. pc[r] = "idle" /\ UNCHANGED reply
      BY <1>0, <1>1, <2>5 DEF Ask, Subscribe, NextRound
    <3>2. ~Somewhere(in, Tells(r))
      BY <3>1 DEF Token, NothingOnItsWay
    <3>3. ~Has(in[gen'], Ends(r))
      BY <2>3, <3>2, EndsTell
    <3> QED BY <2>1, <3>1, <3>3 DEF QueryTruth
  <2>6. CASE p # r
    <3>1. pc'[r] = pc[r] /\ reply'[r] = reply[r]
      BY <1>0, <1>1, <2>6 DEF Ask, Subscribe, NextRound
    <3>2. slot'[r] = slot[r]
      <4>1. KeyOf(p) # r
        BY <1>0, <2>6, Keys
      <4> QED BY <1>0, <2>1, <4>1
    <3>3. Somewhere(out', Asks(r)) => Somewhere(out, Asks(r))
      <4>1. Frame(verb, k) \notin Asks(r)
        BY <2>2, <2>6, FramesOf
      <4> QED BY <2>4, <4>1 DEF Added, Somewhere
    <3>4. ~conn => ~Has(in[gen'], Ends(r))
      <4>1. ~conn => gen' > gen
        BY <2>3, RelayClientConstants DEF Typed, TypedClient, Socket
      <4>2. ~conn => in[gen'] = <<>>
        BY <2>3, <4>1 DEF Typed, TypedWires
      <4> QED BY <4>2, NoFrame
    <3>5. conn /\ AllThere(r) => AllThere(r)'
      BY <2>1, <2>3 DEF AllThere
    <3> QED BY <2>1, <2>3, <3>1, <3>2, <3>3, <3>4, <3>5 DEF QueryTruth
  <2> QED BY <2>5, <2>6
<1>2. CASE Return(p) \/ Reconciled(p) \/ NegFails(p) \/ TimeOut(p) \/ Cancelled(p) \/ DropGuard(p) \/ SendClose(p)
  <2>1. UNCHANGED <<in, got, snapshot, conn, gen, reply>>
    BY <1>2 DEF Return, Reconciled, NegFails, TimeOut, Cancelled, DropGuard, SendClose, wires, client, relay
  <2>2. /\ pc'[r] = "idle" => pc[r] = "idle"
        /\ slot'[r] = r => slot[r] = r
    <3>1. /\ slot' = slot \/ slot' = [slot EXCEPT ![KeyOf(p)] = None]
          /\ pc' = pc \/ \E s \in {"done", "leaving"} : pc' = [pc EXCEPT ![p] = s]
      BY <1>2, Keys DEF Return, Reconciled, NegFails, TimeOut, Cancelled, DropGuard, SendClose, client
    <3> QED BY <1>0, <3>1
  <2>3. result'[r] = "ok" => result[r] = "ok" \/ reply[r] = "ok"
    <3>1. \/ result' = result
          \/ \E a : result' = [result EXCEPT ![p] = a] /\ (a = "ok" => reply[p] = "ok")
      BY <1>2 DEF Return, Reconciled, NegFails, TimeOut, Cancelled, DropGuard, SendClose
    <3> QED BY <1>0, <3>1
  <2>4. Somewhere(out', Asks(r)) => Somewhere(out, Asks(r))
    <3>1. UNCHANGED out \/ (p \in Query \cup Neg /\ SendIfConnected(Frame("CLOSE", p)))
      BY <1>2 DEF Return, Reconciled, NegFails, TimeOut, Cancelled, DropGuard, SendClose, wires, Typed, TypedCallers
    <3>2. CASE conn /\ p \in Query \cup Neg /\ SendIfConnected(Frame("CLOSE", p))
      <4>1. gen \in Socket /\ Added(out, out', gen, Frame("CLOSE", p)) /\ Frame("CLOSE", p) \notin Asks(r)
        BY <3>2, SendsClose, FramesOf
      <4> QED BY <4>1 DEF Added, Somewhere
    <3>3. ~conn /\ SendIfConnected(Frame("CLOSE", p)) => UNCHANGED out
      BY DEF SendIfConnected
    <3> QED BY <3>1, <3>2, <3>3
  <2>5. AllThere(r) => AllThere(r)'
    BY <2>1 DEF AllThere
  <2> QED BY <2>1, <2>2, <2>3, <2>4, <2>5 DEF QueryTruth
<1> QED BY <1>1, <1>2 DEF CallerStep

LEMMA QueryStep == Typed /\ Released /\ Tokens /\ QueriesTruth /\ [Next]_vars => QueriesTruth'
<1> SUFFICES ASSUME Typed, Released, Tokens, QueriesTruth, [Next]_vars, NEW r \in Query
             PROVE  QueryTruth(r)'
  BY DEF QueriesTruth
<1>0. Token(r) /\ QueryTruth(r) /\ r \in Caller /\ r \in Key /\ r # None
      /\ out \in [Socket -> Seq(OutFrame)] /\ in \in [Socket -> Seq(InFrame)] /\ (conn => gen \in Socket)
  BY Keys DEF Tokens, QueriesTruth, Typed, TypedClient, TypedWires
<1>1. ASSUME NEW p \in Caller, Ask(p) \/ TimeOut(p) \/ CallerStep(p) PROVE QueryTruth(r)'
  BY <1>0, <1>1, QueryCallers
<1>2. ASSUME NEW g \in Socket, Handle(g) PROVE QueryTruth(r)'
  BY <1>0, <1>2, QueryHandles
<1>3. ASSUME NEW g \in Socket, RelayStep(g) \/ RelayRefuses(g) PROVE QueryTruth(r)'
  BY <1>0, <1>3, QueryRelay
\* The current socket is as it was, or nothing is on it any more.
<1>4. ASSUME \A h \in Socket : Has(out'[h], Asks(r)) => Has(out[h], Asks(r)),
             \A h \in Socket : Follows(in'[h], BringsAny(r), Ends(r)),
             conn' => conn /\ UNCHANGED <<gen, slot>>,
             conn' => ~Has(in'[gen], Ends(r)) \/
                      /\ Has(in[gen], Ends(r))
                      /\ \A e \in Event : Has(in'[gen], Brings(r, e)) <=> Has(in[gen], Brings(r, e)),
             UNCHANGED <<pc, got, result, snapshot>>,
             reply'[r] = reply[r] \/ (Waiting(r) /\ reply'[r] = "lost")
      PROVE  QueryTruth(r)'
  <2>1. conn' /\ AllThere(r) /\ (\A e \in Event : Has(in'[gen], Brings(r, e)) <=> Has(in[gen], Brings(r, e)))
          => AllThere(r)'
    BY <1>4 DEF AllThere
  <2>2. Somewhere(out', Asks(r)) => Somewhere(out, Asks(r))
    BY <1>4 DEF Somewhere
  <2> QED BY <1>0, <1>4, <2>1, <2>2 DEF QueryTruth, Waiting
<1>5. ASSUME NEW g \in Socket, ThreadFails(g) \/ ThreadEnds(g) \/ Break(g) PROVE QueryTruth(r)'
  <2>1. /\ out' = [out EXCEPT ![g] = <<>>] \/ out' = out
        /\ in' = [in EXCEPT ![g] = <<>>] \/ in' = in
        /\ UNCHANGED <<pc, gen, got, result, snapshot>>
    BY <1>5 DEF ThreadFails, ThreadEnds, Break, client, callers, relay
  <2>2. /\ reply'[r] = reply[r] \/ (Waiting(r) /\ reply'[r] = "lost")
        /\ conn' => conn /\ UNCHANGED slot
    <3>1. CASE Fail(g)
      <4>1. conn' => conn /\ UNCHANGED slot
        BY <3>1 DEF Fail
      <4> QED BY <1>0, <3>1, <4>1, FailReplies
    <3>2. CASE UNCHANGED <<client, callers>>
      BY <3>2 DEF client, callers
    <3> QED BY <1>5, <3>1, <3>2 DEF ThreadFails, ThreadEnds, Break
  <2>3. \A h \in Socket : Has(out'[h], Asks(r)) => Has(out[h], Asks(r))
    BY <1>0, <2>1, CutHas
  <2>4. \A h \in Socket : Follows(in'[h], BringsAny(r), Ends(r))
    BY <1>0, <1>5, ThreadsShrink DEF QueryTruth
  <2>5. \A h \in Socket : in'[h] = in[h] \/ in'[h] = <<>>
    BY <1>0, <2>1
  <2>6. conn' => ~Has(in'[gen], Ends(r)) \/ in'[gen] = in[gen]
    BY <1>0, <2>2, <2>5, NoFrame
  <2> QED BY <1>4, <2>1, <2>2, <2>3, <2>4, <2>6
<1>6. ASSUME NEW g \in Socket, RelayClosed(g) PROVE QueryTruth(r)'
  <2>1. PICK f \in Feed : in' = [in EXCEPT ![g] = Append(@, Frame("CLOSED", f))]
    BY <1>6 DEF RelayClosed
  <2>2. UNCHANGED <<out, gen, conn, slot, pc, got, result, snapshot, reply>>
    BY <1>6 DEF RelayClosed, client, callers
  <2>3. Frame("CLOSED", f) \in InFrame
    BY DEF InFrame, Frame
  <2>4. Added(in, in', g, Frame("CLOSED", f))
    BY <1>0, <2>1, <2>3, AddHas
  <2>5. /\ Frame("CLOSED", f) \notin BringsAny(r) /\ Frame("CLOSED", f) \notin Ends(r)
        /\ \A e \in Event : Frame("CLOSED", f) \notin Brings(r, e)
    <3>1. Frame("CLOSED", f) \notin BringsAny(r) /\ Frame("CLOSED", f) \notin Ends(r)
      BY FramesOf
    <3> QED BY <3>1, BringsOne
  <2>6. \A h \in Socket : /\ Has(in'[h], Ends(r)) <=> Has(in[h], Ends(r))
                          /\ \A e \in Event : Has(in'[h], Brings(r, e)) <=> Has(in[h], Brings(r, e))
                          /\ Follows(in'[h], BringsAny(r), Ends(r))
    BY <1>0, <2>4, <2>5 DEF Added, QueryTruth
  <2> QED BY <1>0, <1>4, <2>2, <2>6
<1>7. CASE Disconnect \/ UNCHANGED vars
  <2>1. UNCHANGED <<out, in, gen, conn, slot, pc, got, result, snapshot, reply>>
    BY <1>7 DEF Disconnect, vars, client, callers, wires, relay
  <2> QED BY <1>0, <1>4, <2>1 DEF QueryTruth
<1>8. CASE DisconnectDrops
  <2>1. Fail(dropping) /\ UNCHANGED <<out, in, gen, pc, got, result, snapshot>>
    BY <1>8 DEF DisconnectDrops, wires, relay
  <2>2. conn' => conn /\ UNCHANGED slot
    BY <2>1 DEF Fail
  <2> QED BY <1>0, <1>4, <2>1, <2>2, FailReplies DEF QueryTruth
<1> QED BY <1>1, <1>2, <1>3, <1>5, <1>6, <1>7, <1>8 DEF Next, ThreadStep

------------------------------------------------------------------------------
(* A reconciliation that succeeds ran whole in one session *)

NegTruth(r) ==
  /\ \A g, h \in Socket : answered[g][r] > 0 /\ answered[h][r] > 0 => g = h
  /\ \A g \in Socket : r \in open[g] => answered[g][r] > 0
  /\ pc[r] = "idle" \/ Somewhere(out, Opens(r)) => round[r] = 0 /\ \A g \in Socket : answered[g][r] = 0
  /\ Somewhere(out, {Frame("NEG-MSG", r)}) => round[r] > 0 /\ \E g \in Socket : answered[g][r] = round[r]
  /\ \A g \in Socket : Has(in[g], {Frame("NEG-MSG", r)}) => answered[g][r] = round[r] + 1
  /\ reply[r] = "ok" => \E g \in Socket : answered[g][r] = round[r] + 1
  /\ result[r] = "ok" => reply[r] = "ok" /\ round[r] + 1 = Rounds

NegsTruth == \A r \in Neg : NegTruth(r)

\* A step that asks and answers nothing of r's.
LEMMA NegKept ==
  ASSUME NEW r \in Neg, NegTruth(r), pc'[r] = "idle" => pc[r] = "idle",
         \A F : F \subseteq Asks(r) => (Somewhere(out', F) => Somewhere(out, F)),
         \A g \in Socket : Has(in'[g], {Frame("NEG-MSG", r)}) => Has(in[g], {Frame("NEG-MSG", r)}),
         \A g \in Socket : answered'[g][r] = answered[g][r] /\ (r \in open'[g] => r \in open[g]),
         round'[r] = round[r],
         reply'[r] = "ok" => reply[r] = "ok" \/ \E g \in Socket : answered[g][r] = round[r] + 1,
         result'[r] = "ok" => reply'[r] = "ok" /\ round[r] + 1 = Rounds
  PROVE  NegTruth(r)'
<1>1. Opens(r) \subseteq Asks(r) /\ {Frame("NEG-MSG", r)} \subseteq Asks(r)
  BY FramesOf DEF Asks
<1>2. /\ Somewhere(out', Opens(r)) => Somewhere(out, Opens(r))
      /\ Somewhere(out', {Frame("NEG-MSG", r)}) => Somewhere(out, {Frame("NEG-MSG", r)})
  BY <1>1
<1> QED BY <1>2 DEF NegTruth

LEMMA NegSends ==
  ASSUME Typed, Released, NEW r \in Neg, Token(r), NegTruth(r), NEW p \in Caller,
         Ask(p) \/ Subscribe(p) \/ NextRound(p)
  PROVE  NegTruth(r)'
<1>0. /\ r \in Caller /\ pc \in [Caller -> PCs] /\ reply \in [Caller -> Answers]
      /\ out \in [Socket -> Seq(OutFrame)] /\ r \notin Feed \cup Query \cup Publish
      /\ round \in [Neg -> 0..Rounds - 1] /\ Rounds \in Nat \ {0} /\ r \in Query \cup Neg
  BY Keys, RelayClientConstants DEF Typed, TypedCallers, TypedWires
<1>1. UNCHANGED <<in, open, answered, result>>
  BY DEF Ask, Subscribe, NextRound, relay
<1>2. PICK verb \in {"REQ", "NEG-OPEN", "NEG-MSG", "EVENT"}, k \in Key :
        /\ SendLocked(Frame(verb, k)) /\ Frame(verb, k) \in OutFrame
        /\ k = r => p = r
        /\ verb = "NEG-MSG" <=> NextRound(p)
  BY <1>0, Sends
<1>3. gen' \in Socket /\ out' = [out EXCEPT ![gen'] = Append(@, Frame(verb, k))]
  BY <1>2, Sent
<1>4. Added(out, out', gen', Frame(verb, k))
  BY <1>0, <1>2, <1>3, AddHas
<1>5. CASE p # r
  <2>1. pc'[r] = pc[r] /\ reply'[r] = reply[r] /\ round'[r] = round[r]
    BY <1>0, <1>5 DEF Ask, Subscribe, NextRound
  <2>2. Frame(verb, k) \notin Asks(r)
    BY <1>2, <1>5, FramesOf
  <2>3. \A F : F \subseteq Asks(r) => (Somewhere(out', F) => Somewhere(out, F))
    BY <1>4, <2>2 DEF Added, Somewhere
  <2>4. result'[r] = "ok" => reply'[r] = "ok" /\ round[r] + 1 = Rounds
    BY <1>1, <2>1 DEF NegTruth
  <2> QED BY <1>1, <2>1, <2>3, <2>4, NegKept
<1>6. CASE p = r /\ Ask(r)
  <2>1. pc[r] = "idle" /\ pc'[r] = "waiting" /\ UNCHANGED <<reply, round>> /\ reply[r] = "none"
    BY <1>0, <1>6 DEF Ask, Released
  <2>2. ~Somewhere(out', {Frame("NEG-MSG", r)})
    <3>1. ~NextRound(r)
      BY <2>1 DEF NextRound
    <3>2. Frame(verb, k) \notin {Frame("NEG-MSG", r)}
      BY <1>2, <1>6, <3>1, FramesOf
    <3>3. \A h \in Socket : ~Has(out[h], {Frame("NEG-MSG", r)})
      BY <2>1, FramesOf DEF Token, NothingOnItsWay, Somewhere, Has
    <3> QED BY <1>4, <3>2, <3>3 DEF Added, Somewhere
  <2> QED BY <1>1, <2>1, <2>2 DEF NegTruth
<1>7. CASE p = r /\ NextRound(r)
  <2>1. /\ reply[r] = "ok" /\ reply'[r] = "none" /\ UNCHANGED pc /\ pc[r] = "waiting"
        /\ round'[r] = round[r] + 1 /\ round[r] + 1 < Rounds
    BY <1>0, <1>7 DEF NextRound
  <2>2. ~Somewhere(out, Asks(r)) /\ ~Somewhere(in, Tells(r))
    BY <2>1 DEF Token, NothingOnItsWay
  <2>3. ~Somewhere(out', Opens(r))
    <3>1. Frame(verb, k) \notin Opens(r)
      BY <1>2, <1>7, FramesOf
    <3>2. \A h \in Socket : ~Has(out[h], Opens(r))
      BY <2>2, FramesOf DEF Somewhere, Has
    <3> QED BY <1>4, <3>1, <3>2 DEF Added, Somewhere
  <2>4. \A h \in Socket : ~Has(in[h], {Frame("NEG-MSG", r)})
    BY <2>2, FramesOf DEF Somewhere, Has
  <2>5. (\E g \in Socket : answered[g][r] = round'[r]) /\ round'[r] > 0
    BY <1>0, <2>1 DEF NegTruth
  <2>6. result[r] # "ok"
    BY <1>0, <2>1 DEF NegTruth
  <2> QED BY <1>1, <2>1, <2>3, <2>4, <2>5, <2>6 DEF NegTruth
<1>8. ~Subscribe(r)
  BY <1>0 DEF Subscribe
<1> QED BY <1>5, <1>6, <1>7, <1>8

LEMMA NegRelay ==
  ASSUME Typed, NEW r \in Neg, Token(r), NegTruth(r), NEW g \in Socket,
         RelayStep(g) \/ RelayRefuses(g)
  PROVE  NegTruth(r)'
<1>0. /\ out \in [Socket -> Seq(OutFrame)] /\ in \in [Socket -> Seq(InFrame)]
      /\ round[r] \in Nat /\ \A h \in Socket : answered[h][r] \in Nat
  BY RelayClientConstants DEF Typed, TypedCallers, TypedWires, TypedRelay
<1>1. PICK f, frames : Answering(g, f, frames)
  BY RelayAnswers
<1>2. /\ out[g] # <<>> /\ f = Head(out[g]) /\ out' = [out EXCEPT ![g] = Tail(@)]
      /\ in' = [in EXCEPT ![g] = @ \o frames] /\ frames \in Seq(InFrame)
      /\ UNCHANGED <<pc, round, reply, result>>
  BY <1>1 DEF Answering, RelayReads, callers, AnswersOnly
<1>3. Taken(out, out', g) /\ Joined(in, in', g, frames)
  BY <1>0, <1>2, TailHas, JoinHas
<1>4. \A F : Somewhere(out', F) => Somewhere(out, F)
  BY <1>3 DEF Taken, Somewhere
<1>5. CASE /\ ~Has(frames, {Frame("NEG-MSG", r)})
           /\ \A h \in Socket : answered'[h][r] = answered[h][r] /\ (r \in open'[h] => r \in open[h])
  <2>1. \A h \in Socket : Has(in'[h], {Frame("NEG-MSG", r)}) => Has(in[h], {Frame("NEG-MSG", r)})
    BY <1>3, <1>5 DEF Joined
  <2>2. result'[r] = "ok" => reply'[r] = "ok" /\ round[r] + 1 = Rounds
    BY <1>2 DEF NegTruth
  <2> QED BY <1>2, <1>4, <1>5, <2>1, <2>2, NegKept
<1>6. CASE /\ f \in Asks(r) /\ (f \in Opens(r) \/ r \in open[g])
           /\ \A h \in Socket : answered'[h][r] = IF h = g THEN answered[h][r] + 1 ELSE answered[h][r]
  <2>1. Somewhere(out, Asks(r))
    BY <1>2, <1>3, <1>6 DEF Taken, Somewhere
  <2>2. ~Somewhere(in, Tells(r)) /\ pc[r] # "idle" /\ reply[r] # "ok" /\ result[r] # "ok"
    BY <2>1 DEF Token, NothingOnItsWay, NegTruth
  <2>3. ~Somewhere(out', Asks(r))
    BY <1>0, <1>2, <1>6, TailWire DEF Token
  <2>4. ~Somewhere(out', Opens(r)) /\ ~Somewhere(out', {Frame("NEG-MSG", r)})
    BY <2>3, FramesOf DEF Somewhere, Has
  <2>5. answered[g][r] = round[r] /\ \A h \in Socket : h # g => answered[h][r] = 0
    <3>1. CASE f \in Opens(r)
      <4>1. Somewhere(out, Opens(r))
        BY <1>2, <1>3, <3>1 DEF Taken, Somewhere
      <4> QED BY <4>1 DEF NegTruth
    <3>2. CASE f \notin Opens(r)
      <4>1. f \in {Frame("NEG-MSG", r)} /\ r \in open[g]
        BY <1>6, <3>2 DEF Asks
      <4>2. Somewhere(out, {Frame("NEG-MSG", r)})
        BY <1>2, <1>3, <4>1 DEF Taken, Somewhere
      <4>3. PICK h \in Socket : answered[h][r] = round[r] /\ round[r] > 0
        BY <4>2 DEF NegTruth
      <4>4. h = g /\ \A x \in Socket : x # g => ~(answered[x][r] > 0)
        BY <4>1, <4>3 DEF NegTruth
      <4>5. \A x \in Socket : x # g => answered[x][r] = 0
        BY <1>0, <4>4
      <4> QED BY <4>3, <4>4, <4>5
    <3> QED BY <3>1, <3>2
  <2>6. \A h \in Socket : Has(in'[h], {Frame("NEG-MSG", r)}) => h = g
    <3>1. \A h \in Socket : ~Has(in[h], {Frame("NEG-MSG", r)})
      BY <2>2, FramesOf DEF Somewhere, Has
    <3> QED BY <1>3, <3>1 DEF Joined
  <2>7. answered'[g][r] = round[r] + 1 /\ \A h \in Socket : h # g => answered'[h][r] = 0
    BY <1>6, <2>5
  <2>8. \A h \in Socket : r \in open'[h] => h = g
    <3>1. r \in Query \cup Neg
      OBVIOUS
    <3>2. \A h \in Socket : r \in open'[h] => r \in open[h] \/ h = g
      BY <1>1, <3>1 DEF Answering, OpensOnly
    <3>3. \A h \in Socket : r \in open[h] => answered[h][r] > 0
      BY DEF NegTruth
    <3>4. \A h \in Socket : h # g => ~(answered[h][r] > 0)
      BY <2>5
    <3> QED BY <3>2, <3>3, <3>4
  <2>9. answered'[g][r] > 0 /\ \A h \in Socket : answered'[h][r] > 0 => h = g
    BY <1>0, <2>7
  <2> QED BY <1>2, <2>2, <2>4, <2>6, <2>7, <2>8, <2>9 DEF NegTruth
<1> QED BY <1>1, <1>5, <1>6 DEF Answering, CountsRounds

LEMMA NegStep == Typed /\ Released /\ Tokens /\ NegsTruth /\ [Next]_vars => NegsTruth'
<1> SUFFICES ASSUME Typed, Released, Tokens, NegsTruth, [Next]_vars, NEW r \in Neg
             PROVE  NegTruth(r)'
  BY DEF NegsTruth
<1>0. /\ Token(r) /\ NegTruth(r) /\ r \in Caller /\ r \in Query \cup Neg
      /\ out \in [Socket -> Seq(OutFrame)] /\ in \in [Socket -> Seq(InFrame)]
      /\ pc \in [Caller -> PCs] /\ result \in [Caller -> Answers]
      /\ open \in [Socket -> SUBSET (Query \cup Feed \cup Neg)]
      /\ result[r] = "ok" => reply[r] = "ok" /\ round[r] + 1 = Rounds
      /\ r \notin Query \cup Feed \cup Publish
  BY Keys, RelayClientConstants
     DEF Tokens, NegsTruth, NegTruth, Typed, TypedClient, TypedCallers, TypedWires, TypedRelay
<1>1. ASSUME NEW p \in Caller, Ask(p) \/ Subscribe(p) \/ NextRound(p) PROVE NegTruth(r)'
  BY <1>0, <1>1, NegSends
<1>2. ASSUME NEW p \in Caller, Return(p) \/ Reconciled(p) \/ NegFails(p) \/ TimeOut(p) \/ Cancelled(p)
                               \/ DropGuard(p) \/ SendClose(p)
      PROVE  NegTruth(r)'
  <2>1. UNCHANGED <<in, round, open, answered, reply>>
    BY <1>2 DEF Return, Reconciled, NegFails, TimeOut, Cancelled, DropGuard, SendClose, wires, relay
  <2>2. pc'[r] = "idle" => pc[r] = "idle"
    <3>1. pc' = pc \/ \E s \in {"done", "leaving"} : pc' = [pc EXCEPT ![p] = s]
      BY <1>2 DEF Return, Reconciled, NegFails, TimeOut, Cancelled, DropGuard, SendClose
    <3> QED BY <1>0, <3>1
  <2>3. result'[r] = "ok" => reply[r] = "ok" /\ round[r] + 1 = Rounds
    <3>1. CASE Reconciled(p)
      BY <1>0, <3>1 DEF Reconciled
    <3>2. CASE Return(p)
      BY <1>0, <3>2 DEF Return
    <3>3. CASE DropGuard(p) \/ SendClose(p)
      BY <1>0, <3>3 DEF DropGuard, SendClose
    <3>4. CASE NegFails(p) \/ TimeOut(p) \/ Cancelled(p)
      <4>1. \E a : result' = [result EXCEPT ![p] = a] /\ a # "ok"
        BY <3>4 DEF NegFails, TimeOut, Cancelled
      <4> QED BY <1>0, <4>1
    <3> QED BY <1>2, <3>1, <3>2, <3>3, <3>4
  <2>4. \A F : F \subseteq Asks(r) => (Somewhere(out', F) => Somewhere(out, F))
    <3>1. UNCHANGED out \/ (p \in Query \cup Neg /\ SendIfConnected(Frame("CLOSE", p)))
      BY <1>2 DEF Return, Reconciled, NegFails, TimeOut, Cancelled, DropGuard, SendClose, wires, Typed, TypedCallers
    <3>2. CASE conn /\ p \in Query \cup Neg /\ SendIfConnected(Frame("CLOSE", p))
      <4>1. gen \in Socket /\ Added(out, out', gen, Frame("CLOSE", p)) /\ Frame("CLOSE", p) \notin Asks(r)
        BY <3>2, SendsClose, FramesOf
      <4> QED BY <4>1 DEF Added, Somewhere
    <3>3. ~conn /\ SendIfConnected(Frame("CLOSE", p)) => UNCHANGED out
      BY DEF SendIfConnected
    <3> QED BY <3>1, <3>2, <3>3
  <2> QED BY <1>0, <2>1, <2>2, <2>3, <2>4, NegKept
<1>3. ASSUME NEW g \in Socket, Handle(g) PROVE NegTruth(r)'
  <2>1. UNCHANGED <<pc, out, round, answered, open, result>> /\ in[g] # <<>>
    BY <1>3 DEF Handle, relay
  <2>2. PICK f \in InFrame : f = Head(in[g]) /\ Has(in[g], {f})
    BY <2>1, HeadHas
  <2>3. /\ reply'[r] # reply[r] => Waiting(r)
        /\ reply'[r] = "ok" /\ reply[r] # "ok" => f = Frame("NEG-MSG", r)
    BY <1>0, <1>3, <2>2, Answered
  <2>4. reply'[r] = "ok" => reply[r] = "ok" \/ \E h \in Socket : answered[h][r] = round[r] + 1
    BY <1>0, <2>2, <2>3 DEF NegTruth
  <2>5. result'[r] = "ok" => reply'[r] = "ok" /\ round[r] + 1 = Rounds
    BY <1>0, <2>1, <2>3 DEF Waiting
  <2> QED BY <1>0, <1>3, <2>1, <2>4, <2>5, ThreadsShrink, NegKept
<1>4. ASSUME NEW g \in Socket, ThreadFails(g) \/ ThreadEnds(g) \/ Break(g) PROVE NegTruth(r)'
  <2>1. /\ out' = [out EXCEPT ![g] = <<>>] \/ out' = out
        /\ open' = [open EXCEPT ![g] = {}] \/ open' = open
        /\ UNCHANGED <<pc, round, answered, result>>
    BY <1>4 DEF ThreadFails, ThreadEnds, Break, callers, relay
  <2>2. reply'[r] = reply[r] \/ (Waiting(r) /\ reply'[r] = "lost")
    BY <1>0, <1>4, FailReplies DEF ThreadFails, ThreadEnds, Break, callers
  <2>3. \A F : Somewhere(out', F) => Somewhere(out, F)
    <3>1. \A F : \A h \in Socket : Has(out'[h], F) => Has(out[h], F)
      BY <1>0, <2>1, CutHas
    <3> QED BY <3>1 DEF Somewhere
  <2>4. \A h \in Socket : r \in open'[h] => r \in open[h]
    BY <1>0, <2>1
  <2>5. result'[r] = "ok" => reply'[r] = "ok" /\ round[r] + 1 = Rounds
    BY <1>0, <2>1, <2>2 DEF Waiting
  <2> QED BY <1>0, <1>4, <2>1, <2>2, <2>3, <2>4, <2>5, ThreadsShrink, NegKept
<1>5. ASSUME NEW g \in Socket, RelayStep(g) \/ RelayRefuses(g) PROVE NegTruth(r)'
  BY <1>0, <1>5, NegRelay
<1>6. ASSUME NEW g \in Socket, RelayClosed(g) PROVE NegTruth(r)'
  <2>1. PICK f \in Feed : /\ in' = [in EXCEPT ![g] = Append(@, Frame("CLOSED", f))]
                          /\ open' = [open EXCEPT ![g] = @ \ {f}]
    BY <1>6 DEF RelayClosed
  <2>2. UNCHANGED <<out, pc, round, answered, reply, result>>
    BY <1>6 DEF RelayClosed, callers
  <2>3. Frame("CLOSED", f) \in InFrame /\ Frame("CLOSED", f) \notin {Frame("NEG-MSG", r)}
    BY FramesOf DEF InFrame, Frame
  <2>4. Added(in, in', g, Frame("CLOSED", f))
    BY <1>0, <2>1, <2>3, AddHas
  <2>5. /\ \A h \in Socket : Has(in'[h], {Frame("NEG-MSG", r)}) => Has(in[h], {Frame("NEG-MSG", r)})
        /\ \A h \in Socket : r \in open'[h] => r \in open[h]
    BY <1>0, <2>1, <2>3, <2>4 DEF Added
  <2> QED BY <1>0, <2>2, <2>5, NegKept
<1>7. CASE Disconnect \/ UNCHANGED vars
  <2>1. UNCHANGED <<out, in, pc, round, answered, open, reply, result>>
    BY <1>7 DEF Disconnect, vars, client, callers, wires, relay
  <2> QED BY <1>0, <2>1, NegKept
<1>8. CASE DisconnectDrops
  <2>1. Fail(dropping) /\ UNCHANGED <<out, in, pc, round, answered, open, result>>
    BY <1>8 DEF DisconnectDrops, wires, relay
  <2>2. reply'[r] = reply[r] \/ (Waiting(r) /\ reply'[r] = "lost")
    BY <1>0, <2>1, FailReplies
  <2>3. result'[r] = "ok" => reply'[r] = "ok" /\ round[r] + 1 = Rounds
    BY <1>0, <2>1, <2>2 DEF Waiting
  <2> QED BY <1>0, <2>1, <2>2, <2>3, NegKept
<1> QED BY <1>1, <1>2, <1>3, <1>4, <1>5, <1>6, <1>7, <1>8 DEF Next, CallerStep, ThreadStep

------------------------------------------------------------------------------
(* What callers are told, and what is left behind *)

\* live() never returns.
FeedsStay == \A f \in Feed : result[f] = "none"

RequestInv ==
  /\ Typed /\ Released /\ Tokens /\ AllClosed
  /\ QueriesTruth /\ NegsTruth /\ PublishTruth /\ FeedsStay

LEMMA RequestInit == Init => RequestInv
<1> SUFFICES ASSUME Init PROVE RequestInv
  OBVIOUS
<1>1. Typed
  BY InitTyped
<1>2. /\ \A w \in {out, in} : \A F : ~Somewhere(w, F) /\ Once(w, F)
      /\ \A g \in Socket : \A F : ~Has(in[g], F)
      /\ \A g \in Socket : \A A, B : Follows(in[g], A, B)
  <2>1. \A g \in Socket : out[g] = <<>> /\ in[g] = <<>>
    BY DEF Init
  <2> QED BY <2>1, NoFrame DEF Somewhere, Once
<1>3. /\ reply = [r \in Caller |-> "none"] /\ result = [r \in Caller |-> "none"]
      /\ \A r \in Caller : slot[KeyOf(r)] # r
      /\ \A r \in Query \cup Neg \cup Publish \cup Feed : r \in Caller
  BY Keys DEF Init, Caller
<1>4. Released /\ FeedsStay
  BY <1>3 DEF Released, FeedsStay
<1>5. Tokens
  BY <1>2 DEF Tokens, Token, NothingOnItsWay
<1>6. AllClosed
  <2>1. /\ conn = FALSE /\ \A g \in Socket : open[g] = {}
    BY DEF Init
  <2> QED BY <1>2, <2>1 DEF AllClosed, Closed
<1>7. QueriesTruth
  <2>1. conn = FALSE /\ \A r \in Query : got[r] = {} /\ reply[r] = "none" /\ result[r] = "none"
    BY <1>3 DEF Init
  <2> QED BY <1>2, <2>1 DEF QueriesTruth, QueryTruth
<1>8. NegsTruth
  <2>1. \A r \in Neg : /\ round[r] = 0 /\ reply[r] = "none" /\ result[r] = "none"
                       /\ \A g \in Socket : answered[g][r] = 0 /\ r \notin open[g]
    BY <1>3 DEF Init
  <2> QED BY <1>2, <2>1 DEF NegsTruth, NegTruth
<1>9. PublishTruth
  BY <1>2, <1>3 DEF PublishTruth
<1> QED BY <1>1, <1>4, <1>5, <1>6, <1>7, <1>8, <1>9 DEF RequestInv

LEMMA FeedsStep == Typed /\ FeedsStay /\ [Next]_vars => FeedsStay'
<1> SUFFICES ASSUME Typed, FeedsStay, [Next]_vars, NEW f \in Feed PROVE result'[f] = "none"
  BY DEF FeedsStay
<1>0. result \in [Caller -> Answers] /\ result[f] = "none" /\ f \in Caller \ (Query \cup Publish \cup Neg)
  BY Keys, RelayClientConstants DEF Typed, TypedCallers, FeedsStay
<1>1. CASE UNCHANGED result
  BY <1>0, <1>1
<1>2. ASSUME NEW p \in Caller, Ask(p) \/ TimeOut(p) \/ CallerStep(p) PROVE result'[f] = "none"
  <2>1. UNCHANGED result \/ \E a : p \notin Feed /\ result' = [result EXCEPT ![p] = a]
    BY <1>2, RelayClientConstants
       DEF Ask, TimeOut, CallerStep, Subscribe, Return, NextRound, Reconciled, NegFails, Cancelled, DropGuard, SendClose
  <2> QED BY <1>0, <2>1
<1>3. ASSUME NEW g \in Socket, ThreadStep(g) \/ RelayStep(g) \/ Break(g) \/ RelayRefuses(g) \/ RelayClosed(g)
      PROVE  UNCHANGED result
  BY <1>3 DEF ThreadStep, Handle, ThreadFails, ThreadEnds, Break, RelayStep, RelayReq, RelayEvent, RelayNeg, RelayClose,
              RelayRefuses, RelayClosed, RelayReads, callers
<1>4. CASE Disconnect \/ DisconnectDrops \/ UNCHANGED vars
  BY <1>1, <1>4 DEF Disconnect, DisconnectDrops, vars, callers
<1> QED BY <1>1, <1>2, <1>3, <1>4 DEF Next

LEMMA RequestAlways == Spec => []RequestInv
<1>1. RequestInv /\ [Next]_vars => RequestInv'
  BY TypedStep, ReleasedStep, TokensStep, ClosedStep, QueryStep, NegStep, PublishStep, FeedsStep DEF RequestInv
<1> QED BY <1>1, RequestInit, PTL DEF Spec

\* What a caller is told is what the relay said, whichever sockets came and
\* went: a query that succeeds has everything the relay stored when it answered,
\* a publish that succeeds is stored, and a reconciliation that succeeds had
\* every round answered in one session of the relay.
THEOREM CallersAreToldTheTruth == Spec => []ToldTheTruth
<1>1. RequestInv => ToldTheTruth
  <2> SUFFICES ASSUME RequestInv, NEW r \in Caller, result[r] = "ok"
               PROVE  CASE r \in Query -> got[r] = snapshot[r]
                        [] r \in Publish -> EventOf[r] \in stored
                        [] OTHER -> \E g \in Socket : answered[g][r] = Rounds
    BY DEF ToldTheTruth
  <2>1. CASE r \in Query
    <3>1. got[r] = snapshot[r] /\ r \notin Publish
      BY <2>1, RelayClientConstants DEF RequestInv, QueriesTruth, QueryTruth
    <3> QED BY <2>1, <3>1
  <2>2. CASE r \in Publish
    <3>1. EventOf[r] \in stored /\ r \notin Query
      BY <2>2, RelayClientConstants DEF RequestInv, PublishTruth
    <3> QED BY <2>2, <3>1
  <2>3. CASE r \in Neg
    <3>1. NegTruth(r) /\ r \notin Query \cup Publish
      BY <2>3, RelayClientConstants DEF RequestInv, NegsTruth
    <3>2. round[r] + 1 = Rounds /\ \E g \in Socket : answered[g][r] = round[r] + 1
      BY <3>1 DEF NegTruth
    <3> QED BY <3>1, <3>2
  <2>4. r \notin Feed
    BY DEF RequestInv, FeedsStay
  <2> QED BY <2>1, <2>2, <2>3, <2>4 DEF Caller
<1> QED BY <1>1, RequestAlways, PTL

\* Nothing outlives its request: who returned holds no slot, and once every
\* frame is read the relay has nothing open on the current socket but the live
\* subscriptions and the requests still waited for.
THEOREM NothingOutlivesItsRequest == Spec => []NothingLeft
<1>1. RequestInv => NothingLeft
  <2> SUFFICES ASSUME RequestInv PROVE NothingLeft
    OBVIOUS
  <2>1. \A r \in Caller : pc[r] = "done" => slot[KeyOf(r)] # r
    BY DEF RequestInv, Released
  <2>2. ASSUME conn, out[gen] = <<>>, closing = {}, NEW r \in open[gen], r \notin Feed
        PROVE  pc[r] \in {"waiting", "leaving"}
    <3>1. r \in Query \cup Neg /\ r \in Caller /\ KeyOf(r) = r /\ pc[r] \in PCs
      BY <2>2, Keys DEF RequestInv, Typed, TypedClient, TypedCallers, TypedRelay
    <3>2. ~Ended(r)
      BY <2>2, <3>1, NoFrame DEF RequestInv, AllClosed, Closed, Clean
    <3>3. pc[r] \in {"idle", "done"} => slot[r] # r
      BY <3>1 DEF RequestInv, Released
    <3> QED BY <3>1, <3>2, <3>3 DEF Ended, PCs
  <2> QED BY <2>1, <2>2 DEF NothingLeft
<1> QED BY <1>1, RequestAlways, PTL

==============================================================================
