---------------------------- MODULE HistoryProofs ----------------------------
(***************************************************************************)
(* The theorems of History: every state is well typed, a pass judged       *)
(* complete brought in what the relays held when it began, history is      *)
(* never called complete over an event that failed, with nothing under way *)
(* the stored cursor is below such an event, and a device marked as        *)
(* bootstrapped holds what the relays held at its first start.             *)
(***************************************************************************)
EXTENDS History, TLAPS, FiniteSetTheorems, WellFoundedInduction

-----------------------------------------------------------------------------
(* The oldest and the newest second of a set of events.                    *)

LEMMA LeastExists ==
  ASSUME NEW S \in SUBSET Nat, S # {}
  PROVE  \E n \in S : \A m \in S : n <= m
<1>1. IsWellFoundedOn(OpToRel(<, Nat), Nat)
  BY NatLessThanWellFounded
<1>2. \E n \in S : \A m \in S : ~(<<m, n>> \in OpToRel(<, Nat))
  BY <1>1, WFMin
<1>3. \A m \in S, n \in S : <<m, n>> \notin OpToRel(<, Nat) => n <= m
  BY DEF OpToRel
<1> QED BY <1>2, <1>3

LEMMA OldestIsLeast ==
  ASSUME NEW events \in SUBSET Event, events # {}
  PROVE  /\ \E e \in events : Oldest(events) = At[e]
         /\ \A e \in events : Oldest(events) <= At[e]
         /\ Oldest(events) \in 1..LastSecond
<1> DEFINE S == {At[e] : e \in events}
<1>0. LastSecond \in Nat /\ \A e \in events : At[e] \in 1..LastSecond
  BY HistoryConstants
<1>1. S \in SUBSET Nat /\ S # {} /\ \A n \in S : n \in 1..LastSecond
  <2>1. \A n \in S : n \in 1..LastSecond
    BY <1>0
  <2>2. PICK e \in events : TRUE
    OBVIOUS
  <2>3. At[e] \in S
    BY <2>2
  <2> HIDE DEF S
  <2>4. \A n \in S : n \in Nat
    BY <1>0, <2>1
  <2> QED BY <2>1, <2>3, <2>4
<1>2. \E n \in S : \A e \in events : n <= At[e]
  <2>1. \A e \in events : At[e] \in S
    OBVIOUS
  <2> HIDE DEF S
  <2>2. \E n \in S : \A m \in S : n <= m
    BY <1>1, LeastExists
  <2> QED BY <2>1, <2>2
<1>3. Oldest(events) \in S /\ \A e \in events : Oldest(events) <= At[e]
  BY <1>2 DEF Oldest
<1> QED BY <1>1, <1>3

LEMMA NewestIsASecond ==
  ASSUME NEW events \in SUBSET Event, NEW floor \in 0..LastSecond
  PROVE  Newest(events, floor) \in 0..LastSecond
<1> DEFINE S == {At[e] : e \in events} \cup {floor}
           T == {LastSecond - n : n \in S}
<1>0. LastSecond \in Nat
  BY HistoryConstants
<1>1. \A n \in S : n \in 0..LastSecond
  BY HistoryConstants
<1>2. T \in SUBSET Nat /\ T # {}
  BY <1>0, <1>1
<1>3. PICK t \in T : \A m \in T : t <= m
  BY <1>2, LeastExists
<1>4. PICK n \in S : t = LastSecond - n
  OBVIOUS
<1>5. \A m \in S : m <= n
  <2> TAKE m \in S
  <2>1. LastSecond - n <= LastSecond - m
    BY <1>3, <1>4
  <2> QED BY <1>0, <1>1, <2>1
<1>6. \E k \in S : \A m \in S : m <= k
  BY <1>5
<1>7. Newest(events, floor) \in S
  <2>1. Newest(events, floor) = CHOOSE k \in S : \A m \in S : m <= k
    BY DEF Newest
  <2> HIDE DEF S
  <2> QED BY <1>6, <2>1
<1> QED BY <1>1, <1>7

LEMMA LeastIsOne ==
  ASSUME NEW a \in Nat, NEW b \in Nat
  PROVE  Least(a, b) \in {a, b} /\ Least(a, b) <= a /\ Least(a, b) <= b
  BY DEF Least

\* A page shorter than asked for is all there is.
LEMMA ShortPage ==
  ASSUME NEW range \in SUBSET Event, NEW page \in SUBSET range,
         Cardinality(page) = Least(PageLimit, Cardinality(range)), page # range
  PROVE  Cardinality(page) = PageLimit
<1>1. IsFiniteSet(range)
  BY HistoryConstants, FS_Subset
<1>2. Cardinality(page) # Cardinality(range)
  BY <1>1, FS_Subset
<1>3. Cardinality(range) \in Nat /\ PageLimit \in Nat
  BY <1>1, FS_CardinalityType, HistoryConstants
<1> QED BY <1>2, <1>3, LeastIsOne

\* A full page holds something.
LEMMA FullPage ==
  ASSUME NEW page \in SUBSET Event, Cardinality(page) = PageLimit
  PROVE  page # {}
  BY HistoryConstants, FS_EmptySet

-----------------------------------------------------------------------------
(* Types.                                                                  *)

CallState == [pc : {"none", "waiting", "running", "mark"}, since : Seconds, until : Seconds,
              first : BOOLEAN]
PassState ==
  [pc : {"idle", "begun", "cover", "error", "drain", "judged", "settle", "regress"},
   by : Caller, since : Seconds, until : Seconds, track : BOOLEAN, complete : BOOLEAN,
   clean : BOOLEAN, walked : SUBSET Relay, seen : SUBSET Event, claimed : SUBSET Event,
   floor : Seconds, atStart : [Relay -> SUBSET Event]]
WalkerState ==
  [pc : {"idle", "negotiate", "page", "fetch", "import", "imported", "saving", "failed", "done"},
   paging : BOOLEAN, until : Seconds, page : SUBSET Event, new : SUBSET Event]

\* The cursor, stored or to be stored, is an event's second or 0: `cursor + 1`
\* is still a second.
RelaysTyped ==
  /\ relays \in [Relay -> SUBSET Event] /\ origin \in [Relay -> SUBSET Event]
  /\ live \in [Relay -> Seconds] /\ dropped \subseteq Relay
  /\ inbox \subseteq Event /\ liveSeen \subseteq Event
CursorTyped ==
  /\ held \subseteq Event /\ saved \in 0..LastSecond /\ bootstrapped \in BOOLEAN
  /\ storedFloor \in Seconds
  /\ cursor \in 0..LastSecond /\ historyComplete \in BOOLEAN /\ faultFloor \in 0..Never
  /\ saving \in [by : Relay \cup {"nobody", "pass", "worker"}, value : 0..LastSecond]
TasksTyped ==
  /\ worker \in [pc : {"idle", "import", "failed", "landed"}, event : SUBSET Event]
  /\ calls \in [Caller -> CallState]
  /\ pass \in PassState
  /\ walker \in [Relay -> WalkerState]
BoundsTyped ==
  /\ crashes \in 0..MaxCrash /\ fails \in 0..MaxFail /\ downs \in 0..MaxDown
  /\ faulted \subseteq Event \X Relay /\ walks \subseteq Relay
Typed == RelaysTyped /\ CursorTyped /\ TasksTyped /\ BoundsTyped

LEMMA Numbers ==
  /\ LastSecond \in Nat /\ Seconds = 0..(LastSecond + 1) /\ Never = LastSecond + 2 /\ None = 0
  /\ MaxCrash \in Nat /\ MaxFail \in Nat /\ MaxDown \in Nat
  BY HistoryConstants DEF Seconds, Never, None

LEMMA TypedIsTyped == Typed => TypeOK
<1> SUFFICES ASSUME Typed PROVE TypeOK
  OBVIOUS
<1>1. saved \in Seconds /\ cursor \in Seconds /\ saving.value \in Seconds
  BY Numbers DEF Typed, CursorTyped
<1>2. saving.by \in Relay \cup {"nobody", "pass", "worker"}
  BY DEF Typed, CursorTyped
<1>3. /\ pass.pc \in {"idle", "begun", "cover", "error", "drain", "judged", "settle", "regress"}
      /\ pass.since \in Seconds /\ pass.until \in Seconds
  BY DEF Typed, TasksTyped, PassState
<1> QED BY <1>1, <1>2, <1>3 DEF Typed, RelaysTyped, CursorTyped, TasksTyped, BoundsTyped, TypeOK, CallState,
        WalkerState

LEMMA NothingTyped ==
  /\ NoPass \in PassState /\ NoCall \in CallState
  /\ [r \in Relay |-> NoWalker] \in [Relay -> WalkerState]
  /\ NotSaving \in [by : Relay \cup {"nobody", "pass", "worker"}, value : 0..LastSecond]
<1>1. None \in Seconds /\ 0 \in Seconds /\ 0 \in 0..LastSecond
  BY Numbers
<1>2. NoPass \in PassState
  BY <1>1 DEF NoPass, PassState, Caller
<1>3. NoWalker \in WalkerState
  BY <1>1 DEF NoWalker, WalkerState
<1>4. NoCall \in CallState
  BY <1>1 DEF NoCall, CallState
<1> QED BY <1>1, <1>2, <1>3, <1>4 DEF NotSaving

LEMMA StartTyped ==
  ASSUME NEW boot \in BOOLEAN, NEW since \in 0..LastSecond, NEW floor \in Seconds
  PROVE  StartCalls(boot, since, floor) \in [Caller -> CallState]
<1>1. /\ (IF boot THEN since + 1 ELSE 1) \in Seconds
      /\ (IF boot THEN None ELSE floor) \in Seconds
  BY Numbers
<1> HIDE DEF None
<1>2. [pc |-> "waiting", since |-> IF boot THEN since + 1 ELSE 1,
       until |-> IF boot THEN None ELSE floor, first |-> ~boot] \in CallState
  BY <1>1 DEF CallState
<1> QED BY <1>2, NothingTyped DEF StartCalls

LEMMA InitTyped == Init => Typed
<1> SUFFICES ASSUME Init PROVE Typed
  OBVIOUS
<1>0. Old \subseteq Event
  BY HistoryConstants
<1>6. 0 \in 0..LastSecond /\ None \in Seconds /\ Never \in 0..Never
  BY Numbers
<1>1. RelaysTyped
  BY <1>0, <1>6 DEF Init, RelaysTyped
<1>2. CursorTyped
  BY <1>6, NothingTyped DEF Init, CursorTyped
<1>3. calls \in [Caller -> CallState]
  <2>1. StartCalls(FALSE, 0, None) \in [Caller -> CallState]
    BY <1>6, StartTyped
  <2> QED BY <2>1 DEF Init
<1>4. TasksTyped
  BY <1>3, NothingTyped DEF Init, TasksTyped, NoWork
<1>5. BoundsTyped
  BY Numbers DEF Init, BoundsTyped
<1> QED BY <1>1, <1>2, <1>4, <1>5 DEF Typed

LEMMA FaultTyped ==
  ASSUME CursorTyped, NEW at \in 0..Never, NEW p \in PassState, Fault(at, p)
  PROVE  /\ faultFloor' \in 0..Never /\ historyComplete' \in BOOLEAN /\ storedFloor' \in Seconds
         /\ pass' \in PassState
<1>1. faultFloor' \in 0..Never
  BY Numbers, LeastIsOne DEF Fault, CursorTyped
<1>2. pass' \in PassState
  BY DEF Fault, PassState
<1>3. None \in Seconds
  BY Numbers
<1> QED BY <1>1, <1>2, <1>3 DEF Fault

LEMMA CursorMoves == ASSUME CursorTyped PROVE NextCursor \in 0..LastSecond
<1>1. faultFloor # Never => (IF faultFloor = 0 THEN 0 ELSE faultFloor - 1) \in Nat
  BY Numbers DEF CursorTyped
<1>2. faultFloor # Never => Least(cursor, IF faultFloor = 0 THEN 0 ELSE faultFloor - 1) \in 0..LastSecond
  BY <1>1, LeastIsOne, Numbers DEF CursorTyped
<1> QED BY <1>2 DEF NextCursor, CursorTyped

LEMMA LocksTyped ==
  ASSUME CursorTyped, NEW who \in Relay \cup {"nobody", "pass", "worker"}, Locks(who)
  PROVE  saving' \in [by : Relay \cup {"nobody", "pass", "worker"}, value : 0..LastSecond]
  BY CursorMoves DEF Locks

LEMMA StoresTyped ==
  ASSUME CursorTyped, NEW who, Stores(who)
  PROVE  /\ saved' \in 0..LastSecond
         /\ saving' \in [by : Relay \cup {"nobody", "pass", "worker"}, value : 0..LastSecond]
  BY NothingTyped DEF Stores, CursorTyped

\* One lemma for each group of actions.

LEMMA BeginPassTyped == ASSUME Typed, NEW c \in Caller, BeginPass(c) PROVE Typed'
<1>1. /\ calls[c].since \in Seconds /\ calls[c].until \in Seconds
      /\ calls \in [Caller -> CallState]
  BY DEF Typed, TasksTyped, CallState
<1> DEFINE since == Least(calls[c].since, faultFloor)
<1>2. since \in Seconds /\ since \in 0..Never
  BY <1>1, Numbers, LeastIsOne DEF Typed, CursorTyped
<1> HIDE DEF since
<1>3. /\ faultFloor' = since /\ calls' = [calls EXCEPT ![c].pc = "running"]
      /\ pass' = [NoPass EXCEPT !.pc = "begun", !.by = c, !.since = since,
                   !.until = calls[c].until, !.track = calls[c].since <= 1,
                   !.complete = TRUE, !.clean = TRUE, !.floor = calls[c].until,
                   !.atStart = relays]
      /\ historyComplete' = FALSE
      /\ UNCHANGED <<network, disk, cursor, ears, worker, walker, saving, bounds>>
  BY DEF BeginPass, since
<1>4. calls' \in [Caller -> CallState]
  BY <1>1, <1>3 DEF CallState
<1>5. pass' \in PassState
  <2>1. pass' = [pc |-> "begun", by |-> c, since |-> since, until |-> calls[c].until,
                 track |-> calls[c].since <= 1, complete |-> TRUE, clean |-> TRUE, walked |-> {},
                 seen |-> {}, claimed |-> {}, floor |-> calls[c].until, atStart |-> relays]
    BY <1>3 DEF NoPass
  <2>2. (calls[c].since <= 1) \in BOOLEAN
    OBVIOUS
  <2>3. relays \in [Relay -> SUBSET Event]
    BY DEF Typed, RelaysTyped
  <2> QED BY <1>1, <1>2, <2>1, <2>2, <2>3 DEF PassState
<1>6. RelaysTyped' /\ BoundsTyped'
  BY <1>3 DEF Typed, RelaysTyped, BoundsTyped, network, ears, bounds
<1>7. CursorTyped'
  BY <1>2, <1>3 DEF Typed, CursorTyped, disk
<1> QED BY <1>3, <1>4, <1>5, <1>6, <1>7 DEF Typed, TasksTyped

LEMMA PassLocksTyped == ASSUME Typed, PassLocks PROVE Typed'
<1>1. saving' \in [by : Relay \cup {"nobody", "pass", "worker"}, value : 0..LastSecond]
  BY LocksTyped DEF PassLocks, Typed
<1> QED BY <1>1 DEF PassLocks, Typed, RelaysTyped, CursorTyped, TasksTyped, BoundsTyped, network, disk, memory,
        ears, bounds

\* What the end of a pass leaves.
LEMMA ReturnsTyped ==
  ASSUME Typed, NEW complete \in BOOLEAN, NEW failed \in BOOLEAN, Returns(complete, failed)
  PROVE  /\ pass' \in PassState /\ calls' \in [Caller -> CallState]
         /\ live' \in [Relay -> Seconds] /\ dropped' \subseteq Relay
         /\ inbox' \subseteq Event /\ liveSeen' \subseteq Event
<1>1. pass.by \in Caller /\ calls \in [Caller -> CallState]
  BY DEF Typed, TasksTyped, PassState
<1>2. [calls[pass.by] EXCEPT !.pc = "mark"] \in CallState
  BY <1>1 DEF CallState
<1>3. calls' \in [Caller -> CallState]
  BY <1>1, <1>2, NothingTyped DEF Returns
<1>4. None \in Seconds
  BY Numbers
<1> QED BY <1>3, <1>4, NothingTyped DEF Returns, Resubscribes, ears, Typed, RelaysTyped

LEMMA PassStoresTyped == ASSUME Typed, PassStores PROVE Typed'
<1>1. /\ saved' \in 0..LastSecond
      /\ saving' \in [by : Relay \cup {"nobody", "pass", "worker"}, value : 0..LastSecond]
  BY StoresTyped DEF PassStores, Typed
<1>2. /\ UNCHANGED <<network, held, bootstrapped, storedFloor, memory, worker, bounds>>
      /\ pass \in PassState
  BY DEF PassStores, Typed, TasksTyped
<1>3. CursorTyped' /\ BoundsTyped'
  BY <1>1, <1>2 DEF Typed, CursorTyped, BoundsTyped, memory, bounds
<1>4. CASE /\ pass' = [pass EXCEPT !.pc = "cover"]
           /\ walker' = [r \in Relay |-> [NoWalker EXCEPT !.pc = "negotiate", !.until = pass.until]]
           /\ UNCHANGED <<calls, ears>>
  <2>1. pass' \in PassState
    BY <1>2, <1>4 DEF PassState
  <2>2. [NoWalker EXCEPT !.pc = "negotiate", !.until = pass.until] \in WalkerState
    BY <1>2 DEF NoWalker, WalkerState, PassState
  <2> QED BY <1>2, <1>3, <1>4, <2>1, <2>2 DEF Typed, RelaysTyped, TasksTyped, network, ears
<1>5. CASE pass' = [pass EXCEPT !.pc = "settle"] /\ UNCHANGED <<walker, calls, ears>>
  <2>1. pass' \in PassState
    BY <1>2, <1>5 DEF PassState
  <2> QED BY <1>2, <1>3, <1>5, <2>1 DEF Typed, RelaysTyped, TasksTyped, network, ears
<1>6. CASE Returns(FALSE, pass.pc = "error") /\ UNCHANGED walker
  BY <1>2, <1>3, <1>6, ReturnsTyped DEF Typed, RelaysTyped, TasksTyped, network
<1> QED BY <1>4, <1>5, <1>6 DEF PassStores

LEMMA CoverEndsTyped == ASSUME Typed, CoverEnds PROVE Typed'
<1>0. pass \in PassState /\ CursorTyped /\ 1 \in 0..Never
  BY Numbers DEF Typed, TasksTyped
<1>1. UNCHANGED <<network, held, saved, bootstrapped, cursor, ears, worker, calls, saving, bounds>>
  BY DEF CoverEnds
<1>2. walker' \in [Relay -> WalkerState]
  BY NothingTyped DEF CoverEnds
<1>3. /\ faultFloor' \in 0..Never /\ historyComplete' \in BOOLEAN /\ storedFloor' \in Seconds
      /\ pass' \in PassState
  <2>1. [pass EXCEPT !.pc = "error"] \in PassState /\ [pass EXCEPT !.pc = "drain"] \in PassState
    BY <1>0 DEF PassState
  <2> QED BY <1>0, <2>1, FaultTyped DEF CoverEnds, CursorTyped
<1> QED BY <1>1, <1>2, <1>3 DEF Typed, RelaysTyped, CursorTyped, TasksTyped, BoundsTyped, network, ears, bounds

LEMMA JudgeTyped == ASSUME Typed, Judge PROVE Typed'
<1>0. pass \in PassState /\ CursorTyped /\ pass.since \in 0..Never /\ None \in Seconds /\ Never \in 0..Never
  BY Numbers DEF Typed, TasksTyped, PassState
<1>1. UNCHANGED <<network, held, saved, bootstrapped, cursor, ears, worker, calls, walker, saving, bounds>>
  BY DEF Judge
<1>3. /\ faultFloor' \in 0..Never /\ historyComplete' \in BOOLEAN /\ storedFloor' \in Seconds
      /\ pass' \in PassState
  <2>1. \A b \in BOOLEAN : [pass EXCEPT !.pc = "judged", !.complete = b] \in PassState
    BY <1>0 DEF PassState
  <2> DEFINE verdict == pass.complete /\ pass.clean /\ (IF pass.walked # {} THEN pass.since ELSE 0) <= faultFloor
  <2>2. verdict \in BOOLEAN
    OBVIOUS
  <2>3. IF verdict
          THEN /\ historyComplete' = TRUE /\ faultFloor' = Never
               /\ storedFloor' = IF pass.track THEN None ELSE storedFloor
               /\ pass' = [pass EXCEPT !.pc = "judged", !.complete = verdict]
          ELSE Fault(pass.since, [pass EXCEPT !.pc = "judged", !.complete = verdict])
    BY DEF Judge
  <2> HIDE DEF verdict
  <2>4. CASE verdict
    BY <1>0, <2>1, <2>2, <2>3, <2>4 DEF CursorTyped
  <2>5. CASE ~verdict
    BY <1>0, <2>1, <2>2, <2>3, <2>5, FaultTyped
  <2> QED BY <2>4, <2>5
<1> QED BY <1>1, <1>3 DEF Typed, RelaysTyped, CursorTyped, TasksTyped, BoundsTyped, network, ears, bounds

LEMMA SettleTyped == ASSUME Typed, Settle PROVE Typed'
<1>0. pass \in PassState /\ CursorTyped /\ pass.since \in 0..Never /\ historyComplete \in BOOLEAN
  BY Numbers DEF Typed, TasksTyped, CursorTyped, PassState
<1>1. UNCHANGED <<network, held, saved, bootstrapped, cursor, worker, walker, saving, bounds>>
  BY DEF Settle
<1>2. CASE Fault(pass.since, [pass EXCEPT !.pc = "regress"]) /\ UNCHANGED <<calls, ears>>
  <2>1. [pass EXCEPT !.pc = "regress"] \in PassState
    BY <1>0 DEF PassState
  <2>2. /\ faultFloor' \in 0..Never /\ historyComplete' \in BOOLEAN /\ storedFloor' \in Seconds
        /\ pass' \in PassState
    BY <1>0, <1>2, <2>1, FaultTyped
  <2> QED BY <1>1, <1>2, <2>2 DEF Typed, RelaysTyped, CursorTyped, TasksTyped, BoundsTyped, network, ears, bounds
<1>3. CASE Returns(historyComplete, FALSE) /\ UNCHANGED <<faultFloor, historyComplete, storedFloor>>
  BY <1>0, <1>1, <1>3, ReturnsTyped DEF Typed, RelaysTyped, CursorTyped, TasksTyped, BoundsTyped, network, bounds
<1> QED BY <1>2, <1>3 DEF Settle

LEMMA MarkTyped == ASSUME Typed, NEW c \in Caller, MarkBootstrapped(c) PROVE Typed'
<1>1. /\ live' \in [Relay -> Seconds] /\ dropped' \subseteq Relay
      /\ inbox' \subseteq Event /\ liveSeen' \subseteq Event
  BY Numbers DEF MarkBootstrapped, Resubscribes, ears, Typed, RelaysTyped
<1>2. calls' \in [Caller -> CallState]
  BY NothingTyped DEF MarkBootstrapped, Typed, TasksTyped
<1> QED BY <1>1, <1>2 DEF MarkBootstrapped, Typed, RelaysTyped, CursorTyped, TasksTyped, BoundsTyped, network,
        memory, bounds

LEMMA NegotiateTyped == ASSUME Typed, NEW r \in Relay, Negotiate(r) PROVE Typed'
<1>0. pass \in PassState /\ walker \in [Relay -> WalkerState] /\ relays \in [Relay -> SUBSET Event]
  BY DEF Typed, TasksTyped, RelaysTyped
<1> DEFINE need == relays[r] \ (held \cup pass.claimed)
<1>1. /\ pass' = [pass EXCEPT !.claimed = @ \cup need]
      /\ walker' = [walker EXCEPT ![r].pc = IF need = {} THEN "done" ELSE "fetch", ![r].page = need]
      /\ UNCHANGED <<network, disk, memory, ears, worker, calls, saving, bounds>>
  BY DEF Negotiate
<1>2. need \in SUBSET Event
  BY <1>0
<1> HIDE DEF need
<1>3. pass' \in PassState
  BY <1>0, <1>1, <1>2 DEF PassState
<1>4. walker' \in [Relay -> WalkerState]
  <2>1. PICK q \in {"done", "fetch"} : walker' = [walker EXCEPT ![r].pc = q, ![r].page = need]
    BY <1>1
  <2> QED BY <1>0, <1>2, <2>1 DEF WalkerState
<1> QED BY <1>1, <1>3, <1>4 DEF Typed, RelaysTyped, CursorTyped, TasksTyped, BoundsTyped, network, disk, memory,
        ears, bounds

LEMMA WalkInsteadTyped == ASSUME Typed, NEW r \in Relay, Refused(r) \/ Unreachable(r) PROVE Typed'
<1>0. pass \in PassState /\ walker \in [Relay -> WalkerState] /\ WalkInstead(r)
  BY DEF Typed, TasksTyped, Refused, Unreachable
<1>1. pass' \in PassState
  BY <1>0 DEF WalkInstead, PassState
<1>2. walker' \in [Relay -> WalkerState]
  BY <1>0 DEF WalkInstead, WalkerState
<1>3. downs' \in 0..MaxDown
  BY Numbers DEF Refused, Unreachable, Typed, BoundsTyped
<1> QED BY <1>0, <1>1, <1>2, <1>3 DEF WalkInstead, Typed, RelaysTyped, CursorTyped, TasksTyped, BoundsTyped,
        network, disk, memory, ears

LEMMA PageIsRange ==
  ASSUME Typed, NEW r \in Relay, NEW page \in Pages(r)
  PROVE  page \in SUBSET Event
  BY DEF Pages, Typed, RelaysTyped

LEMMA IngestsTyped ==
  ASSUME Typed, NEW r \in Relay, NEW events \in SUBSET Event, Ingests(r, events)
  PROVE  Typed'
<1>0. pass \in PassState /\ walker \in [Relay -> WalkerState] /\ cursor \in 0..LastSecond
  BY DEF Typed, TasksTyped, CursorTyped
<1>1. pass' \in PassState
  BY <1>0 DEF Ingests, PassState
<1>2. walker' \in [Relay -> WalkerState]
  BY <1>0 DEF Ingests, WalkerState
<1>3. cursor' \in 0..LastSecond
  BY <1>0, NewestIsASecond DEF Ingests
<1> QED BY <1>1, <1>2, <1>3 DEF Ingests, Typed, RelaysTyped, CursorTyped, TasksTyped, BoundsTyped, network, disk,
        ears, bounds

LEMMA FetchedTyped == ASSUME Typed, NEW r \in Relay, QueryPage(r) \/ Fetch(r) PROVE Typed'
<1>1. CASE QueryPage(r)
  BY <1>1, PageIsRange, IngestsTyped DEF QueryPage
<1>2. CASE Fetch(r)
  <2>1. walker[r].page \in SUBSET Event
    BY DEF Typed, TasksTyped, WalkerState
  <2> QED BY <1>2, <2>1, IngestsTyped DEF Fetch
<1> QED BY <1>1, <1>2

LEMMA QueryFailsTyped == ASSUME Typed, NEW r \in Relay, QueryFails(r) PROVE Typed'
<1>0. pass \in PassState /\ walker \in [Relay -> WalkerState]
  BY DEF Typed, TasksTyped
<1>1. pass' \in PassState
  BY <1>0 DEF QueryFails, PassState
<1>2. walker' \in [Relay -> WalkerState]
  BY <1>0 DEF QueryFails, WalkerState
<1>3. downs' \in 0..MaxDown
  BY Numbers DEF QueryFails, Typed, BoundsTyped
<1> QED BY <1>1, <1>2, <1>3 DEF QueryFails, Typed, RelaysTyped, CursorTyped, TasksTyped, BoundsTyped,
        network, disk, memory, ears

\* An import of `new` that leaves `out` out.
Imported(new, out) ==
  /\ held' = held \cup (new \ out)
  /\ faulted' = (faulted \ (new \X Relay)) \cup MissedAt(out)
  /\ \/ out = {} /\ UNCHANGED <<faultFloor, historyComplete, storedFloor, pass, fails>>
     \/ \E e \in new : out = {e} /\ fails < MaxFail /\ fails' = fails + 1 /\ Fault(At[e], pass)

LEMMA LeavesOut ==
  ASSUME NEW new \in SUBSET Event, NEW out \in LeftOut(new), held' = held \cup (new \ out),
         faulted' = (faulted \ (new \X Relay)) \cup MissedAt(out),
         IF out = {} THEN UNCHANGED <<faultFloor, historyComplete, storedFloor, pass, fails>>
                     ELSE fails' = fails + 1 /\ Fault(Oldest(out), pass)
  PROVE  Imported(new, out)
<1>1. CASE out = {}
  BY <1>1 DEF Imported
<1>2. CASE out # {}
  <2>1. PICK e \in new : out = {e} /\ fails < MaxFail
    BY <1>2 DEF LeftOut
  <2>2. Oldest(out) = At[e]
    BY <2>1, OldestIsLeast
  <2> QED BY <1>2, <2>1, <2>2 DEF Imported
<1> QED BY <1>1, <1>2

LEMMA ImportedTyped ==
  ASSUME Typed, NEW new \in SUBSET Event, NEW out, Imported(new, out)
  PROVE  /\ held' \subseteq Event /\ faulted' \subseteq Event \X Relay /\ fails' \in 0..MaxFail
         /\ faultFloor' \in 0..Never /\ historyComplete' \in BOOLEAN /\ storedFloor' \in Seconds
         /\ pass' \in PassState
<1>0. /\ pass \in PassState /\ CursorTyped /\ held \subseteq Event /\ faulted \subseteq Event \X Relay
      /\ fails \in 0..MaxFail
  BY DEF Typed, TasksTyped, CursorTyped, BoundsTyped
<1>1. CASE out = {}
  BY <1>0, <1>1 DEF Imported, MissedAt, CursorTyped, Fault
<1>2. ASSUME NEW e \in new, out = {e}, fails < MaxFail, fails' = fails + 1, Fault(At[e], pass)
      PROVE  /\ held' \subseteq Event /\ faulted' \subseteq Event \X Relay /\ fails' \in 0..MaxFail
             /\ faultFloor' \in 0..Never /\ historyComplete' \in BOOLEAN /\ storedFloor' \in Seconds
             /\ pass' \in PassState
  <2>1. At[e] \in 0..Never
    BY HistoryConstants, Numbers
  <2>2. held' \subseteq Event /\ faulted' \subseteq Event \X Relay
    BY <1>0, <1>2 DEF Imported, MissedAt
  <2>3. fails' \in 0..MaxFail
    BY <1>0, <1>2, Numbers
  <2> QED BY <1>0, <1>2, <2>1, <2>2, <2>3, FaultTyped
<1> QED BY <1>1, <1>2 DEF Imported

LEMMA ImportTyped == ASSUME Typed, NEW r \in Relay, Import(r) PROVE Typed'
<1>0. walker \in [Relay -> WalkerState] /\ walker[r].new \in SUBSET Event
  BY DEF Typed, TasksTyped, WalkerState
<1>1. PICK out \in LeftOut(walker[r].new) : Imported(walker[r].new, out)
  BY <1>0, LeavesOut DEF Import
<1>2. walker' \in [Relay -> WalkerState]
  BY <1>0 DEF Import, WalkerState
<1> QED BY <1>0, <1>1, <1>2, ImportedTyped DEF Import, Typed, RelaysTyped, CursorTyped, TasksTyped, BoundsTyped,
        network, ears

LEMMA ImportFailsTyped == ASSUME Typed, NEW r \in Relay, ImportFails(r) PROVE Typed'
<1>0. walker \in [Relay -> WalkerState] /\ walker[r].new \in SUBSET Event /\ pass \in PassState /\ CursorTyped
  BY DEF Typed, TasksTyped, WalkerState
<1>1. 1 \in 0..Never /\ Fault(1, pass)
  BY Numbers DEF ImportFails
<1>2. walker' \in [Relay -> WalkerState]
  BY <1>0 DEF ImportFails, WalkerState
<1>3. faulted' \subseteq Event \X Relay /\ fails' \in 0..MaxFail
  BY <1>0, Numbers DEF ImportFails, MissedAt, Typed, BoundsTyped
<1>4. /\ faultFloor' \in 0..Never /\ historyComplete' \in BOOLEAN /\ storedFloor' \in Seconds
      /\ pass' \in PassState
  BY <1>0, <1>1, FaultTyped
<1> QED BY <1>2, <1>3, <1>4 DEF ImportFails, Typed, RelaysTyped, CursorTyped, TasksTyped, BoundsTyped, network,
        ears

LEMMA WalkerSavesTyped == ASSUME Typed, NEW r \in Relay, WalkerLocks(r) \/ WalkerStores(r) PROVE Typed'
<1>1. CASE WalkerLocks(r)
  <2>1. saving' \in [by : Relay \cup {"nobody", "pass", "worker"}, value : 0..LastSecond]
    BY <1>1, LocksTyped DEF WalkerLocks, Typed
  <2> QED BY <1>1, <2>1 DEF WalkerLocks, Typed, RelaysTyped, CursorTyped, TasksTyped, BoundsTyped, network, disk,
          memory, ears, bounds
<1>2. CASE WalkerStores(r)
  <2>1. /\ saved' \in 0..LastSecond
        /\ saving' \in [by : Relay \cup {"nobody", "pass", "worker"}, value : 0..LastSecond]
    BY <1>2, StoresTyped DEF WalkerStores, Typed
  <2>2. walker' \in [Relay -> WalkerState]
    BY <1>2 DEF WalkerStores, Typed, TasksTyped, WalkerState
  <2> QED BY <1>2, <2>1, <2>2 DEF WalkerStores, Typed, RelaysTyped, CursorTyped, TasksTyped, BoundsTyped, network,
          memory, ears, bounds
<1> QED BY <1>1, <1>2

LEMMA WalkDownTyped == ASSUME Typed, NEW r \in Relay, WalkDown(r) PROVE Typed'
<1>0. /\ pass \in PassState /\ walker \in [Relay -> WalkerState] /\ walker[r].page \in SUBSET Event
      /\ storedFloor \in Seconds
  BY DEF Typed, TasksTyped, CursorTyped, WalkerState
<1> DEFINE oldest == Oldest(walker[r].page)
           floor == IF pass.floor = None THEN oldest ELSE Least(pass.floor, oldest)
<1>1. UNCHANGED <<network, held, saved, bootstrapped, memory, ears, worker, calls, saving, bounds>>
  BY DEF WalkDown
<1>2. CASE walker' = [walker EXCEPT ![r].pc = "done"] /\ UNCHANGED <<pass, storedFloor>>
  <2>1. walker' \in [Relay -> WalkerState]
    BY <1>0, <1>2 DEF WalkerState
  <2> QED BY <1>1, <1>2, <2>1 DEF Typed, RelaysTyped, CursorTyped, TasksTyped, BoundsTyped, network, memory, ears,
          bounds
<1>3. CASE /\ walker' = [walker EXCEPT ![r].pc = "done"] /\ UNCHANGED storedFloor
           /\ pass' = [pass EXCEPT !.complete = FALSE]
  <2>1. walker' \in [Relay -> WalkerState]
    BY <1>0, <1>3 DEF WalkerState
  <2>2. pass' \in PassState
    BY <1>0, <1>3 DEF PassState
  <2> QED BY <1>1, <1>3, <2>1, <2>2 DEF Typed, RelaysTyped, CursorTyped, TasksTyped, BoundsTyped, network, memory, ears,
          bounds
<1>4. CASE /\ Cardinality(walker[r].page) = PageLimit
           /\ walker' = [walker EXCEPT ![r].pc = "page", ![r].until = oldest]
           /\ \/ pass' = [pass EXCEPT !.floor = floor] /\ storedFloor' = floor
              \/ UNCHANGED <<pass, storedFloor>>
  <2>1. oldest \in 1..LastSecond
    BY <1>0, <1>4, FullPage, OldestIsLeast
  <2>2. oldest \in Seconds
    BY <2>1, Numbers
  <2>3. floor \in Seconds
    <3>1. pass.floor \in Nat /\ oldest \in Nat /\ pass.floor \in Seconds
      BY <1>0, <2>1, Numbers DEF PassState
    <3> HIDE DEF oldest
    <3> QED BY <2>2, <3>1, LeastIsOne
  <2> HIDE DEF oldest, floor
  <2>4. walker' \in [Relay -> WalkerState]
    BY <1>0, <1>4, <2>2 DEF WalkerState
  <2>5. pass' \in PassState
    BY <1>0, <1>4, <2>3 DEF PassState
  <2>6. storedFloor' \in Seconds
    BY <1>0, <1>4, <2>3
  <2> QED BY <1>1, <2>4, <2>5, <2>6 DEF Typed, RelaysTyped, CursorTyped, TasksTyped, BoundsTyped, network, memory, ears,
          bounds
<1> QED BY <1>2, <1>3, <1>4 DEF WalkDown

LEMMA SubscribesTyped == ASSUME Typed, NEW r \in Relay, Subscribes(r) PROVE Typed'
<1>0. /\ calls \in [Caller -> CallState] /\ live \in [Relay -> Seconds] /\ relays \in [Relay -> SUBSET Event]
      /\ cursor \in 0..LastSecond /\ storedFloor \in Seconds /\ bootstrapped \in BOOLEAN
  BY DEF Typed, TasksTyped, RelaysTyped, CursorTyped
<1>1. live' \in [Relay -> Seconds]
  <2>1. \A since \in LiveSince : since \in Seconds
    BY <1>0, Numbers DEF LiveSince
  <2> QED BY <1>0, <2>1 DEF Subscribes
<1>2. inbox' \subseteq Event /\ dropped' \subseteq Relay
  BY <1>0 DEF Subscribes, Typed, RelaysTyped
<1>3. calls' \in [Caller -> CallState]
  <2>1. (IF bootstrapped THEN cursor + 1 ELSE 1) \in Seconds /\ (IF bootstrapped THEN None ELSE storedFloor) \in Seconds
    BY <1>0, Numbers
  <2> HIDE DEF None
  <2>2. [pc |-> "waiting", since |-> IF bootstrapped THEN cursor + 1 ELSE 1,
         until |-> IF bootstrapped THEN None ELSE storedFloor, first |-> ~bootstrapped] \in CallState
    BY <1>0, <2>1 DEF CallState
  <2> QED BY <1>0, <2>2 DEF Subscribes
<1> QED BY <1>1, <1>2, <1>3 DEF Subscribes, Typed, RelaysTyped, CursorTyped, TasksTyped, BoundsTyped, network, disk,
        memory, bounds

LEMMA SocketTyped == ASSUME Typed, NEW r \in Relay, SocketDrops(r) PROVE Typed'
<1>1. None \in Seconds /\ downs' \in 0..MaxDown
  BY Numbers DEF SocketDrops, Typed, BoundsTyped
<1> QED BY <1>1 DEF SocketDrops, Typed, RelaysTyped, CursorTyped, TasksTyped, BoundsTyped, network, disk, memory

LEMMA PublishTyped == ASSUME Typed, NEW r \in Relay, NEW e \in Event, Publish(e, r) PROVE Typed'
<1>1. relays' \in [Relay -> SUBSET Event] /\ inbox' \subseteq Event
  BY DEF Publish, Typed, RelaysTyped
<1> QED BY <1>1 DEF Publish, Typed, RelaysTyped, CursorTyped, TasksTyped, BoundsTyped, disk, memory, bounds

LEMMA LiveTakesTyped == ASSUME Typed, NEW e \in Event, LiveTakes(e) PROVE Typed'
<1>1. cursor' \in 0..LastSecond
  BY NewestIsASecond DEF LiveTakes, Typed, CursorTyped
<1> QED BY <1>1 DEF LiveTakes, Typed, RelaysTyped, CursorTyped, TasksTyped, BoundsTyped, network, disk, bounds

LEMMA LiveImportsTyped == ASSUME Typed, LiveImports PROVE Typed'
<1>0. worker.event \in SUBSET Event
  BY DEF Typed, TasksTyped
<1>1. PICK out \in LeftOut(worker.event) : Imported(worker.event, out)
  BY <1>0, LeavesOut DEF LiveImports
<1>2. worker' \in [pc : {"idle", "import", "failed", "landed"}, event : SUBSET Event]
  BY DEF LiveImports, Typed, TasksTyped
<1> QED BY <1>0, <1>1, <1>2, ImportedTyped DEF LiveImports, Typed, RelaysTyped, CursorTyped, TasksTyped, BoundsTyped,
        network, ears

LEMMA LiveFailsTyped == ASSUME Typed, LiveFails PROVE Typed'
<1>0. worker.event \in SUBSET Event /\ pass \in PassState /\ CursorTyped
  BY DEF Typed, TasksTyped
<1>1. 1 \in 0..Never /\ Fault(1, pass)
  BY Numbers DEF LiveFails
<1>2. worker' \in [pc : {"idle", "import", "failed", "landed"}, event : SUBSET Event]
  BY DEF LiveFails, Typed, TasksTyped
<1>3. faulted' \subseteq Event \X Relay /\ fails' \in 0..MaxFail
  BY <1>0, Numbers DEF LiveFails, MissedAt, Typed, BoundsTyped
<1>4. /\ faultFloor' \in 0..Never /\ historyComplete' \in BOOLEAN /\ storedFloor' \in Seconds
      /\ pass' \in PassState
  BY <1>0, <1>1, FaultTyped
<1> QED BY <1>2, <1>3, <1>4 DEF LiveFails, Typed, RelaysTyped, CursorTyped, TasksTyped, BoundsTyped, network, ears

LEMMA WorkerSavesTyped == ASSUME Typed, WorkerLocks \/ WorkerStores PROVE Typed'
<1>0. /\ CursorTyped /\ pass \in PassState
      /\ worker \in [pc : {"idle", "import", "failed", "landed"}, event : SUBSET Event]
  BY DEF Typed, TasksTyped
<1>1. CASE WorkerLocks
  <2>1. saving' \in [by : Relay \cup {"nobody", "pass", "worker"}, value : 0..LastSecond]
    BY <1>0, <1>1, LocksTyped DEF WorkerLocks
  <2> QED BY <1>1, <2>1 DEF WorkerLocks, Typed, RelaysTyped, CursorTyped, TasksTyped, BoundsTyped, network, disk,
          memory, ears, bounds
<1>2. CASE WorkerStores
  <2>1. /\ saved' \in 0..LastSecond
        /\ saving' \in [by : Relay \cup {"nobody", "pass", "worker"}, value : 0..LastSecond]
    BY <1>0, <1>2, StoresTyped DEF WorkerStores
  <2>2. worker' \in [pc : {"idle", "import", "failed", "landed"}, event : SUBSET Event]
    BY <1>0, <1>2 DEF WorkerStores, NoWork
  <2>3. 1 \in 0..Never
    BY Numbers
  <2>4. /\ faultFloor' \in 0..Never /\ historyComplete' \in BOOLEAN /\ storedFloor' \in Seconds
        /\ pass' \in PassState
    <3>1. CASE Fault(1, pass)
      BY <1>0, <2>3, <3>1, FaultTyped
    <3>2. CASE UNCHANGED <<faultFloor, historyComplete, storedFloor, pass>>
      BY <1>0, <3>2 DEF CursorTyped
    <3> QED BY <1>2, <3>1, <3>2 DEF WorkerStores
  <2> QED BY <1>2, <2>1, <2>2, <2>4 DEF WorkerStores, Typed, RelaysTyped, CursorTyped, TasksTyped, BoundsTyped,
          network, ears, bounds
<1> QED BY <1>1, <1>2

LEMMA WatchdogTyped == ASSUME Typed, WatchdogRuns PROVE Typed'
<1>0. /\ calls \in [Caller -> CallState] /\ live \in [Relay -> Seconds] /\ saved \in 0..LastSecond
      /\ cursor \in 0..LastSecond /\ storedFloor \in Seconds /\ dropped \subseteq Relay /\ downs \in 0..MaxDown
  BY DEF Typed, TasksTyped, RelaysTyped, CursorTyped, BoundsTyped
<1>1. calls' \in [Caller -> CallState]
  <2>1. /\ None \in Seconds /\ 1 \in Seconds /\ saved \in Seconds /\ cursor + 1 \in Seconds
        /\ storedFloor \in Seconds
    BY <1>0, Numbers
  <2>2. PICK since \in {saved, 1, cursor + 1}, until \in {None, storedFloor}, first \in BOOLEAN :
          calls' = [calls EXCEPT !["watchdog"] =
                     [pc |-> "waiting", since |-> since, until |-> until, first |-> first]]
    BY DEF WatchdogRuns
  <2>3. [pc |-> "waiting", since |-> since, until |-> until, first |-> first] \in CallState
    BY <2>1 DEF CallState
  <2> QED BY <1>0, <2>2, <2>3
<1>2. live' \in [Relay -> Seconds] /\ dropped' \subseteq Relay
  BY <1>0, Numbers DEF WatchdogRuns
<1>3. downs' \in 0..MaxDown
  BY <1>0, Numbers DEF WatchdogRuns
<1> QED BY <1>1, <1>2, <1>3 DEF WatchdogRuns, Typed, RelaysTyped, CursorTyped, TasksTyped, BoundsTyped, network, disk,
        memory

LEMMA CrashTyped == ASSUME Typed, Crash PROVE Typed'
<1>0. /\ saved \in 0..LastSecond /\ storedFloor \in Seconds /\ bootstrapped \in BOOLEAN /\ crashes \in 0..MaxCrash
      /\ faulted \subseteq Event \X Relay
  BY DEF Typed, CursorTyped, BoundsTyped
<1>1. None \in Seconds /\ Never \in 0..Never /\ crashes' \in 0..MaxCrash
  BY <1>0, Numbers DEF Crash
<1>2. calls' \in [Caller -> CallState]
  BY <1>0, StartTyped DEF Crash
<1>3. RelaysTyped'
  BY <1>1 DEF Crash, Typed, RelaysTyped, network
<1>4. CursorTyped'
  BY <1>1, NothingTyped DEF Crash, Typed, CursorTyped, disk
<1>5. TasksTyped'
  BY <1>2, NothingTyped DEF Crash, TasksTyped, NoWork
<1>6. BoundsTyped'
  BY <1>0, <1>1 DEF Crash, Typed, BoundsTyped
<1> QED BY <1>3, <1>4, <1>5, <1>6 DEF Typed

LEMMA StutterTyped == ASSUME Typed, UNCHANGED vars PROVE Typed'
  BY DEF vars, network, disk, memory, ears, bounds, Typed, RelaysTyped, CursorTyped, TasksTyped, BoundsTyped

LEMMA TypedStep == Typed /\ [Next]_vars => Typed'
<1> SUFFICES ASSUME Typed, [Next]_vars PROVE Typed'
  OBVIOUS
<1>1. CASE PassWorks
  BY <1>1, BeginPassTyped, MarkTyped, PassLocksTyped, PassStoresTyped, CoverEndsTyped, JudgeTyped, SettleTyped
     DEF PassWorks
<1>2. CASE WorkerWorks \/ LiveFails
  BY <1>2, LiveTakesTyped, LiveImportsTyped, WorkerSavesTyped, LiveFailsTyped DEF WorkerWorks
<1>3. CASE WatchdogRuns \/ Crash \/ UNCHANGED vars
  BY <1>3, WatchdogTyped, CrashTyped, StutterTyped
<1>4. ASSUME NEW r \in Relay, WalkerWorks(r) \/ Unreachable(r) \/ QueryFails(r) \/ ImportFails(r) PROVE Typed'
  BY <1>4, NegotiateTyped, WalkInsteadTyped, FetchedTyped, ImportTyped, WalkerSavesTyped, WalkDownTyped,
     QueryFailsTyped, ImportFailsTyped DEF WalkerWorks
<1>5. ASSUME NEW r \in Relay, Subscribes(r) \/ SocketDrops(r) \/ (\E e \in Event : Publish(e, r)) PROVE Typed'
  BY <1>5, SubscribesTyped, SocketTyped, PublishTyped
<1> QED BY <1>1, <1>2, <1>3, <1>4, <1>5 DEF Next

LEMMA TypedAlways == Spec => []Typed
<1> QED BY TypedStep, InitTyped, PTL DEF Spec

\* The types of History: seconds stay seconds, however faults, crashes and
\* failed relays move floors and cursors.
THEOREM HistoryTypes == Spec => []TypeOK
<1> QED BY TypedAlways, TypedIsTyped, PTL

-----------------------------------------------------------------------------
(* What a pass has brought in, and what is still on its way.               *)

\* Who holds cursor_lock stands where it stores the cursor.
Saver ==
  /\ saving.by = "pass" => pass.pc \in {"begun", "error", "judged", "regress"}
  /\ saving.by = "worker" => worker.pc \in {"failed", "landed"}
  /\ \A r \in Relay : saving.by = r => pass.pc = "cover" /\ walker[r].pc = "saving"

\* A pass starts with nothing seen, and remembers what the relays held then.
PassStart ==
  /\ pass.pc = "begun" => pass.seen = {} /\ pass.claimed = {} /\ pass.walked = {}
  /\ pass.pc # "idle" => \A r \in Relay : pass.atStart[r] \subseteq relays[r]
  /\ pass.walked \subseteq walks

\* A relay is walked, or reconciled, all through its cover; a failed one is a
\* fault.
Covers(r) ==
  /\ walker[r].paging <=> r \in pass.walked
  /\ walker[r].pc \in {"negotiate", "fetch"} => r \notin pass.walked
  /\ walker[r].pc \in {"page", "imported"} => r \in pass.walked
  /\ walker[r].pc = "negotiate" => walker[r].until = pass.until
  /\ walker[r].pc \in {"saving", "failed"} => ~pass.clean
Covered == pass.pc = "cover" => \A r \in Relay : Covers(r)

Getting(e) == \E q \in Relay : walker[q].pc = "import" /\ e \in walker[q].new
Fetching(e) == \E q \in Relay : walker[q].pc = "fetch" /\ e \in walker[q].page
InRange(e) == pass.since <= At[e] /\ (pass.until # None => At[e] <= pass.until)

\* The event is on a page of the walk of r still to be asked for.
StillBelow(r, e) ==
  \/ walker[r].pc = "page" /\ (walker[r].until # None => At[e] <= walker[r].until)
  \/ /\ walker[r].pc \in {"import", "imported"} /\ Cardinality(walker[r].page) = PageLimit
     /\ \A o \in walker[r].page : At[e] <= At[o]

\* While relays are covered, nothing failed so far: what a task saw is stored
\* or being imported, what one claimed is seen or being fetched, and what a
\* relay held at the start is claimed, seen or further down its walk.
SeenLands == \A e \in pass.seen : e \in held \/ Getting(e)
ClaimedIsSeen == \A e \in pass.claimed : e \in held \/ e \in pass.seen \/ Fetching(e)
ReconciledIsClaimed ==
  \A r \in Relay \ pass.walked :
    walker[r].pc # "negotiate" => pass.atStart[r] \subseteq held \cup pass.claimed
WalkedIsSeen ==
  \A r \in pass.walked : \A e \in pass.atStart[r] :
    InRange(e) => e \in pass.seen \/ StillBelow(r, e)
OnItsWay ==
  pass.pc = "cover" /\ pass.complete /\ pass.clean =>
    SeenLands /\ ClaimedIsSeen /\ ReconciledIsClaimed /\ WalkedIsSeen

Brought ==
  \A r \in Relay : \A e \in pass.atStart[r] : e \in held \/ (r \in pass.walked /\ ~InRange(e))
Judged ==
  /\ pass.pc = "drain" /\ pass.complete /\ pass.clean => Brought
  /\ pass.pc \in {"judged", "settle"} /\ pass.complete => Brought

PassInv == Typed /\ Saver /\ PassStart /\ Covered /\ OnItsWay /\ Judged

\* A step that leaves the pass and its tasks where they are; a fault may have
\* come into it.
PassStands ==
  /\ pass'.pc = pass.pc /\ pass'.since = pass.since /\ pass'.until = pass.until
  /\ pass'.atStart = pass.atStart /\ pass'.seen = pass.seen /\ pass'.claimed = pass.claimed
  /\ pass'.walked = pass.walked /\ pass'.complete = pass.complete
  /\ pass'.clean => pass.clean

\* Nothing is taken out of the store, off a relay or out of `walks`.
Grows ==
  /\ held \subseteq held' /\ walks \subseteq walks'
  /\ \A r \in Relay : relays[r] \subseteq relays'[r]

LEMMA FaultStands ==
  ASSUME Typed, NEW at, Fault(at, pass)
  PROVE  PassStands /\ ~pass'.clean
<1>1. pass \in PassState /\ pass' = [pass EXCEPT !.clean = FALSE]
  BY DEF Fault, Typed, TasksTyped
<1> QED BY <1>1 DEF PassStands, PassState

LEMMA ImportedStands ==
  ASSUME Typed, NEW new, NEW out, Imported(new, out)
  PROVE  /\ PassStands /\ held \subseteq held'
         /\ out = {} \/ ~pass'.clean
         /\ (pass'.clean => held' = held \cup new)
<1>1. CASE out = {}
  BY <1>1 DEF Imported, PassStands, Fault
<1>2. CASE \E e \in new : Fault(At[e], pass)
  BY <1>2, FaultStands DEF Imported
<1> QED BY <1>1, <1>2 DEF Imported

\* Steps of others, and the taking of a lock.
Beside ==
  \/ PassLocks \/ WorkerWorks \/ LiveFails \/ WatchdogRuns \/ UNCHANGED vars
  \/ \E c \in Caller : MarkBootstrapped(c)
  \/ \E r \in Relay : WalkerLocks(r) \/ Subscribes(r) \/ SocketDrops(r) \/ (\E e \in Event : Publish(e, r))

LEMMA BesideStands == ASSUME Typed, Beside PROVE PassStands /\ Grows /\ walker' = walker
<1>0. relays \in [Relay -> SUBSET Event]
  BY DEF Typed, RelaysTyped
<1>1. CASE PassLocks \/ WatchdogRuns \/ WorkerLocks \/ UNCHANGED vars
  BY <1>1 DEF PassLocks, WatchdogRuns, WorkerLocks, vars, network, disk, bounds, PassStands, Grows
<1>2. CASE \/ \E c \in Caller : MarkBootstrapped(c)
           \/ \E r \in Relay : WalkerLocks(r) \/ Subscribes(r) \/ SocketDrops(r)
  BY <1>2 DEF MarkBootstrapped, WalkerLocks, Subscribes, SocketDrops, network, disk, bounds, PassStands, Grows
<1>3. ASSUME NEW r \in Relay, NEW e \in Event, Publish(e, r) PROVE PassStands /\ Grows /\ walker' = walker
  BY <1>0, <1>3 DEF Publish, disk, bounds, PassStands, Grows
<1>4. ASSUME NEW e \in Event, LiveTakes(e) PROVE PassStands /\ Grows /\ walker' = walker
  BY <1>4 DEF LiveTakes, network, disk, bounds, PassStands, Grows
<1>5. CASE LiveImports
  <2>1. worker.event \in SUBSET Event
    BY DEF Typed, TasksTyped
  <2>2. PICK out \in LeftOut(worker.event) : Imported(worker.event, out)
    BY <1>5, <2>1, LeavesOut DEF LiveImports
  <2>3. PassStands /\ held \subseteq held'
    BY <2>2, ImportedStands
  <2> QED BY <1>5, <2>3 DEF LiveImports, network, Grows
<1>6. CASE LiveFails
  BY <1>6, FaultStands DEF LiveFails, network, Grows
<1>7. CASE WorkerStores
  <2>1. PassStands
    <3>1. CASE Fault(1, pass)
      BY <3>1, FaultStands
    <3>2. CASE UNCHANGED pass
      BY <3>2 DEF PassStands
    <3> QED BY <1>7, <3>1, <3>2 DEF WorkerStores
  <2> QED BY <1>7, <2>1 DEF WorkerStores, network, bounds, Grows
<1> QED BY <1>1, <1>2, <1>3, <1>4, <1>5, <1>6, <1>7 DEF Beside, WorkerWorks

\* What such a step keeps.
LEMMA BesideKeeps ==
  ASSUME PassInv, Beside
  PROVE  PassStart' /\ Covered' /\ OnItsWay' /\ Judged'
<1>1. PassStands /\ Grows /\ walker' = walker
  BY BesideStands DEF PassInv
<1>2. PassStart'
  BY <1>1 DEF PassInv, PassStart, PassStands, Grows
<1>3. Covered'
  BY <1>1 DEF PassInv, Covered, Covers, PassStands
<1>4. Judged'
  BY <1>1 DEF PassInv, Judged, Brought, InRange, PassStands, Grows
<1>5. OnItsWay'
  <2> SUFFICES ASSUME (pass.pc = "cover" /\ pass.complete /\ pass.clean)'
               PROVE  (SeenLands /\ ClaimedIsSeen /\ ReconciledIsClaimed /\ WalkedIsSeen)'
    BY DEF OnItsWay
  <2>1. SeenLands /\ ClaimedIsSeen /\ ReconciledIsClaimed /\ WalkedIsSeen
    BY <1>1 DEF PassInv, OnItsWay, PassStands
  <2>2. SeenLands' /\ ClaimedIsSeen'
    BY <1>1, <2>1 DEF SeenLands, ClaimedIsSeen, Getting, Fetching, PassStands, Grows
  <2>3. ReconciledIsClaimed'
    BY <1>1, <2>1 DEF ReconciledIsClaimed, PassStands, Grows
  <2>4. WalkedIsSeen'
    BY <1>1, <2>1 DEF WalkedIsSeen, StillBelow, InRange, PassStands
  <2> QED BY <2>2, <2>3, <2>4
<1> QED BY <1>2, <1>3, <1>4, <1>5

\* A step of one relay's task leaves the others' tasks and most of the pass.
WalkerMoves(r) ==
  /\ pass.pc = "cover" /\ pass'.pc = "cover"
  /\ pass'.since = pass.since /\ pass'.until = pass.until /\ pass'.atStart = pass.atStart
  /\ pass'.complete => pass.complete
  /\ pass'.clean => pass.clean
  /\ \A q \in Relay \ {r} : walker'[q] = walker[q]
  /\ UNCHANGED <<relays, saving, worker>>

LEMMA NegotiateMoves ==
  ASSUME Typed, NEW r \in Relay, Negotiate(r)
  PROVE  /\ WalkerMoves(r) /\ UNCHANGED <<held, walks>>
         /\ pass'.complete = pass.complete /\ pass'.clean = pass.clean
         /\ pass'.seen = pass.seen /\ pass'.walked = pass.walked
         /\ pass'.claimed = pass.claimed \cup (relays[r] \ (held \cup pass.claimed))
         /\ walker[r].pc = "negotiate"
         /\ walker'[r].paging = walker[r].paging
         /\ \/ walker'[r].pc = "fetch" /\ walker'[r].page = relays[r] \ (held \cup pass.claimed)
            \/ walker'[r].pc = "done" /\ relays[r] \ (held \cup pass.claimed) = {}
<1> DEFINE need == relays[r] \ (held \cup pass.claimed)
<1>0. pass \in PassState /\ walker \in [Relay -> WalkerState] /\ walker[r] \in WalkerState
  BY DEF Typed, TasksTyped
<1>1. /\ WalkerAt(r, "negotiate")
      /\ pass' = [pass EXCEPT !.claimed = @ \cup need]
      /\ walker' = [walker EXCEPT ![r].pc = IF need = {} THEN "done" ELSE "fetch", ![r].page = need]
      /\ UNCHANGED <<network, disk, worker, saving, bounds>>
  BY DEF Negotiate
<1> HIDE DEF need
<1>2. PICK q \in {"done", "fetch"} : /\ walker' = [walker EXCEPT ![r].pc = q, ![r].page = need]
                                     /\ (need = {} /\ q = "done") \/ (need # {} /\ q = "fetch")
  BY <1>1
<1>3. /\ walker'[r].pc = q /\ walker'[r].page = need /\ walker'[r].paging = walker[r].paging
      /\ \A x \in Relay \ {r} : walker'[x] = walker[x]
  BY <1>0, <1>2 DEF WalkerState
<1>4. /\ pass'.claimed = pass.claimed \cup need /\ pass'.pc = pass.pc /\ pass'.since = pass.since
      /\ pass'.until = pass.until /\ pass'.atStart = pass.atStart /\ pass'.complete = pass.complete
      /\ pass'.clean = pass.clean /\ pass'.seen = pass.seen /\ pass'.walked = pass.walked
  BY <1>0, <1>1 DEF PassState
<1>5. WalkerMoves(r)
  BY <1>1, <1>3, <1>4 DEF WalkerMoves, WalkerAt, network
<1>6. UNCHANGED <<held, walks>> /\ walker[r].pc = "negotiate"
  BY <1>1 DEF disk, bounds, WalkerAt
<1>7. \/ walker'[r].pc = "fetch" /\ walker'[r].page = need
      \/ walker'[r].pc = "done" /\ need = {}
  BY <1>2, <1>3
<1> QED BY <1>3, <1>4, <1>5, <1>6, <1>7 DEF need

LEMMA WalkInsteadMoves ==
  ASSUME Typed, NEW r \in Relay, Refused(r) \/ Unreachable(r)
  PROVE  /\ WalkerMoves(r) /\ UNCHANGED held /\ walks' = walks \cup {r}
         /\ pass'.complete = pass.complete /\ pass'.clean = pass.clean
         /\ pass'.seen = pass.seen /\ pass'.claimed = pass.claimed
         /\ pass'.walked = pass.walked \cup {r}
         /\ walker[r].pc = "negotiate" /\ walker'[r].pc = "page"
         /\ walker'[r].paging /\ walker'[r].until = walker[r].until
<1>0. pass \in PassState /\ walker \in [Relay -> WalkerState] /\ WalkInstead(r)
  BY DEF Typed, TasksTyped, Refused, Unreachable
<1>1. /\ walker'[r].pc = "page" /\ walker'[r].paging /\ walker'[r].until = walker[r].until
      /\ \A x \in Relay \ {r} : walker'[x] = walker[x]
  BY <1>0 DEF WalkInstead, WalkerState
<1>2. /\ pass'.claimed = pass.claimed /\ pass'.pc = pass.pc /\ pass'.since = pass.since
      /\ pass'.until = pass.until /\ pass'.atStart = pass.atStart /\ pass'.complete = pass.complete
      /\ pass'.clean = pass.clean /\ pass'.seen = pass.seen /\ pass'.walked = pass.walked \cup {r}
  BY <1>0 DEF WalkInstead, PassState
<1> QED BY <1>0, <1>1, <1>2 DEF WalkInstead, WalkerMoves, WalkerAt, network, disk

LEMMA IngestsMoves ==
  ASSUME Typed, NEW r \in Relay, NEW events \in SUBSET Event, pass.pc = "cover", Ingests(r, events)
  PROVE  /\ WalkerMoves(r) /\ UNCHANGED <<held, walks>>
         /\ pass'.complete = pass.complete /\ pass'.clean = pass.clean
         /\ pass'.seen = pass.seen \cup events
         /\ pass'.claimed = pass.claimed /\ pass'.walked = pass.walked
         /\ walker'[r].pc = "import" /\ walker'[r].page = events
         /\ walker'[r].new = events \ pass.seen
         /\ walker'[r].paging = walker[r].paging
<1>0. pass \in PassState /\ walker \in [Relay -> WalkerState]
  BY DEF Typed, TasksTyped
<1>1. /\ walker'[r].pc = "import" /\ walker'[r].page = events /\ walker'[r].new = events \ pass.seen
      /\ walker'[r].paging = walker[r].paging /\ \A x \in Relay \ {r} : walker'[x] = walker[x]
  BY <1>0 DEF Ingests, WalkerState
<1>2. /\ pass'.claimed = pass.claimed /\ pass'.pc = pass.pc /\ pass'.since = pass.since
      /\ pass'.until = pass.until /\ pass'.atStart = pass.atStart /\ pass'.complete = pass.complete
      /\ pass'.clean = pass.clean /\ pass'.seen = pass.seen \cup events /\ pass'.walked = pass.walked
  BY <1>0 DEF Ingests, PassState
<1> QED BY <1>1, <1>2 DEF Ingests, WalkerMoves, network, disk, bounds

LEMMA QueryFailsMoves ==
  ASSUME Typed, NEW r \in Relay, QueryFails(r)
  PROVE  /\ WalkerMoves(r) /\ UNCHANGED <<held, walks>>
         /\ ~pass'.complete
         /\ pass'.walked = pass.walked
         /\ walker'[r].pc = "done" /\ walker'[r].paging = walker[r].paging
         /\ walker[r].pc # "saving"
<1>0. pass \in PassState /\ walker \in [Relay -> WalkerState]
  BY DEF Typed, TasksTyped
<1>1. /\ walker'[r].pc = "done" /\ walker'[r].paging = walker[r].paging
      /\ \A x \in Relay \ {r} : walker'[x] = walker[x]
  BY <1>0 DEF QueryFails, WalkerState
<1>2. /\ pass'.pc = pass.pc /\ pass'.since = pass.since
      /\ pass'.until = pass.until /\ pass'.atStart = pass.atStart /\ ~pass'.complete
      /\ pass'.clean = pass.clean /\ pass'.walked = pass.walked
  BY <1>0 DEF QueryFails, PassState
<1> QED BY <1>1, <1>2 DEF QueryFails, WalkerMoves, network, disk, bounds

LEMMA ImportMoves ==
  ASSUME Typed, NEW r \in Relay, Import(r)
  PROVE  /\ WalkerMoves(r) /\ UNCHANGED walks /\ held \subseteq held'
         /\ pass'.complete = pass.complete
         /\ pass'.seen = pass.seen /\ pass'.claimed = pass.claimed /\ pass'.walked = pass.walked
         /\ pass'.clean => held' = held \cup walker[r].new
         /\ walker[r].pc = "import"
         /\ walker'[r].pc = IF walker[r].paging THEN "imported" ELSE "done"
         /\ walker'[r].paging = walker[r].paging /\ walker'[r].page = walker[r].page
<1>0. walker \in [Relay -> WalkerState] /\ walker[r].new \in SUBSET Event
  BY DEF Typed, TasksTyped, WalkerState
<1>1. PICK out \in LeftOut(walker[r].new) : Imported(walker[r].new, out)
  BY <1>0, LeavesOut DEF Import
<1>2. PassStands /\ held \subseteq held' /\ (pass'.clean => held' = held \cup walker[r].new)
  BY <1>1, ImportedStands
<1>3. /\ walker'[r].pc = IF walker[r].paging THEN "imported" ELSE "done"
      /\ walker'[r].paging = walker[r].paging /\ walker'[r].page = walker[r].page
      /\ \A x \in Relay \ {r} : walker'[x] = walker[x]
  BY <1>0 DEF Import, WalkerState
<1> QED BY <1>2, <1>3 DEF Import, WalkerMoves, WalkerAt, PassStands, network

LEMMA ImportFailsMoves ==
  ASSUME Typed, NEW r \in Relay, ImportFails(r)
  PROVE  /\ WalkerMoves(r) /\ UNCHANGED <<held, walks>>
         /\ ~pass'.clean
         /\ pass'.walked = pass.walked
         /\ walker'[r].pc = "saving" /\ walker'[r].paging = walker[r].paging
         /\ walker[r].pc = "import"
<1>0. walker \in [Relay -> WalkerState]
  BY DEF Typed, TasksTyped
<1>1. PassStands /\ ~pass'.clean
  BY FaultStands DEF ImportFails
<1>2. /\ walker'[r].pc = "saving" /\ walker'[r].paging = walker[r].paging
      /\ \A x \in Relay \ {r} : walker'[x] = walker[x]
  BY <1>0 DEF ImportFails, WalkerState
<1> QED BY <1>1, <1>2 DEF ImportFails, WalkerMoves, WalkerAt, PassStands, network

\* A page further down starts at the oldest second seen.
LEMMA WalkDownMoves ==
  ASSUME Typed, NEW r \in Relay, WalkDown(r)
  PROVE  /\ WalkerMoves(r) /\ UNCHANGED <<held, walks>>
         /\ pass'.seen = pass.seen /\ pass'.claimed = pass.claimed /\ pass'.walked = pass.walked
         /\ walker[r].pc = "imported" /\ walker'[r].paging = walker[r].paging
         /\ \/ walker'[r].pc = "done" /\ (pass'.complete => Cardinality(walker[r].page) < PageLimit)
            \/ /\ walker'[r].pc = "page"
               /\ \E o \in walker[r].page : walker'[r].until = At[o]
<1>0. pass \in PassState /\ walker \in [Relay -> WalkerState] /\ walker[r].page \in SUBSET Event
  BY DEF Typed, TasksTyped, WalkerState
<1>1. UNCHANGED <<network, held, bounds, worker, saving>> /\ WalkerAt(r, "imported")
  BY DEF WalkDown
<1>2. CASE /\ Cardinality(walker[r].page) < PageLimit
           /\ walker' = [walker EXCEPT ![r].pc = "done"] /\ UNCHANGED pass
  <2>1. /\ walker'[r].pc = "done" /\ walker'[r].paging = walker[r].paging
        /\ \A x \in Relay \ {r} : walker'[x] = walker[x]
    BY <1>0, <1>2 DEF WalkerState
  <2> QED BY <1>1, <1>2, <2>1 DEF WalkerMoves, WalkerAt, network, bounds
<1>3. CASE walker' = [walker EXCEPT ![r].pc = "done"] /\ pass' = [pass EXCEPT !.complete = FALSE]
  <2>1. /\ walker'[r].pc = "done" /\ walker'[r].paging = walker[r].paging
        /\ \A x \in Relay \ {r} : walker'[x] = walker[x]
    BY <1>0, <1>3 DEF WalkerState
  <2>2. /\ pass'.pc = pass.pc /\ pass'.since = pass.since /\ pass'.until = pass.until
        /\ pass'.atStart = pass.atStart /\ ~pass'.complete /\ pass'.clean = pass.clean
        /\ pass'.seen = pass.seen /\ pass'.claimed = pass.claimed /\ pass'.walked = pass.walked
    BY <1>0, <1>3 DEF PassState
  <2> QED BY <1>1, <2>1, <2>2 DEF WalkerMoves, WalkerAt, network, bounds
<1>4. ASSUME Cardinality(walker[r].page) = PageLimit,
             walker' = [walker EXCEPT ![r].pc = "page", ![r].until = Oldest(walker[r].page)],
             NEW floor, pass' = [pass EXCEPT !.floor = floor] \/ UNCHANGED pass
      PROVE  /\ WalkerMoves(r)
             /\ pass'.seen = pass.seen /\ pass'.claimed = pass.claimed /\ pass'.walked = pass.walked
             /\ walker'[r].paging = walker[r].paging /\ walker'[r].pc = "page"
             /\ \E o \in walker[r].page : walker'[r].until = At[o]
  <2>1. /\ walker'[r].pc = "page" /\ walker'[r].paging = walker[r].paging
        /\ walker'[r].until = Oldest(walker[r].page)
        /\ \A x \in Relay \ {r} : walker'[x] = walker[x]
    BY <1>0, <1>4 DEF WalkerState
  <2>2. \E o \in walker[r].page : Oldest(walker[r].page) = At[o]
    BY <1>0, <1>4, FullPage, OldestIsLeast
  <2>3. /\ pass'.pc = pass.pc /\ pass'.since = pass.since /\ pass'.until = pass.until
        /\ pass'.atStart = pass.atStart /\ pass'.complete = pass.complete /\ pass'.clean = pass.clean
        /\ pass'.seen = pass.seen /\ pass'.claimed = pass.claimed /\ pass'.walked = pass.walked
    BY <1>0, <1>4 DEF PassState
  <2> QED BY <1>1, <2>1, <2>2, <2>3 DEF WalkerMoves, WalkerAt, network
<1>5. UNCHANGED <<held, walks>> /\ walker[r].pc = "imported"
  BY <1>1 DEF bounds, WalkerAt
<1> QED BY <1>2, <1>3, <1>4, <1>5 DEF WalkDown

LEMMA StoresMoves ==
  ASSUME Typed, Saver, NEW r \in Relay, WalkerStores(r)
  PROVE  /\ PassStands /\ pass.pc = "cover" /\ UNCHANGED <<pass, held, walks, relays, worker>>
         /\ walker[r].pc = "saving" /\ walker'[r].pc = "failed" /\ walker'[r].paging = walker[r].paging
         /\ \A q \in Relay \ {r} : walker'[q] = walker[q]
<1>0. walker \in [Relay -> WalkerState]
  BY DEF Typed, TasksTyped
<1>1. saving.by = r
  BY DEF WalkerStores, Stores
<1>2. /\ walker'[r].pc = "failed" /\ walker'[r].paging = walker[r].paging
      /\ \A q \in Relay \ {r} : walker'[q] = walker[q]
  BY <1>0 DEF WalkerStores, WalkerState
<1> QED BY <1>1, <1>2 DEF WalkerStores, Saver, network, bounds, PassStands


-----------------------------------------------------------------------------
(* One relay's step keeps what the pass has brought in and is still to bring. *)

\* The rest of the pass, and the other relays' tasks, stay as they were.
LEMMA WalkerLeaves ==
  ASSUME PassInv, NEW r \in Relay, WalkerMoves(r), pass'.walked \subseteq walks', Covers(r)',
         \A q \in Relay \ {r} : q \in pass'.walked <=> q \in pass.walked
  PROVE  PassStart' /\ Covered' /\ Judged'
<1>1. PassStart'
  BY DEF PassInv, PassStart, WalkerMoves
<1>2. ASSUME NEW q \in Relay \ {r} PROVE Covers(q)'
  BY <1>2 DEF PassInv, Covered, Covers, WalkerMoves
<1>3. Covered' /\ Judged'
  BY <1>2 DEF Covered, Judged, WalkerMoves
<1> QED BY <1>1, <1>3

\* What is on its way, the step of a task apart, stays on its way.
LEMMA OthersFollow ==
  ASSUME PassInv, NEW r \in Relay, WalkerMoves(r), pass'.complete, pass'.clean
  PROVE  /\ SeenLands /\ ClaimedIsSeen /\ ReconciledIsClaimed /\ WalkedIsSeen
         /\ \A e : Getting(e) => Getting(e)' \/ (walker[r].pc = "import" /\ e \in walker[r].new)
         /\ \A e : Fetching(e) => Fetching(e)' \/ (walker[r].pc = "fetch" /\ e \in walker[r].page)
         /\ \A q \in Relay \ {r}, e \in Event : StillBelow(q, e) => StillBelow(q, e)'
         /\ \A e \in Event : InRange(e)' <=> InRange(e)
         /\ \A q \in Relay \ {r} : walker'[q].pc # "negotiate" => walker[q].pc # "negotiate"
         /\ \A q \in Relay : pass'.atStart[q] \subseteq Event /\ pass'.atStart[q] = pass.atStart[q]
<1>1. SeenLands /\ ClaimedIsSeen /\ ReconciledIsClaimed /\ WalkedIsSeen
  BY DEF PassInv, OnItsWay, WalkerMoves
<1>2. \A q \in Relay \ {r} : walker'[q] = walker[q]
  BY DEF WalkerMoves
<1>3. \A e : Getting(e) => Getting(e)' \/ (walker[r].pc = "import" /\ e \in walker[r].new)
  BY <1>2 DEF Getting
<1>4. \A e : Fetching(e) => Fetching(e)' \/ (walker[r].pc = "fetch" /\ e \in walker[r].page)
  BY <1>2 DEF Fetching
<1>5. \A q \in Relay \ {r}, e \in Event : StillBelow(q, e) => StillBelow(q, e)'
  BY <1>2 DEF StillBelow
<1>6. \A e \in Event : InRange(e)' <=> InRange(e)
  BY DEF WalkerMoves, InRange
<1>7. \A q \in Relay : pass'.atStart[q] \subseteq Event /\ pass'.atStart[q] = pass.atStart[q]
  BY DEF PassInv, Typed, TasksTyped, PassState, WalkerMoves
<1> QED BY <1>1, <1>2, <1>3, <1>4, <1>5, <1>6, <1>7

LEMMA NegotiateKeeps ==
  ASSUME PassInv, NEW r \in Relay, Negotiate(r)
  PROVE  PassStart' /\ Covered' /\ OnItsWay' /\ Judged'
<1> DEFINE need == relays[r] \ (held \cup pass.claimed)
<1>1. /\ WalkerMoves(r) /\ UNCHANGED <<held, walks>>
      /\ pass'.complete = pass.complete /\ pass'.clean = pass.clean
      /\ pass'.seen = pass.seen /\ pass'.walked = pass.walked
      /\ pass'.claimed = pass.claimed \cup need
      /\ walker[r].pc = "negotiate" /\ walker'[r].paging = walker[r].paging
      /\ \/ walker'[r].pc = "fetch" /\ walker'[r].page = need
         \/ walker'[r].pc = "done" /\ need = {}
  BY NegotiateMoves DEF PassInv
<1> HIDE DEF need
<1>2. Covers(r) /\ r \notin pass.walked
  BY <1>1 DEF PassInv, Covered, Covers, WalkerMoves
<1>3. Covers(r)'
  BY <1>1, <1>2 DEF Covers
<1>4. pass'.walked \subseteq walks'
  BY <1>1 DEF PassInv, PassStart
<1>5. OnItsWay'
  <2> SUFFICES ASSUME pass'.complete, pass'.clean
               PROVE  (SeenLands /\ ClaimedIsSeen /\ ReconciledIsClaimed /\ WalkedIsSeen)'
    BY DEF OnItsWay
  <2>0. /\ SeenLands /\ ClaimedIsSeen /\ ReconciledIsClaimed /\ WalkedIsSeen
        /\ \A e : Getting(e) => Getting(e)' \/ (walker[r].pc = "import" /\ e \in walker[r].new)
        /\ \A e : Fetching(e) => Fetching(e)' \/ (walker[r].pc = "fetch" /\ e \in walker[r].page)
        /\ \A q \in Relay \ {r}, e \in Event : StillBelow(q, e) => StillBelow(q, e)'
        /\ \A e \in Event : InRange(e)' <=> InRange(e)
        /\ \A q \in Relay \ {r} : walker'[q].pc # "negotiate" => walker[q].pc # "negotiate"
        /\ \A q \in Relay : pass'.atStart[q] \subseteq Event /\ pass'.atStart[q] = pass.atStart[q]
    BY <1>1, OthersFollow
  <2>1. SeenLands'
    BY <1>1, <2>0 DEF SeenLands
  <2>2. ClaimedIsSeen'
    <3>1. \A e \in need : Fetching(e)'
      BY <1>1 DEF Fetching
    <3> QED BY <1>1, <2>0, <3>1 DEF ClaimedIsSeen
  <2>3. ReconciledIsClaimed'
    <3>1. relays[r] \subseteq held' \cup pass'.claimed
      BY <1>1 DEF need
    <3>2. pass'.atStart[r] \subseteq held' \cup pass'.claimed
      BY <1>1, <2>0, <3>1 DEF PassInv, PassStart, WalkerMoves
    <3> QED BY <1>1, <2>0, <3>2 DEF ReconciledIsClaimed
  <2>4. WalkedIsSeen'
    BY <1>1, <1>2, <2>0 DEF WalkedIsSeen, PassInv, Typed, TasksTyped, PassState
  <2> QED BY <2>1, <2>2, <2>3, <2>4
<1> QED BY <1>1, <1>3, <1>4, <1>5, WalkerLeaves

LEMMA WalkInsteadKeeps ==
  ASSUME PassInv, NEW r \in Relay, Refused(r) \/ Unreachable(r)
  PROVE  PassStart' /\ Covered' /\ OnItsWay' /\ Judged'
<1>1. /\ WalkerMoves(r) /\ UNCHANGED held /\ walks' = walks \cup {r}
      /\ pass'.complete = pass.complete /\ pass'.clean = pass.clean
      /\ pass'.seen = pass.seen /\ pass'.claimed = pass.claimed
      /\ pass'.walked = pass.walked \cup {r}
      /\ walker[r].pc = "negotiate" /\ walker'[r].pc = "page"
      /\ walker'[r].paging /\ walker'[r].until = walker[r].until
  BY WalkInsteadMoves DEF PassInv
<1>2. walker[r].until = pass.until
  BY <1>1 DEF PassInv, Covered, Covers, WalkerMoves
<1>3. Covers(r)'
  BY <1>1 DEF Covers
<1>4. pass'.walked \subseteq walks'
  BY <1>1 DEF PassInv, PassStart
<1>5. OnItsWay'
  <2> SUFFICES ASSUME pass'.complete, pass'.clean
               PROVE  (SeenLands /\ ClaimedIsSeen /\ ReconciledIsClaimed /\ WalkedIsSeen)'
    BY DEF OnItsWay
  <2>0. /\ SeenLands /\ ClaimedIsSeen /\ ReconciledIsClaimed /\ WalkedIsSeen
        /\ \A e : Getting(e) => Getting(e)' \/ (walker[r].pc = "import" /\ e \in walker[r].new)
        /\ \A e : Fetching(e) => Fetching(e)' \/ (walker[r].pc = "fetch" /\ e \in walker[r].page)
        /\ \A q \in Relay \ {r}, e \in Event : StillBelow(q, e) => StillBelow(q, e)'
        /\ \A e \in Event : InRange(e)' <=> InRange(e)
        /\ \A q \in Relay \ {r} : walker'[q].pc # "negotiate" => walker[q].pc # "negotiate"
        /\ \A q \in Relay : pass'.atStart[q] \subseteq Event /\ pass'.atStart[q] = pass.atStart[q]
    BY <1>1, OthersFollow
  <2>1. SeenLands'
    BY <1>1, <2>0 DEF SeenLands
  <2>2. ClaimedIsSeen'
    BY <1>1, <2>0 DEF ClaimedIsSeen
  <2>3. ReconciledIsClaimed'
    BY <1>1, <2>0 DEF ReconciledIsClaimed
  <2>4. WalkedIsSeen'
    <3>1. \A e \in Event : InRange(e) => StillBelow(r, e)'
      BY <1>1, <1>2 DEF InRange, StillBelow
    <3> QED BY <1>1, <2>0, <3>1 DEF WalkedIsSeen, PassInv, Typed, TasksTyped, PassState
  <2> QED BY <2>1, <2>2, <2>3, <2>4
<1> QED BY <1>1, <1>3, <1>4, <1>5, WalkerLeaves

\* What a page leaves in range is below it.
LEMMA PageLeaves ==
  ASSUME Typed, NEW r \in Relay, NEW page \in Pages(r), walker[r].pc = "page",
         NEW e \in relays[r], InRange(e), StillBelow(r, e), e \notin page
  PROVE  Cardinality(page) = PageLimit /\ \A o \in page : At[e] <= At[o]
<1> DEFINE until == walker[r].until
           range == {x \in relays[r] : pass.since <= At[x] /\ (until # None => At[x] <= until)}
<1>1. range \in SUBSET Event
  BY DEF Typed, RelaysTyped
<1>2. /\ page \in SUBSET range /\ Cardinality(page) = Least(PageLimit, Cardinality(range))
      /\ \A x \in page, other \in range \ page : At[other] <= At[x]
  BY DEF Pages
<1>3. e \in range
  BY DEF InRange, StillBelow
<1> HIDE DEF range
<1>4. Cardinality(page) = PageLimit
  BY <1>1, <1>2, <1>3, ShortPage
<1> QED BY <1>2, <1>3, <1>4

LEMMA QueryPageKeeps ==
  ASSUME PassInv, NEW r \in Relay, QueryPage(r)
  PROVE  PassStart' /\ Covered' /\ OnItsWay' /\ Judged'
<1>0. pass.pc = "cover" /\ walker[r].pc = "page" /\ Typed
  BY DEF QueryPage, WalkerAt, PassInv
<1>1. PICK page \in Pages(r) : Ingests(r, page)
  BY DEF QueryPage
<1>2. page \in SUBSET Event
  BY <1>0, PageIsRange
<1>3. /\ WalkerMoves(r) /\ UNCHANGED <<held, walks>>
      /\ pass'.complete = pass.complete /\ pass'.clean = pass.clean
      /\ pass'.seen = pass.seen \cup page
      /\ pass'.claimed = pass.claimed /\ pass'.walked = pass.walked
      /\ walker'[r].pc = "import" /\ walker'[r].page = page
      /\ walker'[r].new = page \ pass.seen
      /\ walker'[r].paging = walker[r].paging
  BY <1>0, <1>1, <1>2, IngestsMoves
<1>4. Covers(r) /\ r \in pass.walked
  BY <1>0 DEF PassInv, Covered, Covers
<1>5. Covers(r)'
  BY <1>3, <1>4 DEF Covers
<1>6. pass'.walked \subseteq walks'
  BY <1>3 DEF PassInv, PassStart
<1>7. OnItsWay'
  <2> SUFFICES ASSUME pass'.complete, pass'.clean
               PROVE  (SeenLands /\ ClaimedIsSeen /\ ReconciledIsClaimed /\ WalkedIsSeen)'
    BY DEF OnItsWay
  <2>0. /\ SeenLands /\ ClaimedIsSeen /\ ReconciledIsClaimed /\ WalkedIsSeen
        /\ \A e : Getting(e) => Getting(e)' \/ (walker[r].pc = "import" /\ e \in walker[r].new)
        /\ \A e : Fetching(e) => Fetching(e)' \/ (walker[r].pc = "fetch" /\ e \in walker[r].page)
        /\ \A q \in Relay \ {r}, e \in Event : StillBelow(q, e) => StillBelow(q, e)'
        /\ \A e \in Event : InRange(e)' <=> InRange(e)
        /\ \A q \in Relay \ {r} : walker'[q].pc # "negotiate" => walker[q].pc # "negotiate"
        /\ \A q \in Relay : pass'.atStart[q] \subseteq Event /\ pass'.atStart[q] = pass.atStart[q]
    BY <1>3, OthersFollow
  <2>1. SeenLands'
    <3>1. \A e \in page \ pass.seen : Getting(e)'
      BY <1>3 DEF Getting
    <3> QED BY <1>0, <1>3, <2>0, <3>1 DEF SeenLands
  <2>2. ClaimedIsSeen'
    BY <1>0, <1>3, <2>0 DEF ClaimedIsSeen
  <2>3. ReconciledIsClaimed'
    BY <1>3, <1>4, <2>0 DEF ReconciledIsClaimed
  <2>4. WalkedIsSeen'
    <3>1. ASSUME NEW e \in pass.atStart[r], InRange(e), e \notin pass'.seen PROVE StillBelow(r, e)'
      <4>1. e \in relays[r]
        BY <1>0 DEF PassInv, PassStart
      <4>2. StillBelow(r, e) /\ e \notin page
        BY <1>3, <1>4, <2>0, <3>1 DEF WalkedIsSeen
      <4>3. Cardinality(page) = PageLimit /\ \A o \in page : At[e] <= At[o]
        BY <1>0, <3>1, <4>1, <4>2, PageLeaves
      <4> QED BY <1>3, <4>3 DEF StillBelow
    <3> QED BY <1>3, <2>0, <3>1 DEF WalkedIsSeen, PassInv, Typed, TasksTyped, PassState
  <2> QED BY <2>1, <2>2, <2>3, <2>4
<1> QED BY <1>3, <1>5, <1>6, <1>7, WalkerLeaves

LEMMA FetchKeeps ==
  ASSUME PassInv, NEW r \in Relay, Fetch(r)
  PROVE  PassStart' /\ Covered' /\ OnItsWay' /\ Judged'
<1>0. pass.pc = "cover" /\ walker[r].pc = "fetch" /\ Typed
  BY DEF Fetch, WalkerAt, PassInv
<1>1. walker[r].page \in SUBSET Event
  BY <1>0 DEF Typed, TasksTyped, WalkerState
<1>3. /\ WalkerMoves(r) /\ UNCHANGED <<held, walks>>
      /\ pass'.complete = pass.complete /\ pass'.clean = pass.clean
      /\ pass'.seen = pass.seen \cup walker[r].page
      /\ pass'.claimed = pass.claimed /\ pass'.walked = pass.walked
      /\ walker'[r].pc = "import" /\ walker'[r].page = walker[r].page
      /\ walker'[r].new = walker[r].page \ pass.seen
      /\ walker'[r].paging = walker[r].paging
  BY <1>0, <1>1, IngestsMoves DEF Fetch
<1>4. Covers(r) /\ r \notin pass.walked
  BY <1>0 DEF PassInv, Covered, Covers
<1>5. Covers(r)'
  BY <1>3, <1>4 DEF Covers
<1>6. pass'.walked \subseteq walks'
  BY <1>3 DEF PassInv, PassStart
<1>7. OnItsWay'
  <2> SUFFICES ASSUME pass'.complete, pass'.clean
               PROVE  (SeenLands /\ ClaimedIsSeen /\ ReconciledIsClaimed /\ WalkedIsSeen)'
    BY DEF OnItsWay
  <2>0. /\ SeenLands /\ ClaimedIsSeen /\ ReconciledIsClaimed /\ WalkedIsSeen
        /\ \A e : Getting(e) => Getting(e)' \/ (walker[r].pc = "import" /\ e \in walker[r].new)
        /\ \A e : Fetching(e) => Fetching(e)' \/ (walker[r].pc = "fetch" /\ e \in walker[r].page)
        /\ \A q \in Relay \ {r}, e \in Event : StillBelow(q, e) => StillBelow(q, e)'
        /\ \A e \in Event : InRange(e)' <=> InRange(e)
        /\ \A q \in Relay \ {r} : walker'[q].pc # "negotiate" => walker[q].pc # "negotiate"
        /\ \A q \in Relay : pass'.atStart[q] \subseteq Event /\ pass'.atStart[q] = pass.atStart[q]
    BY <1>3, OthersFollow
  <2>1. SeenLands'
    <3>1. \A e \in walker[r].page \ pass.seen : Getting(e)'
      BY <1>3 DEF Getting
    <3> QED BY <1>0, <1>3, <2>0, <3>1 DEF SeenLands
  <2>2. ClaimedIsSeen'
    BY <1>0, <1>3, <2>0 DEF ClaimedIsSeen
  <2>3. ReconciledIsClaimed'
    BY <1>0, <1>3, <2>0 DEF ReconciledIsClaimed
  <2>4. WalkedIsSeen'
    BY <1>3, <1>4, <2>0 DEF WalkedIsSeen, PassInv, Typed, TasksTyped, PassState
  <2> QED BY <2>1, <2>2, <2>3, <2>4
<1> QED BY <1>3, <1>5, <1>6, <1>7, WalkerLeaves

LEMMA ImportKeeps ==
  ASSUME PassInv, NEW r \in Relay, Import(r)
  PROVE  PassStart' /\ Covered' /\ OnItsWay' /\ Judged'
<1>1. /\ WalkerMoves(r) /\ UNCHANGED walks /\ held \subseteq held'
      /\ pass'.complete = pass.complete
      /\ pass'.seen = pass.seen /\ pass'.claimed = pass.claimed /\ pass'.walked = pass.walked
      /\ pass'.clean => held' = held \cup walker[r].new
      /\ walker[r].pc = "import"
      /\ walker'[r].pc = IF walker[r].paging THEN "imported" ELSE "done"
      /\ walker'[r].paging = walker[r].paging /\ walker'[r].page = walker[r].page
  BY ImportMoves DEF PassInv
<1>2. walker[r].paging <=> r \in pass.walked
  BY <1>1 DEF PassInv, Covered, Covers, WalkerMoves
<1>3. Covers(r)'
  BY <1>1, <1>2 DEF Covers
<1>4. pass'.walked \subseteq walks'
  BY <1>1 DEF PassInv, PassStart
<1>5. OnItsWay'
  <2> SUFFICES ASSUME pass'.complete, pass'.clean
               PROVE  (SeenLands /\ ClaimedIsSeen /\ ReconciledIsClaimed /\ WalkedIsSeen)'
    BY DEF OnItsWay
  <2>0. /\ SeenLands /\ ClaimedIsSeen /\ ReconciledIsClaimed /\ WalkedIsSeen
        /\ \A e : Getting(e) => Getting(e)' \/ (walker[r].pc = "import" /\ e \in walker[r].new)
        /\ \A e : Fetching(e) => Fetching(e)' \/ (walker[r].pc = "fetch" /\ e \in walker[r].page)
        /\ \A q \in Relay \ {r}, e \in Event : StillBelow(q, e) => StillBelow(q, e)'
        /\ \A e \in Event : InRange(e)' <=> InRange(e)
        /\ \A q \in Relay \ {r} : walker'[q].pc # "negotiate" => walker[q].pc # "negotiate"
        /\ \A q \in Relay : pass'.atStart[q] \subseteq Event /\ pass'.atStart[q] = pass.atStart[q]
    BY <1>1, OthersFollow
  <2>1. SeenLands'
    BY <1>1, <2>0 DEF SeenLands
  <2>2. ClaimedIsSeen'
    BY <1>1, <2>0 DEF ClaimedIsSeen
  <2>3. ReconciledIsClaimed'
    BY <1>1, <2>0 DEF ReconciledIsClaimed
  <2>4. WalkedIsSeen'
    <3>1. r \in pass.walked => \A e \in Event : StillBelow(r, e) => StillBelow(r, e)'
      BY <1>1, <1>2 DEF StillBelow
    <3> QED BY <1>1, <2>0, <3>1 DEF WalkedIsSeen, PassInv, Typed, TasksTyped, PassState
  <2> QED BY <2>1, <2>2, <2>3, <2>4
<1> QED BY <1>1, <1>3, <1>4, <1>5, WalkerLeaves

LEMMA WalkDownKeeps ==
  ASSUME PassInv, NEW r \in Relay, WalkDown(r)
  PROVE  PassStart' /\ Covered' /\ OnItsWay' /\ Judged'
<1>1. /\ WalkerMoves(r) /\ UNCHANGED <<held, walks>>
      /\ pass'.seen = pass.seen /\ pass'.claimed = pass.claimed /\ pass'.walked = pass.walked
      /\ walker[r].pc = "imported" /\ walker'[r].paging = walker[r].paging
  BY WalkDownMoves DEF PassInv
<1>2. \/ walker'[r].pc = "done" /\ (pass'.complete => Cardinality(walker[r].page) < PageLimit)
      \/ /\ walker'[r].pc = "page"
         /\ \E o \in walker[r].page : walker'[r].until = At[o]
  BY WalkDownMoves DEF PassInv
<1>3. Covers(r) /\ r \in pass.walked
  BY <1>1 DEF PassInv, Covered, Covers, WalkerMoves
<1>4. Covers(r)'
  BY <1>1, <1>2, <1>3 DEF Covers
<1>5. pass'.walked \subseteq walks'
  BY <1>1 DEF PassInv, PassStart
<1>6. OnItsWay'
  <2> SUFFICES ASSUME pass'.complete, pass'.clean
               PROVE  (SeenLands /\ ClaimedIsSeen /\ ReconciledIsClaimed /\ WalkedIsSeen)'
    BY DEF OnItsWay
  <2>0. /\ SeenLands /\ ClaimedIsSeen /\ ReconciledIsClaimed /\ WalkedIsSeen
        /\ \A e : Getting(e) => Getting(e)' \/ (walker[r].pc = "import" /\ e \in walker[r].new)
        /\ \A e : Fetching(e) => Fetching(e)' \/ (walker[r].pc = "fetch" /\ e \in walker[r].page)
        /\ \A q \in Relay \ {r}, e \in Event : StillBelow(q, e) => StillBelow(q, e)'
        /\ \A e \in Event : InRange(e)' <=> InRange(e)
        /\ \A q \in Relay \ {r} : walker'[q].pc # "negotiate" => walker[q].pc # "negotiate"
        /\ \A q \in Relay : pass'.atStart[q] \subseteq Event /\ pass'.atStart[q] = pass.atStart[q]
    BY <1>1, OthersFollow
  <2>1. SeenLands'
    BY <1>1, <2>0 DEF SeenLands
  <2>2. ClaimedIsSeen'
    BY <1>1, <2>0 DEF ClaimedIsSeen
  <2>3. ReconciledIsClaimed'
    BY <1>1, <1>3, <2>0 DEF ReconciledIsClaimed
  <2>4. WalkedIsSeen'
    <3>1. \A e \in Event : StillBelow(r, e) => StillBelow(r, e)'
      <4>1. CASE pass'.complete => Cardinality(walker[r].page) < PageLimit
        <5>1. Cardinality(walker[r].page) # PageLimit
          BY <4>1, HistoryConstants
        <5> QED BY <1>1, <5>1 DEF StillBelow
      <4>2. CASE walker'[r].pc = "page" /\ \E o \in walker[r].page : walker'[r].until = At[o]
        BY <1>1, <4>2 DEF StillBelow
      <4> QED BY <1>2, <4>1, <4>2
    <3> QED BY <1>1, <2>0, <3>1 DEF WalkedIsSeen, PassInv, Typed, TasksTyped, PassState
  <2> QED BY <2>1, <2>2, <2>3, <2>4
<1> QED BY <1>1, <1>4, <1>5, <1>6, WalkerLeaves

\* A failure takes the pass's completeness or its cleanness.
LEMMA FailuresKeep ==
  ASSUME PassInv, NEW r \in Relay, QueryFails(r) \/ ImportFails(r) \/ WalkerStores(r)
  PROVE  PassStart' /\ Covered' /\ OnItsWay' /\ Judged'
<1>1. CASE QueryFails(r)
  <2>1. /\ WalkerMoves(r) /\ UNCHANGED <<held, walks>> /\ ~pass'.complete /\ pass'.walked = pass.walked
        /\ walker'[r].pc = "done" /\ walker'[r].paging = walker[r].paging
    BY <1>1, QueryFailsMoves DEF PassInv
  <2>2. Covers(r)' /\ pass'.walked \subseteq walks'
    BY <2>1 DEF PassInv, PassStart, Covered, Covers, WalkerMoves
  <2> QED BY <2>1, <2>2, WalkerLeaves DEF OnItsWay
<1>2. CASE ImportFails(r)
  <2>1. /\ WalkerMoves(r) /\ UNCHANGED <<held, walks>> /\ ~pass'.clean /\ pass'.walked = pass.walked
        /\ walker'[r].pc = "saving" /\ walker'[r].paging = walker[r].paging
    BY <1>2, ImportFailsMoves DEF PassInv
  <2>2. Covers(r)' /\ pass'.walked \subseteq walks'
    BY <2>1 DEF PassInv, PassStart, Covered, Covers, WalkerMoves
  <2> QED BY <2>1, <2>2, WalkerLeaves DEF OnItsWay
<1>3. CASE WalkerStores(r)
  <2>1. /\ pass.pc = "cover" /\ UNCHANGED <<pass, held, walks, relays>>
        /\ walker[r].pc = "saving" /\ walker'[r].pc = "failed" /\ walker'[r].paging = walker[r].paging
        /\ \A q \in Relay \ {r} : walker'[q] = walker[q]
    BY <1>3, StoresMoves DEF PassInv
  <2>2. ~pass.clean
    BY <2>1 DEF PassInv, Covered, Covers
  <2>3. \A q \in Relay : Covers(q)'
    BY <2>1, <2>2 DEF PassInv, Covered, Covers
  <2> QED BY <2>1, <2>2, <2>3 DEF PassInv, PassStart, Covered, OnItsWay, Judged
<1> QED BY <1>1, <1>2, <1>3

-----------------------------------------------------------------------------
(* The steps of the pass itself.                                           *)

\* Nobody stores the cursor for a pass that is at none of its stores.
LEMMA PassNotSaving ==
  ASSUME Saver, pass.pc \notin {"begun", "cover", "error", "judged", "regress"}
  PROVE  saving.by # "pass" /\ \A r \in Relay : saving.by # r
  BY DEF Saver

LEMMA Freed == ASSUME saving' = NotSaving PROVE Saver'
  BY HistoryConstants DEF Saver, NotSaving

LEMMA BeginPassKeeps ==
  ASSUME PassInv, NEW c \in Caller, BeginPass(c)
  PROVE  Saver' /\ PassStart' /\ Covered' /\ OnItsWay' /\ Judged'
<1>1. /\ pass'.pc = "begun" /\ pass'.seen = {} /\ pass'.claimed = {} /\ pass'.walked = {}
      /\ pass'.atStart = relays
  BY DEF BeginPass, NoPass
<1>2. pass.pc = "idle" /\ UNCHANGED <<relays, worker, walker, saving>>
  BY DEF BeginPass, network
<1>3. Saver'
  BY <1>1, <1>2 DEF Saver, PassInv
<1>4. PassStart'
  BY <1>1, <1>2 DEF PassStart
<1> QED BY <1>1, <1>3, <1>4 DEF Covered, OnItsWay, Judged

\* A pass that is over, or never began, has nothing to show.
LEMMA NoPassKeeps ==
  ASSUME pass' = NoPass
  PROVE  PassStart' /\ Covered' /\ OnItsWay' /\ Judged'
<1>1. pass'.pc = "idle" /\ pass'.walked = {}
  BY DEF NoPass
<1> QED BY <1>1 DEF PassStart, Covered, OnItsWay, Judged

LEMMA PassStoresKeeps ==
  ASSUME PassInv, PassStores
  PROVE  Saver' /\ PassStart' /\ Covered' /\ OnItsWay' /\ Judged'
<1>0. pass \in PassState /\ Saver' /\ UNCHANGED <<relays, held, walks>>
  BY Freed DEF PassInv, Typed, TasksTyped, PassStores, Stores, network, bounds
<1>1. CASE /\ pass.pc = "begun"
           /\ pass' = [pass EXCEPT !.pc = "cover"]
           /\ walker' = [r \in Relay |-> [NoWalker EXCEPT !.pc = "negotiate", !.until = pass.until]]
  <2>1. pass.seen = {} /\ pass.claimed = {} /\ pass.walked = {}
    BY <1>1 DEF PassInv, PassStart
  <2>2. /\ pass'.pc = "cover" /\ pass'.seen = {} /\ pass'.claimed = {} /\ pass'.walked = {}
        /\ pass'.until = pass.until /\ pass'.atStart = pass.atStart
    BY <1>0, <1>1, <2>1 DEF PassState
  <2>3. \A r \in Relay : /\ walker'[r].pc = "negotiate" /\ walker'[r].paging = FALSE
                         /\ walker'[r].until = pass.until
    BY <1>1 DEF NoWalker
  <2>4. PassStart'
    BY <1>0, <1>1, <2>2 DEF PassInv, PassStart
  <2>5. Covered'
    BY <2>2, <2>3 DEF Covered, Covers
  <2>6. OnItsWay'
    BY <2>2, <2>3 DEF OnItsWay, SeenLands, ClaimedIsSeen, ReconciledIsClaimed, WalkedIsSeen
  <2> QED BY <1>0, <2>2, <2>4, <2>5, <2>6 DEF Judged
<1>2. CASE pass.pc = "judged" /\ pass' = [pass EXCEPT !.pc = "settle"]
  <2>1. /\ pass'.pc = "settle" /\ pass'.atStart = pass.atStart /\ pass'.walked = pass.walked
        /\ pass'.since = pass.since /\ pass'.until = pass.until /\ pass'.complete = pass.complete
    BY <1>0, <1>2 DEF PassState
  <2>2. PassStart'
    BY <1>0, <1>2, <2>1 DEF PassInv, PassStart
  <2>3. Judged'
    BY <1>0, <1>2, <2>1 DEF PassInv, Judged, Brought, InRange
  <2> QED BY <1>0, <2>1, <2>2, <2>3 DEF Covered, OnItsWay
<1>3. CASE pass' = NoPass
  BY <1>0, <1>3, NoPassKeeps
<1> QED BY <1>1, <1>2, <1>3 DEF PassStores, Returns

\* When every task has ended and none failed, everything has landed.
LEMMA AllBrought ==
  ASSUME PassInv, pass.pc = "cover", \A r \in Relay : walker[r].pc = "done", pass.complete, pass.clean
  PROVE  Brought
<1>1. SeenLands /\ ClaimedIsSeen /\ ReconciledIsClaimed /\ WalkedIsSeen
  BY DEF PassInv, OnItsWay
<1>2. \A e : ~Getting(e) /\ ~Fetching(e)
  BY DEF Getting, Fetching
<1>3. \A r \in Relay, e \in Event : ~StillBelow(r, e)
  BY DEF StillBelow
<1>4. \A e \in pass.seen : e \in held
  BY <1>1, <1>2 DEF SeenLands
<1>5. \A e \in pass.claimed : e \in held
  BY <1>1, <1>2, <1>4 DEF ClaimedIsSeen
<1>6. \A r \in Relay : pass.atStart[r] \subseteq Event
  BY DEF PassInv, Typed, TasksTyped, PassState
<1>7. ASSUME NEW r \in Relay \ pass.walked, NEW e \in pass.atStart[r] PROVE e \in held
  BY <1>1, <1>5 DEF ReconciledIsClaimed
<1>8. ASSUME NEW r \in pass.walked, NEW e \in pass.atStart[r], InRange(e) PROVE e \in held
  <2>1. r \in Relay
    BY DEF PassInv, Typed, TasksTyped, PassState
  <2> QED BY <1>1, <1>3, <1>4, <1>6, <1>8, <2>1 DEF WalkedIsSeen
<1> QED BY <1>7, <1>8 DEF Brought

LEMMA CoverEndsKeeps ==
  ASSUME PassInv, CoverEnds
  PROVE  Saver' /\ PassStart' /\ Covered' /\ OnItsWay' /\ Judged'
<1>0. pass \in PassState
  BY DEF PassInv, Typed, TasksTyped
<1>1. /\ pass.pc = "cover" /\ \A r \in Relay : walker[r].pc \in {"done", "failed"}
      /\ UNCHANGED <<relays, worker, saving, held, walks>>
  BY DEF CoverEnds, network, bounds
<1>2. Saver'
  BY <1>1 DEF PassInv, Saver
<1>3. CASE \E r \in Relay : walker[r].pc = "failed"
  <2>1. /\ pass'.pc = "error" /\ pass'.atStart = pass.atStart /\ pass'.walked = pass.walked
    BY <1>0, <1>3 DEF CoverEnds, Fault, PassState
  <2> QED BY <1>1, <1>2, <2>1 DEF PassInv, PassStart, Covered, OnItsWay, Judged
<1>4. CASE \A r \in Relay : walker[r].pc # "failed"
  <2>1. /\ pass'.pc = "drain" /\ pass'.atStart = pass.atStart /\ pass'.walked = pass.walked
        /\ pass'.since = pass.since /\ pass'.until = pass.until
        /\ pass'.complete = pass.complete /\ pass'.clean = pass.clean
    BY <1>0, <1>4 DEF CoverEnds, PassState
  <2>2. pass.complete /\ pass.clean => Brought
    BY <1>1, <1>4, AllBrought
  <2>3. Judged'
    BY <1>1, <2>1, <2>2 DEF Judged, Brought, InRange
  <2>4. PassStart'
    BY <1>1, <2>1 DEF PassInv, PassStart
  <2> QED BY <1>2, <2>1, <2>3, <2>4 DEF Covered, OnItsWay
<1> QED BY <1>3, <1>4

LEMMA JudgeKeeps ==
  ASSUME PassInv, Judge
  PROVE  Saver' /\ PassStart' /\ Covered' /\ OnItsWay' /\ Judged'
<1> DEFINE verdict == /\ pass.complete /\ pass.clean
                      /\ (IF pass.walked # {} THEN pass.since ELSE 0) <= faultFloor
           judged == [pass EXCEPT !.pc = "judged", !.complete = verdict]
<1>0. pass \in PassState
  BY DEF PassInv, Typed, TasksTyped
<1>1. /\ pass.pc = "drain" /\ UNCHANGED <<relays, worker, saving, held, walks, walker>>
  BY DEF Judge, network, bounds
<1>2. pass' = judged \/ pass' = [judged EXCEPT !.clean = FALSE]
  BY DEF Judge, Fault
<1>3. /\ pass'.pc = "judged" /\ pass'.atStart = pass.atStart /\ pass'.walked = pass.walked
      /\ pass'.since = pass.since /\ pass'.until = pass.until /\ pass'.complete = verdict
  <2> HIDE DEF verdict
  <2> QED BY <1>0, <1>2 DEF PassState
<1>4. Saver'
  BY <1>1, PassNotSaving DEF PassInv, Saver
<1>5. PassStart'
  BY <1>1, <1>3 DEF PassInv, PassStart
<1>6. Judged'
  BY <1>1, <1>3 DEF PassInv, Judged, Brought, InRange
<1> QED BY <1>3, <1>4, <1>5, <1>6 DEF Covered, OnItsWay

LEMMA SettleKeeps ==
  ASSUME PassInv, Settle
  PROVE  Saver' /\ PassStart' /\ Covered' /\ OnItsWay' /\ Judged'
<1>0. pass \in PassState
  BY DEF PassInv, Typed, TasksTyped
<1>1. /\ pass.pc = "settle" /\ UNCHANGED <<relays, worker, saving, held, walks, walker>>
  BY DEF Settle, network, bounds
<1>2. Saver'
  BY <1>1, PassNotSaving DEF PassInv, Saver
<1>3. CASE Fault(pass.since, [pass EXCEPT !.pc = "regress"])
  <2>1. pass'.pc = "regress" /\ pass'.atStart = pass.atStart /\ pass'.walked = pass.walked
    BY <1>0, <1>3 DEF Fault, PassState
  <2> QED BY <1>1, <1>2, <2>1 DEF PassInv, PassStart, Covered, OnItsWay, Judged
<1>4. CASE pass' = NoPass
  BY <1>2, <1>4, NoPassKeeps
<1> QED BY <1>3, <1>4 DEF Settle, Returns

-----------------------------------------------------------------------------
(* Who holds cursor_lock.                                                  *)

LEMMA BesideSaver == ASSUME PassInv, Beside PROVE Saver'
<1>0. /\ pass'.pc = pass.pc /\ walker' = walker /\ Saver
      /\ "pass" \notin Relay /\ "worker" \notin Relay /\ "pass" # "worker"
  BY BesideStands, HistoryConstants DEF PassInv, PassStands
<1>1. CASE PassLocks
  BY <1>0, <1>1 DEF PassLocks, Locks, Saver
<1>2. CASE WorkerLocks
  BY <1>0, <1>2 DEF WorkerLocks, Locks, Saver
<1>3. ASSUME NEW r \in Relay, WalkerLocks(r) PROVE Saver'
  BY <1>0, <1>3 DEF WalkerLocks, WalkerAt, Locks, Saver
<1>4. CASE WorkerStores
  BY <1>4, Freed DEF WorkerStores, Stores
<1>5. CASE /\ UNCHANGED saving
           /\ UNCHANGED worker \/ worker.pc \in {"idle", "import"}
  BY <1>0, <1>5 DEF Saver
<1>6. ASSUME NEW r \in Relay, Subscribes(r) \/ SocketDrops(r) \/ (\E e \in Event : Publish(e, r))
      PROVE  UNCHANGED <<saving, worker>>
  BY <1>6 DEF Subscribes, SocketDrops, Publish
<1>7. CASE \/ WatchdogRuns \/ LiveFails \/ LiveImports \/ UNCHANGED vars
           \/ \E e \in Event : LiveTakes(e)
           \/ \E c \in Caller : MarkBootstrapped(c)
  BY <1>5, <1>7 DEF WatchdogRuns, LiveFails, LiveImports, vars, LiveTakes, MarkBootstrapped
<1> QED BY <1>1, <1>2, <1>3, <1>4, <1>5, <1>6, <1>7 DEF Beside, WorkerWorks

LEMMA WalkerSaver ==
  ASSUME PassInv, NEW r \in Relay, WalkerMoves(r), walker[r].pc # "saving"
  PROVE  Saver'
  BY DEF PassInv, Saver, WalkerMoves

LEMMA WalkerStepSaver ==
  ASSUME PassInv, NEW r \in Relay,
         WalkerWorks(r) \/ Unreachable(r) \/ QueryFails(r) \/ ImportFails(r), ~WalkerLocks(r)
  PROVE  Saver'
<1>0. Typed
  BY DEF PassInv
<1>1. CASE Negotiate(r)
  <2>1. WalkerMoves(r) /\ walker[r].pc = "negotiate"
    BY <1>0, <1>1, NegotiateMoves
  <2> QED BY <2>1, WalkerSaver
<1>2. CASE Refused(r) \/ Unreachable(r)
  <2>1. WalkerMoves(r) /\ walker[r].pc = "negotiate"
    BY <1>0, <1>2, WalkInsteadMoves
  <2> QED BY <2>1, WalkerSaver
<1>3. CASE QueryPage(r)
  <2>1. WalkerMoves(r) /\ walker[r].pc = "page"
    BY <1>0, <1>3, IngestsMoves, PageIsRange DEF QueryPage, WalkerAt
  <2> QED BY <2>1, WalkerSaver
<1>4. CASE Fetch(r)
  <2>1. walker[r].page \in SUBSET Event
    BY <1>0 DEF Typed, TasksTyped, WalkerState
  <2>2. WalkerMoves(r) /\ walker[r].pc = "fetch"
    BY <1>0, <1>4, <2>1, IngestsMoves DEF Fetch, WalkerAt
  <2> QED BY <2>2, WalkerSaver
<1>5. CASE Import(r)
  <2>1. WalkerMoves(r) /\ walker[r].pc = "import"
    BY <1>0, <1>5, ImportMoves
  <2> QED BY <2>1, WalkerSaver
<1>6. CASE WalkDown(r)
  <2>1. WalkerMoves(r) /\ walker[r].pc = "imported"
    BY <1>0, <1>6, WalkDownMoves
  <2> QED BY <2>1, WalkerSaver
<1>7. CASE QueryFails(r)
  <2>1. WalkerMoves(r) /\ walker[r].pc # "saving"
    BY <1>0, <1>7, QueryFailsMoves
  <2> QED BY <2>1, WalkerSaver
<1>8. CASE ImportFails(r)
  <2>1. WalkerMoves(r) /\ walker[r].pc = "import"
    BY <1>0, <1>8, ImportFailsMoves
  <2> QED BY <2>1, WalkerSaver
<1>9. CASE WalkerStores(r)
  BY <1>9, Freed DEF WalkerStores, Stores
<1> QED BY <1>1, <1>2, <1>3, <1>4, <1>5, <1>6, <1>7, <1>8, <1>9 DEF WalkerWorks

-----------------------------------------------------------------------------
(* A complete pass brought in what the relays held.                        *)

LEMMA PassInvInit == Init => PassInv
<1> SUFFICES ASSUME Init PROVE PassInv
  OBVIOUS
<1>1. pass.pc = "idle" /\ pass.walked = {} /\ walks = {} /\ saving = NotSaving
  BY DEF Init, NoPass
<1>2. Saver
  BY <1>1, HistoryConstants DEF Saver, NotSaving
<1> QED BY <1>1, <1>2, InitTyped DEF PassInv, PassStart, Covered, OnItsWay, Judged

\* A complete pass brought in what the relays held when it began.
LEMMA PassInvStep == PassInv /\ [Next]_vars => PassInv'
<1> SUFFICES ASSUME PassInv, [Next]_vars PROVE PassInv'
  OBVIOUS
<1>0. Typed'
  BY TypedStep DEF PassInv
<1>1. CASE Beside
  BY <1>0, <1>1, BesideKeeps, BesideSaver DEF PassInv
<1>2. CASE PassWorks
  <2>1. CASE PassLocks \/ \E c \in Caller : MarkBootstrapped(c)
    BY <1>1, <2>1 DEF Beside
  <2> QED BY <1>0, <1>2, <2>1, BeginPassKeeps, PassStoresKeeps, CoverEndsKeeps, JudgeKeeps, SettleKeeps
          DEF PassWorks, PassInv
<1>3. CASE Crash
  <2>1. pass' = NoPass /\ saving' = NotSaving
    BY <1>3 DEF Crash
  <2> QED BY <1>0, <2>1, NoPassKeeps, Freed DEF PassInv
<1>4. ASSUME NEW r \in Relay, WalkerWorks(r) \/ Unreachable(r) \/ QueryFails(r) \/ ImportFails(r) PROVE PassInv'
  <2>1. CASE WalkerLocks(r)
    BY <1>1, <2>1 DEF Beside
  <2>2. CASE ~WalkerLocks(r)
    <3>1. PassStart' /\ Covered' /\ OnItsWay' /\ Judged'
      BY <1>4, <2>2, NegotiateKeeps, WalkInsteadKeeps, QueryPageKeeps, FetchKeeps, ImportKeeps, WalkDownKeeps,
         FailuresKeep DEF WalkerWorks
    <3> QED BY <1>0, <1>4, <2>2, <3>1, WalkerStepSaver DEF PassInv
  <2> QED BY <2>1, <2>2
<1>5. CASE WorkerWorks \/ LiveFails \/ WatchdogRuns \/ UNCHANGED vars
  BY <1>1, <1>5 DEF Beside
<1>6. ASSUME NEW r \in Relay, Subscribes(r) \/ SocketDrops(r) \/ (\E e \in Event : Publish(e, r)) PROVE PassInv'
  BY <1>1, <1>6 DEF Beside
<1> QED BY <1>2, <1>3, <1>4, <1>5, <1>6 DEF Next

LEMMA PassInvAlways == Spec => []PassInv
<1> QED BY PassInvInit, PassInvStep, PTL DEF Spec

\* A pass that its check judges complete brought in what every relay held when
\* it began, in any number of relays, pages and passes: backfill's "true only
\* when EVERY relay covered every stream".
THEOREM CompletePassesHold == Spec => []CompletePassHolds
<1>1. PassInv => CompletePassHolds
  BY DEF PassInv, Judged, Brought, InRange, CompletePassHolds
<1> QED BY <1>1, PassInvAlways, PTL
-----------------------------------------------------------------------------
(* Faults.                                                                 *)

\* A relay held what failed, and a pass no fault came into began after it.
FaultsSeen ==
  /\ \A p \in faulted : p[1] \in relays[p[2]]
  /\ pass.pc # "idle" /\ pass.clean => \A p \in faulted : p[1] \in pass.atStart[p[2]]

Owed == {p \in faulted : p[1] \notin held /\ p[2] \notin walks}

\* The stored cursor, once who holds its lock has stored it.
Due == IF saving.by = "nobody" THEN saved ELSE saving.value

\* Somebody is yet to take the cursor's lock and store what is owed.
Locker ==
  \/ worker.pc \in {"failed", "landed"} /\ saving.by # "worker"
  \/ pass.pc \in {"cover", "drain"}
  \/ pass.pc \in {"error", "judged", "regress"} /\ saving.by # "pass"

\* Whatever is owed, the next cursor stored is below it, and one will be stored.
FloorCovers == \A p \in Owed : faultFloor <= At[p[1]] \/ Due < At[p[1]]
OwedIsStored == \A p \in Owed : Due < At[p[1]] \/ Locker

FaultInv == FaultsSeen /\ FaultsKept /\ FloorCovers /\ OwedIsStored


\* The cursor that is stored, or about to be, is below what is owed; a step of
\* the rest leaves the verdict, the owed floor and who must still store as they
\* were, unless it adds a fault.  `out` is what it leaves out of the store.
Keeps(out) ==
  /\ Grows /\ faulted' \subseteq faulted \cup MissedAt(out)
  /\ faultFloor' <= faultFloor /\ \A e \in out : faultFloor' <= At[e]
  /\ historyComplete' => historyComplete /\ out = {}
  /\ Due' = Due
  /\ Locker \/ out # {} => Locker'
  /\ pass'.pc # "idle" /\ pass'.clean =>
       /\ out = {}
       /\ \/ pass'.atStart = relays
          \/ pass.pc # "idle" /\ pass.clean /\ pass'.atStart = pass.atStart

LEMMA OwedHasASecond ==
  ASSUME Typed
  PROVE  /\ \A p \in faulted : p[1] \in Event /\ p[2] \in Relay /\ At[p[1]] \in 1..LastSecond
         /\ faultFloor \in Nat /\ Due \in Nat /\ cursor \in Nat /\ saved \in Nat
<1>1. \A p \in faulted : p[1] \in Event /\ p[2] \in Relay
  BY DEF Typed, BoundsTyped
<1>2. faultFloor \in Nat /\ cursor \in Nat /\ saved \in Nat /\ saving.value \in Nat
  BY Numbers DEF Typed, CursorTyped
<1> QED BY <1>1, <1>2, HistoryConstants DEF Due

LEMMA FaultStep ==
  ASSUME Typed, Typed', FaultInv, NEW out \in SUBSET Event, Keeps(out)
  PROVE  FaultInv'
<1>1. \A p \in faulted' : p \in faulted \/ (p[1] \in out /\ p[2] \in Relay /\ p[1] \in relays[p[2]])
  <2>1. \A p \in MissedAt(out) : p[1] \in out /\ p[2] \in Relay /\ p[1] \in relays[p[2]]
    BY DEF MissedAt
  <2> QED BY <2>1 DEF Keeps
<1>2. \A p \in faulted : p[2] \in Relay
  BY OwedHasASecond
<1>3. FaultsSeen'
  <2>1. \A p \in faulted' : p[1] \in relays'[p[2]]
    BY <1>1, <1>2 DEF FaultInv, FaultsSeen, Keeps, Grows
  <2>2. out = {} => \A p \in faulted' : p \in faulted
    BY <1>1
  <2>3. pass'.pc # "idle" /\ pass'.clean => \A p \in faulted' : p[1] \in pass'.atStart[p[2]]
    BY <2>2 DEF FaultInv, FaultsSeen, Keeps
  <2> QED BY <2>1, <2>3 DEF FaultsSeen
<1>4. FaultsKept'
  BY <1>1 DEF FaultInv, FaultsKept, Keeps, Grows
<1>5. \A p \in Owed' : p \in Owed \/ p[1] \in out
  BY <1>1 DEF Owed, Keeps, Grows
<1>6. /\ \A p \in Owed : p[1] \in Event /\ At[p[1]] \in Nat
      /\ faultFloor \in Nat /\ faultFloor' \in Nat /\ Due \in Nat
  <2>1. faultFloor' \in Nat
    BY Numbers DEF Typed, CursorTyped
  <2> QED BY <2>1, OwedHasASecond DEF Owed
<1>7. FloorCovers'
  <2> SUFFICES ASSUME NEW p \in Owed' PROVE faultFloor' <= At[p[1]] \/ Due' < At[p[1]]
    BY DEF FloorCovers
  <2>1. CASE p \in Owed
    <3>1. faultFloor <= At[p[1]] \/ Due < At[p[1]]
      BY <2>1 DEF FaultInv, FloorCovers
    <3> QED BY <1>6, <2>1, <3>1 DEF Keeps
  <2>2. CASE p[1] \in out
    BY <2>2 DEF Keeps
  <2> QED BY <1>5, <2>1, <2>2
<1>8. OwedIsStored'
  <2> SUFFICES ASSUME NEW p \in Owed' PROVE Due' < At[p[1]] \/ Locker'
    BY DEF OwedIsStored
  <2> QED BY <1>5 DEF FaultInv, OwedIsStored, Keeps
<1> QED BY <1>3, <1>4, <1>7, <1>8 DEF FaultInv

\* The next cursor stored is below all that is owed.
LEMMA NextCursorBelow ==
  ASSUME Typed, FaultInv, saving.by = "nobody", NEW p \in Owed
  PROVE  NextCursor < At[p[1]]
<1> DEFINE at == At[p[1]]
           next == IF faultFloor = Never THEN cursor
                   ELSE Least(cursor, IF faultFloor = 0 THEN 0 ELSE faultFloor - 1)
<1>1. /\ at \in 1..LastSecond /\ faultFloor \in Nat /\ cursor \in Nat /\ saved \in Nat
      /\ Never = LastSecond + 2 /\ LastSecond \in Nat
  BY OwedHasASecond, Numbers DEF Owed
<1>2. ~historyComplete
  BY DEF FaultInv, FaultsKept, Owed
<1>3. faultFloor <= at \/ saved < at
  BY DEF FaultInv, FloorCovers, Due
<1>4. NextCursor = IF next < saved THEN next ELSE saved
  BY <1>2 DEF NextCursor
<1>5. next \in Nat
  <2>1. (IF faultFloor = 0 THEN 0 ELSE faultFloor - 1) \in Nat
    BY <1>1
  <2> QED BY <1>1, <2>1, LeastIsOne
<1>6. faultFloor <= at => next < at
  <2>1. (IF faultFloor = 0 THEN 0 ELSE faultFloor - 1) \in Nat
    BY <1>1
  <2>2. Least(cursor, IF faultFloor = 0 THEN 0 ELSE faultFloor - 1) <= (IF faultFloor = 0 THEN 0 ELSE faultFloor - 1)
    BY <1>1, <2>1, LeastIsOne
  <2> HIDE DEF at
  <2>3. faultFloor <= at => faultFloor # Never
    BY <1>1
  <2>4. CASE faultFloor = 0
    BY <1>1, <1>5, <2>2, <2>3, <2>4
  <2>5. CASE faultFloor # 0
    BY <1>1, <1>5, <2>2, <2>3, <2>5
  <2> QED BY <2>4, <2>5
<1> HIDE DEF next, at
<1> QED BY <1>1, <1>3, <1>4, <1>5, <1>6 DEF at

\* Who takes cursor_lock stores a cursor below all that is owed.
LEMMA LockStep ==
  ASSUME PassInv, FaultInv, NEW who \in Relay \cup {"pass", "worker"}, Locks(who),
         UNCHANGED <<relays, held, walks, faulted, historyComplete, faultFloor, pass>>
  PROVE  FaultInv'
<1>1. FaultsSeen' /\ FaultsKept'
  BY DEF FaultInv, FaultsSeen, FaultsKept
<1>2. Owed' = Owed
  BY DEF Owed
<1>3. Due' = NextCursor
  BY HistoryConstants DEF Locks, Due
<1>4. \A p \in Owed' : Due' < At[p[1]]
  BY <1>2, <1>3, NextCursorBelow DEF PassInv, Locks
<1> QED BY <1>1, <1>4 DEF FaultInv, FloorCovers, OwedIsStored

LEMMA FaultLowers ==
  ASSUME Typed, NEW at \in Nat, NEW p, Fault(at, p)
  PROVE  faultFloor' <= faultFloor /\ faultFloor' <= at /\ ~historyComplete'
  BY OwedHasASecond, LeastIsOne DEF Fault

LEMMA StoresDue == ASSUME NEW who \in Relay \cup {"pass", "worker"}, Stores(who) PROVE Due' = Due
  BY HistoryConstants DEF Stores, Due, NotSaving

LEMMA DueStays == ASSUME UNCHANGED <<saved, saving>> PROVE Due' = Due
  BY DEF Due

LEMMA NoneMissed ==
  ASSUME Typed, Grows, faulted' \subseteq faulted, UNCHANGED faultFloor, historyComplete' => historyComplete,
         Due' = Due, Locker => Locker',
         pass'.pc # "idle" /\ pass'.clean =>
            pass'.atStart = relays \/ (pass.pc # "idle" /\ pass.clean /\ pass'.atStart = pass.atStart)
  PROVE  Keeps({})
  BY OwedHasASecond DEF Keeps

\* A step beside the pass that imports nothing and takes no lock.
LEMMA QuietFaults ==
  ASSUME PassInv, Typed', FaultInv,
         \/ WatchdogRuns \/ UNCHANGED vars \/ (\E e \in Event : LiveTakes(e)) \/ WorkerStores
         \/ \E c \in Caller : MarkBootstrapped(c)
         \/ \E r \in Relay : Subscribes(r) \/ SocketDrops(r) \/ (\E e \in Event : Publish(e, r))
  PROVE  FaultInv'
<1>0. Beside /\ Typed
  BY DEF Beside, WorkerWorks, PassInv
<1>1. PassStands /\ Grows
  BY <1>0, BesideStands
<1>2. pass'.pc # "idle" /\ pass'.clean => pass.pc # "idle" /\ pass.clean /\ pass'.atStart = pass.atStart
  BY <1>1 DEF PassStands
<1>3. CASE \/ WatchdogRuns \/ UNCHANGED vars \/ (\E e \in Event : LiveTakes(e))
           \/ \E c \in Caller : MarkBootstrapped(c)
           \/ \E r \in Relay : Subscribes(r) \/ SocketDrops(r) \/ (\E e \in Event : Publish(e, r))
  <2>1. /\ UNCHANGED <<saved, saving, faultFloor, historyComplete, faulted>>
        /\ UNCHANGED worker \/ worker.pc = "idle"
    <3>1. CASE WatchdogRuns \/ UNCHANGED vars \/ (\E c \in Caller : MarkBootstrapped(c))
      BY <3>1 DEF WatchdogRuns, vars, MarkBootstrapped, disk, memory, bounds
    <3>2. CASE \E e \in Event : LiveTakes(e)
      BY <3>2 DEF LiveTakes, disk, bounds
    <3>3. ASSUME NEW r \in Relay, Subscribes(r) \/ SocketDrops(r) \/ (\E e \in Event : Publish(e, r))
          PROVE  UNCHANGED <<saved, saving, faultFloor, historyComplete, faulted, worker>>
      BY <3>3 DEF Subscribes, SocketDrops, Publish, disk, memory, bounds
    <3> QED BY <1>3, <3>1, <3>2, <3>3
  <2>2. Locker => Locker'
    BY <1>1, <2>1 DEF Locker, PassStands
  <2>3. Keeps({})
    BY <1>0, <1>1, <1>2, <2>1, <2>2, DueStays, NoneMissed
  <2> QED BY <1>0, <2>3, FaultStep
<1>4. CASE WorkerStores
  <2>1. Stores("worker") /\ Due' = Due /\ UNCHANGED faulted
    BY <1>4, StoresDue DEF WorkerStores, bounds
  <2>2. Locker => Locker'
    BY <1>1, <2>1, HistoryConstants DEF Locker, PassStands, Stores, NotSaving
  <2>3. CASE UNCHANGED <<faultFloor, historyComplete>>
    BY <1>0, <1>1, <1>2, <2>1, <2>2, <2>3, NoneMissed, FaultStep
  <2>4. CASE Fault(1, pass)
    <3>1. faultFloor' <= faultFloor /\ ~historyComplete'
      BY <1>0, <2>4, FaultLowers
    <3>2. Keeps({})
      BY <1>1, <1>2, <2>1, <2>2, <3>1 DEF Keeps
    <3> QED BY <1>0, <3>2, FaultStep
  <2> QED BY <1>4, <2>3, <2>4 DEF WorkerStores
<1> QED BY <1>3, <1>4

\* An import, of a walker or the live worker.
LEMMA ImportedFaults ==
  ASSUME PassInv, Typed', FaultInv, NEW new \in SUBSET Event, NEW out, Imported(new, out),
         UNCHANGED <<relays, walks, saved, saving>>, Locker'
  PROVE  FaultInv'
<1>0. Typed /\ out \in SUBSET Event /\ Due' = Due
  BY DueStays DEF PassInv, Imported
<1>1. PassStands /\ held \subseteq held' /\ (out = {} \/ ~pass'.clean)
  BY <1>0, ImportedStands
<1>2. faulted' \subseteq faulted \cup MissedAt(out)
  BY DEF Imported
<1>3. pass'.pc # "idle" /\ pass'.clean =>
        out = {} /\ pass.pc # "idle" /\ pass.clean /\ pass'.atStart = pass.atStart
  BY <1>1 DEF PassStands
<1>4. /\ faultFloor' <= faultFloor /\ \A e \in out : faultFloor' <= At[e]
      /\ historyComplete' => historyComplete /\ out = {}
  <2>1. CASE out = {} /\ UNCHANGED <<faultFloor, historyComplete>>
    BY <1>0, <2>1, OwedHasASecond
  <2>2. ASSUME NEW e \in new, out = {e}, Fault(At[e], pass)
        PROVE  faultFloor' <= faultFloor /\ faultFloor' <= At[e] /\ ~historyComplete'
    <3>1. At[e] \in Nat
      BY HistoryConstants
    <3> QED BY <1>0, <2>2, <3>1, FaultLowers
  <2> QED BY <2>1, <2>2 DEF Imported
<1>5. Keeps(out)
  BY <1>0, <1>1, <1>2, <1>3, <1>4 DEF Keeps, Grows
<1> QED BY <1>0, <1>5, FaultStep

\* An import the store refuses.
LEMMA RefusedFaults ==
  ASSUME PassInv, Typed', FaultInv, NEW new \in SUBSET Event, Fault(1, pass),
         faulted' = faulted \cup MissedAt(new \ held),
         UNCHANGED <<relays, held, walks, saved, saving>>, Locker'
  PROVE  FaultInv'
<1>0. Typed /\ (new \ held) \in SUBSET Event /\ Due' = Due
  BY DueStays DEF PassInv
<1>1. PassStands /\ ~pass'.clean
  BY <1>0, FaultStands
<1>2. faultFloor' <= faultFloor /\ faultFloor' <= 1 /\ ~historyComplete'
  BY <1>0, FaultLowers
<1>3. \A e \in new \ held : faultFloor' <= At[e]
  <2>1. faultFloor' \in Nat
    BY Numbers DEF Typed, CursorTyped
  <2> QED BY <1>2, <2>1, HistoryConstants
<1>4. Keeps(new \ held)
  BY <1>0, <1>1, <1>2, <1>3 DEF Keeps, Grows
<1> QED BY <1>0, <1>4, FaultStep

LEMMA WorkerFaults == ASSUME PassInv, Typed', FaultInv, LiveImports \/ LiveFails PROVE FaultInv'
<1>0. /\ worker.event \in SUBSET Event /\ worker.pc = "import" /\ saving.by # "worker"
      /\ worker \in [pc : {"idle", "import", "failed", "landed"}, event : SUBSET Event]
  BY DEF PassInv, Typed, TasksTyped, Saver, LiveImports, LiveFails
<1>1. /\ worker'.pc \in {"failed", "landed"}
      /\ UNCHANGED <<relays, walks, saved, saving>>
  BY <1>0 DEF LiveImports, LiveFails, network
<1>2. Locker'
  BY <1>0, <1>1 DEF Locker
<1>3. CASE LiveImports
  <2>1. PICK out \in LeftOut(worker.event) : Imported(worker.event, out)
    BY <1>0, <1>3, LeavesOut DEF LiveImports
  <2> QED BY <1>0, <1>1, <1>2, <2>1, ImportedFaults
<1>4. CASE LiveFails
  BY <1>0, <1>1, <1>2, <1>4, RefusedFaults DEF LiveFails
<1> QED BY <1>3, <1>4

\* While relays are covered, the check that ends the pass is still to come.
LEMMA WalkerFaults ==
  ASSUME PassInv, Typed', FaultInv, NEW r \in Relay,
         \/ Negotiate(r) \/ Refused(r) \/ QueryPage(r) \/ Fetch(r) \/ Import(r) \/ WalkerStores(r)
         \/ WalkDown(r) \/ Unreachable(r) \/ QueryFails(r) \/ ImportFails(r)
  PROVE  FaultInv'
<1>0. Typed
  BY DEF PassInv
<1>1. CASE Import(r)
  <2>1. walker[r].new \in SUBSET Event /\ WalkerMoves(r)
    BY <1>0, <1>1, ImportMoves DEF Typed, TasksTyped, WalkerState
  <2>2. PICK out \in LeftOut(walker[r].new) : Imported(walker[r].new, out)
    BY <1>1, <2>1, LeavesOut DEF Import
  <2>3. UNCHANGED <<relays, walks, saved, saving>> /\ Locker'
    BY <1>1, <2>1 DEF Import, network, Locker, WalkerMoves
  <2> QED BY <2>1, <2>2, <2>3, ImportedFaults
<1>2. CASE ImportFails(r)
  <2>1. walker[r].new \in SUBSET Event /\ WalkerMoves(r)
    BY <1>0, <1>2, ImportFailsMoves DEF Typed, TasksTyped, WalkerState
  <2>2. UNCHANGED <<relays, held, walks, saved, saving>> /\ Locker'
    BY <1>2, <2>1 DEF ImportFails, network, Locker, WalkerMoves
  <2> QED BY <1>2, <2>1, <2>2, RefusedFaults DEF ImportFails
<1>3. ASSUME WalkerMoves(r) \/ (PassStands /\ pass.pc = "cover" /\ UNCHANGED relays),
             UNCHANGED <<held, faulted, faultFloor, historyComplete>>, walks \subseteq walks', Due' = Due
      PROVE  FaultInv'
  <2>1. Grows /\ Locker'
    BY <1>3 DEF WalkerMoves, PassStands, Grows, Locker
  <2>2. pass.pc # "idle" /\ (pass'.clean => pass.clean) /\ pass'.atStart = pass.atStart
    BY <1>3 DEF WalkerMoves, PassStands
  <2>3. Keeps({})
    BY <1>0, <1>3, <2>1, <2>2, NoneMissed
  <2> QED BY <1>0, <2>3, FaultStep
<1>4. CASE Negotiate(r)
  <2>1. WalkerMoves(r) /\ Due' = Due
    BY <1>0, <1>4, NegotiateMoves, DueStays DEF Negotiate, disk
  <2> QED BY <1>3, <1>4, <2>1 DEF Negotiate, disk, memory, bounds
<1>5. CASE Refused(r) \/ Unreachable(r)
  <2>1. /\ WalkerMoves(r) /\ Due' = Due /\ walks \subseteq walks'
        /\ UNCHANGED <<held, faulted, faultFloor, historyComplete>>
    BY <1>0, <1>5, WalkInsteadMoves, DueStays DEF Refused, Unreachable, WalkInstead, disk, memory
  <2> QED BY <1>3, <2>1
<1>6. ASSUME NEW events \in SUBSET Event, pass.pc = "cover", Ingests(r, events) PROVE FaultInv'
  <2>1. WalkerMoves(r) /\ Due' = Due
    BY <1>0, <1>6, IngestsMoves, DueStays DEF Ingests, disk
  <2> QED BY <1>3, <1>6, <2>1 DEF Ingests, disk, bounds
<1>7. CASE QueryPage(r) \/ Fetch(r)
  <2>1. walker[r].page \in SUBSET Event /\ Pages(r) \subseteq SUBSET Event
    BY <1>0, PageIsRange DEF Typed, TasksTyped, WalkerState
  <2> QED BY <1>6, <1>7, <2>1 DEF QueryPage, Fetch, WalkerAt
<1>8. CASE WalkDown(r)
  <2>1. WalkerMoves(r) /\ Due' = Due
    BY <1>0, <1>8, WalkDownMoves, DueStays DEF WalkDown
  <2> QED BY <1>3, <1>8, <2>1 DEF WalkDown, memory, bounds
<1>9. CASE QueryFails(r)
  <2>1. WalkerMoves(r) /\ Due' = Due
    BY <1>0, <1>9, QueryFailsMoves, DueStays DEF QueryFails, disk
  <2> QED BY <1>3, <1>9, <2>1 DEF QueryFails, disk, memory
<1>10. CASE WalkerStores(r)
  <2>1. PassStands /\ pass.pc = "cover" /\ UNCHANGED relays
    BY <1>10, StoresMoves DEF PassInv
  <2>2. Due' = Due
    BY <1>10, StoresDue DEF WalkerStores
  <2> QED BY <1>3, <1>10, <2>1, <2>2 DEF WalkerStores, memory, bounds
<1> QED BY <1>1, <1>2, <1>4, <1>5, <1>7, <1>8, <1>9, <1>10

\* A pass takes over what is owed, and remembers what the relays hold now.
LEMMA BeginPassFaults ==
  ASSUME PassInv, Typed', FaultInv, NEW c \in Caller, BeginPass(c)
  PROVE  FaultInv'
<1>0. Typed /\ pass.pc = "idle" /\ Due' = Due
  BY DueStays DEF PassInv, BeginPass, disk
<1>1. Grows /\ pass'.atStart = relays /\ UNCHANGED <<faulted, worker, saving>>
  BY DEF BeginPass, NoPass, Grows, network, disk, bounds
<1>2. faultFloor' <= faultFloor
  <2>1. calls[c].since \in Nat
    BY <1>0, Numbers DEF Typed, TasksTyped, CallState
  <2>2. faultFloor' = Least(calls[c].since, faultFloor)
    BY DEF BeginPass
  <2> QED BY <1>0, <2>1, <2>2, OwedHasASecond, LeastIsOne
<1>3. Locker => Locker'
  BY <1>0, <1>1 DEF Locker
<1>4. Keeps({})
  BY <1>0, <1>1, <1>2, <1>3 DEF Keeps, BeginPass
<1> QED BY <1>0, <1>4, FaultStep

LEMMA PassStoresFaults == ASSUME PassInv, Typed', FaultInv, PassStores PROVE FaultInv'
<1>0. /\ Typed /\ pass \in PassState /\ saving.by = "pass" /\ saving'.by = "nobody"
      /\ pass.pc \in {"begun", "error", "judged", "regress"}
  BY DEF PassInv, Saver, Typed, TasksTyped, PassStores, Stores, NotSaving
<1>1. /\ Due' = Due /\ Grows /\ UNCHANGED <<faulted, faultFloor, historyComplete, worker>>
  BY StoresDue DEF PassStores, Grows, network, memory, bounds
<1>2. \/ pass'.pc # "idle" /\ pass'.clean = pass.clean /\ pass'.atStart = pass.atStart
      \/ pass'.pc = "idle"
  BY <1>0 DEF PassStores, Returns, NoPass, PassState
<1>3. Locker => Locker'
  BY <1>0, <1>1, HistoryConstants DEF Locker
<1>4. Keeps({})
  BY <1>0, <1>1, <1>2, <1>3, NoneMissed
<1> QED BY <1>0, <1>4, FaultStep

LEMMA CoverEndsFaults == ASSUME PassInv, Typed', FaultInv, CoverEnds PROVE FaultInv'
<1>0. Typed /\ pass \in PassState /\ pass.pc = "cover" /\ saving.by # "pass"
  BY DEF PassInv, Saver, Typed, TasksTyped, CoverEnds
<1>1. /\ Due' = Due /\ Grows /\ UNCHANGED <<faulted, worker, saving>>
  BY DueStays DEF CoverEnds, Grows, network, bounds
<1>2. CASE Fault(1, [pass EXCEPT !.pc = "error"])
  <2>1. pass'.pc = "error" /\ ~pass'.clean
    BY <1>0, <1>2 DEF Fault, PassState
  <2>2. faultFloor' <= faultFloor /\ ~historyComplete'
    BY <1>0, <1>2, FaultLowers
  <2>3. Locker'
    BY <1>0, <1>1, <2>1 DEF Locker
  <2>4. Keeps({})
    BY <1>1, <2>1, <2>2, <2>3 DEF Keeps
  <2> QED BY <1>0, <2>4, FaultStep
<1>3. CASE pass' = [pass EXCEPT !.pc = "drain"] /\ UNCHANGED <<faultFloor, historyComplete>>
  <2>1. pass'.pc = "drain" /\ pass'.clean = pass.clean /\ pass'.atStart = pass.atStart
    BY <1>0, <1>3 DEF PassState
  <2>2. Locker'
    BY <2>1 DEF Locker
  <2>3. Keeps({})
    BY <1>0, <1>1, <1>3, <2>1, <2>2, NoneMissed
  <2> QED BY <1>0, <2>3, FaultStep
<1> QED BY <1>2, <1>3 DEF CoverEnds

\* Judged complete, nothing is owed: what failed before the pass began came in
\* with it, and nothing failed since.
LEMMA JudgeFaults == ASSUME PassInv, Typed', FaultInv, Judge PROVE FaultInv'
<1> DEFINE verdict == /\ pass.complete /\ pass.clean
                      /\ (IF pass.walked # {} THEN pass.since ELSE 0) <= faultFloor
           judged == [pass EXCEPT !.pc = "judged", !.complete = verdict]
<1>0. Typed /\ pass \in PassState /\ pass.pc = "drain" /\ saving.by # "pass"
  BY DEF PassInv, Saver, Typed, TasksTyped, Judge
<1>1. /\ Due' = Due /\ Grows /\ UNCHANGED <<relays, held, walks, faulted, worker, saving>>
  BY DueStays DEF Judge, Grows, network, bounds
<1>2. IF verdict
        THEN historyComplete' = TRUE /\ pass' = judged
        ELSE Fault(pass.since, judged)
  BY DEF Judge
<1>3. /\ pass'.pc = "judged" /\ pass'.atStart = pass.atStart
      /\ IF verdict THEN pass'.clean = pass.clean ELSE ~pass'.clean
  <2> HIDE DEF verdict
  <2> QED BY <1>0, <1>2 DEF Fault, PassState
<1>4. Locker'
  BY <1>0, <1>1, <1>3 DEF Locker
<1>5. CASE verdict
  <2>1. \A p \in faulted : p[1] \in held \/ p[2] \in walks
    <3>1. Brought /\ pass.walked \subseteq walks
      BY <1>0, <1>5 DEF PassInv, Judged, PassStart
    <3>2. \A p \in faulted : p[2] \in Relay /\ p[1] \in pass.atStart[p[2]]
      BY <1>0, <1>5, OwedHasASecond DEF FaultInv, FaultsSeen
    <3> QED BY <3>1, <3>2 DEF Brought
  <2>2. FaultsSeen'
    BY <1>0, <1>1, <1>3, <1>5 DEF FaultInv, FaultsSeen
  <2>3. FaultsKept' /\ Owed' = {}
    BY <1>1, <2>1 DEF FaultsKept, Owed
  <2> QED BY <2>2, <2>3 DEF FaultInv, FloorCovers, OwedIsStored
<1>6. CASE ~verdict
  <2>1. pass.since \in Nat
    BY <1>0, Numbers DEF PassState
  <2>2. faultFloor' <= faultFloor /\ ~historyComplete' /\ ~pass'.clean
    BY <1>0, <1>2, <1>3, <1>6, <2>1, FaultLowers
  <2>3. Keeps({})
    BY <1>1, <1>4, <2>2 DEF Keeps
  <2> QED BY <1>0, <2>3, FaultStep
<1> QED BY <1>5, <1>6

LEMMA SettleFaults == ASSUME PassInv, Typed', FaultInv, Settle PROVE FaultInv'
<1>0. Typed /\ pass \in PassState /\ pass.pc = "settle" /\ saving.by # "pass"
  BY DEF PassInv, Saver, Typed, TasksTyped, Settle
<1>1. /\ Due' = Due /\ Grows /\ UNCHANGED <<faulted, worker, saving>>
  BY DueStays DEF Settle, Grows, network, bounds
<1>2. CASE Fault(pass.since, [pass EXCEPT !.pc = "regress"])
  <2>1. pass'.pc = "regress" /\ ~pass'.clean
    BY <1>0, <1>2 DEF Fault, PassState
  <2>2. pass.since \in Nat
    BY <1>0, Numbers DEF PassState
  <2>3. faultFloor' <= faultFloor /\ ~historyComplete'
    BY <1>0, <1>2, <2>2, FaultLowers
  <2>4. Locker'
    BY <1>0, <1>1, <2>1 DEF Locker
  <2>5. Keeps({})
    BY <1>1, <2>1, <2>3, <2>4 DEF Keeps
  <2> QED BY <1>0, <2>5, FaultStep
<1>3. CASE pass' = NoPass /\ UNCHANGED <<faultFloor, historyComplete>>
  <2>1. pass'.pc = "idle"
    BY <1>3 DEF NoPass
  <2>2. Locker => Locker'
    BY <1>0, <1>1 DEF Locker
  <2>3. Keeps({})
    BY <1>0, <1>1, <1>3, <2>1, <2>2, NoneMissed
  <2> QED BY <1>0, <2>3, FaultStep
<1> QED BY <1>2, <1>3 DEF Settle, Returns

\* After a crash nobody remembers a fault the stored cursor is not below; the
\* others are asked for again.
LEMMA CrashFaults == ASSUME FaultInv, Crash PROVE FaultInv'
<1>1. /\ pass'.pc = "idle" /\ ~historyComplete' /\ saving'.by = "nobody" /\ saved' = saved
      /\ faulted' = {p \in faulted : saved < At[p[1]]} /\ UNCHANGED relays
  BY DEF Crash, NoPass, NotSaving, network, disk
<1>2. \A p \in faulted' : p \in faulted /\ Due' < At[p[1]]
  BY <1>1 DEF Due
<1>3. FaultsSeen' /\ FaultsKept'
  BY <1>1, <1>2 DEF FaultInv, FaultsSeen, FaultsKept
<1>4. FloorCovers' /\ OwedIsStored'
  BY <1>2 DEF FloorCovers, OwedIsStored, Owed
<1> QED BY <1>3, <1>4 DEF FaultInv

LEMMA LockFaults ==
  ASSUME PassInv, FaultInv, PassLocks \/ WorkerLocks \/ \E r \in Relay : WalkerLocks(r)
  PROVE  FaultInv'
<1>1. PICK who \in Relay \cup {"pass", "worker"} : Locks(who)
  BY DEF PassLocks, WorkerLocks, WalkerLocks
<1>2. UNCHANGED <<relays, held, walks, faulted, historyComplete, faultFloor, pass>>
  BY DEF PassLocks, WorkerLocks, WalkerLocks, network, disk, memory, bounds
<1> QED BY <1>1, <1>2, LockStep

LEMMA FaultInvInit == Init => FaultInv
<1> SUFFICES ASSUME Init PROVE FaultInv
  OBVIOUS
<1>1. faulted = {}
  BY DEF Init
<1> QED BY <1>1 DEF FaultInv, FaultsSeen, FaultsKept, FloorCovers, OwedIsStored, Owed

LEMMA FaultInvStep == PassInv /\ PassInv' /\ FaultInv /\ [Next]_vars => FaultInv'
<1> SUFFICES ASSUME PassInv, PassInv', FaultInv, [Next]_vars PROVE FaultInv'
  OBVIOUS
<1>0. Typed'
  BY DEF PassInv
<1>1. CASE PassWorks
  BY <1>0, <1>1, BeginPassFaults, QuietFaults, LockFaults, PassStoresFaults, CoverEndsFaults, JudgeFaults,
     SettleFaults DEF PassWorks
<1>2. CASE WorkerWorks \/ LiveFails
  BY <1>0, <1>2, QuietFaults, WorkerFaults, LockFaults DEF WorkerWorks
<1>3. CASE WatchdogRuns \/ UNCHANGED vars
  BY <1>0, <1>3, QuietFaults
<1>4. CASE Crash
  BY <1>4, CrashFaults
<1>5. ASSUME NEW r \in Relay, WalkerWorks(r) \/ Unreachable(r) \/ QueryFails(r) \/ ImportFails(r) PROVE FaultInv'
  BY <1>0, <1>5, WalkerFaults, LockFaults DEF WalkerWorks
<1>6. ASSUME NEW r \in Relay, Subscribes(r) \/ SocketDrops(r) \/ (\E e \in Event : Publish(e, r)) PROVE FaultInv'
  BY <1>0, <1>6, QuietFaults
<1> QED BY <1>1, <1>2, <1>3, <1>4, <1>5, <1>6 DEF Next

LEMMA FaultInvAlways == Spec => []FaultInv
<1> QED BY PassInvAlways, FaultInvInit, FaultInvStep, PTL DEF Spec

\* History is never called complete over an event whose import failed, live or
\* in a pass, and which a relay that reconciles held: the pass that is judged
\* complete fetched it (record_replay_fault, mark_history_complete).
THEOREM FaultsAreKept == Spec => []FaultsKept
<1>1. FaultInv => FaultsKept
  BY DEF FaultInv
<1> QED BY <1>1, FaultInvAlways, PTL

\* With nothing under way the stored cursor is below every event that failed
\* and is still missing: a restart asks for it again (persist_cursor).
THEOREM FaultsArePersisted == Spec => []FaultPersisted
<1>1. FaultInv => FaultPersisted
  <2> SUFFICES ASSUME FaultInv, pass.pc = "idle", worker.pc = "idle", saving = NotSaving, NEW p \in Owed
               PROVE  saved < At[p[1]]
    BY DEF FaultPersisted, Owed
  <2>1. Due = saved /\ ~Locker
    BY DEF Due, Locker, NotSaving
  <2> QED BY <2>1 DEF FaultInv, OwedIsStored
<1> QED BY <1>1, FaultInvAlways, PTL

-----------------------------------------------------------------------------
(* The first walk, resumed below a stored floor.                           *)

\* The relays a pass may have to walk: those that refuse NIP-77, and every one
\* when sockets can fail before they answer.
Walkable == IF MaxDown = 0 THEN Relay \ Reconciling ELSE Relay

\* One relay at most is walked, and no import fails where one is: two walkers
\* share one floor, and a failed import clears the floor but no `until` read
\* from it earlier.
WalkedAlone == Walkable = {} \/ (MaxFail = 0 /\ \A q, r \in Walkable : q = r)

FirstHeld == \A r \in Relay : origin[r] \subseteq held

\* Above the second f, what the walked relay held at the first start is stored,
\* or with a relay (holding `has`) that every pass reconciles.
Above(f, has) ==
  f # None => \A r \in Walkable : \A e \in origin[r] :
                f < At[e] => e \in held \/ \E q \in Relay \ Walkable : e \in has[q]

OriginStays ==
  /\ \A r \in Relay : origin[r] \subseteq relays[r]
  /\ pass.pc # "idle" => \A r \in Relay : origin[r] \subseteq pass.atStart[r]
MarkedHolds == bootstrapped \/ (\E c \in Caller : calls[c].pc = "mark") => FirstHeld
\* A task imports what its relay holds.
OwnPages ==
  \A r \in Relay : /\ walker[r].pc = "fetch" => walker[r].page \subseteq relays[r]
                   /\ walker[r].pc = "import" => walker[r].new \subseteq relays[r]
\* A call for a first walk, and the pass it runs, reach back to the beginning.
FirstReachesBack ==
  /\ \A c \in Caller : calls[c].first => calls[c].since <= 1
  /\ pass.pc # "idle" => /\ calls[pass.by].pc = "running"
                         /\ calls[pass.by].first \/ pass.track => pass.since <= 1
\* Whoever starts from a floor has nothing to look for above it.
Floors ==
  /\ Above(storedFloor, relays)
  /\ \A c \in Caller : Above(calls[c].until, relays)
  /\ pass.pc # "idle" => Above(pass.floor, relays) /\ Above(pass.until, pass.atStart)
\* The walk goes down only in a pass that has not failed.
WalksClean ==
  /\ walks \subseteq Walkable
  /\ pass.pc = "begun" => pass.complete
  /\ Walkable # {} /\ pass.pc \in {"begun", "cover"} => pass.clean
  /\ pass.pc = "cover" /\ ~pass.complete => \A r \in Walkable : walker[r].pc = "done"
  /\ Walkable # {} => /\ worker.pc # "failed"
                      /\ \A r \in Relay : walker[r].pc \notin {"saving", "failed"}
VerdictStands == pass.pc \in {"judged", "settle"} /\ historyComplete => pass.complete

FloorInv ==
  /\ OriginStays /\ MarkedHolds /\ OwnPages /\ FirstReachesBack
  /\ Floors /\ WalksClean /\ VerdictStands

\* A step of anyone but the taking of backfill_lock: floors and calls come from
\* those there were, and the pass goes on or is over.
CallFollows(c) ==
  /\ calls[c].pc # "running" \/ pass'.pc = "idle"
  /\ calls'[c].pc = "mark" => FirstHeld
  /\ calls'[c].until \in {None, storedFloor, calls[c].until}
  /\ calls'[c].first => calls'[c].since <= 1
PassFollows ==
  /\ pass.pc # "idle"
  /\ pass'.by = pass.by /\ pass'.since = pass.since /\ pass'.until = pass.until
  /\ pass'.track = pass.track /\ pass'.atStart = pass.atStart
  /\ pass'.floor = pass.floor \/ Above(pass'.floor, relays)
Follows ==
  /\ UNCHANGED origin /\ Grows
  /\ bootstrapped' => bootstrapped \/ FirstHeld
  /\ storedFloor' = storedFloor \/ Above(storedFloor', relays)
  /\ \A c \in Caller : calls'[c] = calls[c] \/ CallFollows(c)
  /\ pass'.pc = "idle" \/ PassFollows

LEMMA AboveStays ==
  ASSUME NEW f, NEW has, NEW more, Above(f, has), held \subseteq held',
         \A q \in Relay : has[q] \subseteq more[q]
  PROVE  f # None => \A r \in Walkable : \A e \in origin[r] :
           f < At[e] => e \in held' \/ \E q \in Relay \ Walkable : e \in more[q]
  BY DEF Above

LEMMA FollowsKeeps ==
  ASSUME PassInv, FloorInv, Follows
  PROVE  OriginStays' /\ MarkedHolds' /\ FirstReachesBack' /\ Floors'
<1> USE DEF Follows
<1>1. OriginStays'
  BY DEF FloorInv, OriginStays, PassFollows, Grows
<1>2. MarkedHolds'
  <2>1. FirstHeld => FirstHeld'
    BY DEF FirstHeld, Grows
  <2> QED BY <2>1 DEF FloorInv, MarkedHolds, CallFollows
<1>3. FirstReachesBack'
  <2>1. \A c \in Caller : calls'[c].first => calls'[c].since <= 1
    BY DEF FloorInv, FirstReachesBack, CallFollows
  <2>2. ASSUME pass'.pc # "idle"
        PROVE  calls'[pass'.by].pc = "running" /\ (calls'[pass'.by].first \/ pass'.track => pass'.since <= 1)
    <3>1. PassFollows /\ pass.by \in Caller
      BY <2>2 DEF PassInv, Typed, TasksTyped, PassState
    <3>2. calls'[pass.by] = calls[pass.by]
      BY <2>2, <3>1 DEF FloorInv, FirstReachesBack, CallFollows, PassFollows
    <3> QED BY <3>1, <3>2 DEF FloorInv, FirstReachesBack, PassFollows
  <2> QED BY <2>1, <2>2 DEF FirstReachesBack
<1>4. Floors'
  <2>0. held \subseteq held' /\ \A q \in Relay : relays[q] \subseteq relays'[q]
    BY DEF Grows
  <2>1. ASSUME NEW f, f = None \/ Above(f, relays)
        PROVE  f # None => \A r \in Walkable : \A e \in origin'[r] :
                 f < At[e] => e \in held' \/ \E q \in Relay \ Walkable : e \in relays'[q]
    BY <2>0, <2>1, AboveStays
  <2>2. \A c \in Caller : Above(calls[c].until, relays)
    BY DEF FloorInv, Floors
  <2>3. Above(storedFloor, relays)
    BY DEF FloorInv, Floors
  <2>4. Above(storedFloor, relays)'
    <3>1. storedFloor' = None \/ Above(storedFloor', relays)
      BY <2>3
    <3> QED BY <2>1, <3>1 DEF Above
  <2>5. ASSUME NEW c \in Caller PROVE Above(calls[c].until, relays)'
    <3>1. calls'[c].until = None \/ Above(calls'[c].until, relays)
      BY <2>2, <2>3 DEF CallFollows
    <3> QED BY <2>1, <3>1 DEF Above
  <2>6. ASSUME pass'.pc # "idle" PROVE Above(pass.floor, relays)' /\ Above(pass.until, pass.atStart)'
    <3>1. PassFollows /\ Above(pass.floor, relays) /\ Above(pass.until, pass.atStart)
      BY <2>6 DEF FloorInv, Floors, PassFollows
    <3>2. Above(pass'.floor, relays)
      BY <3>1 DEF PassFollows
    <3>3. Above(pass.floor, relays)'
      BY <2>1, <3>2 DEF Above
    <3>4. Above(pass.until, pass.atStart)'
      BY <2>0, <3>1 DEF Above, PassFollows
    <3> QED BY <3>3, <3>4
  <2> QED BY <2>4, <2>5, <2>6 DEF Floors
<1> QED BY <1>1, <1>2, <1>3, <1>4

\* What a fault leaves.
LEMMA FaultClears ==
  ASSUME NEW at, NEW p \in PassState, Fault(at, p)
  PROVE  /\ storedFloor' = None /\ ~historyComplete'
         /\ pass'.pc = p.pc /\ pass'.by = p.by /\ pass'.since = p.since /\ pass'.until = p.until
         /\ pass'.track = p.track /\ pass'.floor = p.floor /\ pass'.atStart = p.atStart
         /\ pass'.complete = p.complete
  BY DEF Fault, PassState

LEMMA NoFloor == ASSUME NEW has PROVE Above(None, has)
  BY DEF Above

\* A step beside the pass that may be a fault.
MayFault == UNCHANGED <<pass, storedFloor, historyComplete>> \/ \E at : Fault(at, pass)

LEMMA MayFaultFollows ==
  ASSUME Typed, MayFault
  PROVE  /\ storedFloor' = storedFloor \/ Above(storedFloor', relays)
         /\ pass'.pc = "idle" \/ PassFollows
         /\ pass'.pc = pass.pc /\ pass'.complete = pass.complete
         /\ historyComplete' => historyComplete
<1>0. pass \in PassState
  BY DEF Typed, TasksTyped
<1>1. CASE UNCHANGED <<pass, storedFloor, historyComplete>>
  BY <1>1 DEF PassFollows
<1>2. ASSUME NEW at, Fault(at, pass)
      PROVE  /\ storedFloor' = storedFloor \/ Above(storedFloor', relays)
             /\ pass'.pc = "idle" \/ PassFollows
             /\ pass'.pc = pass.pc /\ pass'.complete = pass.complete
             /\ historyComplete' => historyComplete
  BY <1>0, <1>2, FaultClears, NoFloor DEF PassFollows
<1> QED BY <1>1, <1>2 DEF MayFault

\* A step that asks for nothing and ends nothing.
LEMMA QuietFollows ==
  ASSUME Typed, UNCHANGED <<origin, bootstrapped, calls>>, Grows, MayFault
  PROVE  Follows
  BY MayFaultFollows DEF Follows

LEMMA MarkFollows ==
  ASSUME PassInv, FloorInv, NEW c \in Caller, MarkBootstrapped(c)
  PROVE  Follows /\ MayFault
<1>1. FirstHeld
  BY DEF MarkBootstrapped, FloorInv, MarkedHolds
<1>2. /\ UNCHANGED <<origin, storedFloor, pass, historyComplete>> /\ Grows
      /\ calls' = [calls EXCEPT ![c] = NoCall] /\ calls[c].pc = "mark"
  BY DEF MarkBootstrapped, network, bounds, memory, Grows
<1>3. \A d \in Caller : calls'[d] = calls[d] \/ CallFollows(d)
  BY <1>2 DEF CallFollows, NoCall, None, PassInv, Typed, TasksTyped
<1>4. MayFault
  BY <1>2 DEF MayFault
<1> QED BY <1>1, <1>2, <1>3, <1>4, MayFaultFollows DEF Follows, PassInv

\* A call for a pass: since the cursor, or the whole walk below the stored floor.
LEMMA AskFollows ==
  ASSUME PassInv, FloorInv, NEW c \in Caller, NEW since, NEW until, NEW first,
         calls[c].pc = "none", until \in {None, storedFloor}, first => since <= 1,
         calls' = [calls EXCEPT ![c] = [pc |-> "waiting", since |-> since, until |-> until, first |-> first]]
  PROVE  \A d \in Caller : calls'[d] = calls[d] \/ CallFollows(d)
<1>1. calls'[c] = [pc |-> "waiting", since |-> since, until |-> until, first |-> first]
  BY DEF PassInv, Typed, TasksTyped
<1>2. CallFollows(c)
  BY <1>1 DEF CallFollows
<1> QED BY <1>2 DEF PassInv, Typed, TasksTyped

LEMMA SubscribesFollows ==
  ASSUME PassInv, FloorInv, NEW r \in Relay, Subscribes(r)
  PROVE  Follows /\ MayFault
<1>1. /\ UNCHANGED <<origin, storedFloor, pass, historyComplete, bootstrapped>> /\ Grows
  BY DEF Subscribes, network, disk, memory, bounds, Grows
<1>2. MayFault
  BY <1>1 DEF MayFault
<1>3. \A d \in Caller : calls'[d] = calls[d] \/ CallFollows(d)
  <2>1. CASE UNCHANGED calls
    BY <2>1
  <2>2. CASE /\ ~Resuming
             /\ calls' = [calls EXCEPT !["catchup"] =
                  [pc |-> "waiting", since |-> IF bootstrapped THEN cursor + 1 ELSE 1,
                   until |-> IF bootstrapped THEN None ELSE storedFloor, first |-> ~bootstrapped]]
    <3>1. ~bootstrapped => (IF bootstrapped THEN cursor + 1 ELSE 1) <= 1
      OBVIOUS
    <3>2. (IF bootstrapped THEN None ELSE storedFloor) \in {None, storedFloor}
      OBVIOUS
    <3>3. calls["catchup"].pc = "none" /\ "catchup" \in Caller
      BY <2>2 DEF Resuming, Caller
    <3> DEFINE since == IF bootstrapped THEN cursor + 1 ELSE 1
               until == IF bootstrapped THEN None ELSE storedFloor
    <3>4. calls' = [calls EXCEPT !["catchup"] =
            [pc |-> "waiting", since |-> since, until |-> until, first |-> ~bootstrapped]]
      BY <2>2
    <3> HIDE DEF since, until
    <3>5. (~bootstrapped => since <= 1) /\ until \in {None, storedFloor}
      BY <3>1, <3>2 DEF since, until
    <3> QED BY <3>3, <3>4, <3>5, AskFollows
  <2> QED BY <2>1, <2>2 DEF Subscribes
<1> QED BY <1>1, <1>2, <1>3, MayFaultFollows DEF Follows, PassInv

LEMMA WatchdogFollows ==
  ASSUME PassInv, FloorInv, WatchdogRuns
  PROVE  Follows /\ MayFault
<1>1. /\ UNCHANGED <<origin, storedFloor, pass, historyComplete, bootstrapped>> /\ Grows
      /\ calls["watchdog"].pc = "none" /\ "watchdog" \in Caller
  BY DEF WatchdogRuns, network, disk, memory, Grows, Caller
<1>2. MayFault
  BY <1>1 DEF MayFault
<1>3. PICK since, until, first :
        /\ calls' = [calls EXCEPT !["watchdog"] =
                       [pc |-> "waiting", since |-> since, until |-> until, first |-> first]]
        /\ until \in {None, storedFloor} /\ (first => since <= 1)
  <2> DEFINE asked(since, until, first) ==
        /\ calls' = [calls EXCEPT !["watchdog"] =
                       [pc |-> "waiting", since |-> since, until |-> until, first |-> first]]
        /\ until \in {None, storedFloor} /\ (first => since <= 1)
  <2>1. \/ asked(saved, None, FALSE) \/ asked(1, storedFloor, TRUE) \/ asked(cursor + 1, None, FALSE)
    BY DEF WatchdogRuns
  <2> HIDE DEF asked
  <2>2. \E since, until, first : asked(since, until, first)
    BY <2>1, Zenon
  <2> QED BY <2>2, Zenon DEF asked
<1>4. \A d \in Caller : calls'[d] = calls[d] \/ CallFollows(d)
  BY <1>1, <1>3, AskFollows
<1> QED BY <1>1, <1>2, <1>4, MayFaultFollows DEF Follows, PassInv

LEMMA BesideFollows ==
  ASSUME PassInv, FloorInv, Beside
  PROVE  Follows /\ MayFault
<1>0. Typed /\ Grows /\ walker' = walker
  BY BesideStands DEF PassInv
<1>1. CASE PassLocks \/ WorkerLocks \/ UNCHANGED vars
  <2>1. UNCHANGED <<origin, bootstrapped, calls, pass, storedFloor, historyComplete>>
    BY <1>1 DEF PassLocks, WorkerLocks, vars, network, disk, memory
  <2> QED BY <1>0, <2>1, QuietFollows DEF MayFault
<1>2. ASSUME NEW r \in Relay, WalkerLocks(r) \/ SocketDrops(r) \/ \E e \in Event : Publish(e, r)
      PROVE  Follows /\ MayFault
  <2>1. UNCHANGED <<origin, bootstrapped, calls, pass, storedFloor, historyComplete>>
    BY <1>2 DEF WalkerLocks, SocketDrops, Publish, network, disk, memory
  <2> QED BY <1>0, <2>1, QuietFollows DEF MayFault
<1>3. ASSUME NEW e \in Event, LiveTakes(e) PROVE Follows /\ MayFault
  <2>1. UNCHANGED <<origin, bootstrapped, calls, pass, storedFloor, historyComplete>>
    BY <1>3 DEF LiveTakes, network, disk
  <2> QED BY <1>0, <2>1, QuietFollows DEF MayFault
<1>4. CASE LiveImports \/ LiveFails \/ WorkerStores
  <2>1. UNCHANGED <<origin, bootstrapped, calls>>
    BY <1>4 DEF LiveImports, LiveFails, WorkerStores, network
  <2>2. MayFault
    BY <1>4 DEF LiveImports, LiveFails, WorkerStores, MayFault
  <2> QED BY <1>0, <2>1, <2>2, QuietFollows
<1>5. CASE (\E c \in Caller : MarkBootstrapped(c)) \/ WatchdogRuns \/ \E r \in Relay : Subscribes(r)
  BY <1>5, MarkFollows, WatchdogFollows, SubscribesFollows
<1> QED BY <1>1, <1>2, <1>3, <1>4, <1>5 DEF Beside, WorkerWorks

\* Where a relay is walked, no event is left out and no import fails.
LEMMA NoneLeftOut ==
  ASSUME MaxFail = 0, Typed, NEW new
  PROVE  ~(fails < MaxFail) /\ LeftOut(new) = {{}}
  BY DEF Typed, BoundsTyped, LeftOut

LEMMA BesideFloor ==
  ASSUME WalkedAlone, PassInv, FloorInv, Beside
  PROVE  FloorInv'
<1>0. Typed /\ PassStands /\ Grows /\ walker' = walker
  BY BesideStands DEF PassInv
<1>1. Follows /\ MayFault
  BY BesideFollows
<1>2. OwnPages'
  BY <1>0 DEF FloorInv, OwnPages, Grows
<1>3. VerdictStands'
  BY <1>0, <1>1, MayFaultFollows DEF FloorInv, VerdictStands
<1>4. UNCHANGED walks
  <2>1. CASE PassLocks \/ WatchdogRuns \/ WorkerLocks \/ UNCHANGED vars
    BY <2>1 DEF PassLocks, WatchdogRuns, WorkerLocks, vars, bounds
  <2>2. CASE \/ \E c \in Caller : MarkBootstrapped(c)
             \/ \E r \in Relay : WalkerLocks(r) \/ Subscribes(r) \/ SocketDrops(r) \/ \E e \in Event : Publish(e, r)
    BY <2>2 DEF MarkBootstrapped, WalkerLocks, Subscribes, SocketDrops, Publish, bounds
  <2>3. CASE LiveImports \/ LiveFails \/ WorkerStores \/ \E e \in Event : LiveTakes(e)
    BY <2>3 DEF LiveImports, LiveFails, WorkerStores, LiveTakes, bounds
  <2> QED BY <2>1, <2>2, <2>3 DEF Beside, WorkerWorks
<1>5. ASSUME Walkable # {} PROVE UNCHANGED pass /\ worker'.pc # "failed"
  <2>0. MaxFail = 0 /\ worker.pc # "failed" /\ worker \in [pc : {"idle", "import", "failed", "landed"}, event : SUBSET Event]
    BY <1>0, <1>5 DEF WalkedAlone, FloorInv, WalksClean, Typed, TasksTyped
  <2>1. CASE PassLocks \/ WatchdogRuns \/ WorkerLocks \/ UNCHANGED vars
    BY <2>0, <2>1 DEF PassLocks, WatchdogRuns, WorkerLocks, vars
  <2>2. CASE \/ \E c \in Caller : MarkBootstrapped(c)
             \/ \E r \in Relay : WalkerLocks(r) \/ Subscribes(r) \/ SocketDrops(r) \/ \E e \in Event : Publish(e, r)
    BY <2>0, <2>2 DEF MarkBootstrapped, WalkerLocks, Subscribes, SocketDrops, Publish
  <2>3. CASE LiveFails
    BY <1>0, <2>0, <2>3, NoneLeftOut DEF LiveFails
  <2>4. CASE LiveImports
    <3>1. LeftOut(worker.event) = {{}}
      BY <1>0, <2>0, NoneLeftOut
    <3> QED BY <2>0, <2>4, <3>1 DEF LiveImports
  <2>5. CASE WorkerStores
    BY <2>0, <2>5 DEF WorkerStores, NoWork
  <2>6. ASSUME NEW e \in Event, LiveTakes(e) PROVE UNCHANGED pass /\ worker'.pc # "failed"
    BY <2>6 DEF LiveTakes
  <2> QED BY <2>1, <2>2, <2>3, <2>4, <2>5, <2>6 DEF Beside, WorkerWorks
<1>6. WalksClean'
  BY <1>0, <1>4, <1>5 DEF FloorInv, WalksClean, PassStands
<1> QED BY <1>1, <1>2, <1>3, <1>6, FollowsKeeps DEF FloorInv

-----------------------------------------------------------------------------
(* The tasks of the relays, and the floor they store.                      *)

\* A task changes neither the calls nor what the pass is for.
LEMMA TaskFollows ==
  ASSUME PassInv, NEW r \in Relay, WalkerWorks(r) \/ Unreachable(r) \/ QueryFails(r) \/ ImportFails(r),
         ~WalkDown(r), ~WalkerLocks(r)
  PROVE  Follows
<1>0. Typed /\ Saver /\ pass \in PassState
  BY DEF PassInv, Typed, TasksTyped
<1>1. CASE Negotiate(r)
  <2>1. Grows /\ PassFollows
    BY <1>0, <1>1 DEF Negotiate, WalkerAt, PassFollows, PassState, network, disk, bounds, Grows
  <2> QED BY <1>1, <2>1 DEF Negotiate, network, disk, Follows
<1>2. CASE Refused(r) \/ Unreachable(r)
  <2>1. WalkInstead(r)
    BY <1>2 DEF Refused, Unreachable
  <2>2. Grows /\ PassFollows
    BY <1>0, <2>1 DEF WalkInstead, WalkerAt, PassFollows, PassState, network, disk, Grows
  <2> QED BY <2>1, <2>2 DEF WalkInstead, network, disk, Follows
<1>3. ASSUME NEW events, pass.pc = "cover", Ingests(r, events) PROVE Follows
  <2>1. Grows /\ PassFollows
    BY <1>0, <1>3 DEF Ingests, PassFollows, PassState, network, disk, bounds, Grows
  <2> QED BY <1>3, <2>1 DEF Ingests, network, disk, Follows
<1>4. CASE QueryPage(r) \/ Fetch(r)
  BY <1>3, <1>4 DEF QueryPage, Fetch, WalkerAt
<1>5. CASE QueryFails(r)
  <2>1. Grows /\ PassFollows
    BY <1>0, <1>5 DEF QueryFails, PassFollows, PassState, network, disk, Grows
  <2> QED BY <1>5, <2>1 DEF QueryFails, network, disk, Follows
<1>6. CASE Import(r)
  <2>1. Grows
    BY <1>0, <1>6, ImportMoves DEF Grows, WalkerMoves
  <2>2. MayFault /\ UNCHANGED <<origin, bootstrapped, calls>>
    BY <1>6 DEF Import, MayFault, network
  <2> QED BY <1>0, <2>1, <2>2, QuietFollows
<1>7. CASE ImportFails(r)
  <2>1. Grows
    BY <1>0, <1>7, ImportFailsMoves DEF Grows, WalkerMoves
  <2>2. MayFault /\ UNCHANGED <<origin, bootstrapped, calls>>
    BY <1>7 DEF ImportFails, MayFault, network
  <2> QED BY <1>0, <2>1, <2>2, QuietFollows
<1>8. CASE WalkerStores(r)
  <2>1. Grows
    BY <1>0, <1>8, StoresMoves DEF Grows
  <2>2. MayFault /\ UNCHANGED <<origin, bootstrapped, calls>>
    BY <1>8 DEF WalkerStores, MayFault, network, memory
  <2> QED BY <1>0, <2>1, <2>2, QuietFollows
<1> QED BY <1>1, <1>2, <1>4, <1>5, <1>6, <1>7, <1>8 DEF WalkerWorks

\* What the others' tasks import, and where the pass is, stay.
LEMMA TaskLeaves ==
  ASSUME FloorInv, NEW r \in Relay, WalkerMoves(r), walks' \subseteq Walkable,
         walker'[r].pc = "fetch" => walker'[r].page \subseteq relays[r],
         walker'[r].pc = "import" => walker'[r].new \subseteq relays[r],
         Walkable # {} => /\ pass.clean => pass'.clean
                          /\ walker'[r].pc \notin {"saving", "failed"},
         pass'.complete \/ (walker[r].pc = "done" => walker'[r].pc = "done"),
         ~pass'.complete /\ pass.complete => \A q \in Walkable : walker'[q].pc = "done"
  PROVE  OwnPages' /\ WalksClean' /\ VerdictStands'
<1>1. /\ pass.pc = "cover" /\ pass'.pc = "cover" /\ (pass'.complete => pass.complete)
      /\ \A q \in Relay \ {r} : walker'[q] = walker[q]
      /\ UNCHANGED <<relays, worker>>
  BY DEF WalkerMoves
<1>2. OwnPages'
  BY <1>1 DEF FloorInv, OwnPages
<1>3. ASSUME ~pass'.complete, NEW q \in Walkable PROVE walker'[q].pc = "done"
  <2>1. CASE pass.complete
    BY <1>3, <2>1
  <2>2. CASE ~pass.complete
    <3>1. walker[q].pc = "done" /\ q \in Relay
      BY <1>1, <2>2 DEF FloorInv, WalksClean, Walkable
    <3>2. CASE q = r
      BY <1>3, <3>1, <3>2
    <3>3. CASE q # r
      BY <1>1, <3>1, <3>3
    <3> QED BY <3>2, <3>3
  <2> QED BY <2>1, <2>2
<1>4. ASSUME Walkable # {} PROVE pass'.clean /\ worker'.pc # "failed"
  BY <1>1, <1>4 DEF FloorInv, WalksClean
<1>5. ASSUME Walkable # {}, NEW q \in Relay PROVE walker'[q].pc \notin {"saving", "failed"}
  BY <1>1, <1>5 DEF FloorInv, WalksClean
<1>6. WalksClean'
  BY <1>1, <1>3, <1>4, <1>5 DEF WalksClean
<1>7. VerdictStands'
  BY <1>1 DEF VerdictStands
<1> QED BY <1>2, <1>6, <1>7

LEMMA NegotiateFloor ==
  ASSUME WalkedAlone, PassInv, FloorInv, NEW r \in Relay, Negotiate(r)
  PROVE  OwnPages' /\ WalksClean' /\ VerdictStands'
<1>1. /\ WalkerMoves(r) /\ walks' = walks /\ pass'.complete = pass.complete /\ pass'.clean = pass.clean
      /\ walker[r].pc = "negotiate"
      /\ \/ walker'[r].pc = "fetch" /\ walker'[r].page = relays[r] \ (held \cup pass.claimed)
         \/ walker'[r].pc = "done"
  BY NegotiateMoves DEF PassInv
<1> QED BY <1>1, TaskLeaves DEF FloorInv, WalksClean

LEMMA WalkInsteadFloor ==
  ASSUME WalkedAlone, PassInv, FloorInv, NEW r \in Relay, Refused(r) \/ Unreachable(r)
  PROVE  OwnPages' /\ WalksClean' /\ VerdictStands'
<1>1. /\ WalkerMoves(r) /\ walks' = walks \cup {r}
      /\ pass'.complete = pass.complete /\ pass'.clean = pass.clean
      /\ walker[r].pc = "negotiate" /\ walker'[r].pc = "page"
  BY WalkInsteadMoves DEF PassInv
<1>2. r \in Walkable
  <2>1. CASE Refused(r)
    BY <2>1 DEF Refused, Walkable
  <2>2. CASE Unreachable(r)
    <3>1. MaxDown # 0
      BY <2>2, Numbers DEF Unreachable, PassInv, Typed, BoundsTyped
    <3> QED BY <3>1 DEF Walkable
  <2> QED BY <2>1, <2>2
<1>3. walks' \subseteq Walkable
  BY <1>1, <1>2 DEF FloorInv, WalksClean
<1> QED BY <1>1, <1>3, TaskLeaves

LEMMA IngestsFloor ==
  ASSUME WalkedAlone, PassInv, FloorInv, NEW r \in Relay, QueryPage(r) \/ Fetch(r)
  PROVE  OwnPages' /\ WalksClean' /\ VerdictStands'
<1>1. PICK events \in SUBSET Event :
        Ingests(r, events) /\ events \subseteq relays[r] /\ pass.pc = "cover" /\ walker[r].pc # "done"
  <2>1. CASE QueryPage(r)
    <3>1. PICK page \in Pages(r) : Ingests(r, page)
      BY <2>1 DEF QueryPage
    <3>2. page \in SUBSET Event /\ page \subseteq relays[r]
      BY PageIsRange DEF PassInv, Pages
    <3> QED BY <2>1, <3>1, <3>2 DEF QueryPage, WalkerAt
  <2>2. CASE Fetch(r)
    <3>1. walker[r].page \in SUBSET Event
      BY DEF PassInv, Typed, TasksTyped, WalkerState
    <3>2. walker[r].page \subseteq relays[r]
      BY <2>2 DEF Fetch, WalkerAt, FloorInv, OwnPages
    <3> QED BY <2>2, <3>1, <3>2 DEF Fetch, WalkerAt
  <2> QED BY <2>1, <2>2
<1>2. /\ WalkerMoves(r) /\ walks' = walks /\ pass'.complete = pass.complete /\ pass'.clean = pass.clean
      /\ walker'[r].pc = "import" /\ walker'[r].new = events \ pass.seen
  BY <1>1, IngestsMoves DEF PassInv
<1> QED BY <1>1, <1>2, TaskLeaves DEF FloorInv, WalksClean

LEMMA QueryFailsFloor ==
  ASSUME WalkedAlone, PassInv, FloorInv, NEW r \in Relay, QueryFails(r)
  PROVE  OwnPages' /\ WalksClean' /\ VerdictStands'
<1>1. /\ WalkerMoves(r) /\ walks' = walks /\ walker'[r].pc = "done"
  BY QueryFailsMoves DEF PassInv
<1>2. pass'.clean = pass.clean
  BY DEF QueryFails, PassInv, Typed, TasksTyped, PassState
<1>3. \A q \in Walkable : walker'[q].pc = "done"
  <2>1. MaxDown # 0
    BY Numbers DEF QueryFails, PassInv, Typed, BoundsTyped
  <2>2. Walkable = Relay
    BY <2>1 DEF Walkable
  <2>3. \A q \in Walkable : q = r
    BY <2>2 DEF WalkedAlone
  <2> QED BY <1>1, <2>3
<1> QED BY <1>1, <1>2, <1>3, TaskLeaves DEF FloorInv, WalksClean

LEMMA ImportFloor ==
  ASSUME WalkedAlone, PassInv, FloorInv, NEW r \in Relay, Import(r)
  PROVE  OwnPages' /\ WalksClean' /\ VerdictStands'
<1>1. /\ WalkerMoves(r) /\ walks' = walks /\ pass'.complete = pass.complete
      /\ walker[r].pc = "import" /\ walker'[r].pc \in {"imported", "done"}
  BY ImportMoves DEF PassInv
<1>2. ASSUME Walkable # {} PROVE pass'.clean = pass.clean
  <2>1. LeftOut(walker[r].new) = {{}}
    BY <1>2, NoneLeftOut DEF WalkedAlone, PassInv
  <2> QED BY <2>1 DEF Import
<1> QED BY <1>1, <1>2, TaskLeaves DEF FloorInv, WalksClean

LEMMA ImportFailsFloor ==
  ASSUME WalkedAlone, PassInv, FloorInv, NEW r \in Relay, ImportFails(r)
  PROVE  OwnPages' /\ WalksClean' /\ VerdictStands'
<1>1. /\ WalkerMoves(r) /\ walks' = walks /\ walker'[r].pc = "saving" /\ walker[r].pc = "import"
  BY ImportFailsMoves DEF PassInv
<1>2. Walkable = {}
  BY NoneLeftOut DEF WalkedAlone, ImportFails, PassInv
<1> QED BY <1>1, <1>2, TaskLeaves DEF FloorInv, WalksClean

LEMMA WalkerStoresFloor ==
  ASSUME WalkedAlone, PassInv, FloorInv, NEW r \in Relay, WalkerStores(r)
  PROVE  OwnPages' /\ WalksClean' /\ VerdictStands'
<1>1. /\ pass.pc = "cover" /\ UNCHANGED <<pass, held, walks, relays, worker>>
      /\ walker[r].pc = "saving" /\ walker'[r].pc = "failed"
      /\ \A q \in Relay \ {r} : walker'[q] = walker[q]
  BY StoresMoves DEF PassInv
<1>2. Walkable = {}
  BY <1>1 DEF FloorInv, WalksClean
<1>3. OwnPages'
  BY <1>1 DEF FloorInv, OwnPages
<1> QED BY <1>1, <1>2, <1>3 DEF FloorInv, WalksClean, VerdictStands

\* The oldest second of a page is a floor: what the relay held at the first
\* start above it has been seen by this pass, or by an earlier one.
LEMMA OldestIsAFloor ==
  ASSUME WalkedAlone, PassInv, FloorInv, NEW r \in Relay, WalkDown(r), pass.track,
         Cardinality(walker[r].page) = PageLimit
  PROVE  Above(Oldest(walker[r].page), relays)
<1>1. /\ WalkerMoves(r) /\ walker[r].pc = "imported" /\ pass.pc = "cover"
  BY WalkDownMoves DEF PassInv, WalkerMoves
<1>2. r \in Walkable /\ r \in pass.walked
  BY <1>1 DEF PassInv, Covered, Covers, PassStart, FloorInv, WalksClean
<1>3. pass.complete /\ pass.clean
  BY <1>1, <1>2 DEF FloorInv, WalksClean
<1>4. SeenLands /\ WalkedIsSeen
  BY <1>1, <1>3 DEF PassInv, OnItsWay
<1>5. PICK o \in walker[r].page : Oldest(walker[r].page) = At[o]
  <2>1. walker[r].page \in SUBSET Event
    BY DEF PassInv, Typed, TasksTyped, WalkerState
  <2> QED BY <2>1, FullPage, OldestIsLeast
<1>6. o \in Event /\ LastSecond \in Nat /\ \A e \in Event : At[e] \in 1..LastSecond
  BY HistoryConstants DEF PassInv, Typed, TasksTyped, WalkerState
<1>7. ASSUME NEW e \in origin[r], At[o] < At[e]
      PROVE  e \in held \/ \E q \in Relay \ Walkable : e \in relays[q]
  <2>0. e \in Event /\ e \in pass.atStart[r] /\ At[e] \in Nat /\ At[o] \in Nat /\ 1 <= At[e]
    BY <1>1, <1>6 DEF FloorInv, OriginStays, PassInv, Typed, RelaysTyped
  <2>1. CASE InRange(e)
    <3>1. e \in pass.seen \/ StillBelow(r, e)
      BY <1>2, <1>4, <2>0, <2>1 DEF WalkedIsSeen
    <3>2. ~StillBelow(r, e)
      <4>1. ~(At[e] <= At[o])
        BY <1>7, <2>0
      <4> QED BY <1>1, <4>1 DEF StillBelow
    <3>3. e \in held \/ Getting(e)
      BY <1>4, <3>1, <3>2 DEF SeenLands
    <3>4. ASSUME NEW q \in Relay, walker[q].pc = "import", e \in walker[q].new
          PROVE  q \notin Walkable /\ e \in relays[q]
      <4>1. q # r /\ e \in relays[q]
        BY <1>1, <3>4 DEF FloorInv, OwnPages
      <4> QED BY <1>2, <4>1 DEF WalkedAlone
    <3> QED BY <3>3, <3>4 DEF Getting
  <2>2. CASE ~InRange(e)
    <3>1. pass.since <= 1 /\ pass.since \in Nat
      BY <1>1, Numbers DEF FloorInv, FirstReachesBack, PassInv, Typed, TasksTyped, PassState
    <3>2. pass.until # None /\ pass.until < At[e]
      BY <2>0, <2>2, <3>1, Numbers DEF InRange, PassInv, Typed, TasksTyped, PassState
    <3>3. e \in held \/ \E q \in Relay \ Walkable : e \in pass.atStart[q]
      BY <1>1, <1>2, <3>2 DEF FloorInv, Floors, Above
    <3> QED BY <1>1, <3>3 DEF PassInv, PassStart
  <2> QED BY <2>1, <2>2
<1>8. \A s \in Walkable : s = r
  BY <1>2 DEF WalkedAlone
<1> QED BY <1>5, <1>7, <1>8 DEF Above

LEMMA WalkDownFloor ==
  ASSUME WalkedAlone, PassInv, FloorInv, NEW r \in Relay, WalkDown(r)
  PROVE  Follows /\ OwnPages' /\ WalksClean' /\ VerdictStands'
<1>0. /\ WalkerMoves(r) /\ UNCHANGED <<held, walks>> /\ walker[r].pc = "imported"
      /\ walker'[r].pc \in {"done", "page"} /\ pass.pc = "cover" /\ pass \in PassState
  BY WalkDownMoves DEF PassInv, WalkerMoves, Typed, TasksTyped
<1>1. UNCHANGED <<origin, bootstrapped, calls>> /\ Grows
  BY <1>0 DEF WalkDown, network, Grows
<1>2. r \in Walkable /\ pass.complete
  BY <1>0 DEF PassInv, Covered, Covers, PassStart, FloorInv, WalksClean
<1>3. \A q \in Walkable : q = r
  BY <1>2 DEF WalkedAlone
<1> DEFINE oldest == Oldest(walker[r].page)
           floor == IF pass.floor = None THEN oldest ELSE Least(pass.floor, oldest)
<1>4. CASE UNCHANGED <<pass, storedFloor>>
  <2>1. PassFollows
    BY <1>0, <1>4 DEF PassFollows
  <2>2. Follows
    BY <1>1, <1>4, <2>1 DEF Follows
  <2> QED BY <1>0, <1>4, <2>2, TaskLeaves DEF FloorInv, WalksClean
<1>5. CASE /\ pass' = [pass EXCEPT !.complete = FALSE] /\ UNCHANGED storedFloor
           /\ walker' = [walker EXCEPT ![r].pc = "done"]
  <2>1. PassFollows /\ pass'.clean = pass.clean /\ ~pass'.complete
    BY <1>0, <1>5 DEF PassFollows, PassState
  <2>2. Follows
    BY <1>1, <1>5, <2>1 DEF Follows
  <2>3. walker'[r].pc = "done"
    BY <1>5 DEF PassInv, Typed, TasksTyped, WalkerState
  <2>4. \A q \in Walkable : walker'[q].pc = "done"
    BY <1>3, <2>3
  <2> QED BY <1>0, <2>1, <2>2, <2>4, TaskLeaves DEF FloorInv, WalksClean
<1>6. CASE /\ Cardinality(walker[r].page) = PageLimit /\ pass.track
           /\ pass' = [pass EXCEPT !.floor = floor] /\ storedFloor' = floor
  <2>1. Above(oldest, relays) /\ Above(pass.floor, relays)
    BY <1>0, <1>6, OldestIsAFloor DEF FloorInv, Floors
  <2>2. floor \in {oldest, pass.floor}
    BY DEF Least
  <2> HIDE DEF floor, oldest
  <2>3. Above(floor, relays)
    BY <2>1, <2>2
  <2>4. /\ pass'.pc = pass.pc /\ pass'.clean = pass.clean /\ pass'.complete = pass.complete
        /\ pass'.floor = floor /\ PassFollows
    BY <1>0, <1>6, <2>3 DEF PassFollows, PassState
  <2>5. Follows
    BY <1>1, <1>6, <2>3, <2>4 DEF Follows
  <2> QED BY <1>0, <2>4, <2>5, TaskLeaves DEF FloorInv, WalksClean
<1> QED BY <1>4, <1>5, <1>6 DEF WalkDown

LEMMA TaskFloor ==
  ASSUME WalkedAlone, PassInv, FloorInv, NEW r \in Relay,
         WalkerWorks(r) \/ Unreachable(r) \/ QueryFails(r) \/ ImportFails(r), ~WalkerLocks(r)
  PROVE  FloorInv'
<1>1. Follows
  BY TaskFollows, WalkDownFloor
<1>2. OwnPages' /\ WalksClean' /\ VerdictStands'
  BY NegotiateFloor, WalkInsteadFloor, IngestsFloor, QueryFailsFloor, ImportFloor, ImportFailsFloor,
     WalkerStoresFloor, WalkDownFloor DEF WalkerWorks
<1> QED BY <1>1, <1>2, FollowsKeeps DEF FloorInv

-----------------------------------------------------------------------------
(* The steps of the pass, a crash, and the mark.                           *)

LEMMA BeginPassFloor ==
  ASSUME WalkedAlone, PassInv, FloorInv, NEW c \in Caller, BeginPass(c)
  PROVE  FloorInv'
<1> DEFINE since == Least(calls[c].since, faultFloor)
<1>0. /\ calls \in [Caller -> CallState] /\ calls[c] \in CallState
      /\ calls[c].since \in Nat /\ faultFloor \in Nat
  <2>1. calls \in [Caller -> CallState] /\ faultFloor \in 0..Never
    BY DEF PassInv, Typed, TasksTyped, CursorTyped
  <2>2. calls[c] \in CallState
    BY <2>1
  <2>3. calls[c].since \in Seconds
    BY <2>2 DEF CallState
  <2> QED BY <2>1, <2>2, <2>3, Numbers
<1>1. /\ calls[c].pc = "waiting" /\ pass.pc = "idle"
      /\ calls' = [calls EXCEPT ![c].pc = "running"] /\ ~historyComplete'
      /\ UNCHANGED <<relays, origin, held, bootstrapped, storedFloor, worker, walker, walks>>
  BY DEF BeginPass, network, disk, bounds
<1>2. /\ pass'.pc = "begun" /\ pass'.by = c /\ pass'.since = since /\ pass'.until = calls[c].until
      /\ pass'.track = (calls[c].since <= 1) /\ pass'.complete /\ pass'.clean
      /\ pass'.floor = calls[c].until /\ pass'.atStart = relays
  BY DEF BeginPass, NoPass
<1>3. since <= calls[c].since
  BY <1>0, LeastIsOne
<1>4. /\ calls'[c].pc = "running" /\ calls'[c].first = calls[c].first
      /\ calls'[c].until = calls[c].until /\ calls'[c].since = calls[c].since
      /\ \A d \in Caller \ {c} : calls'[d] = calls[d]
  BY <1>0, <1>1 DEF CallState
<1>5. OriginStays'
  BY <1>1, <1>2 DEF FloorInv, OriginStays
<1>6. MarkedHolds'
  BY <1>1, <1>4 DEF FloorInv, MarkedHolds, FirstHeld
<1>7. OwnPages'
  BY <1>1 DEF FloorInv, OwnPages
<1>8. FirstReachesBack'
  <2>1. \A d \in Caller : calls'[d].first => calls'[d].since <= 1
    BY <1>4 DEF FloorInv, FirstReachesBack
  <2>2. calls[c].since <= 1 => since <= 1
    <3> HIDE DEF since
    <3>1. since \in Nat
      BY <1>0, LeastIsOne DEF since
    <3> QED BY <1>0, <1>3, <3>1
  <2>3. calls[c].first \/ pass'.track => since <= 1
    BY <1>2, <2>2 DEF FloorInv, FirstReachesBack
  <2> HIDE DEF since
  <2> QED BY <1>2, <1>4, <2>1, <2>3 DEF FirstReachesBack
<1>9. Floors'
  <2>1. Above(storedFloor, relays) /\ \A d \in Caller : Above(calls[d].until, relays)
    BY DEF FloorInv, Floors
  <2>2. \A d \in Caller : calls'[d].until = calls[d].until
    BY <1>4
  <2>3. \A d \in Caller : Above(calls[d].until, relays)'
    BY <1>1, <2>1, <2>2 DEF Above
  <2>4. Above(storedFloor, relays)'
    BY <1>1, <2>1 DEF Above
  <2>5. Above(pass.floor, relays)' /\ Above(pass.until, pass.atStart)'
    BY <1>1, <1>2, <2>1 DEF Above
  <2> QED BY <2>3, <2>4, <2>5 DEF Floors
<1>10. WalksClean'
  BY <1>1, <1>2 DEF FloorInv, WalksClean
<1>11. VerdictStands'
  BY <1>1, <1>2 DEF VerdictStands
<1> QED BY <1>5, <1>6, <1>7, <1>8, <1>9, <1>10, <1>11 DEF FloorInv

\* A pass that returns without a verdict leaves its caller with no call.
LEMMA EndsFollow ==
  ASSUME PassInv, FloorInv, pass' = NoPass, UNCHANGED <<origin, bootstrapped, storedFloor>>, Grows,
         NEW call, calls' = [calls EXCEPT ![pass.by] = call],
         \/ call = NoCall
         \/ FirstHeld /\ call = [calls[pass.by] EXCEPT !.pc = "mark"]
  PROVE  Follows
<1>0. calls \in [Caller -> CallState] /\ calls[pass.by] \in CallState /\ pass.by \in Caller
  BY DEF PassInv, Typed, TasksTyped, PassState
<1>1. pass'.pc = "idle"
  BY DEF NoPass
<1>2. \A c \in Caller \ {pass.by} : calls'[c] = calls[c]
  BY <1>0
<1>3. calls'[pass.by] = call
  BY <1>0
<1>4. CallFollows(pass.by)
  <2>1. CASE call = NoCall
    BY <1>1, <1>3, <2>1 DEF CallFollows, NoCall
  <2>2. CASE FirstHeld /\ call = [calls[pass.by] EXCEPT !.pc = "mark"]
    <3>1. call.until = calls[pass.by].until /\ call.first = calls[pass.by].first
          /\ call.since = calls[pass.by].since
      BY <1>0, <2>2 DEF CallState
    <3> QED BY <1>0, <1>1, <1>3, <2>2, <3>1 DEF CallFollows, FloorInv, FirstReachesBack
  <2> QED BY <2>1, <2>2
<1> QED BY <1>0, <1>1, <1>2, <1>4 DEF Follows

LEMMA PassStoresFloor ==
  ASSUME WalkedAlone, PassInv, FloorInv, PassStores
  PROVE  FloorInv'
<1>0. /\ UNCHANGED <<relays, origin, held, bootstrapped, storedFloor, historyComplete, worker, walks>>
      /\ Grows /\ pass \in PassState
  BY DEF PassStores, network, memory, bounds, Grows, PassInv, Typed, TasksTyped
<1>1. CASE /\ pass.pc = "begun" /\ pass' = [pass EXCEPT !.pc = "cover"] /\ UNCHANGED calls
           /\ walker' = [r \in Relay |-> [NoWalker EXCEPT !.pc = "negotiate", !.until = pass.until]]
  <2>1. /\ pass'.pc = "cover" /\ pass'.complete = pass.complete /\ pass'.clean = pass.clean /\ PassFollows
    BY <1>0, <1>1 DEF PassFollows, PassState
  <2>2. Follows
    BY <1>0, <1>1, <2>1 DEF Follows
  <2>3. \A r \in Relay : walker'[r].pc = "negotiate"
    BY <1>1 DEF NoWalker
  <2>4. OwnPages' /\ VerdictStands'
    BY <2>1, <2>3 DEF OwnPages, VerdictStands
  <2>5. WalksClean'
    BY <1>0, <1>1, <2>1, <2>3 DEF FloorInv, WalksClean
  <2> QED BY <2>2, <2>4, <2>5, FollowsKeeps DEF FloorInv
<1>2. CASE pass.pc = "judged" /\ pass' = [pass EXCEPT !.pc = "settle"] /\ UNCHANGED <<calls, walker>>
  <2>1. /\ pass'.pc = "settle" /\ pass'.complete = pass.complete /\ pass'.clean = pass.clean /\ PassFollows
    BY <1>0, <1>2 DEF PassFollows, PassState
  <2>2. Follows
    BY <1>0, <1>2, <2>1 DEF Follows
  <2>3. OwnPages' /\ VerdictStands' /\ WalksClean'
    BY <1>0, <1>2, <2>1 DEF FloorInv, OwnPages, VerdictStands, WalksClean
  <2> QED BY <2>2, <2>3, FollowsKeeps DEF FloorInv
<1>3. CASE Returns(FALSE, pass.pc = "error") /\ UNCHANGED walker
  <2>1. pass' = NoPass /\ calls' = [calls EXCEPT ![pass.by] = NoCall]
    BY <1>3 DEF Returns
  <2>2. Follows
    BY <1>0, <2>1, EndsFollow
  <2>3. OwnPages' /\ VerdictStands' /\ WalksClean'
    BY <1>0, <1>3, <2>1 DEF FloorInv, OwnPages, VerdictStands, WalksClean, NoPass
  <2> QED BY <2>2, <2>3, FollowsKeeps DEF FloorInv
<1> QED BY <1>1, <1>2, <1>3 DEF PassStores

LEMMA CoverEndsFloor ==
  ASSUME WalkedAlone, PassInv, FloorInv, CoverEnds
  PROVE  FloorInv'
<1>0. /\ UNCHANGED <<relays, origin, held, bootstrapped, calls, worker, walks>>
      /\ Grows /\ pass \in PassState /\ [pass EXCEPT !.pc = "error"] \in PassState
      /\ pass.pc = "cover" /\ walker' = [r \in Relay |-> NoWalker]
  <2>1. pass \in PassState /\ [pass EXCEPT !.pc = "error"] \in PassState
    BY DEF PassInv, Typed, TasksTyped, PassState
  <2> QED BY <2>1 DEF CoverEnds, network, bounds, Grows
<1>1. /\ PassFollows /\ pass'.pc \in {"error", "drain"}
      /\ storedFloor' = storedFloor \/ Above(storedFloor', relays)
  <2>1. CASE Fault(1, [pass EXCEPT !.pc = "error"])
    <3>1. /\ storedFloor' = None /\ pass'.pc = "error" /\ pass'.by = pass.by /\ pass'.since = pass.since
          /\ pass'.until = pass.until /\ pass'.track = pass.track /\ pass'.floor = pass.floor
          /\ pass'.atStart = pass.atStart
      BY <1>0, <2>1, FaultClears DEF PassState
    <3> QED BY <1>0, <3>1, NoFloor DEF PassFollows
  <2>2. CASE pass' = [pass EXCEPT !.pc = "drain"] /\ UNCHANGED storedFloor
    BY <1>0, <2>2 DEF PassFollows, PassState
  <2> QED BY <2>1, <2>2 DEF CoverEnds
<1>2. Follows
  BY <1>0, <1>1 DEF Follows
<1>3. \A r \in Relay : walker'[r].pc = "idle"
  BY <1>0 DEF NoWalker
<1>4. OwnPages' /\ VerdictStands' /\ WalksClean'
  BY <1>0, <1>1, <1>3 DEF FloorInv, OwnPages, VerdictStands, WalksClean
<1> QED BY <1>2, <1>4, FollowsKeeps DEF FloorInv

LEMMA JudgeFloor ==
  ASSUME WalkedAlone, PassInv, FloorInv, Judge
  PROVE  FloorInv'
<1> DEFINE verdict == /\ pass.complete /\ pass.clean
                      /\ (IF pass.walked # {} THEN pass.since ELSE 0) <= faultFloor
           judged == [pass EXCEPT !.pc = "judged", !.complete = verdict]
<1>0. /\ UNCHANGED <<relays, origin, held, bootstrapped, calls, worker, walks, walker>>
      /\ Grows /\ pass \in PassState /\ pass.pc = "drain"
  BY DEF Judge, network, bounds, Grows, PassInv, Typed, TasksTyped
<1>1. \/ verdict /\ historyComplete' /\ storedFloor' \in {None, storedFloor} /\ pass' = judged
      \/ ~verdict /\ Fault(pass.since, judged)
  BY DEF Judge
<1>2. verdict \in BOOLEAN
  OBVIOUS
<1> HIDE DEF verdict
<1>3. /\ judged \in PassState /\ judged.pc = "judged" /\ judged.by = pass.by /\ judged.since = pass.since
      /\ judged.until = pass.until /\ judged.track = pass.track /\ judged.floor = pass.floor
      /\ judged.atStart = pass.atStart /\ judged.complete = verdict
  BY <1>0, <1>2 DEF PassState
<1> HIDE DEF judged
<1>4. /\ PassFollows /\ pass'.pc = "judged" /\ (historyComplete' => pass'.complete)
      /\ storedFloor' = storedFloor \/ Above(storedFloor', relays)
  <2>1. CASE Fault(pass.since, judged)
    <3>1. /\ storedFloor' = None /\ ~historyComplete'
          /\ pass'.pc = judged.pc /\ pass'.by = judged.by /\ pass'.since = judged.since
          /\ pass'.until = judged.until /\ pass'.track = judged.track /\ pass'.floor = judged.floor
          /\ pass'.atStart = judged.atStart
      BY <1>3, <2>1, FaultClears
    <3> QED BY <1>0, <1>3, <3>1, NoFloor DEF PassFollows
  <2>2. CASE verdict /\ storedFloor' \in {None, storedFloor} /\ pass' = judged
    BY <1>0, <1>3, <2>2, NoFloor DEF PassFollows
  <2> QED BY <1>1, <2>1, <2>2
<1>5. Follows
  BY <1>0, <1>4 DEF Follows
<1>6. OwnPages' /\ VerdictStands' /\ WalksClean'
  BY <1>0, <1>4 DEF FloorInv, OwnPages, VerdictStands, WalksClean
<1> QED BY <1>5, <1>6, FollowsKeeps DEF FloorInv

\* A first walk that its check found complete holds what it was for.
LEMMA FirstWalkHolds ==
  ASSUME PassInv, FloorInv, pass.pc = "settle", pass.complete, calls[pass.by].first
  PROVE  FirstHeld
<1>1. Brought /\ pass.since <= 1 /\ pass.walked \subseteq Walkable
  BY DEF PassInv, Judged, PassStart, FloorInv, FirstReachesBack, WalksClean
<1>2. pass.since \in Nat /\ pass.until \in Nat
  BY Numbers DEF PassInv, Typed, TasksTyped, PassState
<1> SUFFICES ASSUME NEW r \in Relay, NEW e \in origin[r] PROVE e \in held
  BY DEF FirstHeld
<1>3. e \in pass.atStart[r] /\ At[e] \in Nat /\ 1 <= At[e]
  BY HistoryConstants DEF FloorInv, OriginStays, PassInv, Typed, RelaysTyped
<1>4. CASE r \in pass.walked /\ ~InRange(e)
  <2>1. pass.until # None /\ pass.until < At[e]
    BY <1>1, <1>2, <1>3, <1>4 DEF InRange
  <2>2. e \in held \/ \E q \in Relay \ Walkable : e \in pass.atStart[q]
    BY <1>1, <1>4, <2>1 DEF FloorInv, Floors, Above
  <2> QED BY <1>1, <2>2 DEF Brought
<1> QED BY <1>1, <1>3, <1>4 DEF Brought

LEMMA SettleFloor ==
  ASSUME WalkedAlone, PassInv, FloorInv, Settle
  PROVE  FloorInv'
<1>0. /\ UNCHANGED <<relays, origin, held, bootstrapped, worker, walks, walker>>
      /\ Grows /\ pass \in PassState /\ pass.pc = "settle" /\ [pass EXCEPT !.pc = "regress"] \in PassState
  BY DEF Settle, network, bounds, Grows, PassInv, Typed, TasksTyped, PassState
<1>1. CASE Fault(pass.since, [pass EXCEPT !.pc = "regress"]) /\ UNCHANGED calls
  <2>1. /\ storedFloor' = None /\ pass'.pc = "regress" /\ pass'.by = pass.by /\ pass'.since = pass.since
        /\ pass'.until = pass.until /\ pass'.track = pass.track /\ pass'.floor = pass.floor
        /\ pass'.atStart = pass.atStart
    BY <1>0, <1>1, FaultClears DEF PassState
  <2>2. Follows
    BY <1>0, <1>1, <2>1, NoFloor DEF Follows, PassFollows
  <2>3. OwnPages' /\ VerdictStands' /\ WalksClean'
    BY <1>0, <2>1 DEF FloorInv, OwnPages, VerdictStands, WalksClean
  <2> QED BY <2>2, <2>3, FollowsKeeps DEF FloorInv
<1>2. CASE Returns(historyComplete, FALSE) /\ UNCHANGED <<storedFloor, historyComplete>>
  <2>1. PICK call : /\ pass' = NoPass /\ calls' = [calls EXCEPT ![pass.by] = call]
                    /\ \/ call = NoCall
                       \/ /\ historyComplete /\ calls[pass.by].first
                          /\ call = [calls[pass.by] EXCEPT !.pc = "mark"]
    BY <1>2 DEF Returns
  <2>2. historyComplete => pass.complete
    BY <1>0 DEF FloorInv, VerdictStands
  <2>3. call = NoCall \/ (FirstHeld /\ call = [calls[pass.by] EXCEPT !.pc = "mark"])
    BY <1>0, <2>1, <2>2, FirstWalkHolds
  <2>4. Follows
    BY <1>0, <1>2, <2>1, <2>3, EndsFollow
  <2>5. OwnPages' /\ VerdictStands' /\ WalksClean'
    BY <1>0, <2>1 DEF FloorInv, OwnPages, VerdictStands, WalksClean, NoPass
  <2> QED BY <2>4, <2>5, FollowsKeeps DEF FloorInv
<1> QED BY <1>1, <1>2 DEF Settle

\* start() after a crash resumes below the stored floor.
LEMMA CrashFloor ==
  ASSUME WalkedAlone, PassInv, FloorInv, Crash
  PROVE  FloorInv'
<1>0. /\ UNCHANGED <<relays, origin, held, bootstrapped, storedFloor, walks>> /\ Grows
      /\ pass' = NoPass /\ walker' = [r \in Relay |-> NoWalker] /\ worker' = NoWork
      /\ calls' = StartCalls(bootstrapped, saved, storedFloor)
  BY DEF Crash, network, disk, Grows
<1>1. pass'.pc = "idle" /\ worker'.pc = "idle" /\ \A r \in Relay : walker'[r].pc = "idle"
  BY <1>0 DEF NoPass, NoWork, NoWalker
<1>2. \A c \in Caller : CallFollows(c)
  <2>1. ASSUME NEW c \in Caller, c # "start" PROVE calls'[c] = NoCall
    BY <1>0, <2>1 DEF StartCalls
  <2>2. CallFollows("start")
    <3>1. bootstrapped \in BOOLEAN /\ "start" \in Caller
      BY DEF PassInv, Typed, CursorTyped, Caller
    <3>2. CASE bootstrapped
      BY <1>0, <1>1, <3>1, <3>2 DEF StartCalls, CallFollows
    <3>3. CASE ~bootstrapped
      BY <1>0, <1>1, <3>1, <3>3 DEF StartCalls, CallFollows
    <3> QED BY <3>2, <3>3
  <2>3. ASSUME NEW c \in Caller, c # "start" PROVE CallFollows(c)
    BY <1>1, <2>1, <2>3 DEF CallFollows, NoCall
  <2> QED BY <2>2, <2>3
<1>3. Follows
  BY <1>0, <1>1, <1>2 DEF Follows
<1>4. OwnPages' /\ VerdictStands' /\ WalksClean'
  BY <1>0, <1>1 DEF FloorInv, OwnPages, VerdictStands, WalksClean
<1> QED BY <1>3, <1>4, FollowsKeeps DEF FloorInv

LEMMA FloorInvInit == Init => FloorInv
<1> SUFFICES ASSUME Init PROVE FloorInv
  OBVIOUS
<1>1. /\ origin = relays /\ ~bootstrapped /\ storedFloor = None /\ ~historyComplete /\ walks = {}
      /\ pass.pc = "idle" /\ worker.pc = "idle" /\ \A r \in Relay : walker[r].pc = "idle"
  BY DEF Init, NoPass, NoWork, NoWalker
<1>2. \A c \in Caller : /\ calls[c].pc \in {"none", "waiting"} /\ calls[c].until = None
                        /\ calls[c].since <= 1
  BY DEF Init, StartCalls, NoCall, None
<1>3. FirstReachesBack /\ MarkedHolds
  BY <1>1, <1>2 DEF FirstReachesBack, MarkedHolds
<1>4. Floors
  BY <1>1, <1>2, NoFloor DEF Floors
<1> QED BY <1>1, <1>3, <1>4 DEF FloorInv, OriginStays, OwnPages, WalksClean, VerdictStands

LEMMA FloorInvStep == WalkedAlone => (PassInv /\ FloorInv /\ [Next]_vars => FloorInv')
<1> SUFFICES ASSUME WalkedAlone, PassInv, FloorInv, [Next]_vars PROVE FloorInv'
  OBVIOUS
<1>1. CASE Beside
  BY <1>1, BesideFloor
<1>2. CASE PassWorks
  <2>1. CASE PassLocks \/ \E c \in Caller : MarkBootstrapped(c)
    BY <1>1, <2>1 DEF Beside
  <2> QED BY <1>2, <2>1, BeginPassFloor, PassStoresFloor, CoverEndsFloor, JudgeFloor, SettleFloor DEF PassWorks
<1>3. CASE Crash
  BY <1>3, CrashFloor
<1>4. ASSUME NEW r \in Relay, WalkerWorks(r) \/ Unreachable(r) \/ QueryFails(r) \/ ImportFails(r)
      PROVE  FloorInv'
  <2>1. CASE WalkerLocks(r)
    BY <1>1, <2>1 DEF Beside
  <2> QED BY <1>4, <2>1, TaskFloor
<1>5. CASE WorkerWorks \/ LiveFails \/ WatchdogRuns \/ UNCHANGED vars
  BY <1>1, <1>5 DEF Beside
<1>6. ASSUME NEW r \in Relay, Subscribes(r) \/ SocketDrops(r) \/ (\E e \in Event : Publish(e, r)) PROVE FloorInv'
  BY <1>1, <1>6 DEF Beside
<1> QED BY <1>2, <1>3, <1>4, <1>5, <1>6 DEF Next

\* A device marked as bootstrapped holds all that the relays held when it first
\* started, through any number of crashes in the middle of the walk and floors
\* it resumes below, where one relay at most is walked (WalkedAlone).
THEOREM FullWalksHold == ASSUME WalkedAlone PROVE Spec => []FullWalkHolds
<1>1. FloorInv => FullWalkHolds
  BY DEF FloorInv, MarkedHolds, FirstHeld, FullWalkHolds
<1>2. PassInv /\ FloorInv /\ [Next]_vars => FloorInv'
  BY FloorInvStep
<1> QED BY <1>1, <1>2, FloorInvInit, PassInvAlways, PTL DEF Spec
=============================================================================
