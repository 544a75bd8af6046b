------------------------------- MODULE History -------------------------------
(***************************************************************************)
(* How a replica learns what the relays hold (roostr-replica/src/sync:     *)
(* history.rs, ingest.rs, live.rs, mod.rs): history passes, the live       *)
(* worker, replay faults and the persisted cursor.                         *)
(*                                                                         *)
(* A relay either reconciles (NIP-77: the whole stream, against the events *)
(* held) or is walked page by page from the newest event down.  One pass   *)
(* runs at a time; each relay is covered by its own task; live events are  *)
(* imported one at a time beside it.  Every `.await` on a lock, the store  *)
(* or a relay that another task can get between is a step boundary.  Split *)
(* (multi-part) events and their replay groups are left out, and so is     *)
(* what an imported event says; the stream's filters (bases, checkpoints,  *)
(* changes) are covered as one.                                            *)
(***************************************************************************)
EXTENDS Naturals, FiniteSets

CONSTANTS
  Event,        \* the events of the streams followed
  Old,          \* those published before the device first starts
  At,           \* created_at of each, in seconds
  LastSecond,   \* no event is younger
  Relay,
  Reconciling,  \* the relays that do not refuse NIP-77
  PageLimit,    \* events per page of a walk
  MaxCrash,     \* process crashes
  MaxFail,      \* failed imports
  MaxDown       \* failed queries and dropped sockets

ASSUME HistoryConstants ==
  /\ LastSecond \in Nat /\ At \in [Event -> 1..LastSecond] /\ Old \subseteq Event
  /\ Reconciling \subseteq Relay /\ Relay # {} /\ IsFiniteSet(Event)
  /\ Relay \cap {"nobody", "pass", "worker"} = {}
  /\ PageLimit \in Nat \ {0}
  /\ MaxCrash \in Nat /\ MaxFail \in Nat /\ MaxDown \in Nat

Never == LastSecond + 2    \* i64::MAX as a floor: no fault is owed
None == 0                  \* no `until`, no stored floor, no subscription
Seconds == 0..(LastSecond + 1)
Least(a, b) == IF a < b THEN a ELSE b
Newest(events, floor) == CHOOSE n \in {At[e] : e \in events} \cup {floor} :
                            \A m \in {At[e] : e \in events} \cup {floor} : m <= n
Oldest(events) == CHOOSE n \in {At[e] : e \in events} : \A e \in events : n <= At[e]

VARIABLES
  relays,        \* events on each relay
  origin,        \* what each relay held at the device's first start
  \* --- the store (durable) ---
  held, saved, bootstrapped, storedFloor,
  \* --- the sync state (State in sync/mod.rs) ---
  cursor, historyComplete, faultFloor,
  live,          \* `since` of the live subscription on each relay; None: deaf
  dropped,       \* relays whose subscription is to come up again
  inbox,         \* live events received and not yet handled
  liveSeen,
  worker,        \* the live worker
  calls,         \* the passes asked for, by whom
  pass,          \* the pass that holds backfill_lock
  walker,        \* the pass's task for each relay
  saving,        \* who holds cursor_lock, and the value it is to store
  \* --- bounds and history ---
  crashes, fails, downs,
  faulted,       \* events not imported, and the relays that held them then
  walks          \* relays walked at least once

network == <<relays, origin>>
disk == <<held, saved, bootstrapped, storedFloor>>
memory == <<cursor, historyComplete, faultFloor>>
ears == <<live, dropped, inbox, liveSeen>>
bounds == <<crashes, fails, downs, faulted, walks>>
vars == <<network, disk, memory, ears, worker, calls, pass, walker, saving, bounds>>

Caller == {"start", "catchup", "watchdog"}
NoCall == [pc |-> "none", since |-> 0, until |-> None, first |-> FALSE]
NoPass == [pc |-> "idle", by |-> "start", since |-> 0, until |-> None, track |-> FALSE,
           complete |-> FALSE, clean |-> FALSE, walked |-> {}, seen |-> {}, claimed |-> {},
           floor |-> None, atStart |-> [r \in Relay |-> {}]]
NoWalker == [pc |-> "idle", paging |-> FALSE, until |-> None, page |-> {}, new |-> {}]
NotSaving == [by |-> "nobody", value |-> 0]
NoWork == [pc |-> "idle", event |-> {}]

TypeOK ==
  /\ relays \in [Relay -> SUBSET Event] /\ origin \in [Relay -> SUBSET Event]
  /\ held \subseteq Event /\ saved \in Seconds /\ bootstrapped \in BOOLEAN
  /\ storedFloor \in Seconds
  /\ cursor \in Seconds /\ historyComplete \in BOOLEAN /\ faultFloor \in 0..Never
  /\ live \in [Relay -> Seconds] /\ dropped \subseteq Relay
  /\ inbox \subseteq Event /\ liveSeen \subseteq Event
  /\ worker \in [pc : {"idle", "import", "failed", "landed"}, event : SUBSET Event]
  /\ calls \in [Caller -> [pc : {"none", "waiting", "running", "mark"}, since : Seconds,
                           until : Seconds, first : BOOLEAN]]
  /\ pass.pc \in {"idle", "begun", "cover", "error", "drain", "judged", "settle", "regress"}
  /\ pass.since \in Seconds /\ pass.until \in Seconds
  /\ walker \in [Relay -> [pc : {"idle", "negotiate", "page", "fetch", "import", "imported",
                                 "saving", "failed", "done"},
                           paging : BOOLEAN, until : Seconds, page : SUBSET Event, new : SUBSET Event]]
  /\ saving.by \in Relay \cup {"nobody", "pass", "worker"} /\ saving.value \in Seconds
  /\ crashes \in 0..MaxCrash /\ fails \in 0..MaxFail /\ downs \in 0..MaxDown
  /\ faulted \subseteq Event \X Relay /\ walks \subseteq Relay

\* Mutant of StartCalls: the second of the stored floor is taken to be done.
StartCallsBelow(boot, since, floor) ==
  [c \in Caller |->
    IF c = "start"
      THEN [pc |-> "waiting", since |-> IF boot THEN since + 1 ELSE 1,
            until |-> IF boot \/ floor = None THEN None ELSE floor - 1, first |-> ~boot]
      ELSE NoCall]

\* The first pass of start(): since the cursor once one full walk has completed
\* here, else from the beginning, resumed below the stored floor.
StartCalls(boot, since, floor) ==
  [c \in Caller |->
    IF c = "start"
      THEN [pc |-> "waiting", since |-> IF boot THEN since + 1 ELSE 1,
            until |-> IF boot THEN None ELSE floor, first |-> ~boot]
      ELSE NoCall]

Init ==
  /\ relays \in [Relay -> SUBSET Old] /\ origin = relays
  /\ held = {} /\ saved = 0 /\ bootstrapped = FALSE /\ storedFloor = None
  /\ cursor = 0 /\ historyComplete = FALSE /\ faultFloor = Never
  /\ live = [r \in Relay |-> None] /\ dropped = {} /\ inbox = {} /\ liveSeen = {}
  /\ worker = NoWork /\ calls = StartCalls(FALSE, 0, None)
  /\ pass = NoPass /\ walker = [r \in Relay |-> NoWalker]
  /\ saving = NotSaving
  /\ crashes = 0 /\ fails = 0 /\ downs = 0 /\ faulted = {} /\ walks = {}

-----------------------------------------------------------------------------
(* Faults and the cursor.                                                  *)

\* Mutant of Fault: the history is still called complete.
FaultKeepsHistory(at, p) ==
  /\ faultFloor' = Least(faultFloor, at)
  /\ UNCHANGED historyComplete
  /\ storedFloor' = None
  /\ pass' = [p EXCEPT !.clean = FALSE]

\* record_replay_fault: the next pass reaches back to `at`; the pass under
\* way, left as `p`, no longer is the one of the newest fault generation.
Fault(at, p) ==
  /\ faultFloor' = Least(faultFloor, at)
  /\ historyComplete' = FALSE
  /\ storedFloor' = None
  /\ pass' = [p EXCEPT !.clean = FALSE]

LiveActive == worker.pc \in {"import", "failed"}

\* Mutant of NextCursor: a fault does not move it back.
NextCursorForward == IF historyComplete /\ ~LiveActive THEN cursor ELSE saved

\* persist_cursor, under cursor_lock: back on a fault; forward once history is
\* complete and nothing is in flight.
NextCursor ==
  LET next == IF faultFloor = Never THEN cursor
              ELSE Least(cursor, IF faultFloor = 0 THEN 0 ELSE faultFloor - 1)
  IN  IF next < saved \/ (historyComplete /\ ~LiveActive) THEN next ELSE saved

Locks(who) ==
  /\ saving.by = "nobody"
  /\ saving' = [by |-> who, value |-> NextCursor]

Stores(who) ==
  /\ saving.by = who
  /\ saved' = saving.value
  /\ saving' = NotSaving

-----------------------------------------------------------------------------
(* One pass: backfill and walk_history.                                    *)

\* Mutant of BeginPass: the owed fault replaces the `since` asked for.
BeginPassAtFault(c) ==
  /\ calls[c].pc = "waiting" /\ pass.pc = "idle"
  /\ calls' = [calls EXCEPT ![c].pc = "running"]
  /\ pass' = [NoPass EXCEPT !.pc = "begun", !.by = c, !.since = faultFloor,
                !.until = calls[c].until, !.track = calls[c].since <= 1,
                !.complete = TRUE, !.clean = TRUE, !.floor = calls[c].until,
                !.atStart = relays]
  /\ historyComplete' = FALSE
  /\ UNCHANGED <<network, disk, cursor, faultFloor, ears, worker, walker, saving, bounds>>

\* A pass asked for takes backfill_lock; an owed fault lowers its `since`.
BeginPass(c) ==
  /\ calls[c].pc = "waiting" /\ pass.pc = "idle"
  /\ calls' = [calls EXCEPT ![c].pc = "running"]
  /\ LET since == Least(calls[c].since, faultFloor) IN
     /\ faultFloor' = since
     /\ pass' = [NoPass EXCEPT !.pc = "begun", !.by = c, !.since = since,
                   !.until = calls[c].until, !.track = calls[c].since <= 1,
                   !.complete = TRUE, !.clean = TRUE, !.floor = calls[c].until,
                   !.atStart = relays]
  /\ historyComplete' = FALSE
  /\ UNCHANGED <<network, disk, cursor, ears, worker, walker, saving, bounds>>

PassLocks ==
  /\ pass.pc \in {"begun", "error", "judged", "regress"}
  /\ Locks("pass")
  /\ UNCHANGED <<network, disk, memory, ears, worker, calls, pass, walker, bounds>>

\* subscribe_live: every relay is listened to anew.
Resubscribes == live' = [r \in Relay |-> None] /\ dropped' = {} /\ UNCHANGED <<inbox, liveSeen>>

\* The pass is over for its caller.  A first walk that completed is yet to be
\* marked; the watchdog subscribes again, unless the pass failed.
Returns(complete, failed) ==
  /\ pass' = NoPass
  /\ LET marks == complete /\ calls[pass.by].first IN
     /\ calls' = [calls EXCEPT ![pass.by] = IF marks THEN [@ EXCEPT !.pc = "mark"] ELSE NoCall]
     /\ IF pass.by = "watchdog" /\ ~marks /\ ~failed THEN Resubscribes ELSE UNCHANGED ears

\* The cursor is stored: the relays are covered next, or the pass goes on to
\* the check that ends it, or has ended.
PassStores ==
  /\ Stores("pass")
  /\ \/ /\ pass.pc = "begun"
        /\ pass' = [pass EXCEPT !.pc = "cover"]
        /\ walker' = [r \in Relay |-> [NoWalker EXCEPT !.pc = "negotiate", !.until = pass.until]]
        /\ UNCHANGED <<calls, ears>>
     \/ /\ pass.pc = "judged"
        /\ pass' = [pass EXCEPT !.pc = "settle"]
        /\ UNCHANGED <<walker, calls, ears>>
     \/ /\ pass.pc \in {"error", "regress"}
        /\ Returns(FALSE, pass.pc = "error")
        /\ UNCHANGED walker
  /\ UNCHANGED <<network, held, bootstrapped, storedFloor, memory, worker, bounds>>

\* Every relay's task has ended (join_all): one failed, or the judgement is due.
CoverEnds ==
  /\ pass.pc = "cover" /\ \A r \in Relay : walker[r].pc \in {"done", "failed"}
  /\ walker' = [r \in Relay |-> NoWalker]
  /\ IF \E r \in Relay : walker[r].pc = "failed"
       THEN Fault(1, [pass EXCEPT !.pc = "error"])
       ELSE /\ pass' = [pass EXCEPT !.pc = "drain"]
            /\ UNCHANGED <<faultFloor, historyComplete, storedFloor>>
  /\ UNCHANGED <<network, held, saved, bootstrapped, cursor, ears, worker, calls, saving, bounds>>

\* Mutant of Judge: a fault since the pass began is not looked for.
JudgeAnyFault ==
  /\ pass.pc = "drain" /\ ~LiveActive
  /\ LET covered == IF pass.walked # {} THEN pass.since ELSE 0
         verdict == pass.complete /\ covered <= faultFloor
         judged == [pass EXCEPT !.pc = "judged", !.complete = verdict]
     IN IF verdict
          THEN /\ historyComplete' = TRUE /\ faultFloor' = Never
               /\ storedFloor' = IF pass.track THEN None ELSE storedFloor
               /\ pass' = judged
          ELSE Fault(pass.since, judged)
  /\ UNCHANGED <<network, held, saved, bootstrapped, cursor, ears, worker, calls, walker,
                 saving, bounds>>

\* drain_inflight, then the verdict: everything covered and no fault since the
\* pass began pays what is owed, anything else is owed from `since` again.
Judge ==
  /\ pass.pc = "drain" /\ ~LiveActive
  /\ LET covered == IF pass.walked # {} THEN pass.since ELSE 0
         verdict == pass.complete /\ pass.clean /\ covered <= faultFloor
         judged == [pass EXCEPT !.pc = "judged", !.complete = verdict]
     IN IF verdict
          THEN /\ historyComplete' = TRUE /\ faultFloor' = Never
               /\ storedFloor' = IF pass.track THEN None ELSE storedFloor
               /\ pass' = judged
          ELSE Fault(pass.since, judged)
  /\ UNCHANGED <<network, held, saved, bootstrapped, cursor, ears, worker, calls, walker,
                 saving, bounds>>

\* A fault that came while the cursor was stored restores the obligation.
Settle ==
  /\ pass.pc = "settle" /\ ~LiveActive
  /\ IF pass.complete /\ ~(historyComplete /\ pass.clean)
       THEN /\ Fault(pass.since, [pass EXCEPT !.pc = "regress"])
            /\ UNCHANGED <<calls, ears>>
       ELSE /\ Returns(historyComplete, FALSE)
            /\ UNCHANGED <<faultFloor, historyComplete, storedFloor>>
  /\ UNCHANGED <<network, held, saved, bootstrapped, cursor, worker, walker, saving, bounds>>

\* mark_bootstrapped, after the pass is over.
MarkBootstrapped(c) ==
  /\ calls[c].pc = "mark"
  /\ bootstrapped' = TRUE
  /\ calls' = [calls EXCEPT ![c] = NoCall]
  /\ IF c = "watchdog" THEN Resubscribes ELSE UNCHANGED ears
  /\ UNCHANGED <<network, held, saved, storedFloor, memory, worker, pass, walker, saving, bounds>>

-----------------------------------------------------------------------------
(* One relay of the pass: reconcile_stream, or walk.                       *)

WalkerAt(r, pc) == pass.pc = "cover" /\ walker[r].pc = pc

\* The relay names what it holds and the store lacks; what another task of the
\* pass claimed is left to that task.
Negotiate(r) ==
  /\ WalkerAt(r, "negotiate") /\ r \in Reconciling
  /\ LET need == relays[r] \ (held \cup pass.claimed) IN
     /\ pass' = [pass EXCEPT !.claimed = @ \cup need]
     /\ walker' = [walker EXCEPT ![r].pc = IF need = {} THEN "done" ELSE "fetch",
                                  ![r].page = need]
  /\ UNCHANGED <<network, disk, memory, ears, worker, calls, saving, bounds>>

WalkInstead(r) ==
  /\ WalkerAt(r, "negotiate")
  /\ pass' = [pass EXCEPT !.walked = @ \cup {r}]
  /\ walks' = walks \cup {r}
  /\ walker' = [walker EXCEPT ![r].pc = "page", ![r].paging = TRUE]
  /\ UNCHANGED <<network, disk, memory, ears, worker, calls, saving, crashes, fails, faulted>>

\* The relay refuses NIP-77 and is walked.
Refused(r) == r \notin Reconciling /\ WalkInstead(r) /\ UNCHANGED downs

\* No socket, or it failed before any answer: walked too, this once.
Unreachable(r) ==
  r \in Reconciling /\ downs < MaxDown /\ downs' = downs + 1 /\ WalkInstead(r)

\* The events handed to the engine: those no task of this pass has seen.
Ingests(r, events) ==
  /\ walker' = [walker EXCEPT ![r].pc = "import", ![r].page = events, ![r].new = events \ pass.seen]
  /\ pass' = [pass EXCEPT !.seen = @ \cup events]
  /\ cursor' = Newest(events \ pass.seen, cursor)
  /\ UNCHANGED <<network, disk, historyComplete, faultFloor, ears, worker, calls, saving, bounds>>

\* A page holds the newest events in range.
Pages(r) ==
  LET until == walker[r].until
      range == {e \in relays[r] : pass.since <= At[e] /\ (until # None => At[e] <= until)}
  IN  {page \in SUBSET range :
        /\ Cardinality(page) = Least(PageLimit, Cardinality(range))
        /\ \A e \in page, other \in range \ page : At[other] <= At[e]}

QueryPage(r) ==
  /\ WalkerAt(r, "page")
  /\ \E page \in Pages(r) : Ingests(r, page)

Fetch(r) ==
  /\ WalkerAt(r, "fetch")
  /\ Ingests(r, walker[r].page)

\* The relay fails while it is asked, or after it began to reconcile: its cover
\* is incomplete.
QueryFails(r) ==
  /\ pass.pc = "cover"
  /\ walker[r].pc \in {"page", "fetch"} \/ (walker[r].pc = "negotiate" /\ r \in Reconciling)
  /\ downs < MaxDown /\ downs' = downs + 1
  /\ pass' = [pass EXCEPT !.complete = FALSE]
  /\ walker' = [walker EXCEPT ![r].pc = "done"]
  /\ UNCHANGED <<network, disk, memory, ears, worker, calls, saving, crashes, fails, faulted,
                 walks>>

\* The events one import leaves out: none, or one the engine reports a replay
\* fault for (a group of parts it had to discard).
LeftOut(new) == {{}} \cup IF fails < MaxFail THEN {{e} : e \in new} ELSE {}
MissedAt(out) == {p \in out \X Relay : p[1] \in relays[p[2]]}

\* import_page: the batch is stored; an event left out is a fault at its second.
Import(r) ==
  /\ WalkerAt(r, "import")
  /\ \E out \in LeftOut(walker[r].new) :
       /\ held' = held \cup (walker[r].new \ out)
       /\ faulted' = (faulted \ (walker[r].new \X Relay)) \cup MissedAt(out)
       /\ IF out = {}
            THEN UNCHANGED <<faultFloor, historyComplete, storedFloor, pass, fails>>
            ELSE fails' = fails + 1 /\ Fault(Oldest(out), pass)
  /\ walker' = [walker EXCEPT ![r].pc = IF walker[r].paging THEN "imported" ELSE "done"]
  /\ UNCHANGED <<network, saved, bootstrapped, cursor, ears, worker, calls, saving, crashes,
                 downs, walks>>

\* The store refuses the batch: a fault from the beginning, the cursor stored
\* back, and the pass fails.
ImportFails(r) ==
  /\ WalkerAt(r, "import") /\ fails < MaxFail /\ walker[r].new # {}
  /\ fails' = fails + 1
  /\ Fault(1, pass)
  /\ faulted' = faulted \cup MissedAt(walker[r].new \ held)
  /\ walker' = [walker EXCEPT ![r].pc = "saving"]
  /\ UNCHANGED <<network, held, saved, bootstrapped, cursor, ears, worker, calls, saving, crashes,
                 downs, walks>>

WalkerLocks(r) ==
  /\ WalkerAt(r, "saving") /\ Locks(r)
  /\ UNCHANGED <<network, disk, memory, ears, worker, calls, pass, walker, bounds>>

WalkerStores(r) ==
  /\ Stores(r)
  /\ walker' = [walker EXCEPT ![r].pc = "failed"]
  /\ UNCHANGED <<network, held, bootstrapped, storedFloor, memory, ears, worker, calls, pass, bounds>>

\* After a page: the end of the stream, a page within one second, or the next
\* page down, whose start a first walk stores.
WalkDown(r) ==
  /\ WalkerAt(r, "imported")
  /\ LET page == walker[r].page
         until == walker[r].until
         oldest == Oldest(page)
         floor == IF pass.floor = None THEN oldest ELSE Least(pass.floor, oldest)
     IN \/ /\ Cardinality(page) < PageLimit
           /\ walker' = [walker EXCEPT ![r].pc = "done"]
           /\ UNCHANGED <<pass, storedFloor>>
        \/ /\ Cardinality(page) = PageLimit /\ until # None /\ oldest >= until
           /\ walker' = [walker EXCEPT ![r].pc = "done"]
           /\ pass' = [pass EXCEPT !.complete = FALSE]
           /\ UNCHANGED storedFloor
        \/ /\ Cardinality(page) = PageLimit /\ (until = None \/ oldest < until)
           /\ walker' = [walker EXCEPT ![r].pc = "page", ![r].until = oldest]
           /\ IF pass.track
                THEN pass' = [pass EXCEPT !.floor = floor] /\ storedFloor' = floor
                ELSE UNCHANGED <<pass, storedFloor>>
  /\ UNCHANGED <<network, held, saved, bootstrapped, memory, ears, worker, calls, saving, bounds>>

-----------------------------------------------------------------------------
(* Live events.                                                            *)

\* live_since: after the cursor; a device that imported nothing listens from
\* shortly before now, whenever that is.
LiveSince == IF cursor > 0 THEN {cursor + 1} ELSE 1..LastSecond

Bootstrapping == calls["start"].pc # "none"
Resuming == calls["catchup"].pc # "none"

\* subscribe_live, and the client's reconnection: the relay sends what it holds
\* since then.  One that comes up again asks for a catch-up (after_reconnect).
Subscribes(r) ==
  /\ live[r] = None
  /\ \E since \in LiveSince :
       /\ live' = [live EXCEPT ![r] = since]
       /\ inbox' = inbox \cup {e \in relays[r] \ liveSeen : At[e] >= since}
  /\ dropped' = dropped \ {r}
  /\ IF r \in dropped /\ ~Bootstrapping /\ ~Resuming
       THEN calls' = [calls EXCEPT !["catchup"] =
              [pc |-> "waiting", since |-> IF bootstrapped THEN cursor + 1 ELSE 1,
               until |-> IF bootstrapped THEN None ELSE storedFloor, first |-> ~bootstrapped]]
       ELSE UNCHANGED calls
  /\ UNCHANGED <<network, disk, memory, liveSeen, worker, pass, walker, saving, bounds>>

SocketDrops(r) ==
  /\ live[r] # None /\ downs < MaxDown /\ downs' = downs + 1
  /\ live' = [live EXCEPT ![r] = None]
  /\ dropped' = dropped \cup {r}
  /\ UNCHANGED <<network, disk, memory, inbox, liveSeen, worker, calls, pass, walker, saving,
                 crashes, fails, faulted, walks>>

\* Another device publishes.
Publish(e, r) ==
  /\ e \notin Old /\ e \notin relays[r]
  /\ relays' = [relays EXCEPT ![r] = @ \cup {e}]
  /\ inbox' = IF live[r] # None /\ At[e] >= live[r] /\ e \notin liveSeen THEN inbox \cup {e} ELSE inbox
  /\ UNCHANGED <<origin, disk, memory, live, dropped, liveSeen, worker, calls, pass, walker, saving,
                 bounds>>

\* The single consumer takes an event; the engine's cursor follows it.
LiveTakes(e) ==
  /\ worker.pc = "idle" /\ e \in inbox
  /\ inbox' = inbox \ {e} /\ liveSeen' = liveSeen \cup {e}
  /\ worker' = [pc |-> "import", event |-> {e}]
  /\ cursor' = Newest({e}, cursor)
  /\ UNCHANGED <<network, disk, historyComplete, faultFloor, live, dropped, calls, pass, walker,
                 saving, bounds>>

LiveImports ==
  /\ worker.pc = "import"
  /\ \E out \in LeftOut(worker.event) :
       /\ held' = held \cup (worker.event \ out)
       /\ faulted' = (faulted \ (worker.event \X Relay)) \cup MissedAt(out)
       /\ IF out = {}
            THEN UNCHANGED <<faultFloor, historyComplete, storedFloor, pass, fails>>
            ELSE fails' = fails + 1 /\ Fault(Oldest(out), pass)
  /\ worker' = [worker EXCEPT !.pc = "landed"]
  /\ UNCHANGED <<network, saved, bootstrapped, cursor, ears, calls, walker, saving, crashes, downs,
                 walks>>

LiveFails ==
  /\ worker.pc = "import" /\ fails < MaxFail
  /\ fails' = fails + 1
  /\ Fault(1, pass)
  /\ faulted' = faulted \cup MissedAt(worker.event \ held)
  /\ worker' = [worker EXCEPT !.pc = "failed"]
  /\ UNCHANGED <<network, held, saved, bootstrapped, cursor, ears, calls, walker, saving, crashes,
                 downs, walks>>

WorkerLocks ==
  /\ worker.pc \in {"failed", "landed"} /\ Locks("worker")
  /\ UNCHANGED <<network, disk, memory, ears, worker, calls, pass, walker, bounds>>

\* A failed event is a fault once more when its handler sees the error.
WorkerStores ==
  /\ Stores("worker")
  /\ IF worker.pc = "failed"
       THEN Fault(1, pass) /\ worker' = [worker EXCEPT !.pc = "landed"]
       ELSE worker' = NoWork /\ UNCHANGED <<faultFloor, historyComplete, storedFloor, pass>>
  /\ UNCHANGED <<network, held, bootstrapped, cursor, ears, calls, walker, bounds>>

-----------------------------------------------------------------------------
(* The watchdog, crashes.                                                  *)

\* Mutant of WatchdogRuns: an incomplete history is nobody's concern.
WatchdogHears ==
  /\ ~Bootstrapping /\ ~Resuming /\ calls["watchdog"].pc = "none"
  /\ historyComplete /\ Newest(UNION {relays[r] : r \in Relay}, 0) > cursor
  /\ calls' = [calls EXCEPT !["watchdog"] =
                 [pc |-> "waiting", since |-> cursor + 1, until |-> None, first |-> FALSE]]
  /\ UNCHANGED <<network, disk, memory, ears, worker, pass, walker, saving, bounds>>

\* Incomplete: the pass start() would make.  Else the relays' newest event is
\* compared with the cursor; no answer drops every socket.
WatchdogRuns ==
  /\ ~Bootstrapping /\ ~Resuming /\ calls["watchdog"].pc = "none"
  /\ LET incomplete == ~historyComplete \/ faultFloor # Never
         head == Newest(UNION {relays[r] : r \in Relay}, 0)
         asks(since, until, first) ==
           calls' = [calls EXCEPT !["watchdog"] =
                      [pc |-> "waiting", since |-> since, until |-> until, first |-> first]]
     IN \/ /\ incomplete
           /\ IF bootstrapped THEN asks(saved, None, FALSE) ELSE asks(1, storedFloor, TRUE)
           /\ UNCHANGED <<live, dropped, downs>>
        \/ /\ ~incomplete /\ head > cursor
           /\ asks(cursor + 1, None, FALSE)
           /\ UNCHANGED <<live, dropped, downs>>
        \/ /\ ~incomplete /\ downs < MaxDown /\ downs' = downs + 1
           /\ asks(cursor + 1, None, FALSE)
           /\ dropped' = dropped \cup {r \in Relay : live[r] # None}
           /\ live' = [r \in Relay |-> None]
  /\ UNCHANGED <<network, disk, memory, inbox, liveSeen, worker, pass, walker, saving, crashes,
                 fails, faulted, walks>>

\* A fault that was not stored before the crash is no longer owed by anyone.
Crash ==
  /\ crashes < MaxCrash /\ crashes' = crashes + 1
  /\ cursor' = saved /\ historyComplete' = FALSE /\ faultFloor' = Never
  /\ live' = [r \in Relay |-> None] /\ dropped' = {} /\ inbox' = {} /\ liveSeen' = {}
  /\ worker' = NoWork /\ calls' = StartCalls(bootstrapped, saved, storedFloor)
  /\ pass' = NoPass /\ walker' = [r \in Relay |-> NoWalker] /\ saving' = NotSaving
  /\ faulted' = {p \in faulted : saved < At[p[1]]}
  /\ UNCHANGED <<network, disk, fails, downs, walks>>

\* What each task does when nothing it asks for fails.
PassWorks ==
  \/ \E c \in Caller : BeginPass(c) \/ MarkBootstrapped(c)
  \/ PassLocks \/ PassStores \/ CoverEnds \/ Judge \/ Settle

WalkerWorks(r) ==
  \/ Negotiate(r) \/ Refused(r) \/ QueryPage(r) \/ Fetch(r)
  \/ Import(r) \/ WalkerLocks(r) \/ WalkerStores(r) \/ WalkDown(r)

WorkerWorks == (\E e \in Event : LiveTakes(e)) \/ LiveImports \/ WorkerLocks \/ WorkerStores

Next ==
  \/ PassWorks \/ WorkerWorks \/ LiveFails \/ WatchdogRuns \/ Crash
  \/ \E r \in Relay :
       \/ WalkerWorks(r) \/ Unreachable(r) \/ QueryFails(r) \/ ImportFails(r)
       \/ Subscribes(r) \/ SocketDrops(r)
       \/ \E e \in Event : Publish(e, r)

Spec == Init /\ [][Next]_vars

\* Every task goes on when it can, and a lock is handed to each waiter in the
\* end (the mutexes queue).  Nothing has to fail.
Fairness ==
  /\ SF_vars(PassWorks) /\ \A r \in Relay : SF_vars(WalkerWorks(r)) /\ WF_vars(Subscribes(r))
  /\ SF_vars(WorkerWorks) /\ WF_vars(WatchdogRuns)

FairSpec == Spec /\ Fairness

-----------------------------------------------------------------------------
(* Properties.                                                             *)

\* A pass judged complete brought in what every relay held when it began: the
\* whole stream of one that reconciled, from `since` up to `until` of one that
\* was walked (backfill: "true only when EVERY relay covered every stream").
CompletePassHolds ==
  (pass.pc \in {"judged", "settle"} /\ pass.complete) =>
    \A r \in Relay : \A e \in pass.atStart[r] :
      \/ e \in held
      \/ r \in pass.walked /\ ~(pass.since <= At[e] /\ (pass.until # None => At[e] <= pass.until))

\* History is complete only if no event whose import failed, live or in a pass,
\* is still missing from the store (of those a relay held then that reconciles).
FaultsKept ==
  historyComplete => \A p \in faulted : p[1] \in held \/ p[2] \in walks

\* With nothing under way, the stored cursor is below every event that failed
\* and is still missing: a restart asks for it again.
FaultPersisted ==
  (pass.pc = "idle" /\ worker.pc = "idle" /\ saving = NotSaving) =>
    \A p \in faulted : p[1] \in held \/ p[2] \in walks \/ saved < At[p[1]]

\* A device marked as bootstrapped holds all that the relays held when it first
\* started, through crashes in the middle of the walk and a resumed floor.
FullWalkHolds == bootstrapped => \A r \in Relay : origin[r] \subseteq held

\* The first walk completes in the end, whatever interrupts it: the watchdog
\* walks again until one has.
Bootstraps == <>bootstrapped
=============================================================================
