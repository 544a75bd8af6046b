------------------------------- MODULE Outbox -------------------------------
(***************************************************************************)
(* The durable outbox of a replica (roostr-replica/src/sync/outbox.rs)     *)
(* with what drives it: the backend's commits, the shared-space sweep, the *)
(* orphan rebase, the start and the restart of a sync instance, and logout.*)
(*                                                                         *)
(* Every `.await` of the code is a step boundary, so two tasks interleave  *)
(* exactly where the runtime may switch them.  A change owes one           *)
(* obligation to its author's personal stream and, when its object is in a *)
(* shared space, one to the space; a relay event is the number of the      *)
(* signature that made it (sealing draws a fresh nonce, so signing twice   *)
(* gives two events).                                                      *)
(***************************************************************************)
EXTENDS Naturals

CONSTANTS
  Change,       \* the changes this device may write (DAG nodes, by id)
  Spaced,       \* those whose object belongs to a shared space
  Task,         \* slots for spawned queue tasks
  Publisher,    \* which callers of `publish` run: "commit", "sweep", "rebase"
  MaxInst,      \* sync instances per process: 1 + relay-list changes
  MaxCrash,     \* process crashes
  MaxFail,      \* failed store calls
  MaxPasses,    \* completed passes after an instance's first walk
  Compacted,    \* the changes another replica may fold into a base
  MayLogout,    \* the user may ask to log out
  WritesFrom    \* writes reach an instance "any" time, once start() "opened" its
                \* session, or once its first walk "released" the space rows

ASSUME OutboxConstants ==
  /\ Spaced \subseteq Change
  /\ Publisher \subseteq {"commit", "sweep", "rebase"}
  /\ MaxInst \in Nat \ {0} /\ MaxCrash \in Nat /\ MaxFail \in Nat /\ MaxPasses \in Nat
  /\ Compacted \subseteq Change /\ MayLogout \in BOOLEAN
  /\ WritesFrom \in {"any", "opened", "released"}

Inst == 1..MaxInst
Personal(c) == <<c, "personal">>
SpaceKey(c) == <<c, "space">>
Key == (Change \X {"personal"}) \cup (Spaced \X {"space"})
IsSpace(k) == k[2] = "space"
NoKey == <<"none", "none">>
NoChange == "none"

VARIABLES
  \* --- the change store (durable) ---
  changes,      \* local changes stored
  rebased,      \* orphans marked rebased
  pending,      \* obligations with a stored row
  events,       \* signed events in the row (0: none yet)
  published,    \* obligations marked published
  heldBase,     \* changes the current bases held here cover
  \* --- the relays ---
  relay,        \* events of each obligation on the relays
  relayBase,    \* changes some base on the relays covers
  \* --- the process ---
  inst,         \* the session's sync instance; 0: signed out
  stopped,      \* instances told to stop
  closing,      \* instances whose spawned close has not run
  owner,        \* SESSION_OWNER: whose engine session is open; 0: none
  queued,       \* the engine outbox
  hasEvents,    \* queued items the engine needs no seal for
  running,      \* instances whose queue_running is set
  walked,       \* instances whose history_walked is set
  task,         \* queue tasks
  pub,          \* callers inside `publish`
  rel,          \* start(), then release_space_pending, of each instance
  logout,
  \* --- bounds and history ---
  crashes, fails, passes,
  signed,       \* signatures made for each obligation
  written       \* every change this device ever committed

store == <<changes, rebased, pending, events, published, heldBase>>
relays == <<relay, relayBase>>
lifecycle == <<inst, stopped, closing, owner>>
engine == <<queued, hasEvents>>
bounds == <<crashes, fails, passes>>
vars == <<store, relays, lifecycle, engine, running, walked, task, pub, rel,
          logout, bounds, signed, written>>

IdleTask == [pc |-> "idle", inst |-> 0, key |-> NoKey, unsealed |-> FALSE,
             event |-> 0, sealed |-> FALSE, ok |-> FALSE]
IdlePub == [pc |-> "idle", inst |-> 0, change |-> NoChange, key |-> NoKey, owed |-> {}]
DownRel == [pc |-> "down", list |-> {}, key |-> NoKey]

\* Offers are <<key, has_events>>, as read when the offer was prepared.
Offer == Key \X BOOLEAN

TaskState ==
  [pc : {"idle", "next", "check", "read", "save", "send", "mark", "report", "leave", "look",
         "relock"},
   inst : 0..MaxInst, key : Key \cup {NoKey}, unsealed : BOOLEAN,
   event : Nat, sealed : BOOLEAN, ok : BOOLEAN]
PubState ==
  [pc : {"idle", "add", "check", "cover", "mark", "read", "save", "session", "open", "offer",
         "ensure"},
   inst : 0..MaxInst, change : Change \cup {NoChange}, key : Key \cup {NoKey},
   owed : SUBSET Offer]
RelState ==
  [pc : {"down", "list", "offer", "ensure", "walk", "settle", "held", "mark", "drop",
         "relist", "spaceOffer", "spaceEnsure", "up"},
   list : SUBSET Offer, key : Key \cup {NoKey}]

StoreOK ==
  /\ changes \subseteq Change /\ rebased \subseteq Change /\ heldBase \subseteq Change
  /\ pending \subseteq Key /\ published \subseteq Key
  /\ events \in [Key -> Nat]

ProcessOK ==
  /\ inst \in 0..MaxInst /\ owner \in 0..MaxInst
  /\ stopped \subseteq Inst /\ closing \subseteq Inst
  /\ queued \subseteq Key /\ hasEvents \subseteq Key
  /\ running \subseteq Inst /\ walked \subseteq Inst

TypeOK ==
  /\ StoreOK
  /\ relay \in [Key -> SUBSET Nat] /\ relayBase \subseteq Change
  /\ ProcessOK
  /\ task \in [Task -> TaskState]
  /\ pub \in [Publisher -> PubState]
  /\ rel \in [Inst -> RelState]
  /\ logout \in {"no", "asked", "clear", "done"}
  /\ crashes \in 0..MaxCrash /\ fails \in 0..MaxFail /\ passes \in 0..MaxPasses
  /\ signed \in [Key -> Nat] /\ written \subseteq Change

Init ==
  /\ changes = {} /\ rebased = {} /\ pending = {} /\ published = {} /\ heldBase = {}
  /\ events = [k \in Key |-> 0] /\ signed = [k \in Key |-> 0]
  /\ relay = [k \in Key |-> {}] /\ relayBase = {}
  /\ inst = 1 /\ stopped = {} /\ closing = {} /\ owner = 0
  /\ queued = {} /\ hasEvents = {} /\ running = {} /\ walked = {}
  /\ task = [t \in Task |-> IdleTask]
  /\ pub = [p \in Publisher |-> IdlePub]
  /\ rel = [i \in Inst |-> DownRel]
  /\ logout = "no" /\ crashes = 0 /\ fails = 0 /\ passes = 0 /\ written = {}

-----------------------------------------------------------------------------
(* Store transactions and engine calls, each atomic.                       *)

\* ChangeStore::save_pending: an upsert, whatever the row held.
SavePending(k, e) ==
  /\ pending' = pending \cup {k}
  /\ events' = [events EXCEPT ![k] = e]
  /\ UNCHANGED <<changes, rebased, published, heldBase>>

\* ChangeStore::mark_published: the mark set and the row deleted together.
MarkPublished(k) ==
  /\ published' = published \cup {k}
  /\ pending' = pending \ {k}
  /\ events' = [events EXCEPT ![k] = 0]
  /\ UNCHANGED <<changes, rebased, heldBase>>

SessionOpen(i) == owner = i
Live(i) == owner = i /\ i \notin stopped

\* session_open: this instance owns a fresh engine session, its outbox empty.
OpenSession(i) ==
  /\ owner' = i
  /\ queued' = {} /\ hasEvents' = {}
  /\ UNCHANGED <<inst, stopped, closing>>

\* Mistaken: the offer itself is queued, not its obligation.
EnqueueOffer(o) ==
  /\ queued' = queued \cup {o}
  /\ UNCHANGED hasEvents

\* outbox_enqueue: an obligation already queued is not queued again.
Enqueue(o) ==
  /\ queued' = queued \cup {o[1]}
  /\ hasEvents' = IF o[1] \notin queued /\ o[2] THEN hasEvents \cup {o[1]} ELSE hasEvents

\* outbox_result
Report(k, ok, sealed) ==
  /\ queued' = IF ok THEN queued \ {k} ELSE queued
  /\ hasEvents' = IF ok THEN hasEvents \ {k}
                  ELSE IF sealed /\ k \in queued THEN hasEvents \cup {k} ELSE hasEvents

\* ensure_publish_queue: at most one queue task per instance is spawned.
EnsureQueue(i) ==
  \/ i \in running \cup stopped /\ UNCHANGED <<running, task>>
  \/ /\ i \notin running \cup stopped
     /\ running' = running \cup {i}
     /\ \E t \in Task :
          /\ task[t].pc = "idle"
          /\ task' = [task EXCEPT ![t] = [IdleTask EXCEPT !.pc = "next", !.inst = i]]

-----------------------------------------------------------------------------
(* The queue task: run_publish_queue and publish_once.                     *)

TaskUnchanged == UNCHANGED <<lifecycle, walked, pub, rel, logout, crashes, passes, written>>

\* Loop head: outbox_next hands out a due item; an empty outbox, a stop or a
\* lost session leave the loop.
TaskNext(t) ==
  /\ task[t].pc = "next"
  /\ \/ /\ Live(task[t].inst)
        /\ \E k \in queued :
             task' = [task EXCEPT ![t] = [@ EXCEPT !.pc = "check", !.key = k,
                                                        !.unsealed = k \notin hasEvents]]
     \/ /\ ~Live(task[t].inst) \/ queued = {}
        /\ task' = [task EXCEPT ![t].pc = "leave"]
  /\ TaskUnchanged
  /\ UNCHANGED <<store, relays, engine, running, fails, signed>>

\* The flag falls after the engine's answer: an offer may have come between.
TaskLeave(t) ==
  /\ task[t].pc = "leave"
  /\ running' = running \ {task[t].inst}
  /\ task' = [task EXCEPT ![t].pc = "look"]
  /\ TaskUnchanged
  /\ UNCHANGED <<store, relays, engine, fails, signed>>

\* publish_once: already published (by a walk or another task) needs nothing.
TaskCheck(t) ==
  /\ task[t].pc = "check"
  /\ \/ /\ task[t].key \in published
        /\ task' = [task EXCEPT ![t] = [@ EXCEPT !.pc = "report", !.ok = TRUE]]
     \/ /\ task[t].key \notin published
        /\ task' = [task EXCEPT ![t].pc = "read"]
  /\ TaskUnchanged
  /\ UNCHANGED <<store, relays, engine, running, fails, signed>>

\* The stored row decides: no row, nothing owed; signed events are reused; an
\* unsigned row is signed now, from the seal the engine handed out.
TaskRead(t) ==
  /\ task[t].pc = "read"
  /\ LET k == task[t].key IN
     \/ /\ k \notin pending
        /\ task' = [task EXCEPT ![t] = [@ EXCEPT !.pc = "report", !.ok = TRUE]]
        /\ UNCHANGED signed
     \/ /\ k \in pending /\ events[k] # 0
        /\ task' = [task EXCEPT ![t] = [@ EXCEPT !.pc = "save", !.event = events[k]]]
        /\ UNCHANGED signed
     \/ /\ k \in pending /\ events[k] = 0 /\ task[t].unsealed
        /\ signed' = [signed EXCEPT ![k] = @ + 1]
        /\ task' = [task EXCEPT ![t] = [@ EXCEPT !.pc = "save", !.event = signed[k] + 1]]
     \/ /\ k \in pending /\ events[k] = 0 /\ ~task[t].unsealed
        /\ task' = [task EXCEPT ![t].pc = "report"]      \* "no signed events to resend"
        /\ UNCHANGED signed
  /\ TaskUnchanged
  /\ UNCHANGED <<store, relays, engine, running, fails>>

\* Mistaken: the signed events are sent without being persisted.
TaskSaveNothing(t) ==
  /\ task[t].pc = "save"
  /\ task' = [task EXCEPT ![t] = [@ EXCEPT !.pc = "send", !.sealed = TRUE, !.unsealed = FALSE]]
  /\ TaskUnchanged
  /\ UNCHANGED <<store, relays, engine, running, fails, signed>>

\* Persist BEFORE sending.
TaskSave(t) ==
  /\ task[t].pc = "save"
  /\ SavePending(task[t].key, task[t].event)
  /\ task' = [task EXCEPT ![t] = [@ EXCEPT !.pc = "send", !.sealed = TRUE, !.unsealed = FALSE]]
  /\ TaskUnchanged
  /\ UNCHANGED <<relays, engine, running, fails, signed>>

\* publish_any: the first relay to accept is enough.
TaskAccepted(t) ==
  /\ task[t].pc = "send"
  /\ relay' = [relay EXCEPT ![task[t].key] = @ \cup {task[t].event}]
  /\ task' = [task EXCEPT ![t].pc = "mark"]
  /\ TaskUnchanged
  /\ UNCHANGED <<store, relayBase, engine, running, fails, signed>>

\* Mistaken: an attempt no relay answered counts as published.
TaskUnansweredMarks(t) ==
  /\ task[t].pc = "send"
  /\ task' = [task EXCEPT ![t].pc = "mark"]
  /\ TaskUnchanged
  /\ UNCHANGED <<store, relays, engine, running, fails, signed>>

\* Every relay refused, was unreachable, or took the event and its OK was lost.
TaskUnanswered(t) ==
  /\ task[t].pc = "send"
  /\ \/ UNCHANGED relay
     \/ relay' = [relay EXCEPT ![task[t].key] = @ \cup {task[t].event}]
  /\ task' = [task EXCEPT ![t].pc = "report"]
  /\ TaskUnchanged
  /\ UNCHANGED <<store, relayBase, engine, running, fails, signed>>

TaskMark(t) ==
  /\ task[t].pc = "mark"
  /\ MarkPublished(task[t].key)
  /\ task' = [task EXCEPT ![t] = [@ EXCEPT !.pc = "report", !.ok = TRUE]]
  /\ TaskUnchanged
  /\ UNCHANGED <<relays, engine, running, fails, signed>>

\* A store call of publish_once fails: the attempt does.
TaskStoreFails(t) ==
  /\ task[t].pc \in {"check", "read", "save", "mark"}
  /\ fails < MaxFail /\ fails' = fails + 1
  /\ task' = [task EXCEPT ![t].pc = "report"]
  /\ TaskUnchanged
  /\ UNCHANGED <<store, relays, engine, running, signed>>

\* Mistaken: a failed attempt reports success, so the engine drops the item.
TaskReportDone(t) ==
  /\ task[t].pc = "report"
  /\ IF SessionOpen(task[t].inst)
       THEN Report(task[t].key, TRUE, task[t].sealed)
       ELSE UNCHANGED engine
  /\ task' = [task EXCEPT ![t] = [IdleTask EXCEPT !.pc = "next", !.inst = task[t].inst]]
  /\ TaskUnchanged
  /\ UNCHANGED <<store, relays, running, fails, signed>>

TaskReport(t) ==
  /\ task[t].pc = "report"
  /\ IF SessionOpen(task[t].inst)
       THEN Report(task[t].key, task[t].ok, task[t].sealed)
       ELSE UNCHANGED engine
  /\ task' = [task EXCEPT ![t] = [IdleTask EXCEPT !.pc = "next", !.inst = task[t].inst]]
  /\ TaskUnchanged
  /\ UNCHANGED <<store, relays, running, fails, signed>>

\* Mistaken: the task ends without the last look.
TaskEnds(t) ==
  /\ task[t].pc = "look"
  /\ task' = [task EXCEPT ![t] = IdleTask]
  /\ TaskUnchanged
  /\ UNCHANGED <<store, relays, engine, running, fails, signed>>

\* After the loop queue_running is clear; what raced the last look is owed.
TaskLook(t) ==
  /\ task[t].pc = "look"
  /\ \/ /\ Live(task[t].inst) /\ queued # {}
        /\ task' = [task EXCEPT ![t].pc = "relock"]
     \/ /\ ~Live(task[t].inst) \/ queued = {}
        /\ task' = [task EXCEPT ![t] = IdleTask]
  /\ TaskUnchanged
  /\ UNCHANGED <<store, relays, engine, running, fails, signed>>

\* Mistaken: whoever looks last drains, whether or not another task does.
TaskReenters(t) ==
  /\ task[t].pc = "relock"
  /\ running' = running \cup {task[t].inst}
  /\ task' = [task EXCEPT ![t].pc = "next"]
  /\ TaskUnchanged
  /\ UNCHANGED <<store, relays, engine, fails, signed>>

TaskRelock(t) ==
  /\ task[t].pc = "relock"
  /\ \/ /\ task[t].inst \in running
        /\ task' = [task EXCEPT ![t] = IdleTask]
        /\ UNCHANGED running
     \/ /\ task[t].inst \notin running
        /\ running' = running \cup {task[t].inst}
        /\ task' = [task EXCEPT ![t].pc = "next"]
  /\ TaskUnchanged
  /\ UNCHANGED <<store, relays, engine, fails, signed>>

-----------------------------------------------------------------------------
(* The callers of `publish`: a commit, the sweep of a shared space, a       *)
(* rebase.  mutation_lock, refresh_lock and the import lock make each kind  *)
(* one at a time; nothing orders one kind against another.                  *)

PubUnchanged == UNCHANGED <<relays, walked, rel, logout, crashes, passes, signed>>

\* mutate_inner: the session is read and the mutation counted.
BeginCommit(c) ==
  /\ "commit" \in Publisher /\ pub["commit"].pc = "idle"
  /\ inst # 0 /\ logout = "no" /\ c \notin written
  /\ WritesFrom = "opened" => owner = inst
  /\ WritesFrom = "released" => rel[inst].pc = "up"
  /\ pub' = [pub EXCEPT !["commit"] =
              [IdlePub EXCEPT !.pc = "add", !.inst = inst, !.change = c]]
  /\ PubUnchanged
  /\ UNCHANGED <<store, lifecycle, engine, running, task, fails, written>>

\* Mistaken: the change is stored first, its row by the `publish` that follows.
AddBareChange(p) ==
  /\ pub[p].pc = "add"
  /\ LET c == pub[p].change IN
     /\ changes' = changes \cup {c} /\ written' = written \cup {c}
     /\ pub' = [pub EXCEPT ![p] = [@ EXCEPT !.pc = "check", !.key = Personal(c)]]
  /\ PubUnchanged
  /\ UNCHANGED <<rebased, pending, events, published, heldBase, lifecycle, engine, running,
                 task, fails>>

\* commit -> add_local_change: the change, its own mark and its personal
\* obligation in one transaction.
AddLocalChange(p) ==
  /\ pub[p].pc = "add"
  /\ LET c == pub[p].change IN
     /\ changes' = changes \cup {c} /\ written' = written \cup {c}
     /\ pending' = pending \cup {Personal(c)}
     /\ events' = [events EXCEPT ![Personal(c)] = 0]
     /\ pub' = [pub EXCEPT ![p] = [@ EXCEPT !.pc = "check", !.key = Personal(c)]]
  /\ PubUnchanged
  /\ UNCHANGED <<rebased, published, heldBase, lifecycle, engine, running, task, fails>>

\* refresh_shared_inner: after a completed walk, a change stored for a shared
\* space and not published under its key is owed to it.
BeginSweep(c) ==
  /\ "sweep" \in Publisher /\ pub["sweep"].pc = "idle"
  /\ inst \in walked /\ logout = "no"
  /\ c \in (changes \cap Spaced) \ rebased /\ SpaceKey(c) \notin published
  /\ pub' = [pub EXCEPT !["sweep"] = [IdlePub EXCEPT !.pc = "check", !.inst = inst,
                                                     !.change = c, !.key = Personal(c)]]
  /\ PubUnchanged
  /\ UNCHANGED <<store, lifecycle, engine, running, task, fails, written>>

\* resolve_orphans: a stored change the current base misses is written again on
\* that base as d.  add_rebased stores d, marks the orphan and moves the own
\* mark; the obligation of d is only saved by the `publish` that follows.  d is
\* a new node: no change that was written, nor the one a commit is about to add.
AddRebased(c, d) ==
  /\ "rebase" \in Publisher /\ pub["rebase"].pc = "idle"
  /\ inst # 0 /\ Live(inst)
  /\ heldBase # {} /\ c \in changes \ (heldBase \cup rebased) /\ d \notin written
  /\ \A p \in Publisher : pub[p].pc = "add" => pub[p].change # d
  /\ changes' = changes \cup {d} /\ rebased' = rebased \cup {c}
  /\ written' = written \cup {d}
  /\ pub' = [pub EXCEPT !["rebase"] = [IdlePub EXCEPT !.pc = "check", !.inst = inst,
                                                      !.change = d, !.key = Personal(d)]]
  /\ PubUnchanged
  /\ UNCHANGED <<pending, events, published, heldBase, lifecycle, engine, running, task,
                 fails>>

\* The candidates of one call: the personal obligation, then the space's.
Advance(p, owed) ==
  \/ /\ IsSpace(pub[p].key) \/ pub[p].change \notin Spaced
     /\ pub' = [pub EXCEPT ![p] = [@ EXCEPT !.pc = "session", !.owed = owed]]
  \/ /\ ~IsSpace(pub[p].key) /\ pub[p].change \in Spaced
     /\ pub' = [pub EXCEPT ![p] = [@ EXCEPT !.pc = "check", !.owed = owed,
                                            !.key = SpaceKey(pub[p].change)]]

PubCheck(p) ==
  /\ pub[p].pc = "check"
  /\ \/ pub[p].key \in published /\ Advance(p, pub[p].owed)
     \/ /\ pub[p].key \notin published
        /\ pub' = [pub EXCEPT ![p].pc = IF IsSpace(pub[p].key) THEN "cover" ELSE "read"]
  /\ PubUnchanged
  /\ UNCHANGED <<store, lifecycle, engine, running, task, fails, written>>

\* Mistaken: any base of the space is taken to cover the change.
PubCoverAny(p) ==
  /\ pub[p].pc = "cover"
  /\ pub' = [pub EXCEPT ![p].pc = "mark"]
  /\ PubUnchanged
  /\ UNCHANGED <<store, lifecycle, engine, running, task, fails, written>>

\* base_covers: a space's compacted history is on the relays inside its base.
PubCover(p) ==
  /\ pub[p].pc = "cover"
  /\ pub' = [pub EXCEPT ![p].pc = IF pub[p].change \in heldBase THEN "mark" ELSE "read"]
  /\ PubUnchanged
  /\ UNCHANGED <<store, lifecycle, engine, running, task, fails, written>>

PubMark(p) ==
  /\ pub[p].pc = "mark"
  /\ MarkPublished(pub[p].key)
  /\ Advance(p, pub[p].owed)
  /\ PubUnchanged
  /\ UNCHANGED <<lifecycle, engine, running, task, fails, written>>

\* A row already saved is offered as it is; none is saved by the next step.
PubRead(p) ==
  /\ pub[p].pc = "read"
  /\ LET k == pub[p].key IN
     \/ k \in pending /\ Advance(p, pub[p].owed \cup {<<k, events[k] # 0>>})
     \/ k \notin pending /\ pub' = [pub EXCEPT ![p].pc = "save"]
  /\ PubUnchanged
  /\ UNCHANGED <<store, lifecycle, engine, running, task, fails, written>>

PubSave(p) ==
  /\ pub[p].pc = "save"
  /\ SavePending(pub[p].key, 0)
  /\ Advance(p, pub[p].owed \cup {<<pub[p].key, FALSE>>})
  /\ PubUnchanged
  /\ UNCHANGED <<lifecycle, engine, running, task, fails, written>>

\* A failed store call fails the call, and a session that does not open defers
\* it: what is stored stays stored, unoffered.
PubStoreFails(p) ==
  /\ pub[p].pc \in {"add", "check", "cover", "mark", "read", "save", "open"}
  /\ fails < MaxFail /\ fails' = fails + 1
  /\ pub' = [pub EXCEPT ![p] = IdlePub]
  /\ PubUnchanged
  /\ UNCHANGED <<store, lifecycle, engine, running, task, written>>

\* ensure_session looks first, and opens after the lock and its store reads.
PubSession(p) ==
  /\ pub[p].pc = "session"
  /\ \/ pub[p].owed = {} /\ pub' = [pub EXCEPT ![p] = IdlePub]
     \/ /\ pub[p].owed # {}
        /\ pub' = [pub EXCEPT ![p].pc =
                     IF SessionOpen(pub[p].inst) \/ pub[p].inst \in stopped
                     THEN "offer" ELSE "open"]
  /\ PubUnchanged
  /\ UNCHANGED <<store, lifecycle, engine, running, task, fails, written>>

PubOpen(p) ==
  /\ pub[p].pc = "open"
  /\ OpenSession(pub[p].inst)
  /\ pub' = [pub EXCEPT ![p].pc = "offer"]
  /\ PubUnchanged
  /\ UNCHANGED <<store, running, task, fails, written>>

\* offer_to_outbox, one owed obligation at a time.
PubOffer(p) ==
  /\ pub[p].pc = "offer"
  /\ \/ /\ pub[p].owed = {} \/ ~Live(pub[p].inst)
        /\ pub' = [pub EXCEPT ![p] = IdlePub]
        /\ UNCHANGED engine
     \/ /\ Live(pub[p].inst)
        /\ \E o \in pub[p].owed :
             /\ Enqueue(o)
             /\ pub' = [pub EXCEPT ![p] =
                       [@ EXCEPT !.owed = pub[p].owed \ {o},
                                 !.pc = IF o[1] \in queued THEN "offer" ELSE "ensure"]]
  /\ PubUnchanged
  /\ UNCHANGED <<store, lifecycle, running, task, fails, written>>

PubEnsure(p) ==
  /\ pub[p].pc = "ensure"
  /\ EnsureQueue(pub[p].inst)
  /\ pub' = [pub EXCEPT ![p].pc = "offer"]
  /\ PubUnchanged
  /\ UNCHANGED <<store, lifecycle, engine, fails, written>>

-----------------------------------------------------------------------------
(* start(): the session opened, personal obligations offered again, one    *)
(* walk, then release_space_pending; a later completed pass releases again.*)

RelUnchanged == UNCHANGED <<relays, logout, crashes, fails, signed, written, pub>>
Rows(space) == {<<k, events[k] # 0>> : k \in {q \in pending : IsSpace(q) = space}}

StartOpens(i) ==
  /\ rel[i].pc = "down" /\ i = inst
  /\ OpenSession(i)
  /\ rel' = [rel EXCEPT ![i].pc = "list"]
  /\ RelUnchanged
  /\ UNCHANGED <<passes, store, running, walked, task>>

\* Mistaken: only what the release lists is offered again; start() lists nothing.
RelListSpace(i) ==
  /\ \/ rel[i].pc = "list" /\ rel' = [rel EXCEPT ![i].pc = "offer"]
     \/ /\ rel[i].pc = "relist"
        /\ rel' = [rel EXCEPT ![i] = [@ EXCEPT !.pc = "spaceOffer", !.list = Rows(TRUE)]]
  /\ RelUnchanged
  /\ UNCHANGED <<passes, store, lifecycle, engine, running, walked, task>>

\* pending_publishes: personal rows at start, space rows once released.
RelList(i) ==
  /\ \/ /\ rel[i].pc = "list"
        /\ rel' = [rel EXCEPT ![i] = [@ EXCEPT !.pc = "offer", !.list = Rows(FALSE)]]
     \/ /\ rel[i].pc = "relist"
        /\ rel' = [rel EXCEPT ![i] = [@ EXCEPT !.pc = "spaceOffer", !.list = Rows(TRUE)]]
  /\ RelUnchanged
  /\ UNCHANGED <<passes, store, lifecycle, engine, running, walked, task>>

RelOffer(i) ==
  /\ rel[i].pc \in {"offer", "spaceOffer"}
  /\ \/ /\ rel[i].list = {} \/ ~Live(i)
        /\ rel' = [rel EXCEPT ![i] =
                    [@ EXCEPT !.list = {}, !.pc = IF rel[i].pc = "offer" THEN "walk" ELSE "up"]]
        /\ UNCHANGED engine
     \/ /\ Live(i)
        /\ \E o \in rel[i].list :
             /\ Enqueue(o)
             /\ rel' = [rel EXCEPT ![i] =
                       [@ EXCEPT !.list = rel[i].list \ {o},
                                 !.pc = IF o[1] \in queued THEN rel[i].pc
                                        ELSE IF rel[i].pc = "offer" THEN "ensure"
                                        ELSE "spaceEnsure"]]
  /\ RelUnchanged
  /\ UNCHANGED <<passes, store, lifecycle, running, walked, task>>

RelEnsure(i) ==
  /\ rel[i].pc \in {"ensure", "spaceEnsure"}
  /\ EnsureQueue(i)
  /\ rel' = [rel EXCEPT ![i].pc = IF @ = "ensure" THEN "offer" ELSE "spaceOffer"]
  /\ RelUnchanged
  /\ UNCHANGED <<passes, store, lifecycle, engine, walked>>

\* The first walk ended (complete or not), or a later pass completed: unless
\* stopped, release_space_pending runs; only a complete one counts as walked.
WalkEnds(i) ==
  /\ rel[i].pc \in {"walk", "up"}
  /\ \/ /\ i \in stopped /\ rel[i].pc = "walk"
        /\ rel' = [rel EXCEPT ![i].pc = "up"]
        /\ UNCHANGED <<walked, passes>>
     \/ /\ i \notin stopped
        /\ rel' = [rel EXCEPT ![i].pc = "settle"]
        /\ \/ rel[i].pc = "walk" /\ UNCHANGED <<walked, passes>>
           \/ rel[i].pc = "walk" /\ walked' = walked \cup {i} /\ UNCHANGED passes
           \/ /\ rel[i].pc = "up" /\ passes < MaxPasses /\ passes' = passes + 1
              /\ walked' = walked \cup {i}
  /\ RelUnchanged
  /\ UNCHANGED <<store, lifecycle, engine, running, task>>

\* settle_published_pending: what the relays hold leaves the outbox unsent.
RelSettle(i) ==
  /\ rel[i].pc = "settle"
  /\ rel' = [rel EXCEPT ![i] =
              [@ EXCEPT !.pc = "held", !.list = Rows(FALSE) \cup Rows(TRUE)]]
  /\ RelUnchanged
  /\ UNCHANGED <<passes, store, lifecycle, engine, running, walked, task>>

RelHeld(i) ==
  /\ rel[i].pc = "held"
  /\ \/ /\ rel[i].list = {}
        /\ rel' = [rel EXCEPT ![i].pc = "relist"]
     \/ \E o \in rel[i].list :
          \/ /\ o[1] \in published \/ (IsSpace(o[1]) /\ o[1][1] \in heldBase)
             /\ rel' = [rel EXCEPT ![i] =
                          [@ EXCEPT !.pc = "mark", !.key = o[1], !.list = rel[i].list \ {o}]]
          \/ /\ o[1] \notin published /\ ~(IsSpace(o[1]) /\ o[1][1] \in heldBase)
             /\ rel' = [rel EXCEPT ![i].list = rel[i].list \ {o}]
  /\ RelUnchanged
  /\ UNCHANGED <<passes, store, lifecycle, engine, running, walked, task>>

RelMark(i) ==
  /\ rel[i].pc = "mark"
  /\ MarkPublished(rel[i].key)
  /\ rel' = [rel EXCEPT ![i].pc = "drop"]
  /\ RelUnchanged
  /\ UNCHANGED <<passes, lifecycle, engine, running, walked, task>>

RelDrop(i) ==
  /\ rel[i].pc = "drop"
  /\ IF SessionOpen(i) THEN Report(rel[i].key, TRUE, FALSE) ELSE UNCHANGED engine
  /\ rel' = [rel EXCEPT ![i] = [@ EXCEPT !.pc = "held", !.key = NoKey]]
  /\ RelUnchanged
  /\ UNCHANGED <<passes, store, lifecycle, running, walked, task>>

-----------------------------------------------------------------------------
(* The process: restart_sync, the spawned close, crash, logout.            *)

\* restart_sync: the old instance is stopped (its tasks are not awaited) and a
\* new one takes the session.
RestartSync ==
  /\ inst \in 1..(MaxInst - 1)
  /\ stopped' = stopped \cup {inst}
  /\ closing' = IF SessionOpen(inst) THEN closing \cup {inst} ELSE closing
  /\ inst' = inst + 1
  /\ UNCHANGED <<store, relays, owner, engine, running, walked, task, pub, rel, logout,
                 bounds, signed, written>>

\* The task stop() spawned: release_session, then session_close.
CloseSession(i) ==
  /\ i \in closing
  /\ closing' = closing \ {i}
  /\ IF SessionOpen(i) THEN owner' = 0 /\ queued' = {} /\ hasEvents' = {}
                       ELSE UNCHANGED <<owner, engine>>
  /\ UNCHANGED <<store, relays, inst, stopped, running, walked, task, pub, rel, logout,
                 bounds, signed, written>>

\* The process dies and starts again on the same store.
Crash ==
  /\ crashes < MaxCrash /\ crashes' = crashes + 1
  /\ logout # "done" /\ logout' = "no"
  /\ inst' = 1 /\ stopped' = {} /\ closing' = {} /\ owner' = 0
  /\ queued' = {} /\ hasEvents' = {} /\ running' = {} /\ walked' = {}
  /\ task' = [t \in Task |-> IdleTask]
  /\ pub' = [p \in Publisher |-> IdlePub]
  /\ rel' = [i \in Inst |-> DownRel]
  /\ UNCHANGED <<store, relays, fails, passes, signed, written>>

\* Mistaken: a mutation under way does not refuse the logout.
LogoutAskedAnyway ==
  /\ MayLogout /\ logout = "no" /\ inst # 0
  /\ logout' = "asked"
  /\ UNCHANGED <<store, relays, lifecycle, engine, running, walked, task, pub, rel, bounds,
                 signed, written>>

\* logout: refused during a mutation or a refresh, and while a row is pending.
LogoutAsked ==
  /\ MayLogout /\ logout = "no" /\ inst # 0
  /\ \A p \in Publisher \ {"rebase"} : pub[p].pc = "idle"
  /\ logout' = "asked"
  /\ UNCHANGED <<store, relays, lifecycle, engine, running, walked, task, pub, rel, bounds,
                 signed, written>>

\* Mistaken: unpublished rows do not refuse the logout.
LogoutReadsNothing ==
  /\ logout = "asked"
  /\ logout' = "clear"
  /\ UNCHANGED <<store, relays, lifecycle, engine, running, walked, task, pub, rel, bounds,
                 signed, written>>

LogoutReads ==
  /\ logout = "asked"
  /\ logout' = IF pending = {} THEN "clear" ELSE "no"
  /\ UNCHANGED <<store, relays, lifecycle, engine, running, walked, task, pub, rel, bounds,
                 signed, written>>

\* stop(), store.clear(), the identity gone, the engine reset.
LogoutClears ==
  /\ logout = "clear" /\ logout' = "done"
  /\ changes' = {} /\ rebased' = {} /\ pending' = {} /\ published' = {} /\ heldBase' = {}
  /\ events' = [k \in Key |-> 0]
  /\ stopped' = stopped \cup {inst} /\ inst' = 0
  /\ closing' = IF SessionOpen(inst) THEN closing \cup {inst} ELSE closing
  /\ queued' = {} /\ hasEvents' = {}
  /\ UNCHANGED <<relays, owner, running, walked, task, pub, rel, bounds, signed, written>>

-----------------------------------------------------------------------------
(* What other parts and other devices do.                                  *)

EnvUnchanged ==
  UNCHANGED <<relays, lifecycle, engine, running, walked, task, pub, rel, logout, bounds,
              signed, written>>

\* ChangeStore::import of one of our own events, met by a walk or live: the
\* mark set and any row deleted in the import's transaction.
ImportEcho(k) ==
  /\ inst # 0 /\ Live(inst)
  /\ relay[k] # {} /\ k \notin published
  /\ MarkPublished(k)
  /\ EnvUnchanged

\* import_base: the changes a space's base covers are marked published...
ImportBaseMarks(c) ==
  /\ inst # 0 /\ Live(inst)
  /\ c \in relayBase \cap Spaced /\ SpaceKey(c) \notin published
  /\ MarkPublished(SpaceKey(c))
  /\ EnvUnchanged

\* ...and then the base is stored.
ImportBasePuts(c) ==
  /\ inst # 0 /\ Live(inst)
  /\ c \in relayBase \ heldBase /\ (c \in Spaced => SpaceKey(c) \in published)
  /\ heldBase' = heldBase \cup {c}
  /\ UNCHANGED <<changes, rebased, pending, events, published>>
  /\ EnvUnchanged

\* Another replica compacts what the relays hold into a base.
Compact(c) ==
  /\ c \in Compacted \ relayBase
  /\ \E k \in Key : k[1] = c /\ relay[k] # {}
  /\ relayBase' = relayBase \cup {c}
  /\ UNCHANGED <<store, relay, lifecycle, engine, running, walked, task, pub, rel, logout,
                 bounds, signed, written>>

-----------------------------------------------------------------------------
TaskWorks(t) ==
  \/ TaskNext(t) \/ TaskLeave(t) \/ TaskCheck(t) \/ TaskRead(t) \/ TaskSave(t) \/ TaskAccepted(t)
  \/ TaskUnanswered(t) \/ TaskMark(t) \/ TaskReport(t) \/ TaskLook(t) \/ TaskRelock(t)

PubWorks(p) ==
  \/ AddLocalChange(p) \/ PubCheck(p) \/ PubCover(p) \/ PubMark(p) \/ PubRead(p)
  \/ PubSave(p) \/ PubSession(p) \/ PubOpen(p) \/ PubOffer(p) \/ PubEnsure(p)

RelWorks(i) ==
  \/ StartOpens(i) \/ RelList(i) \/ RelOffer(i) \/ RelEnsure(i) \/ RelSettle(i)
  \/ RelHeld(i) \/ RelMark(i) \/ RelDrop(i)

Next ==
  \/ \E t \in Task : TaskWorks(t) \/ TaskStoreFails(t)
  \/ \E c \in Change : BeginCommit(c) \/ BeginSweep(c) \/ (\E d \in Change : AddRebased(c, d))
  \/ \E p \in Publisher : PubWorks(p) \/ PubStoreFails(p)
  \/ \E i \in Inst : RelWorks(i) \/ WalkEnds(i) \/ CloseSession(i)
  \/ RestartSync \/ Crash \/ LogoutAsked \/ LogoutReads \/ LogoutClears
  \/ \E k \in Key : ImportEcho(k)
  \/ \E c \in Change : ImportBaseMarks(c) \/ ImportBasePuts(c) \/ Compact(c)

Spec == Init /\ [][Next]_vars

\* Spawned tasks run, a first walk ends, and a relay that is asked for ever
\* accepts in the end.
Fairness ==
  /\ \A t \in Task : WF_vars(TaskWorks(t)) /\ SF_vars(TaskAccepted(t))
  /\ \A p \in Publisher : WF_vars(PubWorks(p))
  /\ \A i \in Inst : WF_vars(RelWorks(i)) /\ WF_vars(rel[i].pc = "walk" /\ WalkEnds(i))
                     /\ WF_vars(CloseSession(i))
  /\ WF_vars(LogoutReads) /\ WF_vars(LogoutClears)

FairSpec == Spec /\ Fairness

-----------------------------------------------------------------------------
(* Properties.                                                             *)

\* "Publication acknowledgements, not enqueue markers, decide durability"
\* (backend.rs:1766): an obligation marked published has an event on a relay,
\* or, for a space obligation, a base on the relays covers its change.
PublishedIsHeld ==
  \A k \in published : relay[k] # {} \/ (IsSpace(k) /\ k[1] \in relayBase)

\* "A local write never depends on the network: the obligation is stored
\* first" (outbox.rs:4-5): whatever crashes or fails, each stored change keeps
\* a row until its personal obligation is published.
ObligationStored ==
  \A c \in changes : Personal(c) \in pending \cup published

\* queue_running (outbox.rs:128-138): however offers race the end of a drain,
\* an instance never has two queue tasks in the loop, and the flag says when
\* there is one.
Draining(t) ==
  task[t].pc \in {"next", "check", "read", "save", "send", "mark", "report", "leave"}
OneQueueTask ==
  /\ \A t, u \in Task : Draining(t) /\ Draining(u) /\ task[t].inst = task[u].inst => t = u
  /\ \A i \in running : \E t \in Task : Draining(t) /\ task[t].inst = i
  /\ \A t \in Task : Draining(t) => task[t].inst \in running

\* "An offer that raced the drain's last look must not be stranded"
\* (outbox.rs:370): while the engine outbox holds something for a live
\* instance, a queue task of it runs or somebody is about to look again.
NoStrandedOffer ==
  \A i \in Inst : Live(i) /\ queued # {} =>
    \/ i \in running
    \/ \E t \in Task : task[t].inst = i /\ task[t].pc \in {"look", "relock"}
    \/ \E p \in Publisher : pub[p].inst = i /\ pub[p].pc = "ensure"
    \/ rel[i].pc \in {"ensure", "spaceEnsure"}

\* "retries and restarts resend them byte for byte" (outbox.rs:8-9): an
\* obligation never has two different signed events on the relays.
OneEventPerObligation ==
  \A k \in Key : \A a, b \in relay[k] : a = b

\* "logging out refuses while any are unpublished" (README.md:76-77): every
\* change this device ever wrote is on a relay when its store is cleared.
LogoutKeepsWrites ==
  logout = "done" => \A c \in written : relay[Personal(c)] # {}

\* An obligation stored is published in the end: through lost OKs, crashes,
\* and offers racing the end of a drain.
Drains ==
  \A k \in Key : (k \in pending) ~> (k \in published \/ logout = "done")

Durable == INSTANCE DurableWrite WITH
  delivered <- {c \in Change : relay[Personal(c)] # {}},
  acknowledged <- {c \in Change : Personal(c) \in published},
  erased <- logout = "done"

\* The outbox implements the promise of DurableWrite...
ImplementsDurableWrite == Durable!Spec
\* ...and, with its tasks scheduled and a relay that answers, its liveness.
EventuallyDelivered == Durable!EventuallyDelivered
=============================================================================
