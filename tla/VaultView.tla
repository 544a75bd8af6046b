------------------------------ MODULE VaultView ------------------------------
(* What a replica shows of what it stores (roostr-replica/src/backend.rs):    *)
(* the replayed states and which of them are owed a replay (ensure,           *)
(* rebuild_states, prepare and the background driver), the ledger of vanished *)
(* objects enforced on them, and the engine's query cache, which is sent only *)
(* what changed (push_query, load_corpus, commit).                            *)
(* A change is a model value and a state the set of changes it was replayed   *)
(* from; heads differ when the sets do. Two locks order everything:           *)
(* ensure_lock, held through a pass (the variable pass), and cache_lock, held *)
(* through a push (the client at "sent"). A store call is a step boundary.    *)
EXTENDS Naturals, FiniteSets

CONSTANTS
  Object, Ledger,      \* ids, and the ledger's (__vanished__)
  Doomed,              \* what the ledger names once it holds a change
  Based,               \* objects replayed from a base: not in the corpus
  Written,             \* objects that change
  Old, Theirs, Ours,   \* changes: held at first, imported, committed here
  Modes,               \* of the store: "records", "changes"
  Memos,               \* sets of objects the memo serves at first
  None,
  Failing,             \* calls that may fail
  MaxFail, MaxImports, MaxCommits,
  Threads              \* native: other tasks run during an engine call

ASSUME VaultConstants ==
  /\ Ledger \in Object /\ Doomed \cup Based \subseteq Object \ {Ledger}
  /\ Written \subseteq Object
  /\ Cardinality({Old, Theirs, Ours}) = 3
  /\ None \notin Object
  /\ Memos \subseteq SUBSET Object
  /\ Modes \subseteq {"records", "changes"} /\ Modes # {}
  /\ Failing \subseteq {"inputs", "pending", "backlog", "object", "replay", "vanished", "query"}
  /\ {MaxFail, MaxImports, MaxCommits} \subseteq Nat /\ Threads \in BOOLEAN

Change == {Old, Theirs, Ours}
Client == {"view", "commit"}      \* who calls ensure(); the driver holds its lock too

VARIABLES
  mode, store, memo,              \* the store, and the replays it memoizes
  view,                           \* State.states
  dirty, allDirty, backlog, waiting, vanished, driver,
  upserted, removed,              \* query_upserted, query_removed
  warm,                           \* query_generation is the engine's
  cache,                          \* the engine's query cache
  pass,                           \* the holder of ensure_lock
  call,                           \* the clients
  importing,                      \* stored by sync; on_objects not called yet
  skipped,                        \* objects whose replay the engine gave up
  imports, commits, fails

disk == <<mode, store, memo>>
owed == <<dirty, allDirty, backlog, waiting, driver>>
query == <<upserted, removed, warm, cache>>
events == <<importing, imports, commits>>
vars == <<disk, view, owed, vanished, query, pass, call, skipped, events, fails>>

NoPass == [by |-> None, pc |-> "idle", full |-> FALSE, ids |-> {}, touched |-> {},
           cur |-> None, inputs |-> [o \in Object |-> {}], begun |-> FALSE]
Idle == [pc |-> "idle", want |-> None, seen |-> {}, applied |-> FALSE,
         json |-> FALSE, ids |-> {}, rows |-> [o \in Object |-> {}]]

Init ==
  /\ mode \in Modes
  /\ \E listed \in BOOLEAN :
       store = [o \in Object |-> IF o = Ledger /\ ~listed THEN {} ELSE {Old}]
  /\ \E kept \in Memos :
       memo = [o \in Object |-> IF o \in kept /\ mode = "changes" THEN store[o] ELSE {}]
  /\ view = [o \in Object |-> {}] /\ vanished = {}
  /\ dirty = {} /\ allDirty = TRUE /\ backlog = {} /\ waiting = {} /\ driver = FALSE
  /\ upserted = {} /\ removed = {} /\ warm = FALSE /\ cache = view
  /\ pass = NoPass /\ call = [c \in Client |-> Idle]
  /\ importing = None /\ skipped = {} /\ imports = 0 /\ commits = 0 /\ fails = 0

Fails(what) == what \in Failing /\ fails < MaxFail /\ fails' = fails + 1
Named(v) == IF v[Ledger] = {} THEN {} ELSE Doomed   \* what the shown ledger names

------------------------------------------------------------------------------
(* Who asks for states *)

Becomes(c, record) == call' = [call EXCEPT ![c] = record]

\* A mutation of o, which plans before it commits.
Plans ==
  /\ call["commit"].pc = "idle" /\ commits < MaxCommits /\ commits' = commits + 1
  /\ \E o \in Written : /\ Ours \notin store[o]
                        /\ Becomes("commit", [Idle EXCEPT !.pc = "ensure", !.want = o])
  /\ UNCHANGED <<disk, view, owed, vanished, query, pass, skipped, importing, imports, fails>>

\* Past ensure(): a query, an object asked for by id, or the next step of a commit.
GoesOn(c) ==
  IF call[c].pc = "settle" THEN Becomes(c, [call[c] EXCEPT !.pc = "exact"])
  ELSE \/ Becomes(c, [call[c] EXCEPT !.pc = "push"])
       \/ c = "view" /\ \E o \in waiting : Becomes(c, [Idle EXCEPT !.pc = "ids", !.want = o])

Begins(p) == pass' = p
PassErrs ==
  /\ pass' = NoPass
  /\ IF pass.by = "driver" THEN UNCHANGED call ELSE Becomes(pass.by, Idle)

\* ensure(), with rebuild_states down to its first store call: of a view, which
\* reads whenever it is idle, or in a commit.
Ensure(c) ==
  /\ call[c].pc \in {"ensure", "settle"} \cup (IF c = "view" THEN {"idle"} ELSE {})
  /\ pass = NoPass
  /\ \/ /\ allDirty
        /\ Begins([NoPass EXCEPT !.by = c, !.pc = "inputs", !.full = TRUE])
        /\ allDirty' = FALSE /\ dirty' = {} /\ UNCHANGED call
     \/ /\ ~allDirty /\ dirty # {}
        /\ Begins([NoPass EXCEPT !.by = c, !.pc = "pending", !.ids = dirty, !.touched = dirty])
        /\ dirty' = {} /\ UNCHANGED <<allDirty, call>>
     \/ ~allDirty /\ dirty = {} /\ GoesOn(c) /\ UNCHANGED <<pass, allDirty, dirty>>
  /\ UNCHANGED <<disk, view, backlog, waiting, driver, vanished, query, skipped, events, fails>>

\* ensure_ids(), once ensure() returned; and a step of the background driver.
Prepares ==
  /\ pass = NoPass
  /\ \/ call["view"].pc = "ids" /\ Begins([NoPass EXCEPT !.by = "view", !.pc = "pop"])
     \/ driver /\ Begins([NoPass EXCEPT !.by = "driver", !.pc = "pop"])
  /\ UNCHANGED <<disk, view, owed, vanished, query, call, skipped, events, fails>>

------------------------------------------------------------------------------
(* A pass *)

\* restore_cached_states: what the store holds is listed.
PassInputs ==
  /\ pass.pc = "inputs"
  /\ \/ Begins([pass EXCEPT !.pc = "restore", !.inputs = store]) /\ UNCHANGED <<allDirty, call, fails>>
     \/ Fails("inputs") /\ allDirty' = TRUE /\ PassErrs
  /\ UNCHANGED <<disk, view, dirty, backlog, waiting, driver, vanished, query, skipped, events>>

\* What the memo serves is shown, the rest becomes the backlog and an older
\* pass's driver stops. A record is its own state (restore_records).
PassRestore ==
  LET stale == {o \in Object : pass.inputs[o] # {} /\ view[o] # pass.inputs[o]}
      misses == {o \in stale : mode = "changes" /\ memo[o] # pass.inputs[o]}
      served == stale \ misses
  IN /\ pass.pc = "restore"
     /\ view' = [o \in Object |-> IF o \in served THEN pass.inputs[o] ELSE view[o]]
     /\ upserted' = upserted \cup (IF mode = "records" THEN served ELSE {})
     /\ backlog' = misses /\ waiting' = misses /\ driver' = FALSE /\ vanished' = {}
     /\ skipped' = skipped \ stale
     /\ dirty' = {}
     /\ Begins([NoPass EXCEPT !.by = pass.by, !.full = TRUE, !.ids = dirty, !.touched = dirty,
                              !.pc = IF dirty = {} THEN "pop" ELSE "pending"])
  /\ UNCHANGED <<disk, allDirty, removed, warm, cache, call, events, fails>>

\* An interrupted pass must run again.
RequeueNothing == PassErrs /\ UNCHANGED <<allDirty, dirty>>

Requeue ==
  /\ allDirty' = (allDirty \/ pass.full) /\ dirty' = dirty \cup pass.ids
  /\ PassErrs

PassPending ==
  /\ pass.pc = "pending"
  /\ \/ Begins([pass EXCEPT !.pc = "object"]) /\ UNCHANGED <<allDirty, dirty, call, fails>>
     \/ Fails("pending") /\ Requeue
  /\ UNCHANGED <<disk, view, backlog, waiting, driver, vanished, query, skipped, events>>

\* replay_one reads the inputs of the next dirty object ...
PassObject ==
  /\ pass.pc = "object"
  /\ \/ /\ \E o \in pass.ids :
             Begins([pass EXCEPT !.pc = "replay", !.cur = o, !.inputs[o] = store[o]])
        /\ UNCHANGED <<allDirty, dirty, call, fails>>
     \/ Fails("object") /\ Requeue
  /\ UNCHANGED <<disk, view, backlog, waiting, driver, vanished, query, skipped, events>>

\* An object whose inputs cannot be read goes back.
PutBackNothing(o) == backlog \ {o}

PutBack(o) == backlog \cup {o}

\* prepare: ... or of the next in the backlog, the ledger first, or of the one
\* asked for. The first of a call asks for the pending changes, its id popped.
PrepareObject ==
  LET only == pass.by = "view" /\ ~pass.full
      ready == IF only THEN waiting \cap {call["view"].want} ELSE waiting \cap backlog
      rest(o) == IF only THEN backlog ELSE backlog \ {o}
  IN /\ pass.pc = "pop"
     /\ \E o \in IF Ledger \in ready THEN {Ledger} ELSE ready :
          \/ /\ Begins([pass EXCEPT !.pc = "prepare", !.cur = o, !.inputs[o] = store[o], !.begun = TRUE])
             /\ backlog' = rest(o) /\ UNCHANGED <<allDirty, call, fails>>
          \/ /\ ~pass.begun /\ Fails("backlog")
             /\ backlog' = rest(o) /\ allDirty' = (allDirty \/ pass.full) /\ PassErrs
          \/ /\ Fails("object")
             /\ backlog' = PutBack(o) /\ allDirty' = (allDirty \/ pass.full) /\ PassErrs
  /\ UNCHANGED <<disk, view, dirty, waiting, driver, vanished, query, skipped, events>>

SweptTouched(v, all, touched) ==
  IF all \/ vanished # {} THEN Named(v) ELSE {}

\* enforce_vanished: the objects it takes out of a view.
Swept(v, all, touched) ==
  IF all \/ Ledger \in touched \/ vanished # {} THEN Named(v) ELSE {}

EnforceQuietly(v, all, touched) ==
  LET gone == Swept(v, all, touched)
  IN /\ view' = [o \in Object |-> IF o \in gone THEN {} ELSE v[o]]
     /\ vanished' = vanished \cup gone
     /\ UNCHANGED removed

Enforce(v, all, touched) ==
  LET gone == Swept(v, all, touched)
  IN /\ view' = [o \in Object |-> IF o \in gone THEN {} ELSE v[o]]
     /\ removed' = removed \cup {o \in gone : v[o] # {}}
     /\ vanished' = vanished \cup gone

EngineFaults == warm' = FALSE /\ cache' = [o \in Object |-> {}]

\* replay_one: the state replayed, and what a backlog object owes the ledger. A
\* replay the engine refuses is given up, its object as it was.
Replay ==
  LET o == pass.cur
      new == pass.inputs[o]
      left == pass.ids \ {o}
      inBacklog == pass.pc = "prepare"
      Lands(v) == IF inBacklog THEN Enforce(v, o = Ledger, {o})
                  ELSE view' = v /\ UNCHANGED <<removed, vanished>>
  IN /\ pass.pc \in {"replay", "prepare"}
     /\ \/ /\ Lands([view EXCEPT ![o] = new])
           /\ upserted' = IF view[o] = new THEN upserted ELSE upserted \cup {o}
           /\ memo' = IF mode = "changes" THEN [memo EXCEPT ![o] = new] ELSE memo
           /\ skipped' = skipped \ {o} /\ UNCHANGED <<warm, cache, fails>>
        \/ /\ mode = "changes" /\ Fails("replay") /\ EngineFaults
           /\ Lands(view) /\ skipped' = skipped \cup {o} /\ UNCHANGED <<upserted, memo>>
     /\ waiting' = waiting \ {o}
     /\ Begins([pass EXCEPT !.ids = left, !.cur = None, !.inputs[o] = {},
                  !.pc = IF inBacklog THEN "pop" ELSE IF left # {} THEN "object"
                         ELSE IF pass.full THEN "pop" ELSE "enforce"])
  /\ UNCHANGED <<mode, store, dirty, allDirty, backlog, driver, call, events>>

\* prepare returns: nothing left to take, or its budget spent on one at least.
PrepareEnds ==
  LET only == pass.by = "view" /\ ~pass.full
      ready == IF only THEN waiting \cap {call["view"].want} ELSE waiting \cap backlog
  IN /\ pass.pc = "pop" /\ (pass.begun \/ ready = {})
     /\ \/ pass.full /\ Begins([pass EXCEPT !.pc = "enforce"]) /\ UNCHANGED <<driver, call>>
        \/ /\ ~pass.full /\ Begins(NoPass)
           /\ IF only THEN Becomes("view", Idle) /\ UNCHANGED driver
              ELSE driver' = (waiting # {}) /\ UNCHANGED call
  /\ UNCHANGED <<disk, view, dirty, allDirty, backlog, waiting, vanished, query, skipped, events, fails>>

\* The end of rebuild_states: the ledger wins; what is left is prepared behind.
PassEnforce ==
  /\ pass.pc = "enforce"
  /\ \/ /\ Enforce(view, pass.full, pass.touched)
        /\ driver' = (driver \/ (pass.full /\ waiting # {}))
        /\ pass' = NoPass /\ GoesOn(pass.by) /\ UNCHANGED <<warm, cache, fails>>
     \/ /\ Fails("vanished") /\ EngineFaults /\ PassErrs
        /\ UNCHANGED <<view, removed, vanished, driver>>
  /\ UNCHANGED <<disk, dirty, allDirty, backlog, waiting, upserted, skipped, events>>

------------------------------------------------------------------------------
(* The query cache *)

Sending(c) == call[c].pc = "sent"
CacheFree == \A c \in Client : ~Sending(c)

\* push_query: what is sent is collected. Warm, the delta; cold, the corpus, or
\* every state when there is none or it was refused.
PushBegins(c) ==
  LET corpus == ~warm /\ mode = "changes" /\ ~call[c].json
      delta == {o \in upserted : view[o] # {}} \cup {o \in removed : view[o] = {}}
      histories == [o \in Object |-> IF o \in vanished \cup Based THEN {} ELSE store[o]]
  IN /\ call[c].pc = "push" /\ CacheFree
     /\ Becomes(c, [call[c] EXCEPT
          !.pc = "sent",
          !.ids = IF warm THEN delta ELSE IF corpus THEN upserted \ Based ELSE Object,
          !.rows = IF corpus THEN histories ELSE view,
          !.json = ~warm /\ ~corpus])
  /\ UNCHANGED <<disk, view, owed, vanished, query, pass, skipped, events, fails>>

\* The engine has answered: what was sent is no longer owed.
PushEnds(c) ==
  LET p == call[c]
      pushed == CASE c = "view" -> Idle
                  [] c = "commit" -> [Idle EXCEPT !.want = p.want,
                                        !.pc = IF mode = "changes" THEN "read" ELSE "store"]
  IN /\ Sending(c)
     /\ \/ /\ warm /\ ~p.json
           /\ cache' = [o \in Object |-> IF o \in p.ids THEN p.rows[o] ELSE cache[o]]
           /\ upserted' = {} /\ removed' = {} /\ warm' = TRUE /\ Becomes(c, pushed)
           /\ UNCHANGED fails
        \/ /\ p.json
           /\ cache' = p.rows /\ upserted' = {} /\ removed' = {} /\ warm' = TRUE
           /\ Becomes(c, pushed) /\ UNCHANGED fails
        \/ /\ ~warm /\ ~p.json
           /\ cache' = p.rows /\ warm' = TRUE
           /\ upserted' = (upserted \ p.ids) \cup {o \in Based : view[o] # {}}
           /\ removed' = removed \cup vanished
           /\ Becomes(c, [Idle EXCEPT !.pc = "push", !.want = p.want]) /\ UNCHANGED fails
        \/ /\ Fails("query") /\ EngineFaults /\ UNCHANGED <<upserted, removed>>
           /\ Becomes(c, IF warm \/ p.json THEN Idle
                         ELSE [Idle EXCEPT !.pc = "push", !.want = p.want, !.json = TRUE])
  /\ UNCHANGED <<disk, view, owed, vanished, pass, skipped, events>>

------------------------------------------------------------------------------
(* A commit *)

\* commit: the heads the change will have as parents ...
CommitReads ==
  LET p == call["commit"]
  IN /\ p.pc = "read"
     /\ \/ Becomes("commit", [p EXCEPT !.pc = "store", !.seen = store[p.want]]) /\ UNCHANGED fails
        \/ Fails("object") /\ Becomes("commit", Idle)
  /\ UNCHANGED <<disk, view, owed, vanished, query, pass, skipped, events>>

\* ... it is stored (in record mode merged) ...
CommitStores ==
  LET p == call["commit"]
  IN /\ p.pc = "store"
     /\ store' = [store EXCEPT ![p.want] = @ \cup {Ours}]
     /\ Becomes("commit", [p EXCEPT !.pc = "mark"])
  /\ UNCHANGED <<mode, memo, view, owed, vanished, query, pass, skipped, events, fails>>

\* ... the engine, when it caches exactly those heads, applies it to its cache,
\* under cache_lock, and the object is dirty.
CommitMarks ==
  LET p == call["commit"]
      o == p.want
      applies == mode = "changes" /\ warm /\ cache[o] = p.seen
  IN /\ p.pc = "mark" /\ (mode = "changes" => CacheFree)
     /\ \/ /\ Becomes("commit", [p EXCEPT !.pc = "settle", !.applied = applies])
           /\ cache' = IF applies THEN [cache EXCEPT ![o] = @ \cup {Ours}] ELSE cache
           /\ UNCHANGED <<warm, fails>>
        \/ /\ mode = "changes" /\ warm /\ Fails("query") /\ EngineFaults
           /\ Becomes("commit", [p EXCEPT !.pc = "settle"])
     /\ dirty' = dirty \cup {o}
  /\ UNCHANGED <<disk, view, allDirty, backlog, waiting, driver, vanished, upserted, removed,
                 pass, skipped, events>>

\* Replayed: the upsert is not owed when the cache already has just this change on top.
CommitEnds ==
  LET p == call["commit"]
      exact == p.applied /\ view[p.want] = p.seen \cup {Ours}
  IN /\ p.pc = "exact"
     /\ upserted' = IF exact THEN upserted \ {p.want} ELSE upserted
     /\ Becomes("commit", Idle)
  /\ UNCHANGED <<disk, view, owed, vanished, removed, warm, cache, pass, skipped, events, fails>>

\* Sync stores somebody's change, then tells the backend (Host::on_objects).
Import(o) ==
  /\ importing = None /\ Theirs \notin store[o] /\ imports < MaxImports
  /\ store' = [store EXCEPT ![o] = @ \cup {Theirs}]
  /\ importing' = o /\ imports' = imports + 1
  /\ UNCHANGED <<mode, memo, view, owed, vanished, query, pass, call, skipped, commits, fails>>

OnObjects ==
  /\ importing # None
  /\ dirty' = dirty \cup {importing} /\ importing' = None
  /\ UNCHANGED <<disk, view, allDirty, backlog, waiting, driver, vanished, query, pass, call,
                 skipped, imports, commits, fails>>

------------------------------------------------------------------------------
PassStep ==
  \/ PassInputs \/ PassRestore \/ PassPending \/ PassObject \/ PrepareObject
  \/ Replay \/ PrepareEnds \/ PassEnforce

ClientStep(c) ==
  \/ Ensure(c) \/ PushBegins(c) \/ PushEnds(c)
  \/ c = "commit" /\ (CommitReads \/ CommitStores \/ CommitMarks \/ CommitEnds)

\* In the browser nothing runs between a push's snapshot and the engine's answer.
Next ==
  \/ \E c \in Client : ClientStep(c) /\ (Threads \/ CacheFree \/ Sending(c))
  \/ /\ Threads \/ CacheFree
     /\ Plans \/ Prepares \/ PassStep \/ OnObjects \/ \E o \in Written : Import(o)

Spec == Init /\ [][Next]_vars

\* Every task is polled until it returns, and the application reads again.
FairSpec ==
  /\ Spec
  /\ WF_vars(PassStep) /\ WF_vars(Prepares) /\ WF_vars(OnObjects)
  /\ \A c \in Client : WF_vars(ClientStep(c))

------------------------------------------------------------------------------
(* Properties *)

PassNeeds(o) == pass.pc \in {"inputs", "restore"} \/ o \in pass.ids

\* An object changed by a writer that has reported it, or is about to.
Marked(o) ==
  \/ allDirty \/ o \in dirty \/ importing = o
  \/ call["commit"].pc = "mark" /\ call["commit"].want = o

\* A replay is owed to o: by the next pass, by the one under way, by the
\* preparation, or for good by an engine that refused it.
ReplayOwed(o) == Marked(o) \/ o \in waiting \cup skipped \/ PassNeeds(o)

\* A state that is not what the store holds is owed a replay. Only what the
\* ledger names is shown otherwise (ensure, rebuild_states, prepare).
ShownIsOwed ==
  \A o \in Object : view[o] # store[o] => ReplayOwed(o) \/ o \in Named(view)

\* Between passes nothing the shown ledger names is shown, whatever replayed
\* after it, as long as no store call failed (enforce_vanished).
LedgerWins ==
  pass = NoPass /\ ~allDirty /\ fails = 0 => \A o \in Named(view) : view[o] = {}

\* The engine's cached row of an object is its state, or the push that corrects
\* it is owed, or the whole cache is; the corpus may also be ahead of a state
\* that is still to be replayed (push_query, load_corpus). Not beside a commit
\* the engine applies to its own cache: an older state can be pushed over that
\* row, and its correction dropped as exact.
CacheIsOwed ==
  mode = "records" \/ commits = 0 => \A o \in Object :
    \/ cache[o] = view[o] \/ ~warm
    \/ o \in upserted /\ view[o] # {}
    \/ o \in removed /\ view[o] = {}
    \/ mode = "changes" /\ view[o] # store[o] /\ ReplayOwed(o)

\* A preparation comes to its end: the backlog of a pass is replayed in the
\* background, however reads and failures interrupt it (start_preparing).
Prepared == waiting # {} ~> waiting = {}
==============================================================================
