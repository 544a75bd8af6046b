--------------------------- MODULE VaultViewProofs ---------------------------
(***************************************************************************)
(* What VaultView shows, for every set of objects, every store and every   *)
(* failure: a state that is not what the store holds is owed a replay      *)
(* (ShownIsOwed), and the ledger wins between passes (LedgerWins); the     *)
(* second half adds the engine's query cache (CacheIsOwed).                *)
(*                                                                         *)
(* Neither is inductive.  A pass reads the store at one step and shows     *)
(* what it read at a later one, so the argument needs what it holds in     *)
(* between: inputs no older than the view, and current unless somebody     *)
(* is about to mark the object dirty (Fresh).                              *)
(***************************************************************************)
EXTENDS VaultView, TLAPS

Views == [Object -> SUBSET Change]
Opt == Object \cup {None}
PassPC == {"idle", "inputs", "restore", "pending", "object", "replay", "pop", "prepare",
           "enforce"}
PassType == [by : Client \cup {"driver", None}, pc : PassPC, full : BOOLEAN,
             ids : SUBSET Object, touched : SUBSET Object, cur : Opt, inputs : Views,
             begun : BOOLEAN]
CallPC == {"idle", "ids", "ensure", "settle", "exact", "push", "sent", "read", "store", "mark"}
CallType == [pc : CallPC, want : Opt, seen : SUBSET Change, applied : BOOLEAN, json : BOOLEAN,
             ids : SUBSET Object, rows : Views]

TypedView ==
  /\ mode \in {"records", "changes"}
  /\ store \in Views /\ memo \in Views /\ view \in Views /\ cache \in Views
  /\ dirty \subseteq Object /\ backlog \subseteq Object /\ waiting \subseteq Object
  /\ vanished \subseteq Object /\ upserted \subseteq Object /\ removed \subseteq Object
  /\ skipped \subseteq Object
  /\ allDirty \in BOOLEAN /\ driver \in BOOLEAN /\ warm \in BOOLEAN
  /\ importing \in Opt /\ imports \in Nat /\ commits \in Nat /\ fails \in Nat

\* Which fields of a pass and of a call mean something, by program counter.
PassShape ==
  /\ pass.pc = "idle" <=> pass = NoPass
  /\ pass.pc # "idle" => pass.by \in Client \cup {"driver"}
  /\ pass.pc \notin {"pending", "object", "replay"} => pass.ids = {}
  /\ pass.pc \in {"replay", "prepare"} => pass.cur \in Object
  /\ pass.pc \in {"inputs", "restore"} => pass.full
  /\ pass.pc # "idle" /\ pass.by = "driver" => ~pass.full /\ pass.pc \in {"pop", "prepare"}

CallShape ==
  /\ call["commit"].pc # "idle" => call["commit"].want \in Object
  /\ call["commit"].pc # "ids"
  /\ call["view"].pc \in {"idle", "ids", "push", "sent"}
  /\ call["view"].pc = "ids" => call["view"].want \in Object
  /\ pass.pc # "idle" /\ pass.by = "commit" => call["commit"].pc \in {"ensure", "settle"}
  /\ pass.pc # "idle" /\ pass.by = "view" => call["view"].pc \in {"idle", "ids"}

Typed == TypedView /\ pass \in PassType /\ call \in [Client -> CallType] /\ PassShape /\ CallShape

-----------------------------------------------------------------------------
LEMMA IdleTypes == NoPass \in PassType /\ Idle \in CallType
  BY DEF NoPass, Idle, PassType, CallType, PassPC, CallPC, Opt, Views

LEMMA FailsCounts == \A what : fails \in Nat /\ Fails(what) => fails' \in Nat
  BY DEF Fails

\* A call takes a record of its type.
LEMMA BecomesTyped ==
  ASSUME call \in [Client -> CallType], NEW c \in Client, NEW r \in CallType, Becomes(c, r)
  PROVE  /\ call' \in [Client -> CallType] /\ call'[c] = r
         /\ \A x \in Client \ {c} : call'[x] = call[x]
  BY DEF Becomes

LEMMA NoPassFields ==
  /\ NoPass.pc = "idle" /\ NoPass.by = None /\ ~NoPass.full /\ NoPass.ids = {} /\ NoPass.touched = {}
  /\ Idle.pc = "idle"
  BY DEF NoPass, Idle

\* GoesOn as the steps it may take.
LEMMA GoesOnTyped ==
  ASSUME Typed, NEW c \in Client, GoesOn(c),
         call[c].pc \in {"ensure", "settle"} \cup (IF c = "view" THEN {"idle", "ids"} ELSE {})
  PROVE  /\ call' \in [Client -> CallType]
         /\ \A x \in Client \ {c} : call'[x] = call[x]
         /\ c = "view" => call'[c].pc \in {"push", "ids"} 
         /\ c = "view" /\ call'[c].pc = "ids" => call'[c].want \in Object
         /\ c = "commit" => call'[c].pc \in {"push", "exact"} /\ call'[c].want = call[c].want
<1>1. call \in [Client -> CallType] /\ call[c] \in CallType /\ waiting \subseteq Object
  BY DEF Typed, TypedView
<1>2. CASE call[c].pc = "settle"
  BY <1>1, <1>2 DEF GoesOn, Becomes, CallType, CallPC, Typed, CallShape
<1>3. CASE call[c].pc # "settle" /\ Becomes(c, [call[c] EXCEPT !.pc = "push"])
  BY <1>1, <1>3 DEF Becomes, CallType, CallPC
<1>4. CASE /\ call[c].pc # "settle" /\ c = "view"
           /\ \E o \in waiting : Becomes(c, [Idle EXCEPT !.pc = "ids", !.want = o])
  <2>1. PICK o \in Object : Becomes(c, [Idle EXCEPT !.pc = "ids", !.want = o])
    BY <1>1, <1>4
  <2>2. PICK r : r = [Idle EXCEPT !.pc = "ids", !.want = o]
    OBVIOUS
  <2>3. r \in CallType /\ r.pc = "ids" /\ r.want = o
    BY <2>2 DEF Idle, CallType, CallPC, Opt, Views
  <2> QED BY <1>1, <1>4, <2>1, <2>2, <2>3, BecomesTyped
<1> QED BY <1>2, <1>3, <1>4 DEF GoesOn


LEMMA TypedInit == Init => Typed
<1> SUFFICES ASSUME Init PROVE Typed
  OBVIOUS
<1>1. store \in Views /\ memo \in Views /\ view \in Views /\ cache \in Views
  BY DEF Init, Views, Change
<1>2. mode \in {"records", "changes"}
  BY VaultConstants DEF Init
<1>3. TypedView
  BY <1>1, <1>2 DEF Init, TypedView, Opt
<1> QED BY <1>3, IdleTypes, NoPassFields DEF Init, Typed, PassShape, CallShape, Client

-----------------------------------------------------------------------------
LEMMA EnsureTyped == ASSUME Typed, NEW c \in Client, Ensure(c) PROVE Typed'
<1>1. TypedView'
  BY DEF Typed, TypedView, Ensure, disk, query, events
<1>2. pass = NoPass /\ call \in [Client -> CallType] /\ dirty \subseteq Object
  BY DEF Ensure, Typed, TypedView
<1>3. CASE /\ pass' = [NoPass EXCEPT !.by = c, !.pc = "inputs", !.full = TRUE]
           /\ UNCHANGED call
  <2>1. pass' \in PassType /\ PassShape' /\ pass'.pc # "idle" /\ pass'.by = c
    BY <1>3 DEF PassShape, PassType, PassPC, NoPass, Opt, Views, Client
  <2> QED BY <1>1, <1>2, <1>3, <2>1 DEF Typed, CallShape, Ensure, Client
<1>4. CASE /\ pass' = [NoPass EXCEPT !.by = c, !.pc = "pending", !.ids = dirty, !.touched = dirty]
           /\ UNCHANGED call
  <2>1. pass' \in PassType /\ PassShape' /\ pass'.pc # "idle" /\ pass'.by = c
    BY <1>2, <1>4 DEF PassShape, PassType, PassPC, NoPass, Opt, Views, Client
  <2> QED BY <1>1, <1>2, <1>4, <2>1 DEF Typed, CallShape, Ensure, Client
<1>5. CASE GoesOn(c) /\ UNCHANGED pass
  <2>1. call[c].pc \in {"ensure", "settle"} \cup (IF c = "view" THEN {"idle", "ids"} ELSE {})
    BY DEF Ensure
  <2> QED BY <1>1, <1>2, <1>5, <2>1, GoesOnTyped, NoPassFields DEF Typed, PassShape, CallShape, Client
<1> QED BY <1>3, <1>4, <1>5 DEF Ensure, Begins

LEMMA PassErrsTyped ==
  ASSUME Typed, pass.pc # "idle", PassErrs, TypedView' PROVE Typed'
<1>1. call \in [Client -> CallType]
  BY DEF Typed
<1>2. /\ call' \in [Client -> CallType]
      /\ \A x \in Client : call'[x] = call[x] \/ call'[x] = Idle
  <2>1. CASE pass.by = "driver"
    BY <1>1, <2>1 DEF PassErrs
  <2>2. CASE pass.by # "driver"
    BY <1>1, <2>2, IdleTypes DEF PassErrs, Becomes, Typed, PassShape
  <2> QED BY <2>1, <2>2
<1>3. pass' = NoPass
  BY DEF PassErrs
<1> QED BY <1>2, <1>3, IdleTypes, NoPassFields DEF Typed, PassShape, CallShape, Client

\* A pass takes its next step.
LEMMA PassTo ==
  ASSUME Typed, TypedView', pass' \in PassType, UNCHANGED call, pass.pc # "idle",
         pass'.by = pass.by, pass'.pc # "idle",
         PassShape'
  PROVE  Typed'
  BY DEF Typed, CallShape

LEMMA PassInputsTyped == ASSUME Typed, PassInputs PROVE Typed'
<1>1. TypedView'
  BY FailsCounts DEF PassInputs, Typed, TypedView, disk, query, events
<1>2. CASE Begins([pass EXCEPT !.pc = "restore", !.inputs = store]) /\ UNCHANGED call
  BY <1>1, <1>2, PassTo, NoPassFields DEF PassInputs, Begins, Typed, TypedView, PassShape, PassType, PassPC
<1> QED BY <1>1, <1>2, PassErrsTyped DEF PassInputs

LEMMA PassRestoreTyped == ASSUME Typed, PassRestore PROVE Typed'
<1>1. TypedView' /\ dirty \subseteq Object
  <2>1. pass.inputs \in Views /\ view \in Views
    BY DEF Typed, TypedView, PassType
  <2>2. view' \in Views
    BY <2>1 DEF PassRestore, Views
  <2> QED BY <2>2 DEF PassRestore, Typed, TypedView, events, disk
<1>2. pass' = [NoPass EXCEPT !.by = pass.by, !.full = TRUE, !.ids = dirty, !.touched = dirty,
                              !.pc = IF dirty = {} THEN "pop" ELSE "pending"]
      /\ UNCHANGED call /\ pass.pc = "restore"
  BY DEF PassRestore, Begins
<1>3. pass' \in PassType
  BY <1>1, <1>2 DEF Typed, PassShape, PassType, PassPC, NoPass, Opt, Views
<1>4. PassShape' /\ pass'.by = pass.by /\ pass'.pc # "idle"
  BY <1>1, <1>2, <1>3 DEF Typed, PassShape, PassType, NoPass
<1> QED BY <1>1, <1>2, <1>3, <1>4, PassTo

LEMMA PassPendingTyped == ASSUME Typed, PassPending PROVE Typed'
<1>1. TypedView'
  BY FailsCounts DEF PassPending, Requeue, Typed, TypedView, disk, query, events, PassType
<1>2. CASE Begins([pass EXCEPT !.pc = "object"]) /\ UNCHANGED call
  BY <1>1, <1>2, PassTo, NoPassFields DEF PassPending, Begins, Typed, TypedView, PassShape, PassType, PassPC
<1> QED BY <1>1, <1>2, PassErrsTyped DEF PassPending, Requeue

LEMMA PassObjectTyped == ASSUME Typed, PassObject PROVE Typed'
<1>1. TypedView'
  BY FailsCounts DEF PassObject, Requeue, Typed, TypedView, disk, query, events, PassType
<1>2. ASSUME NEW o \in pass.ids, UNCHANGED call,
             Begins([pass EXCEPT !.pc = "replay", !.cur = o, !.inputs[o] = store[o]])
      PROVE  Typed'
  BY <1>1, <1>2, PassTo, NoPassFields DEF PassObject, Begins, Typed, TypedView, PassShape, PassType, PassPC, Opt, Views
<1> QED BY <1>1, <1>2, PassErrsTyped DEF PassObject, Requeue


LEMMA PreparesTyped == ASSUME Typed, Prepares PROVE Typed'
<1>1. TypedView' /\ pass = NoPass
  BY DEF Prepares, Typed, TypedView, disk, owed, query, events
<1>2. ASSUME NEW b \in {"view", "driver"}, pass' = [NoPass EXCEPT !.by = b, !.pc = "pop"],
             b = "view" => call["view"].pc = "ids"
      PROVE  Typed'
  <2>1. pass' \in PassType /\ PassShape' /\ pass'.pc # "idle" /\ pass'.by = b
    BY <1>2 DEF PassShape, PassType, PassPC, NoPass, Opt, Views, Client
  <2> QED BY <1>1, <1>2, <2>1 DEF Typed, CallShape, Prepares, Client
<1> QED BY <1>2 DEF Prepares, Begins

LEMMA PrepareObjectTyped == ASSUME Typed, PrepareObject PROVE Typed'
<1>1. TypedView'
  BY FailsCounts DEF PrepareObject, PutBack, Typed, TypedView, disk, query, events, PassType
<1>2. ASSUME NEW o \in Object, UNCHANGED call,
             Begins([pass EXCEPT !.pc = "prepare", !.cur = o, !.inputs[o] = store[o], !.begun = TRUE])
      PROVE  Typed'
  BY <1>1, <1>2, PassTo, NoPassFields DEF PrepareObject, Begins, Typed, TypedView, PassShape, PassType, PassPC, Opt, Views
<1>3. pass.pc = "pop" /\ waiting \subseteq Object
  BY DEF PrepareObject, Typed, TypedView
<1>4. \/ PassErrs
      \/ \E o \in Object : /\ UNCHANGED call
                           /\ Begins([pass EXCEPT !.pc = "prepare", !.cur = o, !.inputs[o] = store[o], !.begun = TRUE])
  BY <1>3, VaultConstants DEF PrepareObject
<1> QED BY <1>1, <1>2, <1>3, <1>4, PassErrsTyped

\* What enforcing the ledger does to a view.
LEMMA EnforceTyped ==
  ASSUME NEW v \in Views, vanished \subseteq Object, removed \subseteq Object,
         NEW all \in BOOLEAN, NEW touched \in SUBSET Object, Enforce(v, all, touched)
  PROVE  /\ view' \in Views /\ vanished' \subseteq Object /\ removed' \subseteq Object
<1>1. Swept(v, all, touched) \subseteq Object
  BY VaultConstants DEF Swept, Named
<1> QED BY <1>1 DEF Enforce, Views

LEMMA ReplayTyped == ASSUME Typed, Replay PROVE Typed'
<1>1. /\ pass.cur \in Object /\ pass.inputs \in Views /\ view \in Views
      /\ vanished \subseteq Object /\ removed \subseteq Object /\ memo \in Views
      /\ upserted \subseteq Object /\ skipped \subseteq Object /\ waiting \subseteq Object
      /\ pass \in PassType /\ pass.pc \in {"replay", "prepare"} /\ cache \in Views
  BY DEF Replay, Typed, TypedView, PassShape, PassType
<1>2. PICK new \in SUBSET Change : new = pass.inputs[pass.cur]
  BY <1>1 DEF Views
<1>3. PICK v \in Views : v = [view EXCEPT ![pass.cur] = new]
  BY <1>1 DEF Views
<1>4. view' \in Views /\ vanished' \subseteq Object /\ removed' \subseteq Object
  <2>1. PICK w \in Views : \/ w = v 
                           \/ w = view
        /\ IF pass.pc = "prepare" THEN Enforce(w, pass.cur = Ledger, {pass.cur})
           ELSE view' = w /\ UNCHANGED <<removed, vanished>>
    BY <1>1, <1>2, <1>3 DEF Replay
  <2> QED BY <1>1, <2>1, EnforceTyped
<1>5. memo' \in Views /\ cache' \in Views /\ upserted' \subseteq Object /\ skipped' \subseteq Object
      /\ waiting' \subseteq Object
  BY <1>1, <1>2 DEF Replay, EngineFaults, Views
<1>6. warm' \in BOOLEAN /\ fails' \in Nat
  BY FailsCounts DEF Replay, EngineFaults, Typed, TypedView
<1>7. TypedView'
  BY <1>4, <1>5, <1>6 DEF Replay, Typed, TypedView, events
<1>8. pass' \in PassType /\ UNCHANGED call /\ PassShape' /\ pass'.by = pass.by /\ pass'.pc # "idle"
  BY <1>1 DEF Replay, Begins, Typed, PassShape, PassType, PassPC, Opt, Views, NoPass
<1> QED BY <1>1, <1>7, <1>8, PassTo

LEMMA PrepareEndsTyped == ASSUME Typed, PrepareEnds PROVE Typed'
<1>1. TypedView' /\ pass.pc = "pop"
  BY DEF PrepareEnds, Typed, TypedView, disk, query, events, PassType
<1>2. CASE pass' = [pass EXCEPT !.pc = "enforce"] /\ UNCHANGED call /\ pass.full
  BY <1>1, <1>2, PassTo, NoPassFields DEF Typed, PassShape, PassType, PassPC
<1>3. CASE pass' = NoPass /\ (Becomes("view", Idle) \/ UNCHANGED call)
  <2>1. /\ call' \in [Client -> CallType]
        /\ \A x \in Client : call'[x] = call[x] \/ call'[x] = Idle
    BY <1>3, IdleTypes DEF Becomes, Typed
  <2> QED BY <1>1, <1>3, <2>1, IdleTypes, NoPassFields DEF Typed, PassShape, CallShape, Client
<1> QED BY <1>2, <1>3 DEF PrepareEnds, Begins

LEMMA PassEnforceTyped == ASSUME Typed, PassEnforce PROVE Typed'
<1>1. /\ pass.by \in Client /\ pass.pc = "enforce" /\ view \in Views /\ pass \in PassType
      /\ vanished \subseteq Object /\ removed \subseteq Object
      /\ pass.full \in BOOLEAN /\ pass.touched \subseteq Object /\ fails \in Nat
  BY DEF PassEnforce, Typed, TypedView, PassShape, PassType
<1>2. CASE Enforce(view, pass.full, pass.touched) /\ pass' = NoPass /\ GoesOn(pass.by) /\ UNCHANGED <<warm, cache, fails>>
  <2>1. TypedView'
    BY <1>1, <1>2, EnforceTyped DEF PassEnforce, Typed, TypedView, disk, events
  <2>2. PICK c \in Client : c = pass.by
    BY <1>1
  <2>3. call[c].pc \in {"ensure", "settle"} \cup (IF c = "view" THEN {"idle", "ids"} ELSE {})
    BY <1>1, <2>2 DEF Typed, CallShape, Client
  <2>4. GoesOn(c)
    BY <1>2, <2>2
  <2> QED BY <1>2, <2>1, <2>2, <2>3, <2>4, GoesOnTyped, NoPassFields, IdleTypes DEF Typed, PassShape, CallShape, Client
<1>3. CASE Fails("vanished") /\ EngineFaults /\ PassErrs /\ UNCHANGED <<view, removed, vanished, driver>>
  <2>1. TypedView'
    BY <1>1, <1>3, FailsCounts DEF EngineFaults, PassEnforce, Typed, TypedView, disk, events, Views
  <2> QED BY <1>1, <1>3, <2>1, PassErrsTyped
<1> QED BY <1>2, <1>3 DEF PassEnforce


-----------------------------------------------------------------------------
\* A client's own step, which leaves the pass alone.
LEMMA ClientTo ==
  ASSUME Typed, TypedView', UNCHANGED pass, NEW c \in Client, NEW r \in CallType, Becomes(c, r),
         c = "view" => r.pc \in {"idle", "push", "sent"}
                       /\ (pass.pc = "idle" \/ pass.by # "view"),
         c = "commit" => /\ r.pc \notin {"ids"} /\ (r.pc # "idle" => r.want \in Object)
                         /\ (pass.pc = "idle" \/ pass.by # "commit")
  PROVE  Typed'
<1>1. /\ call' \in [Client -> CallType] /\ call'[c] = r
      /\ \A x \in Client \ {c} : call'[x] = call[x]
  BY BecomesTyped DEF Typed
<1> QED BY <1>1, IdleTypes DEF Typed, PassShape, CallShape, Client

LEMMA PlansTyped == ASSUME Typed, Plans PROVE Typed'
<1>1. TypedView'
  BY DEF Plans, Typed, TypedView, disk, owed, query
<1>2. PICK o \in Object : Becomes("commit", [Idle EXCEPT !.pc = "ensure", !.want = o])
  BY VaultConstants DEF Plans
<1>3. PICK r : r = [Idle EXCEPT !.pc = "ensure", !.want = o]
  OBVIOUS
<1>r. r \in CallType /\ r.pc = "ensure" /\ r.want = o
  BY <1>3 DEF Idle, CallType, CallPC, Opt, Views
<1>4. pass.pc = "idle" \/ pass.by # "commit"
  BY DEF Plans, Typed, CallShape
<1> QED BY <1>1, <1>2, <1>3, <1>r, <1>4, ClientTo DEF Plans, Client

LEMMA PushBeginsTyped == ASSUME Typed, NEW c \in Client, PushBegins(c) PROVE Typed'
<1>1. TypedView' /\ UNCHANGED pass
  BY DEF PushBegins, Typed, TypedView, disk, owed, query, events
<1>2. call[c] \in CallType /\ call[c].pc = "push"
  BY DEF PushBegins, Typed
<1>3. PICK ids \in SUBSET Object, rows \in Views, json \in BOOLEAN :
        Becomes(c, [call[c] EXCEPT !.pc = "sent", !.ids = ids, !.rows = rows, !.json = json])
  <2>1. \A S \in SUBSET Object : [o \in Object |-> IF o \in S THEN {} ELSE store[o]] \in Views
    BY DEF Typed, TypedView, Views
  <2>2. [o \in Object |-> IF o \in vanished \cup Based THEN {} ELSE store[o]] \in Views
    BY <2>1, VaultConstants DEF Typed, TypedView
  <2> QED BY <2>2 DEF PushBegins, Typed, TypedView
<1>r. PICK r : r = [call[c] EXCEPT !.pc = "sent", !.ids = ids, !.rows = rows, !.json = json]
  OBVIOUS
<1>4. r \in CallType /\ r.pc = "sent" /\ r.want = call[c].want
  BY <1>2, <1>r DEF CallType, CallPC
<1>5. pass.pc = "idle" \/ pass.by # c
  BY <1>2 DEF Typed, CallShape, Client
<1>6. c = "commit" => r.want \in Object
  BY <1>2, <1>4 DEF Typed, CallShape
<1> QED BY <1>1, <1>3, <1>r, <1>4, <1>5, <1>6, ClientTo DEF Client

\* Where a push ends.
LEMMA PushTo ==
  ASSUME Typed, NEW c \in Client, PushEnds(c)
  PROVE  \E r \in CallType : /\ Becomes(c, r) /\ r.pc \in {"idle", "push", "read", "store"}
                             /\ c = "view" => r.pc \in {"idle", "push"}
                             /\ r.pc # "idle" => r.want = call[c].want
                             /\ ~r.applied
<1>1. call[c] \in CallType /\ call[c].want \in Opt
  BY DEF Typed, CallType
<1>2. \A pc \in {"push", "read", "store"}, json \in BOOLEAN :
        LET r == [Idle EXCEPT !.pc = pc, !.want = call[c].want, !.json = json]
        IN  r \in CallType /\ r.pc = pc /\ r.want = call[c].want /\ ~r.applied
  BY <1>1 DEF Idle, CallType, CallPC, Opt, Views
<1>3. \A pc \in {"push", "read", "store"} :
        LET r == [Idle EXCEPT !.pc = pc, !.want = call[c].want]
        IN  r \in CallType /\ r.pc = pc /\ r.want = call[c].want /\ ~r.applied
  BY <1>1 DEF Idle, CallType, CallPC, Opt, Views
<1>4. ~Idle.applied
  BY DEF Idle
<1> QED BY <1>2, <1>3, <1>4, IdleTypes, NoPassFields DEF PushEnds, Client

LEMMA PushEndsTyped == ASSUME Typed, NEW c \in Client, PushEnds(c) PROVE Typed'
<1>1. PICK r \in CallType : /\ Becomes(c, r) /\ r.pc \in {"idle", "push", "read", "store"}
                            /\ c = "view" => r.pc \in {"idle", "push"}
                            /\ r.pc # "idle" => r.want = call[c].want
  BY PushTo
<1>2. call[c].rows \in Views /\ call[c].pc = "sent" /\ cache \in Views /\ view \in Views
  BY DEF PushEnds, Sending, Typed, TypedView, CallType
<1>3. cache' \in Views
  BY <1>2 DEF PushEnds, EngineFaults, Views
<1>4. upserted' \subseteq Object /\ removed' \subseteq Object
  BY VaultConstants DEF PushEnds, Typed, TypedView
<1>5. warm' \in BOOLEAN
  BY DEF PushEnds, EngineFaults
<1>6. fails' \in Nat
  BY FailsCounts DEF PushEnds, Typed, TypedView
<1>7. TypedView' /\ UNCHANGED pass
  BY <1>3, <1>4, <1>5, <1>6 DEF PushEnds, Typed, TypedView, disk, owed, events
<1>8. pass.pc = "idle" \/ pass.by # c
  BY <1>2 DEF Typed, CallShape, Client
<1>9. c = "commit" => call[c].want \in Object
  BY <1>2 DEF Typed, CallShape
<1> QED BY <1>1, <1>7, <1>8, <1>9, ClientTo DEF Client

\* A step of a commit.
LEMMA CommitTo ==
  ASSUME Typed, TypedView', UNCHANGED pass,
         call["commit"].pc \in {"read", "store", "mark", "exact"},
         NEW r \in CallType, Becomes("commit", r), r.pc # "ids",
         r.pc = "idle" \/ r.want = call["commit"].want
  PROVE  Typed'
<1>1. call["commit"].want \in Object /\ (pass.pc = "idle" \/ pass.by # "commit")
  BY DEF Typed, CallShape
<1> QED BY <1>1, ClientTo DEF Client

LEMMA CommitReadsTyped == ASSUME Typed, CommitReads PROVE Typed'
<1>1. TypedView' /\ UNCHANGED pass
  BY FailsCounts DEF CommitReads, Typed, TypedView, disk, owed, query, events
<1>2. call["commit"] \in CallType /\ call["commit"].pc = "read" /\ store[call["commit"].want] \in SUBSET Change
  BY DEF CommitReads, Typed, TypedView, CallShape, Views, Client
<1>3. CASE Becomes("commit", [call["commit"] EXCEPT !.pc = "store", !.seen = store[call["commit"].want]])
  <2>1. PICK r : r = [call["commit"] EXCEPT !.pc = "store", !.seen = store[call["commit"].want]]
    OBVIOUS
  <2>2. r \in CallType /\ r.pc = "store" /\ r.want = call["commit"].want
    BY <1>2, <2>1 DEF CallType, CallPC
  <2> QED BY <1>1, <1>2, <1>3, <2>1, <2>2, CommitTo
<1> QED BY <1>1, <1>2, <1>3, CommitTo, IdleTypes, NoPassFields DEF CommitReads

LEMMA CommitStoresTyped == ASSUME Typed, CommitStores PROVE Typed'
<1>1. TypedView' /\ UNCHANGED pass
  BY DEF CommitStores, Typed, TypedView, owed, query, events, Views, Change
<1>2. call["commit"] \in CallType /\ call["commit"].pc = "store"
  BY DEF CommitStores, Typed, Client
<1>3. PICK r : r = [call["commit"] EXCEPT !.pc = "mark"]
  OBVIOUS
<1>4. r \in CallType /\ r.pc = "mark" /\ r.want = call["commit"].want
  BY <1>2, <1>3 DEF CallType, CallPC
<1> QED BY <1>1, <1>2, <1>3, <1>4, CommitTo DEF CommitStores

LEMMA CommitMarksTyped == ASSUME Typed, CommitMarks PROVE Typed'
<1>1. call["commit"] \in CallType /\ call["commit"].pc = "mark" /\ call["commit"].want \in Object
      /\ cache \in Views
  BY DEF CommitMarks, Typed, TypedView, CallShape, Client
<1>2. cache' \in Views
  BY <1>1 DEF CommitMarks, EngineFaults, Views, Change
<1>3. fails' \in Nat
  BY FailsCounts DEF CommitMarks, Typed, TypedView
<1>4. TypedView' /\ UNCHANGED pass
  BY <1>1, <1>2, <1>3 DEF CommitMarks, EngineFaults, Typed, TypedView, disk, events
<1>5. \E b \in BOOLEAN : \/ Becomes("commit", [call["commit"] EXCEPT !.pc = "settle", !.applied = b])
                         \/ Becomes("commit", [call["commit"] EXCEPT !.pc = "settle"])
  BY DEF CommitMarks
<1>6. \A b \in BOOLEAN : LET r == [call["commit"] EXCEPT !.pc = "settle", !.applied = b]
                         IN  r \in CallType /\ r.pc = "settle" /\ r.want = call["commit"].want
  BY <1>1 DEF CallType, CallPC
<1>7. LET r == [call["commit"] EXCEPT !.pc = "settle"]
      IN  r \in CallType /\ r.pc = "settle" /\ r.want = call["commit"].want
  BY <1>1 DEF CallType, CallPC
<1>8. PICK r \in CallType : Becomes("commit", r) /\ r.pc = "settle" /\ r.want = call["commit"].want
  BY <1>5, <1>6, <1>7
<1> QED BY <1>1, <1>4, <1>8, CommitTo

LEMMA CommitEndsTyped == ASSUME Typed, CommitEnds PROVE Typed'
<1>1. TypedView' /\ UNCHANGED pass
  BY DEF CommitEnds, Typed, TypedView, disk, owed, query, events
<1> QED BY <1>1, CommitTo, IdleTypes, NoPassFields DEF CommitEnds

LEMMA ImportTyped == ASSUME Typed, NEW o \in Written, Import(o) PROVE Typed'
<1>1. o \in Object
  BY VaultConstants
<1>2. TypedView' /\ UNCHANGED <<pass, call>>
  BY <1>1 DEF Import, Typed, TypedView, owed, query, Views, Change, Opt
<1> QED BY <1>2 DEF Typed, PassShape, CallShape

LEMMA OnObjectsTyped == ASSUME Typed, OnObjects PROVE Typed'
<1>1. TypedView' /\ UNCHANGED <<pass, call>>
  BY DEF OnObjects, Typed, TypedView, disk, query, Opt
<1> QED BY <1>1 DEF Typed, PassShape, CallShape

LEMMA TypedStep == ASSUME Typed, [Next]_vars PROVE Typed'
<1>1. CASE UNCHANGED vars
  BY <1>1 DEF vars, disk, owed, query, events, Typed, TypedView, PassShape, CallShape
<1>2. ASSUME NEW c \in Client, ClientStep(c) PROVE Typed'
  BY <1>2, EnsureTyped, PushBeginsTyped, PushEndsTyped, CommitReadsTyped, CommitStoresTyped,
     CommitMarksTyped, CommitEndsTyped DEF ClientStep
<1>3. CASE PassStep
  BY <1>3, PassInputsTyped, PassRestoreTyped, PassPendingTyped, PassObjectTyped,
     PrepareObjectTyped, ReplayTyped, PrepareEndsTyped, PassEnforceTyped DEF PassStep
<1> QED BY <1>1, <1>2, <1>3, PlansTyped, PreparesTyped, OnObjectsTyped, ImportTyped DEF Next

\* Every state the module reaches is of its types (the fields of State and of
\* the tasks that hold ensure_lock and cache_lock).
THEOREM VaultTypes == Spec => []Typed
BY TypedInit, TypedStep, PTL DEF Spec


-----------------------------------------------------------------------------
(* Shown is owed.                                                          *)

\* What the pass read of an object is no older than what is shown, and current
\* unless the object is marked.
Current(o) ==
  /\ view[o] \subseteq pass.inputs[o] /\ pass.inputs[o] \subseteq store[o]
  /\ pass.inputs[o] = store[o] \/ Marked(o)

Fresh ==
  /\ \A o \in Object : view[o] \subseteq store[o]
  /\ pass.pc = "restore" => \A o \in Object : Current(o)
  /\ pass.pc \in {"replay", "prepare"} => Current(pass.cur)

\* Only what the shown ledger names was taken out of the view.
AllOwed ==
  /\ vanished \subseteq Named(view)
  /\ \A o \in Object : view[o] = store[o] \/ ReplayOwed(o) \/ o \in vanished

ShownInv == Fresh /\ AllOwed

\* No step but a replay pays what is owed.
StillOwed == \A o \in Object : ReplayOwed(o) => ReplayOwed(o)'

\* A step that shows nothing new and takes nothing off the object's account.
LEMMA OwedStays ==
  ASSUME ShownInv, UNCHANGED <<view, store, vanished>>,
         StillOwed
  PROVE  AllOwed'
BY DEF ShownInv, AllOwed, Named, StillOwed

\* Nor changes what the pass has read.
LEMMA FreshStays ==
  ASSUME ShownInv, UNCHANGED <<view, store, vanished>>,
         pass' = pass \/ pass'.pc \notin {"restore", "replay", "prepare"},
         \A o \in Object : Marked(o) => Marked(o)',
         pass.pc \in {"replay", "prepare"} => pass.cur \in Object
  PROVE  Fresh'
<1>1. CASE pass' = pass
  BY <1>1 DEF ShownInv, Fresh, Current
<1>2. CASE pass'.pc \notin {"restore", "replay", "prepare"}
  BY <1>2 DEF ShownInv, Fresh
<1> QED BY <1>1, <1>2

\* What Ensure makes of the pass.
LEMMA EnsurePass ==
  ASSUME NEW c \in Client, Ensure(c)
  PROVE  \/ /\ allDirty /\ ~allDirty' /\ dirty' = {} /\ UNCHANGED call
            /\ pass'.pc = "inputs" /\ pass'.by = c /\ pass'.full /\ pass'.ids = {}
         \/ /\ ~allDirty /\ dirty # {} /\ ~allDirty' /\ dirty' = {} /\ UNCHANGED call
            /\ pass'.pc = "pending" /\ pass'.by = c /\ ~pass'.full /\ pass'.ids = dirty
            /\ pass'.touched = dirty
         \/ ~allDirty /\ dirty = {} /\ GoesOn(c) /\ UNCHANGED <<pass, allDirty, dirty>>
<1>1. CASE /\ allDirty /\ allDirty' = FALSE /\ dirty' = {} /\ UNCHANGED call
           /\ pass' = [NoPass EXCEPT !.by = c, !.pc = "inputs", !.full = TRUE]
  <2>1. pass'.pc = "inputs" /\ pass'.by = c /\ pass'.full /\ pass'.ids = {}
    BY <1>1 DEF NoPass
  <2> QED BY <1>1, <2>1
<1>2. CASE /\ ~allDirty /\ dirty # {} /\ dirty' = {} /\ UNCHANGED <<allDirty, call>>
           /\ pass' = [NoPass EXCEPT !.by = c, !.pc = "pending", !.ids = dirty, !.touched = dirty]
  <2>1. pass'.pc = "pending" /\ pass'.by = c /\ ~pass'.full /\ pass'.ids = dirty
        /\ pass'.touched = dirty
    BY <1>2 DEF NoPass
  <2> QED BY <1>2, <2>1
<1>3. CASE ~allDirty /\ dirty = {} /\ GoesOn(c) /\ UNCHANGED <<pass, allDirty, dirty>>
  BY <1>3
<1> QED BY <1>1, <1>2, <1>3 DEF Ensure, Begins

LEMMA EnsureShown == ASSUME Typed, ShownInv, NEW c \in Client, Ensure(c) PROVE ShownInv' /\ StillOwed
<1>1. pass = NoPass /\ UNCHANGED <<view, store, vanished, waiting, importing, skipped>>
  BY DEF Ensure, disk, events
<1>2. call["commit"].pc = "mark" => call'["commit"] = call["commit"]
  <2>1. CASE GoesOn(c)
    <3>1. call[c].pc \in {"ensure", "settle"} \cup (IF c = "view" THEN {"idle", "ids"} ELSE {})
      BY DEF Ensure
    <3> QED BY <2>1, <3>1, GoesOnTyped DEF Client
  <2>2. CASE UNCHANGED call
    BY <2>2
  <2> QED BY <2>1, <2>2 DEF Ensure
<1>3. StillOwed
  BY <1>1, <1>2, EnsurePass, NoPassFields DEF StillOwed, ReplayOwed, Marked, PassNeeds
<1>4. Fresh'
  <2>1. pass'.pc \notin {"restore", "replay", "prepare"}
    BY <1>1, EnsurePass, NoPassFields
  <2> QED BY <1>1, <2>1 DEF ShownInv, Fresh
<1> QED BY <1>1, <1>3, <1>4, OwedStays DEF ShownInv

\* A pass that errs leaves what it was about marked.
LEMMA PassErrsShown ==
  ASSUME Typed, ShownInv, pass.pc # "idle", PassErrs, UNCHANGED <<view, store, vanished, importing, waiting, skipped>>,
         dirty \subseteq dirty', allDirty => allDirty',
         pass.pc \in {"inputs", "restore"} => allDirty',
         pass.ids \subseteq dirty' \/ allDirty'
  PROVE  ShownInv' /\ StillOwed
<1>1. pass' = NoPass
  BY DEF PassErrs
<1>2. call["commit"].pc = "mark" => call'["commit"] = call["commit"]
  BY DEF PassErrs, Becomes, Typed, PassShape, CallShape, Client
<1>3. StillOwed
  BY <1>1, <1>2 DEF StillOwed, ReplayOwed, Marked, PassNeeds
<1>4. Fresh'
  BY <1>1, NoPassFields DEF ShownInv, Fresh
<1> QED BY <1>3, <1>4, OwedStays DEF ShownInv

LEMMA PassInputsShown == ASSUME Typed, ShownInv, PassInputs PROVE ShownInv' /\ StillOwed
<1>1. CASE Begins([pass EXCEPT !.pc = "restore", !.inputs = store]) /\ UNCHANGED <<allDirty, call>>
  <2>1. pass' = [pass EXCEPT !.pc = "restore", !.inputs = store] /\ pass.pc = "inputs"
        /\ UNCHANGED <<view, store, vanished, dirty, importing, waiting, skipped, allDirty, call>>
        /\ pass \in PassType
    BY <1>1 DEF PassInputs, Begins, disk, events, Typed
  <2>2. pass'.pc = "restore" /\ pass'.inputs = store
    BY <2>1 DEF PassType
  <2>3. Fresh'
    BY <2>1, <2>2 DEF ShownInv, Fresh, Current, Typed, TypedView, Views
  <2>4. StillOwed
    BY <2>2 DEF StillOwed, ReplayOwed, PassNeeds
  <2> QED BY <2>1, <2>3, <2>4, OwedStays DEF ShownInv
<1>2. CASE Fails("inputs") /\ allDirty' = TRUE /\ PassErrs
  BY <1>2, PassErrsShown DEF PassInputs, disk, events
<1> QED BY <1>1, <1>2 DEF PassInputs

LEMMA PassRestoreShown == ASSUME Typed, ShownInv, PassRestore PROVE ShownInv'
<1> DEFINE stale == {o \in Object : pass.inputs[o] # {} /\ view[o] # pass.inputs[o]}
           misses == {o \in stale : mode = "changes" /\ memo[o] # pass.inputs[o]}
           served == stale \ misses
<1>1. /\ pass.pc = "restore" /\ UNCHANGED <<store, importing, allDirty, call>> /\ vanished' = {}
      /\ view' = [o \in Object |-> IF o \in served THEN pass.inputs[o] ELSE view[o]]
      /\ waiting' = misses /\ dirty' = {}
      /\ pass' = [NoPass EXCEPT !.by = pass.by, !.full = TRUE, !.ids = dirty, !.touched = dirty,
                              !.pc = IF dirty = {} THEN "pop" ELSE "pending"]
  BY DEF PassRestore, Begins, disk, events
<1>2. pass'.ids = dirty /\ pass'.pc \in {"pop", "pending"}
  BY <1>1 DEF NoPass
<1>3. \A o \in Object : Current(o)
  BY <1>1 DEF ShownInv, Fresh
<1>4. \A o \in Object : view'[o] = pass.inputs[o] \/ o \in misses
  BY <1>1, <1>3 DEF Current
<1>5. \A o \in Object : Marked(o) => ReplayOwed(o)'
  BY <1>1, <1>2 DEF Marked, ReplayOwed, PassNeeds
<1>6. \A o \in Object : view'[o] = store'[o] \/ ReplayOwed(o)'
  BY <1>1, <1>3, <1>4, <1>5 DEF Current, ReplayOwed
<1>7. Fresh'
  <2>1. \A o \in Object : view'[o] \subseteq store'[o]
    BY <1>1, <1>3 DEF Current, ShownInv, Fresh
  <2> QED BY <1>2, <2>1 DEF Fresh
<1>8. vanished' \subseteq Named(view')
  BY <1>1
<1> HIDE DEF stale
<1> QED BY <1>6, <1>7, <1>8 DEF ShownInv, AllOwed, Named

LEMMA PassPendingShown == ASSUME Typed, ShownInv, PassPending PROVE ShownInv' /\ StillOwed
<1>1. CASE Begins([pass EXCEPT !.pc = "object"]) /\ UNCHANGED <<allDirty, dirty, call>>
  <2>1. pass' = [pass EXCEPT !.pc = "object"] /\ pass.pc = "pending" /\ pass \in PassType
        /\ UNCHANGED <<view, store, vanished, dirty, importing, waiting, skipped, allDirty, call>>
    BY <1>1 DEF PassPending, Begins, disk, events, Typed
  <2>2. pass'.pc = "object" /\ pass'.ids = pass.ids
    BY <2>1 DEF PassType
  <2>3. StillOwed /\ \A o \in Object : Marked(o) => Marked(o)'
    BY <2>1, <2>2 DEF StillOwed, ReplayOwed, Marked, PassNeeds
  <2> QED BY <2>1, <2>2, <2>3, OwedStays, FreshStays DEF ShownInv, Typed, PassShape
<1>2. CASE Requeue
  BY <1>2, PassErrsShown DEF PassPending, Requeue, disk, events
<1> QED BY <1>1, <1>2 DEF PassPending

\* The pass reads an object: what it holds is current.
LEMMA ReadsShown ==
  ASSUME Typed, ShownInv, NEW o \in Object,
         UNCHANGED <<view, store, vanished, dirty, importing, waiting, skipped, allDirty, call>>,
         pass'.pc \in {"replay", "prepare"}, pass'.cur = o, pass'.inputs = [pass.inputs EXCEPT ![o] = store[o]],
         pass'.ids = pass.ids, pass.pc \notin {"inputs", "restore"}
  PROVE  ShownInv' /\ StillOwed
<1>1. pass'.inputs[o] = store[o]
  BY DEF Typed, PassType, Views
<1>2. Fresh'
  BY <1>1 DEF ShownInv, Fresh, Current
<1>3. StillOwed
  BY DEF StillOwed, ReplayOwed, Marked, PassNeeds
<1> QED BY <1>2, <1>3, OwedStays DEF ShownInv

LEMMA PassObjectShown == ASSUME Typed, ShownInv, PassObject PROVE ShownInv' /\ StillOwed
<1>1. ASSUME NEW o \in pass.ids, UNCHANGED <<allDirty, dirty, call>>,
             Begins([pass EXCEPT !.pc = "replay", !.cur = o, !.inputs[o] = store[o]])
      PROVE  ShownInv' /\ StillOwed
  <2>1. o \in Object /\ pass \in PassType
    BY DEF Typed, PassType
  <2>2. /\ UNCHANGED <<view, store, vanished, dirty, importing, waiting, skipped, allDirty, call>>
        /\ pass.pc = "object"
    BY <1>1 DEF PassObject, disk, events
  <2>3. /\ pass'.pc = "replay" /\ pass'.cur = o /\ pass'.inputs = [pass.inputs EXCEPT ![o] = store[o]]
        /\ pass'.ids = pass.ids
    BY <1>1, <2>1 DEF Begins, PassType
  <2> QED BY <2>1, <2>2, <2>3, ReadsShown
<1>2. CASE Requeue
  BY <1>2, PassErrsShown DEF PassObject, Requeue, disk, events
<1> QED BY <1>1, <1>2 DEF PassObject

LEMMA PrepareObjectShown == ASSUME Typed, ShownInv, PrepareObject PROVE ShownInv' /\ StillOwed
<1>1. /\ UNCHANGED <<view, store, vanished, dirty, importing, waiting, skipped>>
      /\ pass.pc = "pop" /\ pass \in PassType /\ waiting \subseteq Object /\ pass.ids = {}
  BY DEF PrepareObject, disk, events, Typed, TypedView, PassShape
<1>2. ASSUME NEW o \in Object, UNCHANGED <<allDirty, call>>,
             Begins([pass EXCEPT !.pc = "prepare", !.cur = o, !.inputs[o] = store[o], !.begun = TRUE])
      PROVE  ShownInv' /\ StillOwed
  <2>1. /\ pass'.pc = "prepare" /\ pass'.cur = o /\ pass'.inputs = [pass.inputs EXCEPT ![o] = store[o]]
        /\ pass'.ids = pass.ids
    BY <1>1, <1>2 DEF Begins, PassType
  <2> QED BY <1>1, <1>2, <2>1, ReadsShown
<1>3. CASE allDirty' = (allDirty \/ pass.full) /\ PassErrs
  BY <1>1, <1>3, PassErrsShown
<1>4. \/ allDirty' = (allDirty \/ pass.full) /\ PassErrs
      \/ \E o \in Object : /\ UNCHANGED <<allDirty, call>>
                           /\ Begins([pass EXCEPT !.pc = "prepare", !.cur = o, !.inputs[o] = store[o], !.begun = TRUE])
  BY <1>1, VaultConstants DEF PrepareObject
<1> QED BY <1>2, <1>3, <1>4

\* What enforcing the ledger hides is what the shown ledger names.
LEMMA EnforceHides ==
  ASSUME NEW v \in Views, NEW all, NEW touched, Enforce(v, all, touched)
  PROVE  /\ Named(view') = Named(v)
         /\ \A o \in Object : view'[o] = v[o] \/ (view'[o] = {} /\ o \in Named(v) /\ o \in vanished')
        /\ vanished \subseteq vanished' /\ vanished' \subseteq vanished \cup Named(v)
<1>1. Swept(v, all, touched) \subseteq Named(v) /\ Ledger \notin Named(v) /\ Ledger \in Object
  BY VaultConstants DEF Swept, Named
<1> QED BY <1>1 DEF Enforce, Named, Views

LEMMA ReplayShown == ASSUME Typed, ShownInv, Replay PROVE ShownInv'
<1>1. PICK k \in Object : k = pass.cur
  BY DEF Replay, Typed, PassShape
<1>2. /\ pass.pc \in {"replay", "prepare"} /\ Current(k) /\ view \in Views /\ store \in Views
      /\ pass \in PassType /\ waiting' = waiting \ {k}
      /\ UNCHANGED <<store, dirty, importing, allDirty, call>>
  BY <1>1 DEF Replay, ShownInv, Fresh, Typed, TypedView, events
<1>3. PICK read \in SUBSET Change : read = pass.inputs[k]
  BY <1>1, <1>2 DEF PassType, Views
<1>4. pass'.ids = pass.ids \ {k} /\ pass'.pc \notin {"inputs", "restore", "replay", "prepare"}
  BY <1>1, <1>2 DEF Replay, Begins, PassType
<1>v. PICK v \in Views : v = [view EXCEPT ![k] = read]
  BY <1>2 DEF Views
<1>5. PICK w \in Views :
        /\ \/ w = v /\ skipped' = skipped \ {k}
           \/ w = view /\ skipped' = skipped \cup {k}
        /\ IF pass.pc = "prepare" THEN Enforce(w, k = Ledger, {k}) ELSE view' = w /\ UNCHANGED vanished
  <2>1. v = [view EXCEPT ![pass.cur] = pass.inputs[pass.cur]]
    BY <1>1, <1>3, <1>v
  <2>2. \/ /\ skipped' = skipped \ {pass.cur}
           /\ IF pass.pc = "prepare" THEN Enforce(v, pass.cur = Ledger, {pass.cur}) ELSE view' = v /\ UNCHANGED vanished
        \/ /\ skipped' = skipped \cup {pass.cur}
           /\ IF pass.pc = "prepare" THEN Enforce(view, pass.cur = Ledger, {pass.cur}) ELSE view' = view /\ UNCHANGED vanished
    BY <2>1 DEF Replay
  <2> QED BY <1>1, <1>2, <2>2
<1>6. /\ Named(view') = Named(w)
      /\ \A x \in Object : view'[x] = w[x] \/ (view'[x] = {} /\ x \in vanished')
      /\ vanished \subseteq vanished' /\ vanished' \subseteq vanished \cup Named(w)
  BY <1>5, EnforceHides
<1>7. Named(view) \subseteq Named(w)
  <2>1. Ledger \in Object
    BY VaultConstants
  <2>2. view[k] \subseteq v[k] /\ \A x \in Object \ {k} : v[x] = view[x]
    BY <1>2, <1>3, <1>v DEF Current, Views
  <2>3. view[Ledger] \subseteq w[Ledger]
    BY <1>5, <2>1, <2>2
  <2> QED BY <2>3 DEF Named
<1>8. \A x \in Object : w[x] = store[x] \/ (x # k /\ (ReplayOwed(x) \/ x \in vanished)) \/ x \in skipped' \/ (Marked(k) /\ x = k)
  <2>1. ASSUME NEW x \in Object
        PROVE  w[x] = store[x] \/ (x # k /\ (ReplayOwed(x) \/ x \in vanished)) \/ x \in skipped' \/ (Marked(k) /\ x = k)
    <3>1. CASE x = k
      BY <1>2, <1>3, <1>v, <1>5, <3>1 DEF Current, Views
    <3>2. CASE x # k
      <4>1. w[x] = view[x]
        BY <1>2, <1>v, <1>5, <3>2 DEF Views
      <4>2. view[x] = store[x] \/ ReplayOwed(x) \/ x \in vanished
        BY DEF ShownInv, AllOwed
      <4> QED BY <3>2, <4>1, <4>2
    <3> QED BY <3>1, <3>2
  <2> QED BY <2>1
<1>9. \A x \in Object : view'[x] = store'[x] \/ ReplayOwed(x)' \/ x \in vanished'
  <2>1. ASSUME NEW x \in Object PROVE view'[x] = store'[x] \/ ReplayOwed(x)' \/ x \in vanished'
    <3>1. CASE x # k /\ ReplayOwed(x)
      BY <1>2, <1>4, <1>5, <1>6, <1>7, <3>1 DEF StillOwed, ReplayOwed, Marked, PassNeeds
    <3>2. CASE x \in skipped' \/ x \in vanished \/ x \in vanished' \/ (Marked(k) /\ x = k)
      BY <1>2, <1>6, <3>2 DEF ReplayOwed, Marked
    <3> QED BY <1>2, <1>6, <1>8, <3>1, <3>2
  <2> QED BY <2>1
<1>10. Fresh'
  <2>1. \A x \in Object : w[x] \subseteq store[x]
    BY <1>2, <1>3, <1>v, <1>5 DEF ShownInv, Fresh, Current, Views
  <2>2. \A x \in Object : view'[x] \subseteq store'[x]
    BY <1>2, <1>6, <2>1
  <2> QED BY <1>4, <2>2 DEF Fresh
<1>11. vanished' \subseteq Named(view')
  BY <1>6, <1>7 DEF ShownInv, AllOwed
<1> QED BY <1>9, <1>10, <1>11 DEF ShownInv, AllOwed, Named

LEMMA PrepareEndsShown == ASSUME Typed, ShownInv, PrepareEnds PROVE ShownInv' /\ StillOwed
<1>1. /\ UNCHANGED <<view, store, vanished, dirty, importing, waiting, skipped, allDirty>>
      /\ pass.pc = "pop" /\ pass \in PassType /\ pass.ids = {}
  BY DEF PrepareEnds, disk, events, Typed, PassShape
<1>2. /\ call'["commit"] = call["commit"]
      /\ pass'.pc \in {"idle", "enforce"}
  <2>1. call \in [Client -> CallType]
    BY DEF Typed
  <2>2. CASE pass' = [pass EXCEPT !.pc = "enforce"] /\ UNCHANGED call
    BY <1>1, <2>2 DEF PassType
  <2>3. CASE pass' = NoPass /\ (Becomes("view", Idle) \/ UNCHANGED call)
    BY <2>1, <2>3, NoPassFields DEF Becomes, Client
  <2> QED BY <2>2, <2>3 DEF PrepareEnds, Begins
<1>3. StillOwed /\ \A o \in Object : Marked(o) => Marked(o)'
  BY <1>1, <1>2 DEF StillOwed, ReplayOwed, Marked, PassNeeds
<1> QED BY <1>1, <1>2, <1>3, OwedStays, FreshStays DEF ShownInv

LEMMA PassEnforceShown == ASSUME Typed, ShownInv, PassEnforce PROVE ShownInv' /\ StillOwed
<1>1. /\ UNCHANGED <<store, dirty, importing, waiting, skipped, allDirty>>
      /\ pass.pc = "enforce" /\ pass.ids = {} /\ view \in Views /\ pass.by \in Client
  BY DEF PassEnforce, disk, events, Typed, TypedView, PassShape
<1>2. CASE Enforce(view, pass.full, pass.touched) /\ pass' = NoPass /\ GoesOn(pass.by)
  <2>1. PICK c \in Client : c = pass.by
    BY <1>1
  <2>2. call[c].pc \in {"ensure", "settle"} \cup (IF c = "view" THEN {"idle", "ids"} ELSE {})
    BY <1>1, <2>1 DEF Typed, CallShape, Client
  <2>3. call["commit"].pc = "mark" => call'["commit"] = call["commit"]
    BY <1>2, <2>1, <2>2, GoesOnTyped DEF Client
  <2>4. /\ Named(view') = Named(view)
        /\ \A o \in Object : view'[o] = view[o] \/ (view'[o] = {} /\ o \in vanished')
        /\ vanished \subseteq vanished' /\ vanished' \subseteq vanished \cup Named(view)
    BY <1>1, <1>2, EnforceHides
  <2>5. StillOwed
    BY <1>1, <1>2, <2>3, <2>4, NoPassFields DEF StillOwed, ReplayOwed, Marked, PassNeeds
  <2>6. \A o \in Object : view'[o] = store'[o] \/ ReplayOwed(o)' \/ o \in vanished'
    BY <1>1, <2>4, <2>5 DEF ShownInv, AllOwed, StillOwed
  <2>7. Fresh'
    BY <1>1, <1>2, <2>4, NoPassFields DEF ShownInv, Fresh
  <2>8. vanished' \subseteq Named(view')
    BY <2>4 DEF ShownInv, AllOwed
  <2> QED BY <2>5, <2>6, <2>7, <2>8 DEF ShownInv, AllOwed, Named
<1>3. CASE PassErrs /\ UNCHANGED <<view, vanished>>
  BY <1>1, <1>3, PassErrsShown
<1> QED BY <1>2, <1>3 DEF PassEnforce

\* A client's step, with no mark lost.
LEMMA ClientShown ==
  ASSUME Typed, ShownInv, UNCHANGED <<view, store, vanished, waiting, importing, skipped, allDirty, pass>>,
         dirty \subseteq dirty',
         call["commit"].pc = "mark" => \/ call'["commit"] = call["commit"]
                                       \/ call["commit"].want \in dirty'
  PROVE  ShownInv' /\ StillOwed
<1>1. StillOwed /\ \A o \in Object : Marked(o) => Marked(o)'
  BY DEF StillOwed, ReplayOwed, Marked, PassNeeds
<1> QED BY <1>1, OwedStays, FreshStays DEF ShownInv, Typed, PassShape

LEMMA PlansShown == ASSUME Typed, ShownInv, Plans PROVE ShownInv' /\ StillOwed
  BY ClientShown DEF Plans, disk, owed

LEMMA PushShown == ASSUME Typed, ShownInv, NEW c \in Client, PushBegins(c) \/ PushEnds(c) PROVE ShownInv' /\ StillOwed
<1>1. UNCHANGED <<view, store, vanished, waiting, importing, skipped, allDirty, pass, dirty>>
  BY DEF PushBegins, PushEnds, disk, owed, events
<1>2. call[c].pc \in {"push", "sent"} /\ \E r : Becomes(c, r)
  BY PushTo DEF PushBegins, PushEnds, Sending
<1>3. call["commit"].pc = "mark" => call'["commit"] = call["commit"]
  BY <1>2 DEF Becomes, Typed, Client
<1> QED BY <1>1, <1>3, ClientShown

LEMMA CommitReadsShown == ASSUME Typed, ShownInv, CommitReads PROVE ShownInv' /\ StillOwed
  BY ClientShown DEF CommitReads, disk, owed, events

LEMMA CommitEndsShown == ASSUME Typed, ShownInv, CommitEnds PROVE ShownInv' /\ StillOwed
  BY ClientShown DEF CommitEnds, disk, owed, events

LEMMA CommitMarksShown == ASSUME Typed, ShownInv, CommitMarks PROVE ShownInv' /\ StillOwed
  BY ClientShown DEF CommitMarks, disk, events

\* A store grows under a mark.
LEMMA StoreGrows ==
  ASSUME Typed, ShownInv, NEW o \in Object, NEW d \in Change,
         store' = [store EXCEPT ![o] = @ \cup {d}], Marked(o)',
         UNCHANGED <<view, vanished, waiting, skipped, allDirty, dirty, pass>>,
         \A x \in Object \ {o} : Marked(x) => Marked(x)'
  PROVE  ShownInv' /\ StillOwed
<1>1. StillOwed /\ \A x \in Object : Marked(x) => Marked(x)'
  BY DEF StillOwed, ReplayOwed, PassNeeds
<1>2. /\ \A x \in Object : store[x] \subseteq store'[x]
      /\ \A x \in Object \ {o} : store'[x] = store[x]
  BY DEF Typed, TypedView, Views
<1>3. \A x \in Object : view'[x] = store'[x] \/ ReplayOwed(x)' \/ x \in vanished'
  BY <1>1, <1>2 DEF ShownInv, AllOwed, StillOwed, ReplayOwed
<1>4. \A x \in Object : Current(x) => Current(x)'
  BY <1>1, <1>2 DEF Current
<1>5. Fresh'
  BY <1>2, <1>4 DEF ShownInv, Fresh, Typed, PassShape
<1> QED BY <1>1, <1>3, <1>5 DEF ShownInv, AllOwed, Named

LEMMA CommitStoresShown == ASSUME Typed, ShownInv, CommitStores PROVE ShownInv' /\ StillOwed
<1>1. PICK o \in Object : o = call["commit"].want
  BY DEF CommitStores, Typed, CallShape
<1>2. /\ store' = [store EXCEPT ![o] = @ \cup {Ours}] /\ call["commit"].pc = "store"
      /\ UNCHANGED <<view, vanished, waiting, skipped, allDirty, dirty, pass, importing>>
  BY <1>1 DEF CommitStores, owed, events
<1>3. call'["commit"].pc = "mark" /\ call'["commit"].want = o
  BY <1>1 DEF CommitStores, Becomes, Typed, CallType, CallPC, Client
<1>4. Marked(o)' /\ \A x \in Object \ {o} : Marked(x) => Marked(x)'
  BY <1>2, <1>3 DEF Marked
<1> QED BY <1>2, <1>4, StoreGrows DEF Change

LEMMA ImportShown == ASSUME Typed, ShownInv, NEW o \in Written, Import(o) PROVE ShownInv' /\ StillOwed
<1>1. o \in Object /\ o # None
  BY VaultConstants
<1>2. /\ store' = [store EXCEPT ![o] = @ \cup {Theirs}] /\ importing = None /\ importing' = o
      /\ UNCHANGED <<view, vanished, waiting, skipped, allDirty, dirty, pass, call>>
  BY DEF Import, owed
<1>3. Marked(o)' /\ \A x \in Object \ {o} : Marked(x) => Marked(x)'
  BY <1>1, <1>2, VaultConstants DEF Marked
<1> QED BY <1>1, <1>2, <1>3, StoreGrows DEF Change

LEMMA OnObjectsShown == ASSUME Typed, ShownInv, OnObjects PROVE ShownInv' /\ StillOwed
<1>1. UNCHANGED <<view, store, vanished, waiting, skipped, allDirty, pass, call>>
      /\ dirty' = dirty \cup {importing} /\ importing' = None
  BY DEF OnObjects, disk
<1>2. StillOwed /\ \A o \in Object : Marked(o) => Marked(o)'
  BY <1>1 DEF StillOwed, ReplayOwed, Marked, PassNeeds
<1> QED BY <1>1, <1>2, OwedStays, FreshStays DEF ShownInv, Typed, PassShape

LEMMA PreparesShown == ASSUME Typed, ShownInv, Prepares PROVE ShownInv' /\ StillOwed
<1>1. /\ UNCHANGED <<view, store, vanished, waiting, importing, skipped, allDirty, dirty, call>>
      /\ pass = NoPass
  BY DEF Prepares, disk, owed, events
<1>2. pass'.pc = "pop"
  BY DEF Prepares, Begins, NoPass
<1>3. StillOwed /\ \A o \in Object : Marked(o) => Marked(o)'
  BY <1>1, NoPassFields DEF StillOwed, ReplayOwed, Marked, PassNeeds
<1> QED BY <1>1, <1>2, <1>3, OwedStays, FreshStays DEF ShownInv, Typed, PassShape

LEMMA ShownStep == ASSUME Typed, ShownInv, [Next]_vars PROVE ShownInv'
<1>1. CASE UNCHANGED vars
  BY <1>1 DEF vars, disk, owed, query, events, ShownInv, Fresh, Current, Marked, AllOwed, ReplayOwed, PassNeeds, Named
<1>2. ASSUME NEW c \in Client, ClientStep(c) PROVE ShownInv'
  BY <1>2, EnsureShown, PushShown, CommitReadsShown, CommitStoresShown, CommitMarksShown,
     CommitEndsShown DEF ClientStep
<1>3. CASE PassStep
  BY <1>3, PassInputsShown, PassRestoreShown, PassPendingShown, PassObjectShown,
     PrepareObjectShown, ReplayShown, PrepareEndsShown, PassEnforceShown DEF PassStep
<1> QED BY <1>1, <1>2, <1>3, PreparesShown, PlansShown, OnObjectsShown, ImportShown DEF Next

\* Whatever is imported, committed or refused, and however passes are
\* interrupted, a state that is not what the store holds is owed a replay.
THEOREM ShownOrOwed == Spec => []ShownIsOwed
<1>1. Init => ShownInv
  BY NoPassFields DEF Init, ShownInv, Fresh, AllOwed, ReplayOwed, Marked
<1>2. ShownInv => ShownIsOwed
  BY DEF ShownInv, AllOwed, ShownIsOwed
<1> QED BY <1>1, <1>2, VaultTypes, ShownStep, PTL DEF Spec

-----------------------------------------------------------------------------
(* The ledger wins.                                                        *)

Cleared == \A o \in Named(view) : view[o] = {}
Remembers == Named(view) # {} => vanished # {}

\* Only the first pass, a full one, starts with everything dirty; outside a full
\* pass what the ledger names is hidden, or its sweep is still to come and knows
\* that it must.
LedgerInv == fails = 0 =>
  /\ allDirty => pass = NoPass /\ ~driver /\ call["view"].pc # "ids"
  /\ ~allDirty /\ ~pass.full /\ pass.pc \in {"idle", "pop", "prepare"} => Cleared /\ Remembers
  /\ ~pass.full /\ pass.pc \in {"pending", "object", "replay", "enforce"} =>
       /\ Ledger \in pass.touched \/ Remembers
       /\ pass.ids \subseteq pass.touched
       /\ pass.pc = "replay" => pass.cur \in pass.touched

LEMMA FailsCount == Typed => \A what : Fails(what) => fails' # 0
  BY DEF Fails, Typed, TypedView

LEMMA LedgerStays ==
  ASSUME LedgerInv, UNCHANGED <<view, vanished, allDirty, driver, pass>>,
         fails' = 0 => fails = 0,
         call'["view"].pc = "ids" => call["view"].pc = "ids"
  PROVE  LedgerInv'
  BY DEF LedgerInv, Cleared, Remembers

\* A sweep of all that a view's ledger names.
LEMMA SweptClears ==
  ASSUME Typed, NEW v \in Views, NEW all \in BOOLEAN, NEW touched, Enforce(v, all, touched),
         \/ all \/ Ledger \in touched \/ vanished # {} \/ Named(v) = {}
  PROVE  Cleared' /\ Remembers'
<1>1. Swept(v, all, touched) = Named(v)
  BY DEF Swept
<1>2. Named(view') = Named(v)
  BY EnforceHides
<1>3. \A o \in Named(v) : view'[o] = {}
  BY <1>1, VaultConstants DEF Enforce, Named
<1>4. vanished' = vanished \cup Named(v)
  BY <1>1 DEF Enforce
<1> QED BY <1>2, <1>3, <1>4 DEF Cleared, Remembers, Named

LEMMA EnsureLedger == ASSUME Typed, LedgerInv, NEW c \in Client, Ensure(c) PROVE LedgerInv'
<1>1. pass = NoPass /\ UNCHANGED <<view, vanished, driver, fails>>
  BY DEF Ensure, owed
<1>2. CASE pass'.pc = "inputs" /\ pass'.full /\ ~allDirty'
  BY <1>2 DEF LedgerInv
<1>3. CASE ~allDirty /\ ~allDirty' /\ pass'.pc = "pending" /\ pass'.ids = dirty /\ pass'.touched = dirty
  BY <1>1, <1>3, NoPassFields DEF LedgerInv, Remembers, Cleared
<1>4. CASE ~allDirty /\ UNCHANGED <<pass, allDirty>>
  BY <1>1, <1>4 DEF LedgerInv, Remembers, Cleared
<1> QED BY <1>2, <1>3, <1>4, EnsurePass

LEMMA PassLedger ==
  ASSUME Typed, LedgerInv,
         PassInputs \/ PassPending \/ PassObject \/ PrepareObject \/ PrepareEnds \/ Prepares
  PROVE  LedgerInv'
<1> SUFFICES ASSUME fails' = 0 PROVE LedgerInv'
  BY DEF LedgerInv
<1>1. /\ UNCHANGED <<view, vanished, fails, allDirty>> /\ pass \in PassType
      /\ call'["view"].pc = "ids" => call["view"].pc = "ids"
  <2>1. UNCHANGED <<view, vanished, fails, allDirty>> /\ (UNCHANGED call \/ Becomes("view", Idle))
    BY FailsCount DEF PassInputs, PassPending, Requeue, PassObject, PrepareObject, PrepareEnds,
                      Prepares, owed
  <2> QED BY <2>1, NoPassFields DEF Typed, Becomes, Client
<1>2. fails = 0
  BY <1>1
<1>3. CASE PassInputs
  <2>1. pass' = [pass EXCEPT !.pc = "restore", !.inputs = store] /\ UNCHANGED driver /\ pass.pc = "inputs"
    BY <1>3, FailsCount DEF PassInputs, Begins
  <2>2. pass'.full /\ pass'.pc = "restore"
    BY <1>1, <2>1 DEF PassType, Typed, PassShape
  <2> QED BY <1>1, <1>2, <2>1, <2>2, NoPassFields DEF LedgerInv
<1>4. CASE PassPending \/ PassObject
  <2>1. \/ pass.pc = "pending" /\ pass' = [pass EXCEPT !.pc = "object"]
        \/ /\ pass.pc = "object"
           /\ \E o \in pass.ids :
                pass' = [pass EXCEPT !.pc = "replay", !.cur = o, !.inputs[o] = store[o]]
    BY <1>4, FailsCount DEF PassPending, Requeue, PassObject, Begins
  <2>2. UNCHANGED driver /\ pass # NoPass
    BY <1>4, NoPassFields DEF PassPending, PassObject
  <2>3. /\ pass.pc \in {"pending", "object"} /\ pass'.pc \in {"object", "replay"}
        /\ pass'.full = pass.full /\ pass'.touched = pass.touched /\ pass'.ids = pass.ids
        /\ pass'.pc = "replay" => pass'.cur \in pass.ids
    BY <1>1, <2>1 DEF PassType
  <2> QED BY <1>1, <1>2, <2>2, <2>3 DEF LedgerInv, Remembers
<1>5. CASE PrepareObject
  <2>1. pass.pc = "pop" /\ UNCHANGED driver
        /\ \E o : pass' = [pass EXCEPT !.pc = "prepare", !.cur = o, !.inputs[o] = store[o], !.begun = TRUE]
    BY <1>5, FailsCount DEF PrepareObject, Begins
  <2>2. pass'.pc = "prepare" /\ pass'.full = pass.full
    BY <1>1, <2>1 DEF PassType
  <2> QED BY <1>1, <1>2, <2>1, <2>2, NoPassFields DEF LedgerInv, Remembers, Cleared
<1>6. CASE PrepareEnds
  <2>1. /\ pass.pc = "pop"
        /\ \/ pass.full /\ pass' = [pass EXCEPT !.pc = "enforce"]
           \/ ~pass.full /\ pass' = NoPass
    BY <1>6 DEF PrepareEnds, Begins
  <2>2. \/ pass.full /\ pass'.full
        \/ ~pass.full /\ pass' = NoPass
    BY <1>1, <2>1 DEF PassType
  <2> QED BY <1>1, <1>2, <2>1, <2>2, NoPassFields DEF LedgerInv, Remembers, Cleared
<1>7. CASE Prepares
  <2>1. pass = NoPass /\ ~allDirty
    BY <1>2, <1>7 DEF Prepares, LedgerInv
  <2>2. pass'.pc = "pop" /\ ~pass'.full
    BY <1>7 DEF Prepares, Begins, NoPass
  <2> QED BY <1>1, <1>2, <2>1, <2>2, NoPassFields DEF LedgerInv, Remembers, Cleared
<1> QED BY <1>3, <1>4, <1>5, <1>6, <1>7

LEMMA ReplayLedger == ASSUME Typed, LedgerInv, Replay PROVE LedgerInv'
<1> SUFFICES ASSUME fails' = 0 PROVE LedgerInv'
  BY DEF LedgerInv
<1>1. /\ pass.pc \in {"replay", "prepare"} /\ pass.cur \in Object /\ pass \in PassType
      /\ view \in Views /\ pass # NoPass
  BY NoPassFields DEF Replay, Typed, TypedView, PassShape
<1>2. PICK v \in Views : v = [view EXCEPT ![pass.cur] = pass.inputs[pass.cur]]
  BY <1>1 DEF Views, PassType
<1>3. /\ fails = 0 /\ UNCHANGED <<allDirty, driver, call>>
      /\ IF pass.pc = "prepare" THEN Enforce(v, pass.cur = Ledger, {pass.cur})
         ELSE view' = v /\ UNCHANGED vanished
  BY <1>2, FailsCount DEF Replay
<1>4. ~allDirty'
  BY <1>1, <1>3 DEF LedgerInv
<1>5. pass.cur # Ledger => Named(v) = Named(view)
  BY <1>1, <1>2, VaultConstants DEF Named, Views
<1>6. /\ pass'.full = pass.full /\ pass'.touched = pass.touched /\ pass'.ids \subseteq pass.ids
      /\ pass.pc = "prepare" => pass'.pc = "pop"
      /\ pass.pc = "replay" /\ ~pass.full => pass'.pc \in {"object", "enforce"}
  BY <1>1 DEF Replay, Begins, PassType
<1>7. CASE pass.full
  BY <1>4, <1>6, <1>7 DEF LedgerInv
<1>8. CASE ~pass.full /\ pass.pc = "prepare"
  <2>1. Cleared /\ Remembers
    BY <1>3, <1>4, <1>8 DEF LedgerInv
  <2>2. pass.cur = Ledger \/ vanished # {} \/ Named(v) = {}
    BY <1>5, <2>1 DEF Remembers
  <2>3. Cleared' /\ Remembers'
    BY <1>3, <1>8, <2>2, SweptClears
  <2> QED BY <1>4, <1>6, <1>8, <2>3 DEF LedgerInv
<1>9. CASE ~pass.full /\ pass.pc = "replay"
  <2>1. (Ledger \in pass.touched \/ Remembers) /\ pass.ids \subseteq pass.touched /\ pass.cur \in pass.touched
    BY <1>3, <1>9 DEF LedgerInv
  <2>2. Ledger \in pass.touched \/ Remembers'
    BY <1>3, <1>5, <1>9, <2>1 DEF Remembers, Named
  <2> QED BY <1>4, <1>6, <1>9, <2>1, <2>2 DEF LedgerInv
<1> QED BY <1>1, <1>7, <1>8, <1>9

LEMMA PassEnforceLedger == ASSUME Typed, LedgerInv, PassEnforce PROVE LedgerInv'
<1> SUFFICES ASSUME fails' = 0 PROVE LedgerInv'
  BY DEF LedgerInv
<1>1. /\ fails = 0 /\ UNCHANGED allDirty /\ Enforce(view, pass.full, pass.touched) /\ pass' = NoPass
      /\ pass.pc = "enforce" /\ view \in Views /\ pass.full \in BOOLEAN
  BY FailsCount DEF PassEnforce, Typed, TypedView, PassType
<1>2. ~allDirty'
  BY <1>1, NoPassFields DEF LedgerInv
<1>3. pass.full \/ Ledger \in pass.touched \/ vanished # {} \/ Named(view) = {}
  BY <1>1 DEF LedgerInv, Remembers
<1>4. Cleared' /\ Remembers'
  BY <1>1, <1>3, SweptClears
<1> QED BY <1>1, <1>2, <1>4, NoPassFields DEF LedgerInv

LEMMA LedgerStep == ASSUME Typed, LedgerInv, [Next]_vars PROVE LedgerInv'
<1>1. CASE UNCHANGED vars
  BY <1>1, LedgerStays DEF vars, disk, owed, query, events
<1>2. ASSUME NEW c \in Client, ClientStep(c), ~Ensure(c) PROVE LedgerInv'
  <2>1. UNCHANGED <<view, vanished, allDirty, driver, pass>> /\ (fails' = 0 => fails = 0)
    BY <1>2, FailsCount DEF ClientStep, PushBegins, PushEnds, CommitReads, CommitStores, CommitMarks,
                            CommitEnds, disk, owed
  <2>2. \E x \in Client : \E r : Becomes(x, r) /\ (x = "view" => r.pc # "ids")
    <3>1. CASE PushBegins(c)
      <4>1. PICK p : p = call[c]
        OBVIOUS
      <4>2. PICK ids, rows, json :
              Becomes(c, [p EXCEPT !.pc = "sent", !.ids = ids, !.rows = rows, !.json = json])
        BY <3>1, <4>1 DEF PushBegins
      <4>3. [p EXCEPT !.pc = "sent", !.ids = ids, !.rows = rows, !.json = json].pc = "sent"
        BY <4>1 DEF Typed, CallType
      <4> QED BY <4>2, <4>3
    <3>2. CASE PushEnds(c)
      BY <3>2, PushTo
    <3>3. CASE ~PushBegins(c) /\ ~PushEnds(c)
      BY <1>2, <3>3 DEF ClientStep, CommitReads, CommitStores, CommitMarks, CommitEnds, Client
    <3> QED BY <3>1, <3>2, <3>3
  <2>3. call'["view"].pc = "ids" => call["view"].pc = "ids"
    BY <2>2 DEF Becomes, Typed, Client
  <2> QED BY <2>1, <2>3, LedgerStays
<1>3. CASE Plans
  BY <1>3, LedgerStays DEF Plans, Becomes, Typed, Client, disk, owed
<1>4. CASE OnObjects \/ \E o \in Written : Import(o)
  BY <1>4, LedgerStays DEF OnObjects, Import, disk, owed
<1>5. CASE PassRestore
  <2>1. /\ UNCHANGED <<allDirty, fails>> /\ pass.pc = "restore"
        /\ \E S, q : pass' = [NoPass EXCEPT !.by = pass.by, !.full = TRUE, !.ids = S, !.touched = S, !.pc = q]
    BY <1>5 DEF PassRestore, Begins
  <2>2. pass'.full
    BY <2>1 DEF NoPass
  <2> QED BY <2>1, <2>2, NoPassFields DEF LedgerInv
<1> QED BY <1>1, <1>2, <1>3, <1>4, <1>5, EnsureLedger, PassLedger, ReplayLedger, PassEnforceLedger
        DEF Next, PassStep

\* Once the first pass is over, whatever is replayed after the ledger, nothing
\* that it names is shown between passes, as long as no store call failed.
THEOREM LedgerAlwaysWins == Spec => []LedgerWins
<1>1. Init => LedgerInv
  <2> SUFFICES ASSUME Init PROVE LedgerInv
    OBVIOUS
  <2>1. call["view"] = Idle
    BY DEF Init, Client
  <2> QED BY <2>1, NoPassFields DEF Init, LedgerInv
<1>2. LedgerInv => LedgerWins
  BY NoPassFields DEF LedgerInv, LedgerWins, Cleared
<1> QED BY <1>1, <1>2, VaultTypes, LedgerStep, PTL DEF Spec

-----------------------------------------------------------------------------
(***************************************************************************)
(* The engine's query cache is what the replica shows, or the correction   *)
(* is owed (CacheIsOwed), where nothing runs between a push's snapshot and *)
(* its answer (Threads) and the ledger can be enforced once it was read    *)
(* ("vanished" never fails): TLC shows that it is false otherwise.         *)
(*                                                                         *)
(* Four facts make it inductive: the first pass shows what it restored     *)
(* before any push (FirstPass); while a push waits for its answer it holds *)
(* what is still true (SnapInv); when a corpus is loaded, all that was     *)
(* taken out of the view is hidden (HiddenInv); and each row is right, or  *)
(* its correction is collected, or a replay is owed (CacheOk).             *)
(***************************************************************************)
Early == ~warm /\ ~driver /\ call["view"].pc = "idle" /\ call["commit"].pc \in {"idle", "ensure"}

\* Everything is dirty, or a full pass runs, only before anything was shown.
FirstPass ==
  /\ pass.pc # "idle" => ~allDirty
  /\ allDirty \/ pass.full => Early

-----------------------------------------------------------------------------
\* An interrupted pass, and who it was for.
LEMMA ErrsTo ==
  ASSUME Typed, pass.pc # "idle", PassErrs
  PROVE  /\ pass' = NoPass /\ pass'.pc = "idle" /\ ~pass'.full
         /\ \A x \in Client : call'[x] = call[x] \/ (x = pass.by /\ call'[x] = Idle)
<1>1. pass.by = "driver" \/ pass.by \in Client
  BY DEF Typed, PassShape
<1> QED BY <1>1, NoPassFields DEF PassErrs, Becomes, Typed, Client

LEMMA FirstPassErrs ==
  ASSUME Typed, FirstPass, pass.pc # "idle", PassErrs, UNCHANGED driver, warm' => warm,
         allDirty' => pass.full
  PROVE  FirstPass'
  BY ErrsTo, NoPassFields DEF FirstPass, Early, Client

\* A pass goes on.
LEMMA FirstPassGoes ==
  ASSUME FirstPass, pass.pc # "idle", pass'.full = pass.full,
         UNCHANGED <<allDirty, call>>, driver' => driver, warm' => warm
  PROVE  FirstPass'
  BY DEF FirstPass, Early

LEMMA FirstPassStep == ASSUME Typed, FirstPass, [Next]_vars PROVE FirstPass'
<1>1. CASE UNCHANGED vars
  BY <1>1 DEF vars, owed, query, FirstPass, Early
<1>2. ASSUME NEW c \in Client, ClientStep(c), ~Ensure(c) PROVE FirstPass'
  <2>1. UNCHANGED <<allDirty, pass>>
    BY <1>2 DEF ClientStep, PushBegins, PushEnds, CommitReads, CommitStores, CommitMarks, CommitEnds, owed
  <2>2. call[c].pc \in {"push", "sent", "read", "store", "mark", "exact"}
    BY <1>2 DEF ClientStep, PushBegins, PushEnds, Sending, CommitReads, CommitStores, CommitMarks, CommitEnds
  <2> QED BY <2>1, <2>2 DEF FirstPass, Early, Client
<1>3. ASSUME NEW c \in Client, Ensure(c) PROVE FirstPass'
  <2>1. UNCHANGED <<warm, driver>> /\ pass = NoPass
    BY <1>3 DEF Ensure, query
  <2> QED BY <1>3, <2>1, EnsurePass, NoPassFields DEF FirstPass, Early
<1>4. CASE Plans
  BY <1>4 DEF Plans, Becomes, Typed, Client, FirstPass, Early, owed, query, Idle
<1>5. CASE Prepares
  <2>1. pass = NoPass /\ ~allDirty /\ ~allDirty'
    BY <1>5 DEF Prepares, FirstPass, Early, owed
  <2>2. ~pass'.full
    BY <1>5 DEF Prepares, Begins, NoPass
  <2> QED BY <2>1, <2>2 DEF FirstPass
<1>6. CASE OnObjects \/ \E o \in Written : Import(o)
  BY <1>6 DEF OnObjects, Import, owed, query, FirstPass, Early
<1>7. CASE PassInputs \/ PassPending \/ PassObject \/ PrepareObject
  <2>1. pass.pc # "idle" /\ ~allDirty /\ UNCHANGED <<driver, warm>> /\ pass \in PassType
    BY <1>7 DEF PassInputs, PassPending, PassObject, PrepareObject, FirstPass, query, Typed
  <2>2. CASE PassErrs /\ (allDirty' => pass.full)
    BY <2>1, <2>2, FirstPassErrs
  <2>3. CASE UNCHANGED <<allDirty, call>> /\ pass'.full = pass.full
    BY <2>1, <2>3, FirstPassGoes
  <2>4. CASE Requeue \/ (allDirty' = (allDirty \/ pass.full) /\ PassErrs)
    <3>1. allDirty' => pass.full
      BY <2>1, <2>4 DEF Requeue
    <3> QED BY <2>2, <2>4, <3>1 DEF Requeue
  <2>5. CASE PassInputs
    <3>1. pass' = [pass EXCEPT !.pc = "restore", !.inputs = store] => pass'.full = pass.full
      BY <2>1 DEF PassType
    <3> QED BY <2>2, <2>3, <2>5, <3>1 DEF PassInputs, Begins, Typed, PassShape
  <2>6. CASE PassPending
    <3>1. pass' = [pass EXCEPT !.pc = "object"] => pass'.full = pass.full
      BY <2>1 DEF PassType
    <3> QED BY <2>3, <2>4, <2>6, <3>1 DEF PassPending, Begins
  <2>7. CASE PassObject
    <3>1. \A o : pass' = [pass EXCEPT !.pc = "replay", !.cur = o, !.inputs[o] = store[o]]
                  => pass'.full = pass.full
      BY <2>1 DEF PassType
    <3> QED BY <2>3, <2>4, <2>7, <3>1 DEF PassObject, Begins
  <2>8. CASE PrepareObject
    <3>1. \A o : pass' = [pass EXCEPT !.pc = "prepare", !.cur = o, !.inputs[o] = store[o], !.begun = TRUE]
                  => pass'.full = pass.full
      BY <2>1 DEF PassType
    <3> QED BY <2>3, <2>4, <2>8, <3>1 DEF PrepareObject, Begins
  <2> QED BY <1>7, <2>5, <2>6, <2>7, <2>8
<1>8. CASE PassRestore
  <2>1. /\ pass.pc = "restore" /\ pass.full /\ UNCHANGED <<allDirty, call, warm>> /\ ~driver'
        /\ \E S, q : pass' = [NoPass EXCEPT !.by = pass.by, !.full = TRUE, !.ids = S, !.touched = S, !.pc = q]
    BY <1>8 DEF PassRestore, Begins, Typed, PassShape
  <2>2. pass'.full
    BY <2>1 DEF NoPass
  <2> QED BY <2>1, <2>2, FirstPassGoes
<1>9. CASE Replay
  <2>1. pass.pc # "idle" /\ UNCHANGED <<allDirty, call, driver>> /\ pass \in PassType /\ (warm' => warm)
    BY <1>9 DEF Replay, EngineFaults, Typed
  <2>2. pass'.full = pass.full
    BY <1>9, <2>1 DEF Replay, Begins, PassType
  <2> QED BY <2>1, <2>2, FirstPassGoes
<1>10. CASE PrepareEnds
  <2>1. ~allDirty' /\ UNCHANGED warm /\ pass.pc = "pop"
    BY <1>10 DEF PrepareEnds, FirstPass, query
  <2>2. CASE pass' = NoPass
    BY <2>1, <2>2, NoPassFields DEF FirstPass
  <2>3. CASE pass' = [pass EXCEPT !.pc = "enforce"] /\ UNCHANGED <<driver, call>>
    <3>1. pass'.full = pass.full
      BY <2>3 DEF PassType, Typed
    <3> QED BY <1>10, <2>1, <2>3, <3>1, FirstPassGoes DEF PrepareEnds
  <2> QED BY <1>10, <2>2, <2>3 DEF PrepareEnds, Begins
<1>11. CASE PassEnforce
  BY <1>11, NoPassFields DEF PassEnforce, FirstPass, PassErrs
<1> QED BY <1>1, <1>2, <1>3, <1>4, <1>5, <1>6, <1>7, <1>8, <1>9, <1>10, <1>11 DEF Next, PassStep
-----------------------------------------------------------------------------
Delta == {o \in upserted : view[o] # {}} \cup {o \in removed : view[o] = {}}
Histories == [o \in Object |-> IF o \in vanished \cup Based THEN {} ELSE store[o]]

\* What a push that waits for its answer holds is still what it would collect.
Snapshot(c) ==
  LET p == call[c]
  IN  /\ warm => ~p.json /\ p.ids = Delta /\ p.rows = view
      /\ p.json => p.rows = view
      /\ ~warm /\ ~p.json => mode = "changes" /\ p.ids = upserted \ Based /\ p.rows = Histories

SnapInv ==
  /\ \A c, d \in Client : Sending(c) /\ Sending(d) => c = d
  /\ \A c \in Client : Sending(c) => Snapshot(c)

\* Only PushBegins begins a push.
LEMMA NoSend ==
  ASSUME Typed, Next, \A c \in Client : ~PushBegins(c)
  PROVE  \A c \in Client : Sending(c)' => Sending(c)
<1>0. call \in [Client -> CallType]
  BY DEF Typed
<1>1. ASSUME NEW c \in Client, NEW r \in CallType, Becomes(c, r), r.pc # "sent"
      PROVE  \A x \in Client : Sending(x)' => Sending(x)
  BY <1>0, <1>1 DEF Becomes, Sending
<1>2. CASE UNCHANGED call
  BY <1>2 DEF Sending
<1>3. ASSUME NEW c \in Client, Ensure(c) PROVE \A x \in Client : Sending(x)' => Sending(x)
  <2>1. CASE GoesOn(c)
    <3>1. call[c].pc \in {"ensure", "settle"} \cup (IF c = "view" THEN {"idle", "ids"} ELSE {})
      BY <1>3 DEF Ensure
    <3> QED BY <2>1, <3>1, GoesOnTyped DEF Sending, Client
  <2> QED BY <1>2, <1>3, <2>1 DEF Ensure
<1>4. ASSUME NEW c \in Client, PushEnds(c) PROVE \A x \in Client : Sending(x)' => Sending(x)
  BY <1>1, <1>4, PushTo
<1>5. CASE CommitReads \/ CommitStores \/ CommitMarks \/ CommitEnds
  <2>1. PICK p \in CallType : p = call["commit"]
    BY <1>0 DEF Client
  <2>2. \A b, S : /\ [p EXCEPT !.pc = "store", !.seen = S].pc # "sent"
                 /\ [p EXCEPT !.pc = "mark"].pc # "sent"
                 /\ [p EXCEPT !.pc = "settle", !.applied = b].pc # "sent"
                 /\ [p EXCEPT !.pc = "settle"].pc # "sent"
    BY DEF CallType
  <2>3. \E r : Becomes("commit", r) /\ r.pc # "sent"
    BY <1>5, <2>1, <2>2, NoPassFields DEF CommitReads, CommitStores, CommitMarks, CommitEnds
  <2> QED BY <1>0, <2>3 DEF Becomes, Sending, Client
<1>6. CASE Plans
  BY <1>0, <1>6 DEF Plans, Becomes, Sending, Client, Idle
<1>7. CASE PassInputs \/ PassPending \/ PassObject \/ PrepareObject
  <2>1. UNCHANGED call \/ (pass.pc # "idle" /\ PassErrs)
    BY <1>7 DEF PassInputs, PassPending, PassObject, PrepareObject, Requeue
  <2> QED BY <1>2, <2>1, ErrsTo, NoPassFields DEF Sending
<1>8. CASE PrepareEnds
  BY <1>0, <1>2, <1>8, NoPassFields DEF PrepareEnds, Becomes, Sending, Client
<1>9. CASE PassEnforce
  <2>1. PICK c \in Client : c = pass.by
    BY <1>9 DEF PassEnforce, Typed, PassShape
  <2>2. CASE GoesOn(c)
    <3>1. call[c].pc \in {"ensure", "settle"} \cup (IF c = "view" THEN {"idle", "ids"} ELSE {})
      BY <1>9, <2>1 DEF PassEnforce, Typed, CallShape, Client
    <3> QED BY <2>2, <3>1, GoesOnTyped DEF Sending, Client
  <2>3. GoesOn(c) \/ (pass.pc # "idle" /\ PassErrs)
    BY <1>9, <2>1 DEF PassEnforce
  <2> QED BY <2>2, <2>3, ErrsTo, NoPassFields DEF Sending
<1>10. CASE PassRestore \/ Replay \/ Prepares \/ OnObjects \/ \E o \in Written : Import(o)
  BY <1>2, <1>10 DEF PassRestore, Replay, Prepares, OnObjects, Import
<1> QED BY <1>3, <1>4, <1>5, <1>6, <1>7, <1>8, <1>9, <1>10 DEF Next, ClientStep, PassStep

LEMMA SnapStep == ASSUME Typed, SnapInv, Threads = FALSE, [Next]_vars PROVE SnapInv'
<1>1. CASE UNCHANGED vars
  BY <1>1 DEF vars, disk, query, SnapInv, Sending, Snapshot, Delta, Histories
<1>2. ASSUME NEW c \in Client, PushBegins(c) PROVE SnapInv'
  <2>1. PICK p \in CallType : p = call[c]
    BY DEF Typed
  <2>2. PICK ids, rows, json :
          /\ call' = [call EXCEPT ![c] = [p EXCEPT !.pc = "sent", !.ids = ids, !.rows = rows, !.json = json]]
          /\ warm => ids = Delta /\ rows = view /\ ~json
          /\ json => rows = view
          /\ ~warm /\ ~json => mode = "changes" /\ ids = upserted \ Based /\ rows = Histories
    <3>1. PICK ids, rows, json :
            /\ ids = (IF warm THEN Delta ELSE IF mode = "changes" /\ ~p.json THEN upserted \ Based ELSE Object)
            /\ rows = (IF ~warm /\ mode = "changes" /\ ~p.json THEN Histories ELSE view)
            /\ json = (~warm /\ ~(~warm /\ mode = "changes" /\ ~p.json))
      OBVIOUS
    <3>2. call' = [call EXCEPT ![c] = [p EXCEPT !.pc = "sent", !.ids = ids, !.rows = rows, !.json = json]]
      BY <1>2, <2>1, <3>1 DEF PushBegins, Becomes, Delta, Histories
    <3>3. warm \in BOOLEAN /\ p.json \in BOOLEAN
      BY <2>1 DEF Typed, TypedView, CallType
    <3> QED BY <3>1, <3>2, <3>3
  <2>3. /\ call'[c].ids = ids /\ call'[c].rows = rows /\ call'[c].json = json
        /\ \A x \in Client \ {c} : call'[x] = call[x]
    BY <2>1, <2>2 DEF Typed, CallType
  <2>4. UNCHANGED <<warm, upserted, removed, view, vanished, store, mode>>
    BY <1>2 DEF PushBegins, query, disk
  <2>5. \A x \in Client : Sending(x)' => x = c
    BY <1>2, <2>3 DEF PushBegins, CacheFree, Sending
  <2> QED BY <2>2, <2>3, <2>4, <2>5 DEF SnapInv, Snapshot, Delta, Histories
<1>3. CASE Next /\ \A c \in Client : ~PushBegins(c)
  <2>1. ASSUME NEW d \in Client, Sending(d), Sending(d)' PROVE FALSE
    <3>1. PICK c \in Client : ClientStep(c) /\ Sending(c)
      BY <1>3, <2>1, Zenon DEF Next, CacheFree
    <3>2. c = d
      BY <2>1, <3>1 DEF SnapInv
    <3>3. PushEnds(d)
      BY <1>3, <3>1, <3>2 DEF ClientStep, Sending, Ensure, CommitReads, CommitStores, CommitMarks, CommitEnds
    <3> QED BY <2>1, <3>3, PushTo DEF Becomes, Sending, Typed
  <2>2. \A c \in Client : ~Sending(c)'
    BY <1>3, <2>1, NoSend
  <2> QED BY <2>2 DEF SnapInv
<1> QED BY <1>1, <1>2, <1>3

-----------------------------------------------------------------------------
Sweeping == {"pending", "object", "replay", "enforce"}
VanHidden == \A o \in vanished : view[o] = {}

\* What was taken out of the view is hidden, or a dirty pass replayed some of it
\* and hides it again before its client, the view, goes on.
Hidden ==
  /\ \/ VanHidden
     \/ /\ call["view"].pc = "idle" /\ ~allDirty /\ ~pass.full
        /\ dirty # {} \/ pass.pc \in Sweeping
  /\ pass.full /\ pass.pc \in {"pending", "object", "replay"} => vanished = {}
  /\ pass.pc \in {"pending", "object"} => pass.ids # {}
  /\ pass.pc \in Sweeping /\ pass.by = "view" => call["view"].pc = "idle"
  /\ call["commit"].pc = "idle"

HiddenInv == mode = "changes" /\ commits = 0 => Hidden

LEMMA EnforceHidden ==
  ASSUME NEW v \in Views, vanished \subseteq Named(v), NEW all, NEW touched, Enforce(v, all, touched)
  PROVE  VanHidden'
<1>1. Named(v) \subseteq Object
  BY VaultConstants DEF Named
<1>2. CASE all \/ Ledger \in touched \/ vanished # {}
  BY <1>1, <1>2 DEF Enforce, Swept, VanHidden
<1>3. CASE ~(all \/ Ledger \in touched \/ vanished # {})
  BY <1>3 DEF Enforce, Swept, VanHidden
<1> QED BY <1>2, <1>3

LEMMA EnsureHidden == ASSUME Typed, Hidden, NEW c \in Client, Ensure(c) PROVE Hidden'
<1>1. c = "view" /\ call["view"].pc = "idle" /\ pass = NoPass /\ UNCHANGED <<view, vanished>>
  BY DEF Ensure, Hidden, Client, Typed, CallShape
<1>2. VanHidden => VanHidden'
  BY <1>1 DEF VanHidden
<1>3. CASE GoesOn(c) /\ ~allDirty /\ dirty = {} /\ UNCHANGED pass
  <2>1. call'["commit"] = call["commit"]
    BY <1>1, <1>3, GoesOnTyped DEF Client
  <2> QED BY <1>1, <1>2, <1>3, <2>1, NoPassFields DEF Hidden, Sweeping
<1>4. CASE pass'.pc = "inputs" /\ allDirty /\ UNCHANGED call
  BY <1>1, <1>2, <1>4 DEF Hidden, Sweeping
<1>5. CASE /\ pass'.pc = "pending" /\ ~allDirty' /\ pass'.ids = dirty /\ dirty # {} /\ ~pass'.full
           /\ UNCHANGED call
  BY <1>1, <1>5 DEF Hidden, Sweeping
<1> QED BY <1>3, <1>4, <1>5, EnsurePass

\* A pass that errs with the view as it was.
LEMMA ErrsHidden ==
  ASSUME Typed, Hidden, pass.pc # "idle", PassErrs, UNCHANGED <<view, vanished>>,
         VanHidden \/ (~allDirty' /\ (dirty # {} => dirty' # {}) /\ (pass.pc \in Sweeping => dirty' # {}))
  PROVE  Hidden'
<1>1. VanHidden => VanHidden'
  BY DEF VanHidden
<1>2. call'["commit"].pc = "idle" /\ (call["view"].pc = "idle" => call'["view"].pc = "idle")
  BY ErrsTo, NoPassFields DEF Hidden, Client
<1> QED BY <1>1, <1>2, ErrsTo DEF Hidden, Sweeping

LEMMA PassHidden ==
  ASSUME Typed, FirstPass, Hidden, PassInputs \/ PassPending \/ PassObject \/ PrepareObject
  PROVE  Hidden'
<1>1. /\ pass.pc \in {"inputs", "pending", "object", "pop"} /\ ~allDirty /\ pass \in PassType
      /\ UNCHANGED <<view, vanished>>
  BY DEF PassInputs, PassPending, PassObject, PrepareObject, FirstPass, Typed
<1>2. VanHidden => VanHidden'
  BY <1>1 DEF VanHidden
<1>3. CASE PassInputs
  <2>1. pass.full /\ VanHidden
    BY <1>3 DEF PassInputs, Typed, PassShape, Hidden
  <2>2. CASE PassErrs
    BY <1>1, <2>1, <2>2, ErrsHidden
  <2>3. CASE pass' = [pass EXCEPT !.pc = "restore", !.inputs = store] /\ UNCHANGED <<allDirty, call>>
    <3>1. pass'.pc = "restore" /\ pass'.full = pass.full
      BY <1>1, <2>3 DEF PassType
    <3> QED BY <1>2, <2>1, <2>3, <3>1 DEF Hidden, Sweeping
  <2> QED BY <1>3, <2>2, <2>3 DEF PassInputs, Begins
<1>4. CASE Requeue /\ pass.pc \in {"pending", "object"}
  <2>1. CASE pass.full
    <3>1. VanHidden
      BY <2>1 DEF Hidden
    <3> QED BY <1>1, <1>4, <3>1, ErrsHidden DEF Requeue
  <2>2. CASE ~pass.full
    <3>1. ~allDirty' /\ dirty' # {}
      BY <1>1, <1>4, <2>2 DEF Requeue, Hidden
    <3> QED BY <1>1, <1>4, <3>1, ErrsHidden DEF Requeue
  <2> QED BY <2>1, <2>2
<1>5. CASE PassPending
  <2>1. CASE pass' = [pass EXCEPT !.pc = "object"] /\ UNCHANGED <<allDirty, dirty, call>>
    <3>1. pass'.pc = "object" /\ pass'.full = pass.full /\ pass'.ids = pass.ids /\ pass'.by = pass.by
      BY <1>1, <2>1 DEF PassType
    <3> QED BY <1>2, <1>5, <2>1, <3>1 DEF Hidden, Sweeping, PassPending
  <2> QED BY <1>4, <1>5, <2>1 DEF PassPending, Begins
<1>6. CASE PassObject
  <2>1. ASSUME NEW o, pass' = [pass EXCEPT !.pc = "replay", !.cur = o, !.inputs[o] = store[o]],
               UNCHANGED <<allDirty, dirty, call>>
        PROVE  Hidden'
    <3>1. pass'.pc = "replay" /\ pass'.full = pass.full /\ pass'.ids = pass.ids /\ pass'.by = pass.by
      BY <1>1, <2>1 DEF PassType
    <3> QED BY <1>2, <1>6, <2>1, <3>1 DEF Hidden, Sweeping, PassObject
  <2> QED BY <1>4, <1>6, <2>1 DEF PassObject, Begins
<1>7. CASE PrepareObject
  <2>0. pass.pc = "pop" /\ UNCHANGED dirty
    BY <1>7 DEF PrepareObject
  <2>1. ASSUME NEW o, pass' = [pass EXCEPT !.pc = "prepare", !.cur = o, !.inputs[o] = store[o], !.begun = TRUE],
               UNCHANGED <<allDirty, call>>
        PROVE  Hidden'
    <3>1. pass'.pc = "prepare" /\ pass'.full = pass.full
      BY <1>1, <2>1 DEF PassType
    <3> QED BY <1>2, <2>0, <2>1, <3>1 DEF Hidden, Sweeping
  <2>2. CASE allDirty' = (allDirty \/ pass.full) /\ PassErrs
    <3>1. VanHidden \/ ~allDirty'
      BY <1>1, <2>2 DEF Hidden
    <3> QED BY <1>1, <2>0, <2>2, <3>1, ErrsHidden DEF Sweeping
  <2> QED BY <1>7, <2>1, <2>2 DEF PrepareObject, Begins
<1> QED BY <1>3, <1>5, <1>6, <1>7

LEMMA PassRestoreHidden == ASSUME Typed, FirstPass, Hidden, PassRestore PROVE Hidden'
<1>1. /\ pass.pc = "restore" /\ pass.full /\ vanished' = {} /\ UNCHANGED call
      /\ pass' = [NoPass EXCEPT !.by = pass.by, !.full = TRUE, !.ids = dirty, !.touched = dirty,
                              !.pc = IF dirty = {} THEN "pop" ELSE "pending"]
  BY DEF PassRestore, Begins, Typed, PassShape
<1>2. pass'.ids = dirty /\ pass'.pc = IF dirty = {} THEN "pop" ELSE "pending"
  BY <1>1 DEF NoPass
<1>3. call["view"].pc = "idle"
  BY <1>1 DEF FirstPass, Early
<1> QED BY <1>1, <1>2, <1>3 DEF Hidden, VanHidden, Sweeping

LEMMA ReplayHidden == ASSUME Typed, ShownInv, FirstPass, Hidden, Replay PROVE Hidden'
<1>1. PICK k \in Object : k = pass.cur
  BY DEF Replay, Typed, PassShape
<1>2. /\ pass.pc \in {"replay", "prepare"} /\ pass \in PassType /\ view \in Views /\ ~allDirty
      /\ UNCHANGED <<dirty, allDirty, call>> /\ Current(k)
  BY <1>1 DEF Replay, Typed, TypedView, FirstPass, ShownInv, Fresh
<1>3. PICK read \in SUBSET Change : read = pass.inputs[k]
  BY <1>1, <1>2 DEF PassType, Views
<1>4. PICK v \in Views : v = [view EXCEPT ![k] = read]
  BY <1>2 DEF Views
<1>5. PICK w \in Views :
        /\ w = v \/ w = view
        /\ IF pass.pc = "prepare" THEN Enforce(w, k = Ledger, {k}) ELSE view' = w /\ UNCHANGED vanished
  <2>1. v = [view EXCEPT ![pass.cur] = pass.inputs[pass.cur]]
    BY <1>1, <1>3, <1>4
  <2>2. \/ IF pass.pc = "prepare" THEN Enforce(v, pass.cur = Ledger, {pass.cur})
           ELSE view' = v /\ UNCHANGED vanished
        \/ IF pass.pc = "prepare" THEN Enforce(view, pass.cur = Ledger, {pass.cur})
           ELSE view' = view /\ UNCHANGED vanished
    BY <2>1 DEF Replay
  <2> QED BY <1>1, <1>2, <2>2
<1>6. vanished \subseteq Named(w)
  <2>1. view[Ledger] \subseteq w[Ledger]
    BY <1>2, <1>3, <1>4, <1>5, VaultConstants DEF Current, Views
  <2> QED BY <2>1 DEF ShownInv, AllOwed, Named
<1>7. /\ pass'.full = pass.full /\ pass'.by = pass.by /\ pass'.ids = pass.ids \ {k}
      /\ pass.pc = "prepare" => pass'.pc = "pop"
      /\ pass.pc = "replay" => pass'.pc \in {"object", "pop", "enforce"}
      /\ pass'.pc = "object" => pass'.ids # {}
      /\ pass.pc = "replay" /\ ~pass.full => pass'.pc \in {"object", "enforce"}
  BY <1>1, <1>2 DEF Replay, Begins, PassType
<1>8. CASE pass.pc = "prepare"
  <2>1. VanHidden'
    BY <1>5, <1>6, <1>8, EnforceHidden
  <2> QED BY <1>2, <1>7, <1>8, <2>1 DEF Hidden, Sweeping
<1>9. CASE pass.pc = "replay" /\ pass.full
  <2>1. vanished' = {}
    BY <1>5, <1>9 DEF Hidden
  <2> QED BY <1>2, <1>7, <1>9, <2>1 DEF Hidden, Sweeping, VanHidden
<1>10. CASE pass.pc = "replay" /\ ~pass.full
  <2>1. call["view"].pc = "idle"
    BY <1>10 DEF Hidden, Sweeping, Typed, PassShape, CallShape, Client
  <2> QED BY <1>2, <1>7, <1>10, <2>1 DEF Hidden, Sweeping
<1> QED BY <1>2, <1>8, <1>9, <1>10

LEMMA PrepareEndsHidden == ASSUME Typed, FirstPass, Hidden, PrepareEnds PROVE Hidden'
<1>1. /\ pass.pc = "pop" /\ pass \in PassType /\ UNCHANGED <<view, vanished, dirty, allDirty>>
  BY DEF PrepareEnds, Typed
<1>2. VanHidden => VanHidden'
  BY <1>1 DEF VanHidden
<1>3. CASE pass' = [pass EXCEPT !.pc = "enforce"] /\ pass.full /\ UNCHANGED call
  <2>1. pass'.pc = "enforce" /\ pass'.full = pass.full /\ pass'.by = pass.by
    BY <1>1, <1>3 DEF PassType
  <2>2. call["view"].pc = "idle"
    BY <1>3 DEF FirstPass, Early
  <2> QED BY <1>1, <1>2, <1>3, <2>1, <2>2 DEF Hidden, Sweeping
<1>4. CASE pass' = NoPass /\ ~pass.full /\ (Becomes("view", Idle) \/ UNCHANGED call)
  <2>1. /\ call'["commit"] = call["commit"]
        /\ call["view"].pc = "idle" => call'["view"].pc = "idle"
    BY <1>4, NoPassFields DEF Becomes, Typed, Client
  <2> QED BY <1>1, <1>2, <1>4, <2>1, NoPassFields DEF Hidden, Sweeping
<1> QED BY <1>3, <1>4 DEF PrepareEnds, Begins

LEMMA PassEnforceHidden ==
  ASSUME Typed, ShownInv, Hidden, PassEnforce, "vanished" \notin Failing
  PROVE  Hidden'
<1>1. /\ Enforce(view, pass.full, pass.touched) /\ pass' = NoPass /\ GoesOn(pass.by)
      /\ view \in Views /\ pass.pc = "enforce"
  BY DEF PassEnforce, Fails, Typed, TypedView
<1>2. VanHidden'
  BY <1>1, EnforceHidden DEF ShownInv, AllOwed
<1>3. pass.by = "view" /\ call["view"].pc = "idle"
  BY <1>1 DEF Hidden, Sweeping, Typed, PassShape, CallShape, Client
<1>4. call'["commit"] = call["commit"]
  BY <1>1, <1>3, GoesOnTyped DEF Client
<1> QED BY <1>1, <1>2, <1>4, NoPassFields DEF Hidden, Sweeping

LEMMA OthersHidden ==
  ASSUME Typed, Hidden, Prepares \/ OnObjects \/ \E o \in Written : Import(o)
  PROVE  Hidden'
<1>1. UNCHANGED <<view, vanished, allDirty, call>>
  BY DEF Prepares, OnObjects, Import, owed
<1>2. VanHidden => VanHidden'
  BY <1>1 DEF VanHidden
<1>3. CASE Prepares
  <2>1. pass = NoPass /\ UNCHANGED dirty
    BY <1>3 DEF Prepares, owed
  <2>2. pass'.pc = "pop" /\ ~pass'.full
    BY <1>3 DEF Prepares, Begins, NoPass
  <2> QED BY <1>1, <1>2, <2>1, <2>2, NoPassFields DEF Hidden, Sweeping
<1>4. CASE OnObjects \/ \E o \in Written : Import(o)
  <2>1. UNCHANGED pass /\ (dirty # {} => dirty' # {})
    BY <1>4 DEF OnObjects, Import, owed
  <2> QED BY <1>1, <1>2, <2>1 DEF Hidden, Sweeping
<1> QED BY <1>3, <1>4

LEMMA PushHidden ==
  ASSUME Typed, Hidden, NEW c \in Client, PushBegins(c) \/ PushEnds(c)
  PROVE  Hidden' /\ c = "view" /\ VanHidden
<1>1. UNCHANGED <<view, vanished, allDirty, dirty, pass>> /\ call[c].pc \in {"push", "sent"}
  BY DEF PushBegins, PushEnds, Sending, owed
<1>2. c = "view" /\ call["view"].pc # "idle"
  BY <1>1 DEF Hidden, Client
<1>3. \E r : Becomes(c, r)
  BY PushTo DEF PushBegins
<1>4. call'["commit"] = call["commit"]
  BY <1>2, <1>3 DEF Becomes, Typed, Client
<1> QED BY <1>1, <1>2, <1>4 DEF Hidden, Sweeping, VanHidden

\* A store keeps its mode, and a commit is not taken back.
LEMMA ModeStays == ASSUME Typed, Next PROVE UNCHANGED mode /\ (commits' = 0 => commits = 0)
<1>1. CASE Plans
  BY <1>1 DEF Plans, disk, Typed, TypedView
<1>2. CASE ~Plans
  BY <1>2 DEF Next, ClientStep, Ensure, PushBegins, PushEnds, CommitReads, CommitStores,
    CommitMarks, CommitEnds, Prepares, PassStep, PassInputs, PassRestore, PassPending, PassObject,
    PrepareObject, Replay, PrepareEnds, PassEnforce, OnObjects, Import, disk, events
<1> QED BY <1>1, <1>2

LEMMA HiddenStep ==
  ASSUME Typed, ShownInv, FirstPass, HiddenInv, "vanished" \notin Failing, [Next]_vars
  PROVE  HiddenInv'
<1>1. CASE UNCHANGED vars
  BY <1>1 DEF vars, disk, owed, events, HiddenInv, Hidden, VanHidden, Sweeping
<1>2. CASE Next
  <2> SUFFICES ASSUME mode' = "changes", commits' = 0 PROVE Hidden'
    BY DEF HiddenInv
  <2>1. mode = "changes" /\ commits = 0
    BY <1>2, ModeStays
  <2>2. Hidden
    BY <2>1 DEF HiddenInv
  <2>3. ~Plans
    BY <2>1 DEF Plans, Typed, TypedView
  <2>4. ASSUME NEW c \in Client, ClientStep(c) PROVE Hidden'
    <3>1. ~(CommitReads \/ CommitStores \/ CommitMarks \/ CommitEnds)
      BY <2>2 DEF Hidden, CommitReads, CommitStores, CommitMarks, CommitEnds
    <3> QED BY <2>2, <2>4, <3>1, EnsureHidden, PushHidden DEF ClientStep
  <2>5. CASE PassStep
    BY <2>2, <2>5, PassHidden, PassRestoreHidden, ReplayHidden, PrepareEndsHidden, PassEnforceHidden
       DEF PassStep
  <2> QED BY <1>2, <2>2, <2>3, <2>4, <2>5, OthersHidden DEF Next
<1> QED BY <1>1, <1>2

-----------------------------------------------------------------------------
CacheOk(o) ==
  \/ cache[o] = view[o] \/ ~warm
  \/ o \in upserted /\ view[o] # {}
  \/ o \in removed /\ view[o] = {}
  \/ mode = "changes" /\ view[o] # store[o] /\ ReplayOwed(o)

\* A record is never applied to the engine's own cache.
NotApplied == mode = "records" => ~call["commit"].applied

CacheInv == CacheIsOwed /\ NotApplied

LEMMA AppliedStep == ASSUME Typed, NotApplied, Next PROVE NotApplied'
<1> DEFINE Kept == call'["commit"].applied => call["commit"].applied
<1> SUFFICES ASSUME mode = "records" PROVE Kept
  BY ModeStays DEF NotApplied
<1>0. PICK p \in CallType : p = call["commit"]
  BY DEF Typed, Client
<1>1. ASSUME NEW c \in Client, NEW r, Becomes(c, r), c = "commit" => (r.applied => call[c].applied)
      PROVE  Kept
  BY <1>1 DEF Becomes, Typed, Client
<1>2. CASE UNCHANGED call
  BY <1>2
<1>3. ASSUME NEW c \in Client, GoesOn(c) PROVE Kept
  <2>1. \A q : [p EXCEPT !.pc = q].applied = p.applied
    BY DEF CallType
  <2>2. c = "commit" => \E q : Becomes(c, [p EXCEPT !.pc = q])
    BY <1>0, <1>3 DEF GoesOn
  <2>3. \E r : Becomes(c, r)
    BY <1>3 DEF GoesOn
  <2> QED BY <1>0, <1>1, <2>1, <2>2, <2>3
<1>4. ASSUME NEW c \in Client, Ensure(c) PROVE Kept
  BY <1>2, <1>3, <1>4 DEF Ensure
<1>5. ~Idle.applied /\ \A q, w, b : /\ ~[Idle EXCEPT !.pc = q, !.want = w].applied
                                   /\ ~[Idle EXCEPT !.pc = q, !.want = w, !.json = b].applied
  BY DEF Idle
<1>6. ASSUME NEW c \in Client, PushBegins(c) PROVE Kept
  <2>1. CASE c = "commit"
    <3>1. PICK ids, rows, json :
            Becomes(c, [p EXCEPT !.pc = "sent", !.ids = ids, !.rows = rows, !.json = json])
      BY <1>0, <1>6, <2>1 DEF PushBegins
    <3>2. [p EXCEPT !.pc = "sent", !.ids = ids, !.rows = rows, !.json = json].applied = p.applied
      BY DEF CallType
    <3> QED BY <1>0, <2>1, <3>1, <3>2 DEF Becomes, Typed
  <2>2. CASE c # "commit"
    <3>1. \E r : Becomes(c, r)
      BY <1>6 DEF PushBegins
    <3> QED BY <1>1, <2>2, <3>1
  <2> QED BY <2>1, <2>2
<1>7. ASSUME NEW c \in Client, PushEnds(c) PROVE Kept
  <2>1. PICK r \in CallType : Becomes(c, r) /\ ~r.applied
    BY <1>7, PushTo
  <2> QED BY <1>1, <2>1
<1>8. CASE CommitReads \/ CommitStores \/ CommitEnds
  <2>1. \A S : /\ [p EXCEPT !.pc = "store", !.seen = S].applied = p.applied
              /\ [p EXCEPT !.pc = "mark"].applied = p.applied
    BY DEF CallType
  <2>2. \E r : Becomes("commit", r) /\ (r.applied => p.applied)
    BY <1>0, <1>5, <1>8, <2>1 DEF CommitReads, CommitStores, CommitEnds
  <2> QED BY <1>0, <1>1, <2>2 DEF Client
<1>9. CASE CommitMarks
  <2>1. [p EXCEPT !.pc = "settle", !.applied = FALSE].applied = FALSE
    BY DEF CallType
  <2>2. Becomes("commit", [p EXCEPT !.pc = "settle", !.applied = FALSE])
    BY <1>0, <1>9 DEF CommitMarks
  <2> QED BY <1>0, <1>1, <2>1, <2>2 DEF Client
<1>10. CASE Plans
  <2>1. \E r : Becomes("commit", r) /\ ~r.applied
    BY <1>5, <1>10 DEF Plans
  <2> QED BY <1>1, <2>1 DEF Client
<1>11. CASE pass.pc # "idle" /\ PassErrs
  BY <1>5, <1>11, ErrsTo DEF Client
<1>12. CASE PassInputs \/ PassPending \/ PassObject \/ PrepareObject
  <2>1. UNCHANGED call \/ (pass.pc # "idle" /\ PassErrs)
    BY <1>12 DEF PassInputs, PassPending, PassObject, PrepareObject, Requeue
  <2> QED BY <1>2, <1>11, <2>1
<1>13. CASE PrepareEnds
  BY <1>1, <1>2, <1>13, <1>5 DEF PrepareEnds, Client
<1>14. CASE PassEnforce
  <2>1. pass.by \in Client
    BY <1>14 DEF PassEnforce, Typed, PassShape
  <2> QED BY <1>3, <1>11, <1>14, <2>1 DEF PassEnforce
<1>15. CASE PassRestore \/ Replay \/ Prepares \/ OnObjects \/ \E o \in Written : Import(o)
  BY <1>2, <1>15 DEF PassRestore, Replay, Prepares, OnObjects, Import
<1> QED
  BY <1>4, <1>6, <1>7, <1>8, <1>9, <1>10, <1>12, <1>13, <1>14, <1>15 DEF Next, ClientStep, PassStep

-----------------------------------------------------------------------------
\* A step that shows, caches and collects nothing.
LEMMA CacheStays ==
  ASSUME ShownInv, StillOwed, UNCHANGED <<mode, view, warm, cache, upserted, removed>>,
         \A o \in Object : store[o] \subseteq store'[o]
  PROVE  \A o \in Object : CacheOk(o) => CacheOk(o)'
<1>1. \A o \in Object : view[o] \subseteq store[o]
  BY DEF ShownInv, Fresh
<1> QED BY <1>1 DEF CacheOk, StillOwed

\* A row whose object is shown as before, or was taken out of the view and collected.
LEMMA CacheSwept ==
  ASSUME NEW o \in Object, CacheOk(o), UNCHANGED <<mode, warm, cache, store>>,
         upserted \subseteq upserted', removed \subseteq removed', ReplayOwed(o) => ReplayOwed(o)',
         view'[o] = view[o] \/ (view'[o] = {} /\ o \in removed')
  PROVE  CacheOk(o)'
<1>1. CASE view'[o] = view[o]
  BY <1>1 DEF CacheOk
<1>2. CASE view'[o] = {} /\ o \in removed'
  BY <1>2 DEF CacheOk
<1> QED BY <1>1, <1>2

\* Enforcing collects what it takes out of a view.
LEMMA EnforceCollects ==
  ASSUME NEW v \in Views, NEW all, NEW touched, Enforce(v, all, touched)
  PROVE  /\ \A o \in Object : view'[o] = v[o] \/ (view'[o] = {} /\ o \in removed')
         /\ removed \subseteq removed'
<1>1. Swept(v, all, touched) \subseteq Object
  BY VaultConstants DEF Swept, Named
<1> QED BY <1>1 DEF Enforce, Views

LEMMA ReplayCache ==
  ASSUME Typed, ShownInv, Replay, \A o \in Object : CacheOk(o)
  PROVE  \A o \in Object : CacheOk(o)'
<1>1. PICK k \in Object : k = pass.cur
  BY DEF Replay, Typed, PassShape
<1>2. /\ pass.pc \in {"replay", "prepare"} /\ pass \in PassType /\ view \in Views
      /\ UNCHANGED <<mode, store, dirty, importing, allDirty, call>> /\ Current(k)
      /\ waiting' = waiting \ {k}
  BY <1>1 DEF Replay, Typed, TypedView, ShownInv, Fresh, events
<1>3. PICK read \in SUBSET Change : read = pass.inputs[k]
  BY <1>1, <1>2 DEF PassType, Views
<1>4. PICK v \in Views : v = [view EXCEPT ![k] = read]
  BY <1>2 DEF Views
<1>5. CASE ~warm'
  BY <1>5 DEF CacheOk
<1>6. CASE warm'
  <2>1. /\ UNCHANGED <<warm, cache>> /\ skipped' = skipped \ {k}
        /\ upserted' = IF view[k] = read THEN upserted ELSE upserted \cup {k}
        /\ IF pass.pc = "prepare" THEN Enforce(v, pass.cur = Ledger, {pass.cur})
           ELSE view' = v /\ UNCHANGED removed
    <3>1. v = [view EXCEPT ![pass.cur] = pass.inputs[pass.cur]]
      BY <1>1, <1>3, <1>4
    <3>2. /\ UNCHANGED <<warm, cache>> /\ skipped' = skipped \ {pass.cur}
          /\ upserted' = IF view[pass.cur] = pass.inputs[pass.cur] THEN upserted ELSE upserted \cup {pass.cur}
          /\ IF pass.pc = "prepare" THEN Enforce(v, pass.cur = Ledger, {pass.cur})
             ELSE view' = v /\ UNCHANGED removed
      BY <1>6, <3>1 DEF Replay, EngineFaults
    <3> QED BY <1>1, <1>3, <3>2
  <2>2. /\ \A o \in Object : view'[o] = v[o] \/ (view'[o] = {} /\ o \in removed')
        /\ removed \subseteq removed' /\ upserted \subseteq upserted'
    BY <2>1, EnforceCollects
  <2>3. pass'.ids = pass.ids \ {k} /\ pass.pc \notin {"inputs", "restore"}
    BY <1>1, <1>2 DEF Replay, Begins, PassType
  <2>4. ASSUME NEW o \in Object, o # k PROVE CacheOk(o)'
    <3>1. ReplayOwed(o) => ReplayOwed(o)'
      BY <1>2, <2>1, <2>3, <2>4 DEF ReplayOwed, Marked, PassNeeds
    <3>2. v[o] = view[o]
      BY <1>2, <1>4, <2>4 DEF Views
    <3>3. CacheOk(o)
      OBVIOUS
    <3> QED BY <1>2, <2>1, <2>2, <3>1, <3>2, <3>3, CacheSwept
  <2>5. CacheOk(k)'
    <3>1. v[k] = read /\ view[k] \subseteq read /\ CacheOk(k)
      BY <1>2, <1>3, <1>4 DEF Views, Current
    <3>2. CASE view'[k] # v[k]
      BY <2>2, <3>2 DEF CacheOk
    <3>3. CASE view'[k] = v[k] /\ view[k] # read
      BY <2>1, <3>1, <3>3 DEF CacheOk
    <3>4. CASE view'[k] = v[k] /\ view[k] = read
      <4>1. view[k] = store[k] \/ Marked(k)
        BY <1>2, <1>3, <3>4 DEF Current
      <4>2. Marked(k) => ReplayOwed(k)'
        BY <1>2 DEF Marked, ReplayOwed
      <4> QED BY <1>2, <2>1, <2>2, <3>1, <3>4, <4>1, <4>2 DEF CacheOk
    <3> QED BY <3>2, <3>3, <3>4
  <2> QED BY <2>4, <2>5
<1> QED BY <1>5, <1>6

LEMMA PassEnforceCache ==
  ASSUME Typed, ShownInv, PassEnforce, StillOwed, \A o \in Object : CacheOk(o)
  PROVE  \A o \in Object : CacheOk(o)'
<1>1. CASE ~warm'
  BY <1>1 DEF CacheOk
<1>2. CASE warm'
  <2>1. /\ Enforce(view, pass.full, pass.touched) /\ view \in Views
        /\ UNCHANGED <<warm, cache, mode, store, upserted>>
    BY <1>2 DEF PassEnforce, EngineFaults, disk, Typed, TypedView
  <2>2. ASSUME NEW o \in Object PROVE CacheOk(o)'
    <3>1. CacheOk(o)
      OBVIOUS
    <3> QED BY <2>1, <3>1, EnforceCollects, CacheSwept DEF StillOwed
  <2> QED BY <2>2
<1> QED BY <1>1, <1>2

\* What a push leaves: the delta's rows are the states, and so is the corpus, but
\* where a replay is owed.
LEMMA PushEndsCache ==
  ASSUME Typed, ShownInv, HiddenInv, NEW c \in Client, Snapshot(c), PushEnds(c), StillOwed,
         mode = "records" \/ commits = 0, \A o \in Object : CacheOk(o)
  PROVE  \A o \in Object : CacheOk(o)'
<1>1. UNCHANGED <<mode, view, store, vanished>> /\ PushEnds(c)
  BY DEF PushEnds, disk
<1>2. PICK p \in CallType : p = call[c]
  BY DEF Typed
<1>3. CASE ~warm'
  BY <1>3 DEF CacheOk
<1>4. CASE warm /\ ~p.json /\ warm' /\ cache' = [o \in Object |-> IF o \in p.ids THEN p.rows[o] ELSE cache[o]]
  <2>1. p.ids = Delta /\ p.rows = view
    BY <1>2, <1>4 DEF Snapshot
  <2>2. ASSUME NEW o \in Object PROVE CacheOk(o)'
    <3>1. CASE o \in Delta
      BY <1>1, <1>4, <2>1, <3>1 DEF CacheOk
    <3>2. CASE o \notin Delta
      <4>1. CacheOk(o) /\ cache'[o] = cache[o]
        BY <1>4, <2>1, <3>2
      <4> QED BY <1>1, <1>4, <3>2, <4>1 DEF CacheOk, Delta, StillOwed
    <3> QED BY <3>1, <3>2
  <2> QED BY <2>2
<1>5. CASE p.json /\ cache' = p.rows
  BY <1>1, <1>2, <1>5 DEF Snapshot, CacheOk
<1>6. CASE /\ ~warm /\ ~p.json /\ cache' = p.rows /\ removed' = removed \cup vanished
           /\ upserted' = (upserted \ p.ids) \cup {o \in Based : view[o] # {}}
  <2>1. mode = "changes" /\ p.rows = Histories
    BY <1>2, <1>6 DEF Snapshot
  <2>2. VanHidden
    BY <1>1, <2>1, PushHidden DEF HiddenInv
  <2>3. ASSUME NEW o \in Object PROVE CacheOk(o)'
    <3>1. CASE o \in vanished
      BY <1>1, <1>6, <2>1, <2>2, <3>1 DEF CacheOk, Histories, VanHidden
    <3>2. CASE o \in Based \ vanished
      BY <1>1, <1>6, <2>1, <3>2 DEF CacheOk, Histories
    <3>3. CASE o \notin Based \cup vanished
      <4>1. cache'[o] = store[o]
        BY <1>6, <2>1, <3>3 DEF Histories
      <4>2. view[o] = store[o] \/ ReplayOwed(o)
        BY <3>3 DEF ShownInv, AllOwed
      <4> QED BY <1>1, <2>1, <4>1, <4>2 DEF CacheOk, StillOwed
    <3> QED BY <3>1, <3>2, <3>3
  <2> QED BY <2>3
<1> QED BY <1>1, <1>2, <1>3, <1>4, <1>5, <1>6 DEF PushEnds, EngineFaults

LEMMA CacheStep ==
  ASSUME Typed, ShownInv, HiddenInv, SnapInv, FirstPass, CacheInv, [Next]_vars
  PROVE  CacheInv'
<1>1. CASE UNCHANGED vars
  BY <1>1 DEF vars, disk, owed, query, events, CacheInv, CacheIsOwed, NotApplied, ReplayOwed, Marked, PassNeeds
<1>2. CASE Next
  <2>1. NotApplied'
    BY <1>2, AppliedStep DEF CacheInv
  <2> SUFFICES ASSUME mode' = "records" \/ commits' = 0 PROVE \A o \in Object : CacheOk(o)'
    BY <2>1 DEF CacheInv, CacheIsOwed, CacheOk
  <2>2. mode = "records" \/ commits = 0
    BY <1>2, ModeStays
  <2>3. \A o \in Object : CacheOk(o)
    BY <2>2 DEF CacheInv, CacheIsOwed, CacheOk
  <2>4. CASE StillOwed /\ UNCHANGED <<mode, store, view, warm, cache, upserted, removed>>
    BY <2>3, <2>4, CacheStays
  <2>5. ASSUME NEW c \in Client, Ensure(c) \/ PushBegins(c) PROVE StillOwed /\ UNCHANGED <<mode, store, view, query>>
    BY <2>5, EnsureShown, PushShown DEF Ensure, PushBegins, disk
  <2>6. ASSUME NEW c \in Client, PushEnds(c) PROVE \A o \in Object : CacheOk(o)'
    <3>1. Sending(c) /\ StillOwed
      BY <2>6, PushShown DEF PushEnds
    <3>2. Snapshot(c)
      BY <3>1 DEF SnapInv
    <3> QED BY <2>2, <2>3, <2>6, <3>1, <3>2, PushEndsCache
  <2>7. CASE CommitReads \/ Plans
    <3>1. StillOwed /\ UNCHANGED <<mode, store, view, query>>
      BY <2>7, CommitReadsShown, PlansShown DEF CommitReads, Plans, disk
    <3> QED BY <2>4, <3>1 DEF query
  <2>8. CASE CommitStores \/ \E o \in Written : Import(o)
    <3>1. StillOwed /\ UNCHANGED <<mode, view, query>>
      BY <2>8, CommitStoresShown, ImportShown DEF CommitStores, Import
    <3>2. \A o \in Object : store[o] \subseteq store'[o]
      <4>1. store \in Views
        BY DEF Typed, TypedView
      <4>2. \E k, d : store' = [store EXCEPT ![k] = @ \cup {d}]
        BY <2>8 DEF CommitStores, Import
      <4> QED BY <4>1, <4>2 DEF Views
    <3> QED BY <2>3, <3>1, <3>2, CacheStays DEF query
  <2>9. CASE CommitMarks \/ CommitEnds
    <3>1. mode = "records"
      BY <2>2, <2>9 DEF HiddenInv, Hidden, CommitMarks, CommitEnds, Typed, TypedView
    <3>2. StillOwed /\ UNCHANGED <<mode, store, view, removed, warm>>
      BY <2>9, <3>1, CommitMarksShown, CommitEndsShown DEF CommitMarks, CommitEnds, disk
    <3>3. UNCHANGED <<cache, upserted>>
      BY <2>9, <3>1 DEF CommitMarks, CommitEnds, CacheInv, NotApplied
    <3> QED BY <2>4, <3>2, <3>3
  <2>10. CASE PassRestore
    <3>1. ~warm /\ UNCHANGED warm
      BY <2>10 DEF PassRestore, FirstPass, Early, Typed, PassShape
    <3> QED BY <3>1 DEF CacheOk
  <2>11. CASE PassInputs \/ PassPending \/ PassObject \/ PrepareObject \/ PrepareEnds \/ Prepares \/ OnObjects
    <3>1. StillOwed
      BY <2>11, PassInputsShown, PassPendingShown, PassObjectShown, PrepareObjectShown, PrepareEndsShown,
         PreparesShown, OnObjectsShown
    <3>2. UNCHANGED <<mode, store, view, query>>
      BY <2>11 DEF PassInputs, PassPending, PassObject, PrepareObject, PrepareEnds, Prepares, OnObjects, disk
    <3> QED BY <2>4, <3>1, <3>2 DEF query
  <2>12. CASE Replay
    BY <2>3, <2>12, ReplayCache
  <2>13. CASE PassEnforce
    BY <2>3, <2>13, PassEnforceShown, PassEnforceCache
  <2>14. ASSUME NEW c \in Client, ClientStep(c) PROVE \A o \in Object : CacheOk(o)'
    BY <2>4, <2>5, <2>6, <2>7, <2>8, <2>9, <2>14 DEF ClientStep, query
  <2>15. CASE PassStep
    BY <2>10, <2>11, <2>12, <2>13, <2>15 DEF PassStep
  <2> QED BY <1>2, <2>7, <2>8, <2>11, <2>14, <2>15 DEF Next
<1> QED BY <1>1, <1>2

\* Through passes, imports, failed pushes and faults of the engine, the engine's
\* row of an object is its state, or the push that corrects it is owed.
THEOREM CacheOwed ==
  ASSUME Threads = FALSE, "vanished" \notin Failing
  PROVE  Spec => []CacheIsOwed
<1> DEFINE Inv == ShownInv /\ FirstPass /\ SnapInv /\ HiddenInv /\ CacheInv
<1>1. Init => Inv
  <2> SUFFICES ASSUME Init PROVE Inv
    OBVIOUS
  <2>1. \A c \in Client : call[c] = Idle
    BY DEF Init
  <2>2. ShownInv /\ CacheIsOwed /\ ~warm /\ pass.pc = "idle" /\ ~pass.full /\ ~driver /\ vanished = {}
    BY NoPassFields DEF Init, ShownInv, Fresh, AllOwed, ReplayOwed, Marked, CacheIsOwed
  <2>3. ~Idle.applied /\ Idle.pc = "idle"
    BY DEF Idle
  <2> QED BY <2>1, <2>2, <2>3 DEF FirstPass, Early, SnapInv, Sending, HiddenInv, Hidden, VanHidden,
       Sweeping, CacheInv, NotApplied, Client
<1>2. Typed /\ Inv /\ [Next]_vars => Inv'
  BY ShownStep, FirstPassStep, SnapStep, HiddenStep, CacheStep
<1>3. Inv => CacheIsOwed
  BY DEF CacheInv
<1> HIDE DEF Inv
<1> QED BY <1>1, <1>2, <1>3, VaultTypes, PTL DEF Spec
=============================================================================
