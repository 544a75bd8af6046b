------------------------------- MODULE Records -------------------------------
(***************************************************************************)
(* Record mode (roostr-replica/src/records.rs): one stream of the relay    *)
(* whose patches carry stamped entries, and the devices that write and     *)
(* follow it.  A device commits to its record and its journal, publishes   *)
(* the journal, and learns what others wrote from a pack, from pages after *)
(* its cursor and from the live subscription.                              *)
(*                                                                         *)
(* An object is one slot: an entry is its stamp and `n`, which stands for  *)
(* the bytes that break a tie.  The relay and the pack builder are         *)
(* external; so is the wall clock, which lets a stamp skip ahead.  Stamps  *)
(* refused for lying a day ahead and the 30 days after which the vanish    *)
(* ledger forgets are left out.  A store call is one step; a step boundary *)
(* is every `.await` on the relay or on a lock that others hold.           *)
(***************************************************************************)
EXTENDS Naturals, Sequences, FiniteSets, FiniteSetsExt, SequencesExt

CONSTANTS
  Device, Object,
  MaxIndex,    \* u32::MAX in the code
  Index,       \* device_index of each device's signer
  Parts,       \* events a patch is split into
  PageSize,    \* PAGE
  MaxTime,     \* stamps
  MaxWrites, MaxVanishes,
  MaxPacks, MaxCuts,
  CutsDuringSync,  \* the builder deletes patches while a device catches up
  MaxFail,     \* a call or a subscription fails, or its answer is lost
  MaxCrash, MaxLogout,
  MaxUpsets    \* vanishes, failures, crashes and logouts, together

ASSUME RecordsConstants ==
  /\ MaxIndex \in Nat /\ Index \in [Device -> 1..MaxIndex]
  /\ Parts \in Nat \ {0} /\ PageSize \in Nat \ {0} /\ MaxTime \in Nat
  /\ {MaxWrites, MaxVanishes, MaxPacks, MaxCuts, MaxFail, MaxCrash, MaxLogout,
      MaxUpsets} \subseteq Nat
  /\ CutsDuringSync \in BOOLEAN

Entry == [time : 1..MaxTime, dev : {Index[d] : d \in Device}, n : 1..MaxWrites]
NoEntry == [time |-> 0, dev |-> 0, n |-> 0]

Older(a, b) ==
  \/ a.time < b.time
  \/ a.time = b.time /\ a.dev < b.dev
  \/ a.time = b.time /\ a.dev = b.dev /\ a.n < b.n

\* Mistaken: of two entries of one time, the one already held stays.
TieKeepsHeld(a, b) == IF a.time < b.time THEN b ELSE a

Newer(a, b) == IF Older(a, b) THEN b ELSE a

Newest(entries) ==
  CHOOSE e \in entries \cup {NoEntry} : \A x \in entries : ~Older(e, x)

VARIABLES
  \* --- the relay and the builder ---
  log,         \* the stream: the event with seq i is log[i]
  cut,         \* patches up to here were deleted
  pack,        \* the newest pack announced, and its blob
  \* --- each device's store ---
  rec, journal, cursor, ledger, clock,
  \* --- each device's session ---
  loop,        \* start(), then the live loop and its catch-ups
  inbox,       \* seqs the live subscription delivered
  pub,         \* publish_journal, one at a time
  wanted,      \* a background publish_journal waits its turn
  vanishing,   \* vanishes to be sent
  \* --- bounds and history ---
  written,     \* every entry committed, by object
  count        \* what the bounds have used up

relay == <<log, cut, pack>>
disk == <<rec, journal, cursor, ledger, clock>>
session == <<loop, inbox, pub, wanted, vanishing>>
vars == <<relay, disk, session, written, count>>

NoCursor == 0     \* seqs start at 1, and a device without cursor pages after 0
NoPack == [cursor |-> 0, cut |-> 0, rows |-> [o \in Object |-> NoEntry]]
Patch(o, e, p) == [kind |-> "patch", object |-> o, entry |-> e, part |-> p]
VanishOf(o) == [kind |-> "vanish", object |-> o, entry |-> NoEntry, part |-> 1]

Resting == [pc |-> "off", by |-> "start", after |-> 0, loaded |-> FALSE,
            announced |-> NoPack, page |-> {}, head |-> 0]
PassAt(pc, by, items, part) == [pc |-> pc, by |-> by, items |-> items, part |-> part]
NoPub == PassAt("idle", "commit", {}, 1)

Bounded == {"writes", "vanishes", "packs", "cuts", "fails", "crashes", "logouts"}

Init ==
  /\ log = <<>> /\ cut = 0 /\ pack = NoPack
  /\ rec = [d \in Device |-> [o \in Object |-> NoEntry]]
  /\ journal = [d \in Device |-> {}]
  /\ cursor = [d \in Device |-> NoCursor]
  /\ ledger = [d \in Device |-> {}]
  /\ clock = [d \in Device |-> 0]
  /\ loop = [d \in Device |-> Resting]
  /\ inbox = [d \in Device |-> <<>>]
  /\ pub = [d \in Device |-> NoPub]
  /\ wanted = [d \in Device |-> FALSE]
  /\ vanishing = [d \in Device |-> {}]
  /\ written = [o \in Object |-> {}]
  /\ count = [what \in Bounded |-> 0]

Used(what) == count' = [count EXCEPT ![what] = @ + 1]
Upset(what, most) ==
  /\ count[what] < most
  /\ count.vanishes + count.fails + count.crashes + count.logouts < MaxUpsets
  /\ Used(what)

(***************************************************************************)
(* What a run of events says: the objects vanished in it, and the entries  *)
(* whose patch came with all its parts.                                    *)
(***************************************************************************)
Vanished(events) == {e.object : e \in {x \in events : x.kind = "vanish"}}
Whole(events, o) ==
  {e \in {x.entry : x \in {y \in events : y.kind = "patch" /\ y.object = o}} :
     \A p \in 1..Parts : Patch(o, e, p) \in events}

Events(seqs) == {log[i] : i \in seqs}
Stored == {i \in DOMAIN log : log[i].kind = "patch" => i > cut}
\* Mistaken: the page begins one event late.
StoredPast(n) == {i \in Stored : i > n + 1}

StoredAfter(n) == {i \in Stored : i > n}

(* What the stream says up to a seq: the reference for what a device or a  *)
(* pack at that cursor holds.                                              *)
Told(n, o) == IF o \in Vanished(Events(1..n)) THEN NoEntry ELSE Newest(Whole(Events(1..n), o))

-----------------------------------------------------------------------------
(* The local store *)

(* commit_local: the stamp is past the clock and everything it has seen.   *)
(* Any device may be the first to write an object: the fixtures every      *)
(* device seeds have fixed ids.                                            *)
Commit(d, o) ==
  /\ count.writes < MaxWrites
  /\ o \notin ledger[d]
  /\ \E time \in (clock[d] + 1)..MaxTime :
       LET e == [time |-> time, dev |-> Index[d], n |-> count.writes + 1] IN
         /\ clock' = [clock EXCEPT ![d] = time]
         /\ rec' = [rec EXCEPT ![d][o] = Newer(@, e)]
         /\ journal' = [journal EXCEPT ![d] = @ \cup {[object |-> o, entry |-> e]}]
         /\ written' = [written EXCEPT ![o] = @ \cup {e}]
  /\ wanted' = [wanted EXCEPT ![d] = TRUE]
  /\ Used("writes")
  /\ UNCHANGED <<relay, cursor, ledger, loop, inbox, pub, vanishing>>

\* Mistaken: the cursor is left before the last event applied.
ApplyBehind(d, events, to) ==
  /\ cursor' = [cursor EXCEPT ![d] = to - 1]
  /\ UNCHANGED <<rec, ledger, clock>>

\* Mistaken: only the vanishes of the same run of events are heeded.
ApplyForgetful(d, events, to) ==
  LET gone == Vanished(events)
  IN /\ rec' = [rec EXCEPT ![d] = [o \in Object |->
                  IF o \in gone THEN NoEntry ELSE Newer(rec[d][o], Newest(Whole(events, o)))]]
     /\ ledger' = [ledger EXCEPT ![d] = @ \cup gone]
     /\ clock' = [clock EXCEPT ![d] = Max({@} \cup {Newest(Whole(events, o)).time : o \in Object})]
     /\ cursor' = [cursor EXCEPT ![d] = to]

(* apply: what the events say, merged, and the cursor, in one transaction. *)
Apply(d, events, to) ==
  LET gone == Vanished(events)
      deaf == gone \cup ledger[d]
      new == [o \in Object |-> IF o \in deaf THEN {} ELSE Whole(events, o)]
  IN /\ rec' = [rec EXCEPT ![d] = [o \in Object |->
                  IF o \in gone THEN NoEntry ELSE Newer(rec[d][o], Newest(new[o]))]]
     /\ ledger' = [ledger EXCEPT ![d] = @ \cup gone]
     /\ clock' = [clock EXCEPT ![d] = Max({@} \cup {Newest(new[o]).time : o \in Object})]
     /\ cursor' = [cursor EXCEPT ![d] = to]

\* Mistaken: the pack's rows take the place of what is held.
PackReplaces(d, p) ==
  /\ rec' = [rec EXCEPT ![d] = p.rows]
  /\ clock' = [clock EXCEPT ![d] = Max({@} \cup {p.rows[o].time : o \in Object})]
  /\ cursor' = [cursor EXCEPT ![d] = Max({@, p.cursor})]

\* Mistaken: the stamps of a pack are not observed.
MergeDeaf(d, p) ==
  /\ rec' = [rec EXCEPT ![d] = [o \in Object |-> Newer(rec[d][o], p.rows[o])]]
  /\ cursor' = [cursor EXCEPT ![d] = Max({@, p.cursor})]
  /\ UNCHANGED clock

(* merge_pack: the rows merged into what is held; the ledger is not asked. *)
MergePack(d, p) ==
  /\ rec' = [rec EXCEPT ![d] = [o \in Object |-> Newer(rec[d][o], p.rows[o])]]
  /\ clock' = [clock EXCEPT ![d] = Max({@} \cup {p.rows[o].time : o \in Object})]
  /\ cursor' = [cursor EXCEPT ![d] = Max({@, p.cursor})]

(* vanish_local; the backend then sends the vanish, once.                  *)
VanishLocal(d, o) ==
  /\ Upset("vanishes", MaxVanishes)
  /\ rec[d][o] # NoEntry
  /\ rec' = [rec EXCEPT ![d][o] = NoEntry]
  /\ ledger' = [ledger EXCEPT ![d] = @ \cup {o}]
  /\ vanishing' = [vanishing EXCEPT ![d] = @ \cup {o}]
  /\ UNCHANGED <<relay, journal, cursor, clock, loop, inbox, pub, wanted, written>>

-----------------------------------------------------------------------------
(* Catching up: sync_stream *)

To(d, pc) == loop' = [loop EXCEPT ![d].pc = pc]
CatchUp(by) == [Resting EXCEPT !.pc = "ask", !.by = by]

Start(d) ==
  /\ loop[d].pc = "off"
  /\ loop' = [loop EXCEPT ![d] = CatchUp("start")]
  /\ UNCHANGED <<relay, disk, inbox, pub, wanted, vanishing, written, count>>

(* The newest announcement, then the cursor: the pack is loaded when there *)
(* is no cursor, or the patches after the cursor were deleted.             *)
Ask(d) ==
  /\ loop[d].pc = "ask"
  /\ LET stale == cursor[d] = NoCursor \/ (cursor[d] < pack.cursor /\ cursor[d] < pack.cut)
         load == pack # NoPack /\ stale
     IN loop' = [loop EXCEPT ![d] = [@ EXCEPT
                   !.pc = IF load THEN "load" ELSE "page",
                   !.after = cursor[d],
                   !.loaded = load \/ cursor[d] = NoCursor,
                   !.announced = pack]]
  /\ UNCHANGED <<relay, disk, inbox, pub, wanted, vanishing, written, count>>

Load(d) ==
  /\ loop[d].pc = "load"
  /\ MergePack(d, loop[d].announced)
  /\ loop' = [loop EXCEPT ![d] = [@ EXCEPT
                !.pc = "page", !.after = Max({loop[d].after, loop[d].announced.cursor})]]
  /\ UNCHANGED <<relay, journal, ledger, inbox, pub, wanted, vanishing, written, count>>

(* One page after `after`.  A relay that no longer holds what follows it   *)
(* sends the device to the announced pack, once.                           *)
Page(d) ==
  /\ loop[d].pc = "page"
  /\ LET after == loop[d].after
         behind == ~loop[d].loaded /\ Stored # {} /\ after + 1 < Min(Stored)
         rest == StoredAfter(after)
         page == {i \in rest : Cardinality({j \in rest : j < i}) < PageSize}
     IN loop' = [loop EXCEPT ![d] =
          IF behind
          THEN [@ EXCEPT !.loaded = TRUE,
                         !.pc = IF loop[d].announced = NoPack THEN "page" ELSE "load"]
          ELSE [@ EXCEPT !.pc = "apply", !.page = page, !.head = Len(log)]]
  /\ UNCHANGED <<relay, disk, inbox, pub, wanted, vanishing, written, count>>

\* Mistaken: the subscription follows the catch-up, the journal stays.
StraightToLive(by) == IF by = "gap" THEN "live" ELSE "subscribe"

(* A catch-up over a gap goes back to the subscription; start and a        *)
(* reconnect send the journal next.                                        *)
AfterCatchUp(by) == IF by = "gap" THEN "live" ELSE "send"

\* Mistaken: the head itself is not the end.
PastHead(last, head, page) == last > head

AtHead(last, head, page) == last >= head \/ Cardinality(page) < PageSize

(* The page, applied; the paging is done at the head or at a short page.   *)
ApplyPage(d) ==
  /\ loop[d].pc = "apply"
  /\ LET page == loop[d].page
         last == Max({loop[d].after} \cup page)
         next == IF AtHead(last, loop[d].head, page) THEN AfterCatchUp(loop[d].by) ELSE "page"
     IN /\ Apply(d, Events(page), last)
        /\ loop' = [loop EXCEPT ![d] = [@ EXCEPT !.pc = next, !.after = last, !.page = {}]]
  /\ UNCHANGED <<relay, journal, inbox, pub, wanted, vanishing, written, count>>

-----------------------------------------------------------------------------
(* Going live: subscribe and live *)

(* The relay sends the first event after the cursor, and what it accepts   *)
(* from now on.                                                            *)
Subscribe(d) ==
  /\ loop[d].pc = "subscribe"
  /\ loop' = [loop EXCEPT ![d] = [Resting EXCEPT !.pc = "live", !.after = cursor[d]]]
  /\ inbox' = [inbox EXCEPT ![d] =
                 IF StoredAfter(cursor[d]) = {} THEN <<>> ELSE <<Min(StoredAfter(cursor[d]))>>]
  /\ UNCHANGED <<relay, disk, pub, wanted, vanishing, written, count>>

(* An event next to the cursor is applied; one past a gap starts a         *)
(* catch-up; one at or before the cursor is known.                         *)
Receive(d) ==
  /\ loop[d].pc = "live" /\ inbox[d] # <<>>
  /\ inbox' = [inbox EXCEPT ![d] = Tail(@)]
  /\ LET seq == Head(inbox[d]) at == loop[d].after IN
       \/ /\ seq <= at
          /\ UNCHANGED <<loop, disk>>
       \/ /\ seq = at + 1
          /\ Apply(d, {log[seq]}, seq)
          /\ loop' = [loop EXCEPT ![d].after = seq]
          /\ UNCHANGED journal
       \/ /\ seq > at + 1
          /\ loop' = [loop EXCEPT ![d] = CatchUp("gap")]
          /\ UNCHANGED disk
  /\ UNCHANGED <<relay, pub, wanted, vanishing, written, count>>

(* The loop's call or subscription fails: a start gives up, the live loop  *)
(* catches up (after its backoff) and subscribes again.                    *)
Broken(d) == IF loop[d].by = "start" /\ loop[d].pc \in {"ask", "load", "page", "sending"}
             THEN [Resting EXCEPT !.pc = "failed"] ELSE CatchUp("retry")

Break(d) ==
  /\ loop[d].pc \in {"ask", "load", "page", "subscribe", "live"} /\ loop[d] # CatchUp("retry")
  /\ Upset("fails", MaxFail)
  /\ loop' = [loop EXCEPT ![d] = Broken(d)]
  /\ inbox' = [inbox EXCEPT ![d] = <<>>]
  /\ UNCHANGED <<relay, disk, pub, wanted, vanishing, written>>

-----------------------------------------------------------------------------
(* Publishing the journal *)

(* The first of a journal in key order: the stamp's time comes first.      *)
Oldest(items) ==
  CHOOSE item \in items : \A other \in items : ~Older(other.entry, item.entry)

(* The relay accepts an event and sends it to who is subscribed.           *)
Accept(event) ==
  /\ log' = Append(log, event)
  /\ inbox' = [d \in Device |->
                 IF loop[d].pc = "live" \/ (loop[d].by = "gap" /\ loop[d].pc \in {"ask", "load", "page", "apply"})
                 THEN Append(inbox[d], Len(log) + 1) ELSE inbox[d]]
  /\ UNCHANGED <<cut, pack>>

(* When the loop's publish_journal is over: the start goes live only if    *)
(* all was sent, the reconnect in any case.                                *)
AfterPublish(d, by, ok) ==
  IF by = "loop"
  THEN loop' = [loop EXCEPT ![d] = IF ok \/ @.by = "retry" THEN [@ EXCEPT !.pc = "subscribe"]
                                                           ELSE Broken(d)]
  ELSE UNCHANGED loop

(* publish_journal begins, for the loop or for the background task, with   *)
(* the journal as it is.                                                   *)
PublishJournal(d) ==
  /\ pub[d].pc = "idle"
  /\ \E by \in {"loop", "commit"} :
       /\ IF by = "loop" THEN loop[d].pc = "send" ELSE wanted[d]
       /\ wanted' = [wanted EXCEPT ![d] = @ /\ by = "loop"]
       /\ IF journal[d] = {}
          THEN UNCHANGED pub /\ AfterPublish(d, by, TRUE)
          ELSE /\ pub' = [pub EXCEPT ![d] = PassAt("sending", by, journal[d], 1)]
               /\ IF by = "loop" THEN To(d, "sending") ELSE UNCHANGED loop
  /\ UNCHANGED <<relay, disk, inbox, vanishing, written, count>>

NextPart(d) ==
  LET item == Oldest(pub[d].items) IN Patch(item.object, item.entry, pub[d].part)

(* publish_any of the next part.                                           *)
Send(d) ==
  /\ pub[d].pc = "sending"
  /\ Accept(NextPart(d))
  /\ LET p == pub[d] IN
       pub' = [pub EXCEPT ![d] = IF p.part < Parts THEN PassAt("sending", p.by, p.items, p.part + 1)
                                                   ELSE PassAt("sent", p.by, p.items, p.part)]
  /\ UNCHANGED <<disk, loop, wanted, vanishing, written, count>>

\* Mistaken: the whole journal leaves, with what was written meanwhile.
SentAll(d) == journal[d]

Sent(d) == {Oldest(pub[d].items)}

RemoveJournal(d) ==
  /\ pub[d].pc = "sent"
  /\ journal' = [journal EXCEPT ![d] = @ \ Sent(d)]
  /\ LET rest == pub[d].items \ {Oldest(pub[d].items)} IN
       IF rest # {}
       THEN /\ pub' = [pub EXCEPT ![d] = PassAt("sending", pub[d].by, rest, 1)]
            /\ UNCHANGED loop
       ELSE /\ pub' = [pub EXCEPT ![d] = NoPub]
            /\ AfterPublish(d, pub[d].by, TRUE)
  /\ UNCHANGED <<relay, rec, cursor, ledger, clock, inbox, wanted, vanishing, written, count>>

(* Nothing was sent, or the relay took it and its answer is lost: the pass *)
(* ends and the item stays.                                                *)
SendFails(d) ==
  /\ pub[d].pc = "sending"
  /\ Upset("fails", MaxFail)
  /\ UNCHANGED <<relay, inbox>> \/ Accept(NextPart(d))
  /\ pub' = [pub EXCEPT ![d] = NoPub]
  /\ AfterPublish(d, pub[d].by, FALSE)
  /\ UNCHANGED <<disk, wanted, vanishing, written>>

(* vanish: one try; a failure is logged.                                   *)
SendVanish(d, o) ==
  /\ o \in vanishing[d]
  /\ vanishing' = [vanishing EXCEPT ![d] = @ \ {o}]
  /\ Accept(VanishOf(o)) \/ UNCHANGED <<relay, inbox>>
  /\ UNCHANGED <<disk, loop, pub, wanted, written, count>>

-----------------------------------------------------------------------------
(* The process, the account and the world *)

Ended(d) ==
  /\ loop' = [loop EXCEPT ![d] = Resting]
  /\ inbox' = [inbox EXCEPT ![d] = <<>>]
  /\ pub' = [pub EXCEPT ![d] = NoPub]
  /\ wanted' = [wanted EXCEPT ![d] = FALSE]
  /\ vanishing' = [vanishing EXCEPT ![d] = {}]

Crash(d) ==
  /\ Upset("crashes", MaxCrash)
  /\ Ended(d)
  /\ UNCHANGED <<relay, disk, written>>

(* logout looks at the legacy outbox's obligations, of which there are     *)
(* none, and clears the store; the clock lives on in the process unless    *)
(* that ends too.                                                          *)
Logout(d) ==
  /\ vanishing[d] = {}
  /\ Upset("logouts", MaxLogout)
  /\ Ended(d)
  /\ rec' = [rec EXCEPT ![d] = [o \in Object |-> NoEntry]]
  /\ journal' = [journal EXCEPT ![d] = {}]
  /\ cursor' = [cursor EXCEPT ![d] = NoCursor]
  /\ ledger' = [ledger EXCEPT ![d] = {}]
  /\ clock' \in {clock, [clock EXCEPT ![d] = 0]}
  /\ UNCHANGED <<relay, written>>

(* The builder packs what the stream says up to its head ...               *)
BuildPack ==
  /\ count.packs < MaxPacks /\ Used("packs")
  /\ Len(log) > pack.cursor
  /\ pack' = [cursor |-> Len(log), cut |-> cut, rows |-> [o \in Object |-> Told(Len(log), o)]]
  /\ UNCHANGED <<log, cut, disk, session, written>>

CatchingUp(d) == loop[d].pc \in {"load", "page", "apply"}

(* ... and deletes the patches it covers, announcing so first.             *)
DeleteCovered ==
  /\ count.cuts < MaxCuts /\ Used("cuts")
  /\ cut < pack.cursor
  /\ CutsDuringSync \/ \A d \in Device : ~CatchingUp(d)
  /\ cut' = pack.cursor
  /\ pack' = [pack EXCEPT !.cut = pack.cursor]
  /\ UNCHANGED <<log, disk, session, written>>

-----------------------------------------------------------------------------
Loop(d) == \/ Start(d) \/ Ask(d) \/ Load(d) \/ Page(d) \/ ApplyPage(d)
           \/ Subscribe(d) \/ Receive(d) \/ Break(d)

Publish(d) == PublishJournal(d) \/ Send(d) \/ RemoveJournal(d) \/ SendFails(d)

Next ==
  \/ \E d \in Device : Loop(d) \/ Publish(d) \/ Crash(d) \/ Logout(d)
  \/ \E d \in Device, o \in Object : Commit(d, o) \/ VanishLocal(d, o) \/ SendVanish(d, o)
  \/ BuildPack \/ DeleteCovered

Spec == Init /\ [][Next]_vars

(* A task that can go on goes on; calls need not fail.                     *)
Fairness == \A d \in Device : WF_vars(Loop(d)) /\ WF_vars(Publish(d))

FairSpec == Spec /\ Fairness

-----------------------------------------------------------------------------
(* Types of every variable.                                                *)
EventType == [kind : {"patch", "vanish"}, object : Object, entry : Entry \cup {NoEntry}, part : 1..Parts]
Row == [Object -> Entry \cup {NoEntry}]
PackType == [cursor : Nat, cut : Nat, rows : Row]
Item == [object : Object, entry : Entry]
LoopType == [pc : {"off", "ask", "load", "page", "apply", "send", "sending",
                   "subscribe", "live", "failed"},
             by : {"start", "gap", "retry"}, after : Nat, loaded : BOOLEAN,
             announced : PackType, page : SUBSET Nat, head : Nat]
PassType == [pc : {"idle", "sending", "sent"}, by : {"commit", "loop"},
             items : SUBSET Item, part : 1..Parts]

TypeOK ==
  /\ log \in Seq(EventType) /\ cut \in Nat /\ pack \in PackType
  /\ rec \in [Device -> Row]
  /\ journal \in [Device -> SUBSET Item]
  /\ cursor \in [Device -> Nat] /\ ledger \in [Device -> SUBSET Object]
  /\ clock \in [Device -> 0..MaxTime]
  /\ loop \in [Device -> LoopType] /\ inbox \in [Device -> Seq(Nat)]
  /\ pub \in [Device -> PassType]
  /\ wanted \in [Device -> BOOLEAN] /\ vanishing \in [Device -> SUBSET Object]
  /\ written \in [Object -> SUBSET Entry] /\ count \in [Bounded -> Nat]

(* What a device's cursor has passed it holds: an object no one vanished   *)
(* shows at least the newest entry the stream tells up to the cursor       *)
(* (unless this device dropped it).                                        *)
CursorCovers ==
  \A d \in Device, o \in Object :
    o \in ledger[d] \cup Vanished(Events(1..cursor[d])) \/ ~Older(rec[d][o], Told(cursor[d], o))

(* Devices at the head with nothing left to send show the same of every    *)
(* object that no one vanished.                                            *)
Settled(d) == cursor[d] = Len(log) /\ journal[d] = {}
VanishedAnywhere == Vanished(Events(DOMAIN log)) \cup UNION {ledger[d] : d \in Device}
Converged ==
  \A d, e \in Device : Settled(d) /\ Settled(e) =>
    \A o \in Object \ VanishedAnywhere : rec[d][o] = rec[e][o]

(* A device's next stamp is past every entry it shows or has journaled, a  *)
(* crash included: no write of its own can lose to what it replaced.       *)
ClockCovers ==
  \A d \in Device :
    /\ \A o \in Object : rec[d][o].time <= clock[d]
    /\ \A item \in journal[d] : item.entry.time <= clock[d]

(* A write is in its device's journal until the relay took all of it.      *)
OnStream(o, e) == \A p \in 1..Parts : Patch(o, e, p) \in Events(DOMAIN log)
WritesKept ==
  \A o \in Object : \A e \in written[o] :
    OnStream(o, e) \/ \E d \in Device : [object |-> o, entry |-> e] \in journal[d]

(* Once vanished on the stream, an object is gone from every device whose  *)
(* cursor passed the vanish, whatever is still sent of it.  A pack breaks  *)
(* it: its cursor passes the vanishes, its rows do not name them.          *)
VanishReaches ==
  \A d \in Device, o \in Object :
    o \in Vanished(Events(1..cursor[d])) => rec[d][o] = NoEntry

(* The journal is sent in the end, whatever is written meanwhile and where *)
(* a crash or a logout falls.                                              *)
Drains == \A d \in Device : []<>(journal[d] = {})

(* A device that catches up follows the stream in the end, at the start,   *)
(* over a gap and after a crash.                                           *)
GoesLive == \A d \in Device : []<>(loop[d].pc \in {"live", "off"})

LW == INSTANCE LastWriter WITH shown <- rec
ImplementsLastWriter == LW!Spec
=============================================================================
