---------------------------- MODULE RecordsProofs ----------------------------
(***************************************************************************)
(* What record mode promises, for every number of devices, objects, pages, *)
(* failures and crashes.  Four parts:                                      *)
(*                                                                         *)
(* No write is lost where nobody logs out (WritesKept; a logout clears the *)
(* journal unasked, which the run records_logout shows).  RemoveJournal    *)
(* takes an item out because of sends several steps before: SentParts is   *)
(* what publish_journal knows in between.                                  *)
(*                                                                         *)
(* It implements LastWriter, whatever it merges in whatever order: for     *)
(* that, what is merged was written (Sound).                               *)
(*                                                                         *)
(* What its cursor passed a device holds (CursorCovers), and devices at    *)
(* the head agree (Converged).  Follows is what a catch-up relies on: a    *)
(* pack is what the stream told at its cursor, the loop is where the       *)
(* cursor is, and no patch after it was deleted, so that a page leaves no  *)
(* seq out.  Known is where an entry shown can still be found.             *)
(*                                                                         *)
(* What was vanished stays gone (VanishReaches), by the ledger.            *)
(***************************************************************************)
EXTENDS RecordsTypes, FiniteSetTheorems

OnStreamUpTo(item, n) ==
  \A p \in 1..n : Patch(item.object, item.entry, p) \in Events(DOMAIN log)

\* A pass over items that are among I.
PassOver(I) ==
  [pc : {"idle", "sending", "sent"}, by : {"commit", "loop"}, items : I, part : 1..Parts]

\* What is past is on the stream.
SentParts ==
  \A d \in Device :
    /\ pub[d].pc = "sending" => OnStreamUpTo(Oldest(pub[d].items), pub[d].part - 1)
    /\ pub[d].pc = "sent" => OnStreamUpTo(Oldest(pub[d].items), Parts)

Shape ==
  /\ \E S : log \in Seq(S)
  /\ \E I : pub \in [Device -> PassOver(I)]
  /\ DOMAIN journal = Device /\ DOMAIN written = Object
  /\ DOMAIN count = {"writes", "vanishes", "packs", "cuts", "fails", "crashes", "logouts"}
  /\ count["logouts"] \in Nat

KeptInv == Shape /\ SentParts /\ WritesKept

Grows == log' = log \/ \E event : log' = Append(log, event)

\* An accepted event is on the stream and nothing leaves it (Accept).
LEMMA StreamGrows ==
  ASSUME Shape, Grows
  PROVE  /\ \E S : log' \in Seq(S)
         /\ Events(DOMAIN log) \subseteq Events(DOMAIN log)'
         /\ \A event : log' = Append(log, event) => event \in Events(DOMAIN log)'
<1>1. PICK S : log \in Seq(S)
  BY DEF Shape
<1>2. CASE log' = log /\ \A event : log' # Append(log, event)
  BY <1>1, <1>2 DEF Events
<1>3. ASSUME NEW event, log' = Append(log, event)
      PROVE  /\ log' \in Seq(S \cup {event})
             /\ Events(DOMAIN log) \subseteq Events(DOMAIN log)'
             /\ event \in Events(DOMAIN log)'
  <2>1. log \in Seq(S \cup {event})
    BY <1>1
  <2>2. log' \in Seq(S \cup {event}) /\ Len(log') = Len(log) + 1 /\ log'[Len(log) + 1] = event
    BY <2>1, <1>3
  <2>3. \A i \in 1..Len(log) : log'[i] = log[i]
    BY <2>1, <1>3
  <2>4. DOMAIN log = 1..Len(log) /\ DOMAIN log' = 1..Len(log') /\ Len(log) \in Nat
    BY <2>1, <2>2
  <2> QED BY <2>2, <2>3, <2>4 DEF Events
<1> QED BY <1>2, <1>3 DEF Grows

\* What a device sent stays sent.
LEMMA StaysOnStream ==
  ASSUME Events(DOMAIN log) \subseteq Events(DOMAIN log)',
         NEW item, NEW n, OnStreamUpTo(item, n)
  PROVE  OnStreamUpTo(item, n)'
  BY DEF OnStreamUpTo, Patch

\* A step that leaves journals, passes and what was written alone.
LEMMA OthersKeep ==
  ASSUME KeptInv, Grows, UNCHANGED <<journal, pub, written>>,
         DOMAIN count' = DOMAIN count, count'["logouts"] = count["logouts"]
  PROVE  KeptInv'
<1>1. Events(DOMAIN log) \subseteq Events(DOMAIN log)' /\ \E S : log' \in Seq(S)
  BY StreamGrows DEF KeptInv
<1>2. Shape'
  BY <1>1 DEF KeptInv, Shape
<1>3. SentParts'
  BY <1>1 DEF KeptInv, SentParts, OnStreamUpTo, Patch
<1>4. WritesKept'
  BY <1>1 DEF KeptInv, WritesKept, OnStream, Patch
<1> QED BY <1>2, <1>3, <1>4 DEF KeptInv

\* The background task of publish_journal begins, or ends at once on an empty
\* journal.
LEMMA PublishJournalKeeps ==
  ASSUME KeptInv, NEW d \in Device, PublishJournal(d)
  PROVE  KeptInv'
<1>1. UNCHANGED <<log, journal, written, count>>
  BY DEF PublishJournal, relay, disk
<1>2. CASE UNCHANGED pub
  BY <1>1, <1>2, OthersKeep DEF Grows
<1>3. CASE journal[d] # {}
  <2>1. PICK by \in {"loop", "commit"} :
          pub' = [pub EXCEPT ![d] = PassAt("sending", by, journal[d], 1)]
    BY <1>3 DEF PublishJournal
  <2>2. PICK I : pub \in [Device -> PassOver(I)]
    BY DEF KeptInv, Shape
  <2>3. PICK items : items = journal[d]
    OBVIOUS
  <2>4. /\ pub'[d] = PassAt("sending", by, items, 1)
        /\ \A e \in Device \ {d} : pub'[e] = pub[e]
        /\ pub' \in [Device -> PassOver(I \cup {items})]
    BY <2>1, <2>2, <2>3, RecordsConstants DEF PassOver, PassAt
  <2>7. Shape'
    BY <1>1, <2>4 DEF KeptInv, Shape
  <2>5. SentParts'
    BY <1>1, <2>4 DEF KeptInv, SentParts, PassAt, OnStreamUpTo, Patch, Events
  <2>6. WritesKept'
    BY <1>1 DEF KeptInv, WritesKept, OnStream, Patch, Events
  <2> QED BY <2>5, <2>6, <2>7 DEF KeptInv
<1> QED BY <1>2, <1>3 DEF PublishJournal

\* A part is sent: the pass is past it, and it is on the stream.
LEMMA SendKeeps ==
  ASSUME KeptInv, NEW d \in Device, Send(d)
  PROVE  KeptInv'
<1>0. PICK item, part : item = Oldest(pub[d].items) /\ part = pub[d].part
  OBVIOUS
<1>1. /\ log' = Append(log, Patch(item.object, item.entry, part)) /\ pub[d].pc = "sending"
      /\ UNCHANGED <<journal, written, count>>
  BY <1>0 DEF Send, Accept, NextPart, disk
<1>2. /\ Events(DOMAIN log) \subseteq Events(DOMAIN log)' /\ \E S : log' \in Seq(S)
      /\ Patch(item.object, item.entry, part) \in Events(DOMAIN log)'
  BY <1>1, StreamGrows DEF KeptInv, Grows
<1>3. /\ part \in 1..Parts /\ Parts \in Nat
      /\ \E I : pub \in [Device -> PassOver(I)]
  BY <1>0, RecordsConstants DEF KeptInv, Shape, PassOver
<1>4. OnStreamUpTo(item, part)'
  <2>1. OnStreamUpTo(item, part - 1)
    BY <1>0, <1>1 DEF KeptInv, SentParts
  <2>2. OnStreamUpTo(item, part - 1)'
    BY <1>2, <2>1, StaysOnStream
  <2> QED BY <1>2, <1>3, <2>2 DEF OnStreamUpTo, Patch
<1>5. /\ \A e \in Device \ {d} : pub'[e] = pub[e]
      /\ \/ pub'[d].pc = "sending" /\ pub'[d].part = part + 1
         \/ pub'[d].pc = "sent" /\ part = Parts
      /\ pub'[d].items = pub[d].items
      /\ \E I : pub' \in [Device -> PassOver(I)]
  <2>1. pub' = [pub EXCEPT ![d] =
                 IF part < Parts THEN PassAt("sending", pub[d].by, pub[d].items, part + 1)
                                 ELSE PassAt("sent", pub[d].by, pub[d].items, part)]
    BY <1>0 DEF Send
  <2>2. PICK I : pub \in [Device -> PassOver(I)]
    BY <1>3
  <2> QED BY <1>3, <2>1, <2>2 DEF PassOver, PassAt
<1>6. Shape'
  BY <1>1, <1>2, <1>5 DEF KeptInv, Shape
<1>7. SentParts'
  <2>1. ASSUME NEW e \in Device \ {d}
        PROVE  /\ pub'[e].pc = "sending" => OnStreamUpTo(Oldest(pub[e].items), pub[e].part - 1)'
               /\ pub'[e].pc = "sent" => OnStreamUpTo(Oldest(pub[e].items), Parts)'
    BY <1>2, <1>5, <2>1 DEF KeptInv, SentParts, OnStreamUpTo, Patch
  <2>2. /\ pub'[d].pc = "sending" => OnStreamUpTo(Oldest(pub[d].items), pub[d].part - 1)'
        /\ pub'[d].pc = "sent" => OnStreamUpTo(Oldest(pub[d].items), Parts)'
    BY <1>0, <1>3, <1>4, <1>5 DEF OnStreamUpTo, Patch
  <2> QED BY <2>1, <2>2 DEF SentParts
<1>8. WritesKept'
  BY <1>1, <1>2 DEF KeptInv, WritesKept, OnStream, Patch
<1> QED BY <1>6, <1>7, <1>8 DEF KeptInv

\* An item leaves the journal with all its parts on the stream.
LEMMA RemoveJournalKeeps ==
  ASSUME KeptInv, NEW d \in Device, RemoveJournal(d)
  PROVE  KeptInv'
<1>0. PICK item : item = Oldest(pub[d].items)
  OBVIOUS
<1>1. /\ UNCHANGED <<log, written, count>> /\ pub[d].pc = "sent"
      /\ journal' = [journal EXCEPT ![d] = @ \ {item}]
  BY <1>0 DEF RemoveJournal, Sent, relay
<1>2. OnStreamUpTo(item, Parts)
  BY <1>0, <1>1 DEF KeptInv, SentParts
<1>3. /\ \A e \in Device \ {d} : pub'[e] = pub[e]
      /\ (pub'[d].pc = "idle" \/ (pub'[d].pc = "sending" /\ pub'[d].part = 1))
      /\ \E I : pub' \in [Device -> PassOver(I)]
  <2>1. PICK I : pub \in [Device -> PassOver(I)]
    BY DEF KeptInv, Shape
  <2>2. CASE pub' = [pub EXCEPT ![d] = PassAt("sending", pub[d].by, pub[d].items \ {Oldest(pub[d].items)}, 1)]
    <3>1. PICK rest : rest = pub[d].items \ {Oldest(pub[d].items)}
      OBVIOUS
    <3>2. pub' \in [Device -> PassOver(I \cup {rest})]
      BY <2>1, <2>2, <3>1, RecordsConstants DEF PassOver, PassAt
    <3> QED BY <2>1, <2>2, <3>2 DEF PassAt
  <2>3. CASE pub' = [pub EXCEPT ![d] = NoPub]
    <3>1. pub' \in [Device -> PassOver(I \cup {{}})]
      BY <2>1, <2>3, RecordsConstants DEF PassOver, NoPub, PassAt
    <3> QED BY <2>1, <2>3, <3>1 DEF NoPub, PassAt
  <2> QED BY <2>2, <2>3 DEF RemoveJournal
<1>4. Shape'
  <2>1. DOMAIN journal' = Device
    BY <1>1 DEF KeptInv, Shape
  <2> QED BY <1>1, <1>3, <2>1 DEF KeptInv, Shape
<1>5. SentParts'
  BY <1>1, <1>3 DEF KeptInv, SentParts, OnStreamUpTo, Patch, Events
<1>6. WritesKept'
  <2>1. SUFFICES ASSUME NEW o \in Object, NEW e \in written[o]
        PROVE  \/ OnStream(o, e)'
               \/ \E x \in Device : [object |-> o, entry |-> e] \in journal'[x]
    BY <1>1 DEF WritesKept
  <2>2. CASE OnStream(o, e)
    BY <1>1, <2>2 DEF OnStream, Patch, Events
  <2>3. ASSUME NEW x \in Device, [object |-> o, entry |-> e] \in journal[x]
        PROVE  OnStream(o, e)' \/ [object |-> o, entry |-> e] \in journal'[x]
    <3>1. CASE x = d /\ item = [object |-> o, entry |-> e]
      BY <1>1, <1>2, <3>1 DEF OnStreamUpTo, OnStream, Patch, Events
    <3>2. CASE x # d \/ item # [object |-> o, entry |-> e]
      BY <1>1, <2>3, <3>2 DEF KeptInv, Shape
    <3> QED BY <3>1, <3>2
  <2> QED BY <2>2, <2>3 DEF KeptInv, WritesKept
<1> QED BY <1>4, <1>5, <1>6 DEF KeptInv

\* A write goes into the journal with the step that makes it.
LEMMA CommitKeeps ==
  ASSUME KeptInv, NEW d \in Device, NEW o \in Object, Commit(d, o)
  PROVE  KeptInv'
<1>1. PICK e : /\ journal' = [journal EXCEPT ![d] = @ \cup {[object |-> o, entry |-> e]}]
               /\ written' = [written EXCEPT ![o] = @ \cup {e}]
  BY DEF Commit
<1>2. UNCHANGED <<log, pub>> /\ count' = [count EXCEPT !["writes"] = @ + 1]
  BY DEF Commit, Used, relay
<1>3. Shape'
  BY <1>1, <1>2 DEF KeptInv, Shape
<1>4. SentParts'
  BY <1>2 DEF KeptInv, SentParts, OnStreamUpTo, Patch, Events
<1>5. WritesKept'
  <2>1. SUFFICES ASSUME NEW x \in Object, NEW y \in written'[x]
        PROVE  \/ OnStream(x, y)'
               \/ \E h \in Device : [object |-> x, entry |-> y] \in journal'[h]
    BY DEF WritesKept
  <2>2. DOMAIN written = Object /\ DOMAIN journal = Device
    BY DEF KeptInv, Shape
  <2>3. CASE x = o /\ y = e
    BY <1>1, <2>2, <2>3
  <2>4. CASE y \in written[x]
    BY <1>1, <1>2, <2>2, <2>4 DEF KeptInv, WritesKept, OnStream, Patch, Events
  <2> QED BY <1>1, <2>2, <2>3, <2>4
<1> QED BY <1>3, <1>4, <1>5 DEF KeptInv

\* A pass that ends early leaves the journal as it is.
LEMMA PassEndsKeeps ==
  ASSUME KeptInv, NEW d \in Device, Grows, UNCHANGED <<journal, written>>,
         pub' = [pub EXCEPT ![d] = NoPub],
         DOMAIN count' = DOMAIN count, count'["logouts"] = count["logouts"]
  PROVE  KeptInv'
<1>1. Events(DOMAIN log) \subseteq Events(DOMAIN log)' /\ \E S : log' \in Seq(S)
  BY StreamGrows DEF KeptInv
<1>2. PICK I : pub \in [Device -> PassOver(I)]
  BY DEF KeptInv, Shape
<1>3. /\ pub' \in [Device -> PassOver(I \cup {{}})]
      /\ pub'[d].pc = "idle" /\ \A e \in Device \ {d} : pub'[e] = pub[e]
  BY <1>2, RecordsConstants DEF PassOver, PassAt, NoPub
<1>4. Shape'
  BY <1>1, <1>3 DEF KeptInv, Shape
<1>5. SentParts'
  BY <1>1, <1>3 DEF KeptInv, SentParts, OnStreamUpTo, Patch
<1>6. WritesKept'
  BY <1>1 DEF KeptInv, WritesKept, OnStream, Patch
<1> QED BY <1>4, <1>5, <1>6 DEF KeptInv

\* Every step keeps the invariant where nobody logs out.
LEMMA StepKeeps ==
  ASSUME MaxLogout = 0, KeptInv, [Next]_vars
  PROVE  KeptInv'
<1>0. DOMAIN count = {"writes", "vanishes", "packs", "cuts", "fails", "crashes", "logouts"}
      /\ count["logouts"] \in Nat
  BY DEF KeptInv, Shape
<1>1. ASSUME NEW d \in Device, Loop(d)
      PROVE  KeptInv'
  <2>1. CASE Start(d) \/ Ask(d) \/ Load(d) \/ Page(d) \/ ApplyPage(d) \/ Subscribe(d) \/ Receive(d)
    <3>1. UNCHANGED <<log, journal, pub, written, count>>
      BY <2>1 DEF Start, Ask, Load, Page, ApplyPage, Subscribe, Receive, relay, disk
    <3> QED BY <3>1, OthersKeep DEF Grows
  <2>2. CASE Break(d)
    <3>1. UNCHANGED <<log, journal, pub, written>> /\ count' = [count EXCEPT !["fails"] = @ + 1]
      BY <2>2 DEF Break, Upset, Used, relay, disk
    <3> QED BY <1>0, <3>1, OthersKeep DEF Grows
  <2> QED BY <1>1, <2>1, <2>2 DEF Loop
<1>2. ASSUME NEW d \in Device, Publish(d)
      PROVE  KeptInv'
  <2>1. CASE SendFails(d)
    <3>1. /\ Grows /\ UNCHANGED <<journal, written>> /\ pub' = [pub EXCEPT ![d] = NoPub]
          /\ count' = [count EXCEPT !["fails"] = @ + 1]
      BY <2>1 DEF SendFails, Upset, Used, Accept, relay, disk, Grows
    <3> QED BY <1>0, <3>1, PassEndsKeeps
  <2> QED BY <1>2, <2>1, PublishJournalKeeps, SendKeeps, RemoveJournalKeeps DEF Publish
<1>3. ASSUME NEW d \in Device, Crash(d)
      PROVE  KeptInv'
  <2>1. /\ UNCHANGED <<log, journal, written>> /\ pub' = [pub EXCEPT ![d] = NoPub]
        /\ count' = [count EXCEPT !["crashes"] = @ + 1]
    BY <1>3 DEF Crash, Ended, Upset, Used, relay, disk
  <2> QED BY <1>0, <2>1, PassEndsKeeps DEF Grows
<1>4. ASSUME MaxLogout = 0, NEW d \in Device
      PROVE  ~Logout(d)
  BY <1>0, <1>4 DEF Logout, Upset
<1>5. ASSUME NEW d \in Device, NEW o \in Object,
             Commit(d, o) \/ VanishLocal(d, o) \/ SendVanish(d, o)
      PROVE  KeptInv'
  <2>1. CASE VanishLocal(d, o)
    <3>1. UNCHANGED <<log, journal, pub, written>> /\ count' = [count EXCEPT !["vanishes"] = @ + 1]
      BY <2>1 DEF VanishLocal, Upset, Used, relay
    <3> QED BY <1>0, <3>1, OthersKeep DEF Grows
  <2>2. CASE SendVanish(d, o)
    <3>1. Grows /\ UNCHANGED <<journal, pub, written, count>>
      BY <2>2 DEF SendVanish, Accept, Grows, relay, disk
    <3> QED BY <3>1, OthersKeep
  <2> QED BY <1>5, <2>1, <2>2, CommitKeeps
<1>6. CASE BuildPack
  <2>1. UNCHANGED <<log, journal, pub, written>> /\ count' = [count EXCEPT !["packs"] = @ + 1]
    BY <1>6 DEF BuildPack, Used, disk, session
  <2> QED BY <1>0, <2>1, OthersKeep DEF Grows
<1>7. CASE DeleteCovered
  <2>1. UNCHANGED <<log, journal, pub, written>> /\ count' = [count EXCEPT !["cuts"] = @ + 1]
    BY <1>7 DEF DeleteCovered, Used, disk, session
  <2> QED BY <1>0, <2>1, OthersKeep DEF Grows
<1>8. CASE UNCHANGED vars
  BY <1>8, OthersKeep DEF Grows, vars, relay, disk, session
<1> QED BY <1>1, <1>2, <1>3, <1>4, <1>5, <1>6, <1>7, <1>8 DEF Next

\* A committed entry is in its device's journal until the relay took every
\* part of it, through any crash, failed call, lost answer, pack or cut
\* (commit_local, publish_journal), as long as nobody logs out.
THEOREM NoWriteLeavesUnsent ==
  ASSUME MaxLogout = 0
  PROVE  Spec => []WritesKept
<1>1. Init => KeptInv
  <2>1. SUFFICES ASSUME Init PROVE KeptInv
    OBVIOUS
  <2>2. /\ log = <<>> /\ journal = [d \in Device |-> {}] /\ pub = [d \in Device |-> NoPub]
        /\ written = [o \in Object |-> {}]
        /\ count = [what \in Bounded |-> 0]
    BY <2>1 DEF Init
  <2>3. log \in Seq({}) /\ pub \in [Device -> PassOver({{}})]
    BY <2>2, RecordsConstants DEF NoPub, PassAt, PassOver
  <2>4. Shape
    BY <2>2, <2>3 DEF Shape, Bounded
  <2>5. SentParts
    BY <2>2 DEF SentParts, NoPub, PassAt
  <2>6. WritesKept
    BY <2>2 DEF WritesKept
  <2> QED BY <2>4, <2>5, <2>6 DEF KeptInv
<1>2. KeptInv /\ [Next]_vars => KeptInv'
  BY StepKeeps
<1>3. KeptInv => WritesKept
  BY DEF KeptInv
<1> QED BY <1>1, <1>2, <1>3, PTL DEF Spec

-----------------------------------------------------------------------------
(* Record mode implements LastWriter. *)

LEMMA AnyWritten ==
  ASSUME NEW row \in WrittenRow
  PROVE  row \in [Object -> {NoEntry} \cup UNION {written[o] : o \in Object}]
<1>1. PICK U : U = UNION {written[o] : o \in Object}
  OBVIOUS
<1>2. \A o \in Object : written[o] \subseteq U
  BY <1>1, Zenon
<1>3. row \in [Object -> U \cup {NoEntry}]
  BY <1>2 DEF WrittenRow, Row
<1> QED BY <1>1, <1>3

\* What a merge does to a device's record, LastWriter's Receive allows.
LEMMA MergeIsReceive ==
  ASSUME Sound, NEW d \in Device, Merges(d), UNCHANGED written
  PROVE  LW!Receive(d)
<1>1. PICK row \in WrittenRow :
        /\ rec' = [rec EXCEPT ![d] = row]
        /\ \A o \in Object : \/ row[o] \in {rec[d][o], NoEntry}
                             \/ row[o] \in written[o] /\ Older(rec[d][o], row[o])
  BY DEF Merges
<1>2. row \in [Object -> {NoEntry} \cup UNION {written[o] : o \in Object}]
  BY AnyWritten
<1>3. LW!NoEntry = NoEntry /\ \A a, b : LW!Older(a, b) <=> Older(a, b)
  BY DEF LW!NoEntry, NoEntry, LW!Older, Older
<1> QED BY <1>1, <1>2, <1>3 DEF LW!Receive

\* A commit is LastWriter's Write.
LEMMA CommitIsWrite ==
  ASSUME Sound, NEW d \in Device, NEW o \in Object, Commit(d, o)
  PROVE  LW!Write(d, o)
<1>1. \A a, b : LW!Older(a, b) <=> Older(a, b)
  BY DEF LW!Older, Older
<1> QED BY <1>1, CommitWrites DEF LW!Write

\* A logout leaves a record of nothing.
LEMMA LogoutIsReceive ==
  ASSUME Sound, NEW d \in Device, Logout(d)
  PROVE  LW!Receive(d)
<1>1. PICK none : none = [o \in Object |-> NoEntry]
  OBVIOUS
<1>2. rec' = [rec EXCEPT ![d] = none] /\ UNCHANGED written
  BY <1>1 DEF Logout
<1>3. none \in [Object -> {NoEntry} \cup UNION {written[o] : o \in Object}]
  <2>1. none \in WrittenRow
    BY <1>1 DEF WrittenRow, Row
  <2> QED BY <2>1, AnyWritten
<1>4. \A o \in Object : none[o] = NoEntry /\ LW!NoEntry = NoEntry
  BY <1>1 DEF LW!NoEntry, NoEntry
<1> QED BY <1>2, <1>3, <1>4 DEF LW!Receive

\* Every step is a step of LastWriter or leaves it as it is.
LEMMA StepImplements ==
  ASSUME Sound, [Next]_vars
  PROVE  [LW!Next]_LW!vars
<1>1. ASSUME NEW d \in Device, Loop(d) PROVE LW!Receive(d) \/ UNCHANGED <<written, rec>>
  <2>1. CASE Load(d) \/ ApplyPage(d) \/ Receive(d)
    <3>1. UNCHANGED written
      BY <2>1 DEF Load, ApplyPage, Receive
    <3>2. Merges(d) \/ UNCHANGED rec
      BY <2>1, LoadMerges, ApplyPageSound, ReceiveSound
    <3> QED BY <3>1, <3>2, MergeIsReceive
  <2>2. CASE Start(d) \/ Ask(d) \/ Page(d) \/ Subscribe(d) \/ Break(d)
    BY <2>2 DEF Start, Ask, Page, Subscribe, Break, disk
  <2> QED BY <1>1, <2>1, <2>2 DEF Loop
<1>2. ASSUME NEW d \in Device, Publish(d) \/ Crash(d) PROVE UNCHANGED <<written, rec>>
  BY <1>2 DEF Publish, PublishJournal, Send, RemoveJournal, SendFails, Crash, disk
<1>3. ASSUME NEW d \in Device, NEW o \in Object, VanishLocal(d, o) \/ SendVanish(d, o)
      PROVE  LW!Receive(d) \/ UNCHANGED <<written, rec>>
  <2>1. CASE VanishLocal(d, o)
    <3>1. UNCHANGED written
      BY <2>1 DEF VanishLocal
    <3> QED BY <2>1, <3>1, VanishMerges, MergeIsReceive
  <2>2. CASE SendVanish(d, o)
    BY <2>2 DEF SendVanish, disk
  <2> QED BY <1>3, <2>1, <2>2
<1>4. BuildPack \/ DeleteCovered \/ UNCHANGED vars => UNCHANGED <<written, rec>>
  BY DEF BuildPack, DeleteCovered, vars, disk
<1>5. ASSUME NEW d \in Device, Logout(d) PROVE LW!Receive(d)
  BY <1>5, LogoutIsReceive
<1>6. ASSUME NEW d \in Device, NEW o \in Object, Commit(d, o) PROVE LW!Write(d, o)
  BY <1>6, CommitIsWrite
<1>7. \/ \E d \in Device : LW!Receive(d)
      \/ \E d \in Device, o \in Object : LW!Write(d, o)
      \/ UNCHANGED <<written, rec>>
  BY <1>1, <1>2, <1>3, <1>4, <1>5, <1>6, Zenon DEF Next
<1> QED BY <1>7, Zenon DEF LW!Next, LW!vars

\* Record mode implements LastWriter: on every device an object shows an entry
\* that was written, only a newer one takes its place, and a commit always
\* shows on its own device, whatever packs, pages and events it merges in
\* whatever order (record_merge, merge_pack, apply, commit_local).
THEOREM RecordsImplementLastWriter == Spec => ImplementsLastWriter
<1>1. Init => LW!Init
  BY DEF Init, LW!Init, LW!NoEntry, NoEntry
<1>2. Sound /\ [Next]_vars => [LW!Next]_LW!vars
  BY StepImplements
<1> QED BY <1>1, <1>2, AlwaysSound, PTL DEF Spec, ImplementsLastWriter, LW!Spec
-----------------------------------------------------------------------------
(* What a device holds of what its cursor passed. *)

\* Stamps are totally ordered (record_merge's comparison).
LEMMA StampOrder ==
  /\ \A a, b, c \in AnyEntry : ~Older(a, b) /\ ~Older(b, c) => ~Older(a, c)
  /\ \A a, b \in AnyEntry : ~Older(a, b) /\ ~Older(b, a) => a = b
  /\ \A a \in AnyEntry : ~Older(a, NoEntry)
<1>1. ASSUME NEW a \in AnyEntry, NEW b \in AnyEntry, ~Older(a, b), ~Older(b, a)
      PROVE  a = b
  <2>1. a.time = b.time /\ a.dev = b.dev /\ a.n = b.n
    BY <1>1, EntryParts DEF Older
  <2>2. \A x \in AnyEntry : x = [time |-> x.time, dev |-> x.dev, n |-> x.n]
    BY DEF AnyEntry, Entry, NoEntry
  <2> QED BY <2>1, <2>2
<1>2. ASSUME NEW a \in AnyEntry, NEW b \in AnyEntry, NEW c \in AnyEntry,
             ~Older(a, b), ~Older(b, c)
      PROVE  ~Older(a, c)
  BY <1>2, EntryParts DEF Older
<1>3. \A a \in AnyEntry : ~Older(a, NoEntry)
  BY EntryParts DEF Older, NoEntry
<1> QED BY <1>1, <1>2, <1>3

\* The events of a stream s up to a seq, and what they tell (Told, of any stream).
UpTo(s, n) == {s[i] : i \in 1..n}
ToldBy(events, o) == IF o \in Vanished(events) THEN NoEntry ELSE Newest(Whole(events, o))

LEMMA ToldUpTo == \A n, o : Told(n, o) = ToldBy(UpTo(log, n), o)
  BY DEF Told, ToldBy, UpTo, Events

\* What was accepted stays as it is (Accept appends).
LEMMA StreamStays ==
  ASSUME NEW s, log \in Seq(s), Grows
  PROVE  /\ Len(log) \in Nat /\ Len(log') \in Nat /\ Len(log) <= Len(log')
         /\ DOMAIN log = 1..Len(log) /\ DOMAIN log' = 1..Len(log')
         /\ \A i \in 1..Len(log) : log'[i] = log[i]
         /\ \A n \in 0..Len(log) : UpTo(log', n) = UpTo(log, n)
<1>1. /\ Len(log) \in Nat /\ Len(log') \in Nat /\ Len(log) <= Len(log')
      /\ DOMAIN log = 1..Len(log) /\ DOMAIN log' = 1..Len(log')
      /\ \A i \in 1..Len(log) : log'[i] = log[i]
  <2>1. CASE log' = log
    BY <2>1
  <2>2. ASSUME NEW event, log' = Append(log, event)
        PROVE  /\ Len(log) \in Nat /\ Len(log') \in Nat /\ Len(log) <= Len(log')
               /\ DOMAIN log = 1..Len(log) /\ DOMAIN log' = 1..Len(log')
               /\ \A i \in 1..Len(log) : log'[i] = log[i]
    <3>1. log \in Seq(s \cup {event})
      OBVIOUS
    <3> QED BY <2>2, <3>1
  <2> QED BY <2>1, <2>2 DEF Grows
<1>2. ASSUME NEW n \in 0..Len(log) PROVE UpTo(log', n) = UpTo(log, n)
  <2>1. 1..n \subseteq 1..Len(log)
    BY <1>1
  <2> QED BY <1>1, <2>1 DEF UpTo
<1> QED BY <1>1, <1>2

\* The entries of an object in events of the stream are entries that were written.
LEMMA WholeWritten ==
  ASSUME Sound, NEW seqs \in SUBSET DOMAIN log, NEW o \in Object
  PROVE  Whole(Events(seqs), o) \in SUBSET AnyEntry
<1>1. Events(seqs) \in SUBSET WrittenEvent
  BY EventsWritten
<1>2. \A x \in WrittenEvent : x.kind = "patch" => x.entry \in written[x.object]
  BY DEF WrittenEvent
<1>3. written[o] \subseteq AnyEntry
  BY DEF Sound, SoundCount, AnyEntry
<1> QED BY <1>1, <1>2, <1>3 DEF Whole

\* Where a patch is one event, a page brings all the entries it has.
LEMMA WholeSplits ==
  ASSUME Parts = 1, NEW A, NEW B, NEW o
  PROVE  /\ Whole(A \cup B, o) = Whole(A, o) \cup Whole(B, o)
         /\ Vanished(A \cup B) = Vanished(A) \cup Vanished(B)
<1>1. \A S : Whole(S, o) = {e \in {x.entry : x \in {y \in S : y.kind = "patch" /\ y.object = o}} :
                              Patch(o, e, 1) \in S}
  BY DEF Whole
<1>2. \A e, S : e \in Whole(S, o) <=> Patch(o, e, 1) \in S
  BY <1>1 DEF Patch
<1>3. Whole(A \cup B, o) = Whole(A, o) \cup Whole(B, o)
  BY <1>2
<1>4. Vanished(A \cup B) = Vanished(A) \cup Vanished(B)
  BY DEF Vanished
<1> QED BY <1>3, <1>4

\* A device that shows at least what a run of events tells, and the next run
\* merged, shows at least what both tell (record_merge in apply).
LEMMA MergeCovers ==
  ASSUME Sound, Parts = 1, NEW d \in Device, NEW o \in Object, NEW held \in AnyEntry,
         NEW n \in 0..Len(log), NEW m \in n..Len(log),
         ~Older(held, Told(n, o)), o \notin Vanished(Events(1..m))
  PROVE  ~Older(Newer(held, Newest(Whole(Events((n + 1)..m), o))), Told(m, o))
<1>1. Len(log) \in Nat /\ DOMAIN log = 1..Len(log)
  BY DEF Sound, SoundRelay
<1> DEFINE A == Events(1..n)
           B == Events((n + 1)..m)
<1>2. Events(1..m) = A \cup B
  <2>1. 1..m = (1..n) \cup ((n + 1)..m)
    BY <1>1
  <2> QED BY <2>1 DEF Events
<1>3. o \notin Vanished(A) /\ Whole(Events(1..m), o) = Whole(A, o) \cup Whole(B, o)
  <2> HIDE DEF A, B
  <2> QED BY <1>2, WholeSplits
<1>4. Told(n, o) = Newest(Whole(A, o)) /\ Told(m, o) = Newest(Whole(A, o) \cup Whole(B, o))
  BY <1>3 DEF Told
<1>5. Whole(A, o) \in SUBSET AnyEntry /\ Whole(B, o) \in SUBSET AnyEntry
  <2>1. (1..n) \in SUBSET DOMAIN log /\ ((n + 1)..m) \in SUBSET DOMAIN log
    BY <1>1
  <2> QED BY <2>1, WholeWritten
<1> DEFINE P == Whole(A, o)
           Q == Whole(B, o)
<1>6. PICK x \in AnyEntry : x = Newest(P \cup Q) /\ (x \in P \/ x \in Q \/ x = NoEntry)
  <2>1. (P \cup Q) \in SUBSET AnyEntry
    BY <1>5
  <2> HIDE DEF P, Q
  <2>2. Newest(P \cup Q) \in P \cup Q \cup {NoEntry}
    BY <2>1, NewestThere
  <2> QED BY <2>1, <2>2 DEF AnyEntry
<1>7. PICK t \in AnyEntry : t = Newest(P) /\ \A e \in P : ~Older(t, e)
  <2> HIDE DEF P
  <2> QED BY <1>5, NewestThere DEF AnyEntry, P
<1>8. PICK y \in AnyEntry : y = Newest(Q) /\ \A e \in Q : ~Older(y, e)
  <2> HIDE DEF Q
  <2> QED BY <1>5, NewestThere DEF AnyEntry, Q
<1>9. ~Older(held, t)
  BY <1>4, <1>7
<1>10. Newer(held, y) \in AnyEntry /\ ~Older(Newer(held, y), held) /\ ~Older(Newer(held, y), y)
  <2>1. \A a, b \in AnyEntry : Older(a, b) => ~Older(b, a)
    BY EntryParts DEF Older
  <2>2. \A a \in AnyEntry : ~Older(a, a)
    BY EntryParts DEF Older
  <2> QED BY <2>1, <2>2 DEF Newer
<1>11. PICK r \in AnyEntry : r = Newer(held, y) /\ ~Older(r, held) /\ ~Older(r, y)
  BY <1>10
<1>12. ~Older(r, x)
  <2> HIDE DEF A, B, P, Q
  <2>1. ~Older(r, t)
    BY <1>9, <1>11, StampOrder
  <2>2. CASE x \in P
    BY <1>7, <2>1, <2>2, StampOrder
  <2>3. CASE x \in Q
    BY <1>8, <1>11, <2>3, StampOrder
  <2>4. CASE x = NoEntry
    BY <2>4, StampOrder
  <2> QED BY <1>6, <2>2, <2>3, <2>4
<1> QED BY <1>4, <1>6, <1>8, <1>11, <1>12

\* A pack's rows are what the stream tells up to its cursor (BuildPack).
Honest(p, s) ==
  /\ p.cut <= p.cursor /\ p.cursor <= Len(s)
  /\ \A o \in Object : p.rows[o] = ToldBy(UpTo(s, p.cursor), o)

\* A page begins right after the seq it was asked for and leaves nothing out.
Dense(l, s) ==
  /\ l.page \subseteq (l.after + 1)..Len(s)
  /\ \A i \in l.page : ((l.after + 1)..i) \subseteq l.page

\* A loop that merges is where its device's cursor is, and no patch after it
\* was deleted.
InPlace(l, at, s, c) ==
  /\ l.pc \in {"load", "page", "apply", "live"} => l.after = at
  /\ l.pc \in {"load", "page", "apply"} => Honest(l.announced, s) /\ c <= l.announced.cursor
  /\ l.pc \in {"page", "apply"} => c <= l.after
  /\ l.pc = "apply" => Dense(l, s)

NoPacks ==
  MaxPacks = 0 => /\ pack = NoPack
                  /\ \A d \in Device : loop[d].announced = NoPack /\ loop[d].pc # "load"

Follows ==
  /\ Honest(pack, log) /\ pack.cut = cut
  /\ \A d \in Device : cursor[d] <= Len(log) /\ InPlace(loop[d], cursor[d], log, cut)
  /\ NoPacks

\* What is said of packs and loops stays true of a longer stream.
LEMMA HonestStays ==
  ASSUME Sound, Grows, NEW p \in WrittenPack, Honest(p, log)
  PROVE  Honest(p, log')
<1>1. p.cursor \in Nat
  BY DEF WrittenPack, PackType
<1>2. /\ Len(log) \in Nat /\ Len(log') \in Nat /\ Len(log) <= Len(log')
      /\ \A n \in 0..Len(log) : UpTo(log', n) = UpTo(log, n)
  BY StreamStays DEF Sound, SoundRelay
<1>3. p.cursor \in 0..Len(log)
  BY <1>1, <1>2 DEF Honest
<1> QED BY <1>2, <1>3 DEF Honest

LEMMA InPlaceStays ==
  ASSUME Sound, Grows, NEW l \in GoodLoop, NEW at, InPlace(l, at, log, cut)
  PROVE  InPlace(l, at, log', cut)
<1>1. l.announced \in WrittenPack /\ l.after \in Nat
  BY DEF GoodLoop, LoopType
<1>2. Len(log) \in Nat /\ Len(log') \in Nat /\ Len(log) <= Len(log')
  BY StreamStays DEF Sound, SoundRelay
<1>3. Honest(l.announced, log) => Honest(l.announced, log')
  BY <1>1, HonestStays
<1>4. Dense(l, log) => Dense(l, log')
  BY <1>1, <1>2 DEF Dense
<1> QED BY <1>3, <1>4 DEF InPlace

\* A step of one device's loop.
LEMMA FollowsAt ==
  ASSUME Sound, Follows, Grows, UNCHANGED <<pack, cut>>, NEW d \in Device, NEW l, NEW n,
         loop' = [loop EXCEPT ![d] = l], cursor' = [cursor EXCEPT ![d] = n],
         n <= Len(log'), InPlace(l, n, log', cut),
         MaxPacks = 0 => l.announced = NoPack /\ l.pc # "load"
  PROVE  Follows'
<1>1. /\ Len(log) \in Nat /\ Len(log') \in Nat /\ Len(log) <= Len(log')
      /\ pack \in WrittenPack /\ loop \in [Device -> GoodLoop] /\ cursor \in [Device -> Nat]
  BY StreamStays DEF Sound, SoundRelay, SoundLoop, SoundStore
<1>2. PICK p \in WrittenPack : p = pack
  BY <1>1
<1>3. Honest(p, log')
  BY <1>2, HonestStays DEF Follows
<1>4. ASSUME NEW e \in Device
      PROVE  cursor'[e] <= Len(log') /\ InPlace(loop'[e], cursor'[e], log', cut)
  <2>1. CASE e = d
    BY <1>1, <2>1
  <2>2. CASE e # d
    <3>1. PICK k \in GoodLoop, at \in Nat : k = loop[e] /\ at = cursor[e]
      BY <1>1
    <3>2. at <= Len(log) /\ InPlace(k, at, log', cut)
      BY <3>1, InPlaceStays DEF Follows
    <3> QED BY <1>1, <2>2, <3>1, <3>2
  <2> QED BY <2>1, <2>2
<1>5. NoPacks'
  BY <1>1 DEF Follows, NoPacks
<1> QED BY <1>2, <1>3, <1>4, <1>5 DEF Follows

\* A step in which no loop merges, starts to or goes live.
LEMMA OthersFollow ==
  ASSUME Sound, Follows, Grows, UNCHANGED <<pack, cut>>, NEW d \in Device, NEW l, NEW n \in Nat,
         loop' = [loop EXCEPT ![d] = l], cursor' = [cursor EXCEPT ![d] = n],
         n <= cursor[d],
         l.pc \notin {"load", "page", "apply", "live"},
         l.announced \in {loop[d].announced, NoPack}
  PROVE  Follows'
<1>1. /\ Len(log) \in Nat /\ Len(log') \in Nat /\ Len(log) <= Len(log') /\ cursor[d] \in Nat
      /\ cursor[d] <= Len(log)
  BY StreamStays DEF Sound, SoundRelay, SoundStore, Follows
<1>2. n <= Len(log')
  BY <1>1
<1>3. InPlace(l, n, log', cut)
  BY DEF InPlace
<1>4. MaxPacks = 0 => l.announced = NoPack /\ l.pc # "load"
  BY DEF Follows, NoPacks
<1> QED BY <1>2, <1>3, <1>4, FollowsAt

\* A step that leaves cursors, loops and the builder alone.
LEMMA AllFollow ==
  ASSUME Sound, Follows, Grows, UNCHANGED <<pack, cut, loop, cursor>>
  PROVE  Follows'
<1>1. CASE Device = {}
  <2>1. PICK p \in WrittenPack : p = pack
    BY DEF Sound, SoundRelay
  <2>2. Honest(p, log')
    BY <2>1, HonestStays DEF Follows
  <2> QED BY <1>1, <2>1, <2>2 DEF Follows, NoPacks
<1>2. ASSUME NEW d \in Device PROVE Follows'
  <2>1. PICK l \in GoodLoop, n \in Nat : l = loop[d] /\ n = cursor[d]
    BY DEF Sound, SoundLoop, SoundStore
  <2>2. loop' = [loop EXCEPT ![d] = l] /\ cursor' = [cursor EXCEPT ![d] = n]
    BY <2>1 DEF Sound, SoundLoop, SoundStore
  <2>3. Len(log) \in Nat /\ Len(log') \in Nat /\ Len(log) <= Len(log')
    BY StreamStays DEF Sound, SoundRelay
  <2>4. n <= Len(log') /\ InPlace(l, n, log', cut)
    BY <2>1, <2>3, InPlaceStays DEF Follows
  <2> QED BY <2>1, <2>2, <2>4, FollowsAt DEF Follows, NoPacks
<1> QED BY <1>1, <1>2

\* The pack is asked for before the cursor is read, so that either the pack is
\* loaded or nothing after the cursor was deleted.
LEMMA AskFollows == ASSUME Sound, Follows, NEW d \in Device, Ask(d) PROVE Follows'
<1>1. PICK l \in GoodLoop, n \in Nat, p \in WrittenPack : l = loop[d] /\ n = cursor[d] /\ p = pack
  BY DEF Sound, SoundLoop, SoundStore, SoundRelay
<1>2. UNCHANGED <<log, pack, cut, cursor>> /\ cursor' = [cursor EXCEPT ![d] = n]
  BY <1>1 DEF Ask, relay, disk, Sound, SoundStore
<1>3. PICK pc \in {"load", "page"}, loaded \in BOOLEAN :
        /\ loop' = [loop EXCEPT ![d] = [l EXCEPT
                      !.pc = pc, !.after = n, !.loaded = loaded, !.announced = p]]
        /\ pc = "page" => p = NoPack \/ ~(n = NoCursor \/ (n < p.cursor /\ n < p.cut))
        /\ pc = "load" => p # NoPack
  BY <1>1 DEF Ask
<1>4. PICK k : k = [l EXCEPT !.pc = pc, !.after = n, !.loaded = loaded, !.announced = p]
  OBVIOUS
<1>5. k.pc = pc /\ k.after = n /\ k.announced = p
  BY <1>4 DEF GoodLoop, LoopType
<1>6. p.cut = cut /\ Honest(p, log) /\ p.cut \in Nat /\ p.cursor \in Nat /\ n <= Len(log)
  BY <1>1 DEF Follows, WrittenPack, PackType
<1>7. cut <= p.cursor
  BY <1>6 DEF Honest
<1>8. pc = "page" => cut <= n
  BY <1>3, <1>6, <1>7 DEF NoPack
<1>9. InPlace(k, n, log', cut)
  BY <1>2, <1>5, <1>6, <1>7, <1>8 DEF InPlace
<1>10. MaxPacks = 0 => k.announced = NoPack /\ k.pc # "load"
  BY <1>1, <1>3, <1>5 DEF Follows, NoPacks
<1> QED BY <1>2, <1>3, <1>4, <1>6, <1>9, <1>10, FollowsAt DEF Grows

\* Max of two numbers.
LEMMA MaxIs == \A a, b \in Nat : Max({a, b}) = IF a < b THEN b ELSE a
<1> SUFFICES ASSUME NEW a \in Nat, NEW b \in Nat PROVE Max({a, b}) = IF a < b THEN b ELSE a
  OBVIOUS
<1> DEFINE S == {a, b}
<1>1. a + b \in Nat /\ S \in SUBSET (0..(a + b)) /\ S # {}
  OBVIOUS
<1>2. Max(S) \in S /\ \A x \in S : x <= Max(S)
  <2> HIDE DEF S
  <2> QED BY <1>1, MaxThere
<1> QED BY <1>2

\* A pack is merged: cursor and loop are past all it covers.
LEMMA LoadFollows == ASSUME Sound, Follows, NEW d \in Device, Load(d) PROVE Follows'
<1>1. PICK l \in GoodLoop, n \in Nat : l = loop[d] /\ n = cursor[d] /\ l.pc = "load"
  BY DEF Sound, SoundLoop, SoundStore, Load
<1>2. PICK p \in WrittenPack : p = l.announced /\ p.cursor \in Nat
  BY DEF GoodLoop, WrittenPack, PackType
<1>3. UNCHANGED <<log, pack, cut>>
  BY DEF Load, relay
<1>4. l.after = n /\ n <= Len(log) /\ Honest(p, log) /\ cut <= p.cursor
  BY <1>1, <1>2 DEF Follows, InPlace
<1>5. PICK m \in Nat : m = Max({n, p.cursor}) /\ n <= m /\ p.cursor <= m /\ m <= Len(log)
  <2>1. Len(log) \in Nat
    BY DEF Sound, SoundRelay
  <2>2. p.cursor <= Len(log)
    BY <1>4 DEF Honest
  <2> QED BY <1>2, <1>4, <2>1, <2>2, MaxIs
<1>6. cursor' = [cursor EXCEPT ![d] = m]
  BY <1>1, <1>2, <1>5 DEF Load, MergePack
<1>7. PICK k : k = [l EXCEPT !.pc = "page", !.after = m]
  OBVIOUS
<1>8. loop' = [loop EXCEPT ![d] = k]
  BY <1>1, <1>2, <1>4, <1>5, <1>7 DEF Load
<1>9. k.pc = "page" /\ k.after = m /\ k.announced = p
  BY <1>2, <1>7 DEF GoodLoop, LoopType
<1>10. cut <= m /\ cut \in Nat
  BY <1>2, <1>4, <1>5 DEF Sound, SoundRelay
<1>11. InPlace(k, m, log', cut)
  BY <1>3, <1>4, <1>9, <1>10 DEF InPlace
<1>12. MaxPacks = 0 => k.announced = NoPack /\ k.pc # "load"
  BY <1>1, <1>2, <1>9 DEF Follows, NoPacks
<1> QED BY <1>3, <1>5, <1>6, <1>8, <1>11, <1>12, FollowsAt DEF Grows

\* A page is the events right after its cursor, for none of them was deleted.
LEMMA PageIsDense ==
  ASSUME Sound, NEW n \in Nat, cut <= n, NEW page,
         page = {i \in StoredAfter(n) : Cardinality({j \in StoredAfter(n) : j < i}) < PageSize}
  PROVE  /\ page \subseteq (n + 1)..Len(log)
         /\ \A i \in page : ((n + 1)..i) \subseteq page
<1>1. Len(log) \in Nat /\ DOMAIN log = 1..Len(log) /\ cut \in Nat
  BY DEF Sound, SoundRelay
<1>2. StoredAfter(n) = (n + 1)..Len(log)
  BY <1>1 DEF StoredAfter, Stored
<1>3. page \subseteq (n + 1)..Len(log)
  BY <1>2
<1>4. ASSUME NEW i \in page, NEW h \in (n + 1)..i PROVE h \in page
  <2> DEFINE I == {j \in StoredAfter(n) : j < i}
             H == {j \in StoredAfter(n) : j < h}
  <2>1. i \in (n + 1)..Len(log) /\ h \in StoredAfter(n) /\ h <= i
    BY <1>1, <1>2, <1>3
  <2>2. H \in SUBSET I
    BY <1>1, <1>2, <2>1
  <2>3. IsFiniteSet(I)
    <3>1. I \in SUBSET (1..Len(log))
      BY <1>1, <1>2
    <3>2. IsFiniteSet(1..Len(log))
      BY <1>1, FS_Interval
    <3> QED BY <3>1, <3>2, FS_Subset, Zenon
  <2>4. Cardinality(H) <= Cardinality(I) /\ IsFiniteSet(H)
    BY <2>2, <2>3, FS_Subset, Zenon
  <2>5. Cardinality(H) \in Nat /\ Cardinality(I) \in Nat
    BY <2>3, <2>4, FS_CardinalityType, Zenon
  <2>6. Cardinality(I) < PageSize
    OBVIOUS
  <2>7. Cardinality(H) < PageSize
    <3> HIDE DEF H, I
    <3> QED BY <2>4, <2>5, <2>6, RecordsConstants
  <2> QED BY <2>1, <2>7
<1> QED BY <1>3, <1>4

LEMMA PageFollows == ASSUME Sound, Follows, NEW d \in Device, Page(d) PROVE Follows'
<1>1. PICK l \in GoodLoop, n \in Nat : l = loop[d] /\ n = cursor[d] /\ l.pc = "page"
  BY DEF Sound, SoundLoop, SoundStore, Page
<1>2. UNCHANGED <<log, pack, cut>> /\ cursor' = [cursor EXCEPT ![d] = n]
  BY <1>1 DEF Page, relay, disk, Sound, SoundStore
<1>3. l.after = n /\ n <= Len(log) /\ cut <= n /\ Honest(l.announced, log) /\ cut <= l.announced.cursor
      /\ (MaxPacks = 0 => l.announced = NoPack)
  BY <1>1 DEF Follows, InPlace, NoPacks
<1>4. PICK page : page = {i \in StoredAfter(n) :
                            Cardinality({j \in StoredAfter(n) : j < i}) < PageSize}
  OBVIOUS
<1>5. \/ \E pc \in {"page", "load"} :
            /\ loop' = [loop EXCEPT ![d] = [l EXCEPT !.loaded = TRUE, !.pc = pc]]
            /\ pc = "load" => l.announced # NoPack
      \/ loop' = [loop EXCEPT ![d] = [l EXCEPT !.pc = "apply", !.page = page, !.head = Len(log)]]
  BY <1>1, <1>3, <1>4 DEF Page
<1>6. ASSUME NEW pc \in {"page", "load"}, pc = "load" => l.announced # NoPack,
             NEW k, k = [l EXCEPT !.loaded = TRUE, !.pc = pc], loop' = [loop EXCEPT ![d] = k]
      PROVE  Follows'
  <2>1. k.pc = pc /\ k.after = n /\ k.announced = l.announced
    BY <1>3, <1>6 DEF GoodLoop, LoopType
  <2>2. InPlace(k, n, log', cut)
    BY <1>2, <1>3, <2>1 DEF InPlace
  <2>3. MaxPacks = 0 => k.announced = NoPack /\ k.pc # "load"
    BY <1>3, <1>6, <2>1
  <2> QED BY <1>2, <1>3, <1>6, <2>2, <2>3, FollowsAt DEF Grows
<1>7. ASSUME NEW k, k = [l EXCEPT !.pc = "apply", !.page = page, !.head = Len(log)],
             loop' = [loop EXCEPT ![d] = k]
      PROVE  Follows'
  <2>1. k.pc = "apply" /\ k.after = n /\ k.announced = l.announced /\ k.page = page
    BY <1>3, <1>7 DEF GoodLoop, LoopType
  <2>2. Dense(k, log)
    BY <1>3, <1>4, <2>1, PageIsDense DEF Dense
  <2>3. InPlace(k, n, log', cut)
    BY <1>2, <1>3, <2>1, <2>2 DEF InPlace
  <2> QED BY <1>2, <1>3, <1>7, <2>1, <2>3, FollowsAt DEF Grows
<1> QED BY <1>5, <1>6, <1>7

\* A dense page is the events up to its last.
LEMMA DenseIsRange ==
  ASSUME Sound, NEW n \in Nat, n <= Len(log), NEW page,
         page \subseteq (n + 1)..Len(log), \A i \in page : ((n + 1)..i) \subseteq page
  PROVE  /\ Max({n} \cup page) \in n..Len(log)
         /\ page = (n + 1)..Max({n} \cup page)
<1>1. Len(log) \in Nat
  BY DEF Sound, SoundRelay
<1> DEFINE S == {n} \cup page
<1>2. S \in SUBSET (0..Len(log)) /\ S # {}
  BY <1>1
<1>3. PICK m : m = Max(S) /\ m \in S /\ \A x \in S : x <= m
  <2> HIDE DEF S
  <2> QED BY <1>1, <1>2, MaxThere
<1>4. m \in n..Len(log)
  BY <1>1, <1>3
<1>5. page \subseteq (n + 1)..m
  <2>1. ASSUME NEW i \in page PROVE i \in (n + 1)..m
    <3>1. i \in (n + 1)..Len(log) /\ i <= m
      BY <1>3
    <3> QED BY <1>1, <1>4, <3>1
  <2> QED BY <2>1
<1>6. (n + 1)..m \subseteq page
  <2>1. CASE m = n
    BY <1>1, <2>1
  <2>2. CASE m \in page
    BY <2>2
  <2> QED BY <1>3, <2>1, <2>2
<1> QED BY <1>3, <1>4, <1>5, <1>6

\* A page applied: what it is of and where it leaves cursor and loop.
LEMMA ApplyPageIs ==
  ASSUME Sound, Follows, NEW d \in Device, ApplyPage(d)
  PROVE  \E n \in 0..Len(log) : \E m \in n..Len(log), l \in GoodLoop :
           /\ n = cursor[d] /\ l = loop[d]
           /\ Apply(d, Events((n + 1)..m), m)
           /\ loop' = [loop EXCEPT ![d] = [l EXCEPT
                         !.pc = IF AtHead(m, l.head, l.page) THEN AfterCatchUp(l.by) ELSE "page",
                         !.after = m, !.page = {}]]
<1>1. PICK l \in GoodLoop, n \in Nat : l = loop[d] /\ n = cursor[d] /\ l.pc = "apply"
  BY DEF Sound, SoundLoop, SoundStore, ApplyPage
<1>2. l.after = n /\ n <= Len(log) /\ Dense(l, log)
  BY <1>1 DEF Follows, InPlace
<1>3. PICK m : m = Max({n} \cup l.page)
  OBVIOUS
<1>4. m \in n..Len(log) /\ l.page = (n + 1)..m
  <2>1. PICK page : page = l.page
    OBVIOUS
  <2>2. page \subseteq (n + 1)..Len(log) /\ \A i \in page : ((n + 1)..i) \subseteq page
    BY <1>2, <2>1 DEF Dense
  <2> QED BY <1>2, <1>3, <2>1, <2>2, DenseIsRange
<1>5. n \in 0..Len(log)
  BY <1>2 DEF Sound, SoundRelay
<1>6. Apply(d, Events(l.page), m)
  BY <1>1, <1>2, <1>3 DEF ApplyPage
<1>7. Apply(d, Events((n + 1)..m), m)
  BY <1>4, <1>6
<1>8. loop' = [loop EXCEPT ![d] = [l EXCEPT
                 !.pc = IF AtHead(m, l.head, l.page) THEN AfterCatchUp(l.by) ELSE "page",
                 !.after = m, !.page = {}]]
  BY <1>1, <1>2, <1>3 DEF ApplyPage
<1> QED BY <1>1, <1>4, <1>5, <1>7, <1>8

LEMMA ApplyPageFollows == ASSUME Sound, Follows, NEW d \in Device, ApplyPage(d) PROVE Follows'
<1>1. PICK n \in 0..Len(log) : \E m \in n..Len(log), l \in GoodLoop :
           /\ n = cursor[d] /\ l = loop[d]
           /\ Apply(d, Events((n + 1)..m), m)
           /\ loop' = [loop EXCEPT ![d] = [l EXCEPT
                         !.pc = IF AtHead(m, l.head, l.page) THEN AfterCatchUp(l.by) ELSE "page",
                         !.after = m, !.page = {}]]
  BY ApplyPageIs
<1>2. PICK m \in n..Len(log), l \in GoodLoop :
           /\ n = cursor[d] /\ l = loop[d]
           /\ Apply(d, Events((n + 1)..m), m)
           /\ loop' = [loop EXCEPT ![d] = [l EXCEPT
                         !.pc = IF AtHead(m, l.head, l.page) THEN AfterCatchUp(l.by) ELSE "page",
                         !.after = m, !.page = {}]]
  BY <1>1
<1>3. PICK pc : pc = IF AtHead(m, l.head, l.page) THEN AfterCatchUp(l.by) ELSE "page"
  OBVIOUS
<1>4. pc \in {"page", "live", "send"}
  BY <1>3 DEF AfterCatchUp
<1>5. PICK k : k = [l EXCEPT !.pc = pc, !.after = m, !.page = {}]
  OBVIOUS
<1>6. k.pc = pc /\ k.after = m /\ k.announced = l.announced
  BY <1>5 DEF GoodLoop, LoopType
<1>7. /\ loop' = [loop EXCEPT ![d] = k] /\ cursor' = [cursor EXCEPT ![d] = m]
      /\ UNCHANGED <<log, pack, cut>>
  BY <1>2, <1>3, <1>5 DEF Apply, ApplyPage, relay
<1>8. /\ l.pc = "apply" /\ cut <= n /\ cut \in Nat /\ Len(log) \in Nat
      /\ Honest(l.announced, log) /\ cut <= l.announced.cursor /\ l.after = n
  BY <1>2 DEF ApplyPage, Follows, InPlace, Sound, SoundRelay
<1>9. InPlace(k, m, log', cut)
  <2>1. cut <= m
    BY <1>8
  <2> QED BY <1>4, <1>6, <1>7, <1>8, <2>1 DEF InPlace
<1>10. MaxPacks = 0 => k.announced = NoPack /\ k.pc # "load"
  BY <1>2, <1>4, <1>6 DEF Follows, NoPacks
<1>11. m <= Len(log')
  BY <1>7, <1>8
<1> QED BY <1>7, <1>9, <1>10, <1>11, FollowsAt DEF Grows

\* The event after the cursor is applied, one past a gap starts a catch-up.
LEMMA ReceiveIs ==
  ASSUME Sound, Follows, NEW d \in Device, Receive(d)
  PROVE  \/ UNCHANGED <<loop, disk>>
         \/ loop' = [loop EXCEPT ![d] = CatchUp("gap")] /\ UNCHANGED disk
         \/ \E n \in 0..Len(log) : \E m \in n..Len(log) :
              /\ n = cursor[d] /\ m = n + 1
              /\ Apply(d, Events((n + 1)..m), m) /\ UNCHANGED journal
              /\ loop' = [loop EXCEPT ![d].after = m]
<1>1. PICK n \in Nat : n = cursor[d] /\ n = loop[d].after /\ n <= Len(log)
  BY DEF Sound, SoundStore, Follows, InPlace, Receive
<1>2. Len(log) \in Nat /\ DOMAIN log = 1..Len(log)
  BY DEF Sound, SoundRelay
<1>3. PICK m \in DOMAIN log : m = Head(inbox[d])
  <2>1. inbox[d] \in Seq(DOMAIN log) /\ inbox[d] # <<>>
    BY DEF Sound, SoundLoop, Receive
  <2> QED BY <2>1, HeadTail
<1>4. CASE m = n + 1
  <2>1. (n + 1)..m = {m} /\ m \in n..Len(log) /\ n \in 0..Len(log)
    BY <1>1, <1>2, <1>3, <1>4
  <2>2. Events((n + 1)..m) = {log[m]}
    BY <2>1 DEF Events
  <2>3. Apply(d, {log[m]}, m) /\ UNCHANGED journal /\ loop' = [loop EXCEPT ![d].after = m]
    BY <1>1, <1>2, <1>3, <1>4 DEF Receive
  <2> QED BY <1>1, <1>4, <2>1, <2>2, <2>3
<1>5. CASE m # n + 1
  BY <1>1, <1>2, <1>3, <1>5 DEF Receive
<1> QED BY <1>4, <1>5

LEMMA NewLoopIs ==
  /\ Resting.pc = "off" /\ Resting.announced = NoPack
  /\ \A by : CatchUp(by).pc = "ask" /\ CatchUp(by).announced = NoPack
  /\ [Resting EXCEPT !.pc = "failed"].pc = "failed"
  /\ [Resting EXCEPT !.pc = "failed"].announced = NoPack
  BY DEF Resting, CatchUp

LEMMA ReceiveFollows == ASSUME Sound, Follows, NEW d \in Device, Receive(d) PROVE Follows'
<1>1. UNCHANGED <<log, pack, cut>> /\ Grows
  BY DEF Receive, relay, Grows
<1>2. PICK l \in GoodLoop, n \in Nat : l = loop[d] /\ n = cursor[d] /\ l.pc = "live"
  BY DEF Sound, SoundLoop, SoundStore, Receive
<1>3. CASE UNCHANGED <<loop, disk>>
  BY <1>1, <1>3, AllFollow DEF disk
<1>4. CASE loop' = [loop EXCEPT ![d] = CatchUp("gap")] /\ UNCHANGED disk
  <2>1. cursor' = [cursor EXCEPT ![d] = n] /\ n <= cursor[d]
    BY <1>2, <1>4 DEF disk, Sound, SoundStore
  <2> QED BY <1>1, <1>4, <2>1, NewLoopIs, OthersFollow
<1>5. ASSUME NEW at \in 0..Len(log), NEW m \in at..Len(log), at = cursor[d],
             Apply(d, Events((at + 1)..m), m), loop' = [loop EXCEPT ![d].after = m]
      PROVE  Follows'
  <2>1. PICK k : k = [l EXCEPT !.after = m]
    OBVIOUS
  <2>2. k.pc = "live" /\ k.after = m /\ k.announced = l.announced
    BY <1>2, <2>1 DEF GoodLoop, LoopType
  <2>3. loop' = [loop EXCEPT ![d] = k] /\ cursor' = [cursor EXCEPT ![d] = m] /\ m <= Len(log')
    BY <1>1, <1>2, <1>5, <2>1 DEF Apply, Sound, SoundRelay
  <2>4. InPlace(k, m, log', cut)
    BY <2>2 DEF InPlace
  <2>5. MaxPacks = 0 => k.announced = NoPack /\ k.pc # "load"
    BY <1>2, <2>2 DEF Follows, NoPacks
  <2> QED BY <1>1, <2>3, <2>4, <2>5, FollowsAt
<1> QED BY <1>3, <1>4, <1>5, ReceiveIs

\* A step that moves one loop out of its catch-up, or none, on the way.
LEMMA AsideFollows ==
  ASSUME Sound, Follows, Grows, UNCHANGED <<pack, cut, cursor>>, NEW d \in Device,
         \/ UNCHANGED loop
         \/ \E l : /\ loop' = [loop EXCEPT ![d] = l]
                   /\ l.pc \notin {"load", "page", "apply", "live"}
                   /\ l.announced \in {loop[d].announced, NoPack}
  PROVE  Follows'
<1>1. CASE UNCHANGED loop
  BY <1>1, AllFollow
<1>2. ASSUME NEW l, loop' = [loop EXCEPT ![d] = l],
             l.pc \notin {"load", "page", "apply", "live"},
             l.announced \in {loop[d].announced, NoPack}
      PROVE  Follows'
  <2>1. PICK n \in Nat : n = cursor[d] /\ n <= cursor[d] /\ cursor' = [cursor EXCEPT ![d] = n]
    BY DEF Sound, SoundStore
  <2> QED BY <1>2, <2>1, OthersFollow
<1> QED BY <1>1, <1>2

\* Where the loop goes when its pass over the journal is over.
LEMMA AfterPublishAside ==
  ASSUME Sound, NEW d \in Device, NEW by, NEW ok, AfterPublish(d, by, ok)
  PROVE  \/ UNCHANGED loop
         \/ \E l : /\ loop' = [loop EXCEPT ![d] = l]
                   /\ l.pc \notin {"load", "page", "apply", "live"}
                   /\ l.announced \in {loop[d].announced, NoPack}
<1>1. PICK l \in GoodLoop : l = loop[d]
  BY DEF Sound, SoundLoop
<1>2. CASE loop' = [loop EXCEPT ![d] = [l EXCEPT !.pc = "subscribe"]]
  <2>1. [l EXCEPT !.pc = "subscribe"].pc = "subscribe"
        /\ [l EXCEPT !.pc = "subscribe"].announced = l.announced
    BY DEF GoodLoop, LoopType
  <2> QED BY <1>1, <1>2, <2>1
<1>3. CASE loop' = [loop EXCEPT ![d] = Broken(d)]
  BY <1>3, NewLoopIs DEF Broken
<1> QED BY <1>1, <1>2, <1>3 DEF AfterPublish

LEMMA BuildPackFollows == ASSUME Sound, Follows, BuildPack PROVE Follows'
<1>1. UNCHANGED <<log, cut, cursor, loop>> /\ Len(log) > pack.cursor /\ count.packs < MaxPacks
  BY DEF BuildPack, disk, session
<1>2. Len(log) \in Nat /\ pack.cursor \in Nat /\ cut \in Nat /\ count.packs \in Nat /\ MaxPacks # 0
  BY <1>1 DEF Sound, SoundRelay, SoundCount, WrittenPack, PackType, Bounded
<1>3. /\ pack'.cursor = Len(log) /\ pack'.cut = cut
      /\ \A o \in Object : pack'.rows[o] = Told(Len(log), o)
  BY DEF BuildPack
<1>4. cut <= Len(log)
  BY <1>1, <1>2 DEF Follows, Honest
<1>5. Honest(pack', log')
  BY <1>1, <1>2, <1>3, <1>4, ToldUpTo DEF Honest
<1> QED BY <1>1, <1>2, <1>3, <1>5 DEF Follows, NoPacks

\* Patches are deleted up to the pack's cursor while no one catches up.
LEMMA DeleteCoveredFollows ==
  ASSUME CutsDuringSync = FALSE \/ MaxPacks = 0, Sound, Follows, DeleteCovered
  PROVE  Follows'
<1>1. UNCHANGED <<log, cursor, loop>> /\ cut < pack.cursor /\ cut' = pack.cursor
      /\ pack' = [pack EXCEPT !.cut = pack.cursor]
  BY DEF DeleteCovered, disk, session
<1>2. PICK p \in WrittenPack : p = pack /\ p.cursor \in Nat /\ cut \in Nat
  BY DEF Sound, SoundRelay, WrittenPack, PackType
<1>3. MaxPacks # 0
  BY <1>1, <1>2 DEF Follows, NoPacks, NoPack
<1>4. \A d \in Device : ~CatchingUp(d)
  BY <1>3 DEF DeleteCovered
<1>5. pack'.cut = p.cursor /\ pack'.cursor = p.cursor /\ pack'.rows = p.rows
  BY <1>1, <1>2 DEF WrittenPack, PackType
<1>6. Honest(pack', log')
  BY <1>1, <1>2, <1>5 DEF Follows, Honest
<1>7. \A d \in Device : InPlace(loop'[d], cursor'[d], log', cut')
  BY <1>1, <1>4 DEF Follows, InPlace, CatchingUp
<1> QED BY <1>1, <1>2, <1>3, <1>5, <1>6, <1>7 DEF Follows, NoPacks

LEMMA LogoutFollows == ASSUME Sound, Follows, NEW d \in Device, Logout(d) PROVE Follows'
<1>1. /\ Grows /\ UNCHANGED <<pack, cut>> /\ loop' = [loop EXCEPT ![d] = Resting]
      /\ cursor' = [cursor EXCEPT ![d] = 0] /\ 0 <= cursor[d] /\ 0 \in Nat
  BY DEF Logout, Ended, relay, Grows, NoCursor, Sound, SoundStore
<1> QED BY <1>1, NewLoopIs, OthersFollow

LEMMA SubscribeFollows == ASSUME Sound, Follows, NEW d \in Device, Subscribe(d) PROVE Follows'
<1>1. PICK n \in Nat : n = cursor[d]
  BY DEF Sound, SoundStore
<1>2. PICK k : k = [Resting EXCEPT !.pc = "live", !.after = n]
  OBVIOUS
<1>3. k.pc = "live" /\ k.after = n /\ k.announced = NoPack
  BY <1>2 DEF Resting
<1>4. /\ Grows /\ UNCHANGED <<pack, cut, log>> /\ loop' = [loop EXCEPT ![d] = k]
      /\ cursor' = [cursor EXCEPT ![d] = n] /\ n <= Len(log')
  BY <1>1, <1>2 DEF Subscribe, relay, disk, Grows, Follows, Sound, SoundStore
<1>5. InPlace(k, n, log', cut)
  BY <1>3 DEF InPlace
<1> QED BY <1>3, <1>4, <1>5, FollowsAt

LEMMA PublishFollows == ASSUME Sound, Follows, NEW d \in Device, Publish(d) PROVE Follows'
<1>1. Grows /\ UNCHANGED <<pack, cut, cursor>>
  BY DEF Publish, PublishJournal, Send, RemoveJournal, SendFails, Accept, relay, disk, Grows
<1>2. ASSUME PublishJournal(d), ~(UNCHANGED loop), ~(\E by, ok : AfterPublish(d, by, ok))
      PROVE  loop' = [loop EXCEPT ![d].pc = "sending"]
  BY <1>2 DEF PublishJournal, To
<1>3. CASE loop' = [loop EXCEPT ![d].pc = "sending"]
  <2>1. PICK l \in GoodLoop : l = loop[d]
    BY DEF Sound, SoundLoop
  <2>2. PICK k : k = [l EXCEPT !.pc = "sending"]
    OBVIOUS
  <2>3. k.pc = "sending" /\ k.announced = l.announced
    BY <2>2 DEF GoodLoop, LoopType
  <2>4. loop' = [loop EXCEPT ![d] = k]
    BY <1>3, <2>1, <2>2
  <2> QED BY <1>1, <2>1, <2>3, <2>4, AsideFollows
<1>4. CASE UNCHANGED loop \/ \E by, ok : AfterPublish(d, by, ok)
  <2>1. \/ UNCHANGED loop
        \/ \E l : /\ loop' = [loop EXCEPT ![d] = l]
                  /\ l.pc \notin {"load", "page", "apply", "live"}
                  /\ l.announced \in {loop[d].announced, NoPack}
    BY <1>4, AfterPublishAside
  <2> QED BY <1>1, <2>1, AsideFollows
<1>5. CASE Send(d) \/ RemoveJournal(d) \/ SendFails(d)
  BY <1>4, <1>5 DEF Send, RemoveJournal, SendFails
<1> QED BY <1>2, <1>3, <1>4, <1>5 DEF Publish

LEMMA NextFollows ==
  ASSUME CutsDuringSync = FALSE \/ MaxPacks = 0, Sound, Follows, [Next]_vars
  PROVE  Follows'
<1>1. ASSUME NEW d \in Device, Start(d) \/ Break(d) \/ Crash(d) PROVE Follows'
  <2>1. Grows /\ UNCHANGED <<pack, cut, cursor>>
    BY <1>1 DEF Start, Break, Crash, relay, disk, Grows
  <2>2. PICK l : /\ loop' = [loop EXCEPT ![d] = l]
                 /\ l \in {CatchUp("start"), CatchUp("retry"), Resting, [Resting EXCEPT !.pc = "failed"]}
    BY <1>1 DEF Start, Break, Broken, Crash, Ended
  <2>3. l.pc \notin {"load", "page", "apply", "live"} /\ l.announced = NoPack
    BY <2>2, NewLoopIs
  <2> QED BY <2>1, <2>2, <2>3, AsideFollows
<1>2. ASSUME NEW d \in Device, Loop(d) PROVE Follows'
  BY <1>1, <1>2, AskFollows, LoadFollows, PageFollows, ApplyPageFollows, SubscribeFollows,
     ReceiveFollows DEF Loop
<1>3. ASSUME NEW d \in Device, NEW o \in Object,
             Commit(d, o) \/ VanishLocal(d, o) \/ SendVanish(d, o)
      PROVE Follows'
  <2>1. Grows /\ UNCHANGED <<pack, cut, loop, cursor>>
    BY <1>3 DEF Commit, VanishLocal, SendVanish, Accept, relay, disk, Grows
  <2> QED BY <2>1, AllFollow
<1>4. CASE UNCHANGED vars
  BY <1>4, AllFollow DEF vars, relay, disk, session, Grows
<1> QED BY <1>1, <1>2, <1>3, <1>4, PublishFollows, LogoutFollows, BuildPackFollows,
           DeleteCoveredFollows DEF Next

\* No events tell nothing.
LEMMA NothingTold == \A o : ToldBy({}, o) = NoEntry
<1>1. Vanished({}) = {}
  BY DEF Vanished
<1>2. \A o : Whole({}, o) = {}
  BY DEF Whole
<1>3. Newest({}) \in {} \cup {NoEntry}
  <2>1. {} \in SUBSET AnyEntry
    OBVIOUS
  <2> QED BY <2>1, NewestThere
<1> QED BY <1>1, <1>2, <1>3 DEF ToldBy

\* Nothing is on the stream, and no one has passed anything.
LEMMA InitFollows == Init => Follows
<1> SUFFICES ASSUME Init PROVE Follows
  OBVIOUS
<1>1. log = <<>> /\ cut = 0 /\ pack = NoPack /\ \A d \in Device : cursor[d] = 0 /\ loop[d] = Resting
  BY DEF Init, NoCursor
<1>2. Len(log) = 0 /\ UpTo(log, 0) = {}
  BY <1>1 DEF UpTo
<1>3. \A o : ToldBy({}, o) = NoEntry
  BY NothingTold
<1>4. Honest(pack, log)
  <2>1. pack.cursor = 0 /\ pack.cut = 0 /\ \A o \in Object : pack.rows[o] = NoEntry
    BY <1>1 DEF NoPack
  <2>2. pack.cursor <= Len(log) /\ pack.cut <= pack.cursor
    BY <1>2, <2>1
  <2>3. UpTo(log, pack.cursor) = {}
    BY <1>2, <2>1, Zenon
  <2> QED BY <1>3, <2>1, <2>2, <2>3 DEF Honest
<1>5. \A d \in Device : cursor[d] <= Len(log) /\ InPlace(loop[d], cursor[d], log, cut)
  BY <1>1, <1>2, NewLoopIs DEF InPlace
<1>6. NoPacks
  BY <1>1, NewLoopIs DEF NoPacks
<1> QED BY <1>1, <1>4, <1>5, <1>6 DEF Follows, NoPack

LEMMA ToldEntry ==
  ASSUME Sound, NEW n \in 0..Len(log), NEW o \in Object
  PROVE  ToldBy(UpTo(log, n), o) \in AnyEntry
<1>1. 1..n \in SUBSET DOMAIN log
  BY DEF Sound, SoundRelay
<1>2. Whole(UpTo(log, n), o) \in SUBSET AnyEntry
  BY <1>1, WholeWritten DEF UpTo, Events
<1> QED BY <1>2, NewestThere DEF ToldBy, AnyEntry

\* One device's share of CursorCovers, of its record, its ledger and its cursor.
Holds(row, gone, at, s) ==
  \A o \in Object :
    o \in gone \cup Vanished(UpTo(s, at)) \/ ~Older(row[o], ToldBy(UpTo(s, at), o))

LEMMA CoversIs == CursorCovers <=> \A d \in Device : Holds(rec[d], ledger[d], cursor[d], log)
  BY ToldUpTo DEF CursorCovers, Holds, Events, UpTo

\* A step of one device's store, or of none.
LEMMA CoversAt ==
  ASSUME Sound, Follows, CursorCovers, Grows, NEW d \in Device, NEW row, NEW gone, NEW n,
         rec' = [rec EXCEPT ![d] = row], ledger' = [ledger EXCEPT ![d] = gone],
         cursor' = [cursor EXCEPT ![d] = n], Holds(row, gone, n, log')
  PROVE  CursorCovers'
<1>1. /\ rec \in [Device -> WrittenRow] /\ cursor \in [Device -> Nat]
      /\ ledger \in [Device -> SUBSET Object]
  BY DEF Sound, SoundStore
<1>2. Len(log) \in Nat /\ \A k \in 0..Len(log) : UpTo(log', k) = UpTo(log, k)
  BY StreamStays DEF Sound, SoundRelay
<1>3. \A e \in Device : cursor[e] \in 0..Len(log)
  BY <1>1, <1>2 DEF Follows
<1>4. \A e \in Device : Holds(rec[e], ledger[e], cursor[e], log')
  BY <1>2, <1>3, CoversIs DEF Holds
<1>5. \A e \in Device : Holds(rec'[e], ledger'[e], cursor'[e], log')
  BY <1>1, <1>4
<1>6. CursorCovers' <=> \A e \in Device : Holds(rec'[e], ledger'[e], cursor'[e], log')
  BY DEF CursorCovers, Holds, Told, ToldBy, Events, UpTo
<1> QED BY <1>5, <1>6

LEMMA CoversStays ==
  ASSUME Sound, Follows, CursorCovers, Grows, UNCHANGED <<rec, ledger, cursor>>
  PROVE  CursorCovers'
<1>1. CASE Device = {}
  BY <1>1 DEF CursorCovers
<1>2. ASSUME NEW d \in Device PROVE CursorCovers'
  <2>1. PICK row \in WrittenRow, gone \in SUBSET Object, n \in Nat :
          row = rec[d] /\ gone = ledger[d] /\ n = cursor[d]
    BY DEF Sound, SoundStore
  <2>2. /\ rec' = [rec EXCEPT ![d] = row] /\ ledger' = [ledger EXCEPT ![d] = gone]
        /\ cursor' = [cursor EXCEPT ![d] = n]
    BY <2>1 DEF Sound, SoundStore
  <2>3. Holds(row, gone, n, log)
    BY <2>1, CoversIs
  <2>4. n \in 0..Len(log) /\ \A k \in 0..Len(log) : UpTo(log', k) = UpTo(log, k)
    BY <2>1, StreamStays DEF Sound, SoundRelay, Follows
  <2>5. Holds(row, gone, n, log')
    BY <2>3, <2>4 DEF Holds
  <2> QED BY <2>2, <2>5, CoversAt
<1> QED BY <1>1, <1>2

\* A run of events right after the cursor, applied (apply).
LEMMA ApplyCovers ==
  ASSUME Sound, Follows, CursorCovers, Parts = 1, log' = log, NEW d \in Device,
         NEW n \in 0..Len(log), NEW m \in n..Len(log), n = cursor[d],
         Apply(d, Events((n + 1)..m), m)
  PROVE  CursorCovers'
<1>1. PICK events : events = Events((n + 1)..m)
  OBVIOUS
<1>2. PICK held \in WrittenRow, gone \in SUBSET Object : held = rec[d] /\ gone = ledger[d]
  BY DEF Sound, SoundStore
<1>3. PICK row : row = [o \in Object |->
         IF o \in Vanished(events) THEN NoEntry
         ELSE Newer(held[o], Newest(IF o \in Vanished(events) \cup gone THEN {} ELSE Whole(events, o)))]
  OBVIOUS
<1>4. rec' = [rec EXCEPT ![d] = row]
  <2>1. rec' = [rec EXCEPT ![d] = [o \in Object |->
         IF o \in Vanished(events) THEN NoEntry
         ELSE Newer(held[o], Newest([x \in Object |->
                IF x \in Vanished(events) \cup gone THEN {} ELSE Whole(events, x)][o]))]]
    BY <1>1, <1>2 DEF Apply
  <2> QED BY <1>3, <2>1
<1>5. /\ ledger' = [ledger EXCEPT ![d] = gone \cup Vanished(events)]
      /\ cursor' = [cursor EXCEPT ![d] = m]
  BY <1>1, <1>2 DEF Apply
<1>6. Len(log) \in Nat /\ n \in Nat /\ m \in Nat
  BY DEF Sound, SoundRelay
<1>7. UpTo(log, m) = UpTo(log, n) \cup events
  <2>1. 1..m = (1..n) \cup ((n + 1)..m)
    BY <1>6
  <2> QED BY <1>1, <2>1 DEF UpTo, Events
<1>8. ASSUME NEW o \in Object, o \notin gone \cup Vanished(events), o \notin Vanished(UpTo(log, m))
      PROVE  ~Older(row[o], Told(m, o))
  <2>1. row[o] = Newer(held[o], Newest(Whole(events, o)))
    BY <1>3, <1>8
  <2>2. o \notin Vanished(UpTo(log, n))
    <3>1. Vanished(UpTo(log, m)) = Vanished(UpTo(log, n)) \cup Vanished(events)
      BY <1>7 DEF Vanished
    <3> QED BY <1>8, <3>1
  <2>3. ~Older(held[o], Told(n, o))
    BY <1>2, <1>8, <2>2, CoversIs, ToldUpTo DEF Holds
  <2>4. held[o] \in AnyEntry
    BY DEF WrittenRow, Row, AnyEntry
  <2>5. o \notin Vanished(Events(1..m))
    BY <1>8 DEF UpTo, Events
  <2> QED BY <1>1, <2>1, <2>3, <2>4, <2>5, MergeCovers
<1>9. Holds(row, gone \cup Vanished(events), m, log)
  BY <1>8, ToldUpTo DEF Holds
<1> QED BY <1>4, <1>5, <1>9, CoversAt DEF Grows

\* A merged pack covers what its cursor passed, and what was held stays.
LEMMA LoadCovers ==
  ASSUME Sound, Follows, CursorCovers, NEW d \in Device, Load(d)
  PROVE  CursorCovers'
<1>1. PICK held \in WrittenRow, gone \in SUBSET Object, n \in Nat :
        held = rec[d] /\ gone = ledger[d] /\ n = cursor[d]
  BY DEF Sound, SoundStore
<1>2. PICK p \in WrittenPack : p = loop[d].announced /\ p.cursor \in Nat /\ p.rows \in WrittenRow
  BY DEF Sound, SoundLoop, GoodLoop, WrittenPack, PackType
<1>3. Honest(p, log) /\ n <= Len(log)
  BY <1>1, <1>2 DEF Load, Follows, InPlace
<1>9. PICK row : row = [o \in Object |-> Newer(held[o], p.rows[o])]
  OBVIOUS
<1>4. PICK m \in Nat : m = IF n < p.cursor THEN p.cursor ELSE n
  BY <1>1, <1>2
<1>5. rec' = [rec EXCEPT ![d] = row] /\ cursor' = [cursor EXCEPT ![d] = m]
  BY <1>1, <1>2, <1>4, <1>9, MaxIs DEF Load, MergePack
<1>6. ledger' = [ledger EXCEPT ![d] = gone] /\ log' = log
  BY <1>1 DEF Load, relay, Sound, SoundStore
<1>7. ASSUME NEW o \in Object, o \notin gone \cup Vanished(UpTo(log, m))
      PROVE  ~Older(row[o], ToldBy(UpTo(log, m), o))
  <2>1. held[o] \in AnyEntry /\ p.rows[o] \in AnyEntry
    BY <1>2 DEF WrittenRow, Row, AnyEntry
  <2>2. row[o] = Newer(held[o], p.rows[o])
    BY <1>9
  <2>3. CASE m = n
    <3>1. ~Older(held[o], ToldBy(UpTo(log, n), o))
      BY <1>1, <1>7, <2>3, CoversIs DEF Holds
    <3>2. ToldBy(UpTo(log, n), o) \in AnyEntry
      BY <1>3, ToldEntry DEF Sound, SoundRelay
    <3>3. \A e \in AnyEntry : ~Older(held[o], e) => ~Older(Newer(held[o], p.rows[o]), e)
      BY <2>1, EntryParts DEF Older, Newer
    <3> QED BY <2>2, <2>3, <3>1, <3>2, <3>3
  <2>4. CASE m = p.cursor
    <3>1. p.rows[o] = ToldBy(UpTo(log, m), o)
      BY <1>3, <2>4 DEF Honest
    <3>2. ~Older(Newer(held[o], p.rows[o]), p.rows[o])
      BY <2>1, EntryParts DEF Older, Newer
    <3> QED BY <2>2, <3>1, <3>2
  <2> QED BY <1>4, <2>3, <2>4
<1>8. Holds(row, gone, m, log)
  BY <1>7 DEF Holds
<1> QED BY <1>5, <1>6, <1>8, CoversAt DEF Grows

\* A commit shows an entry newer than the one it replaces (commit_local).
LEMMA CommitCovers ==
  ASSUME Sound, Follows, CursorCovers, NEW d \in Device, NEW o \in Object, Commit(d, o)
  PROVE  CursorCovers'
<1>1. PICK e \in Entry : Older(rec[d][o], e) /\ rec' = [rec EXCEPT ![d][o] = e]
  BY CommitWrites
<1>2. PICK held \in WrittenRow, gone \in SUBSET Object, n \in Nat :
        held = rec[d] /\ gone = ledger[d] /\ n = cursor[d]
  BY DEF Sound, SoundStore
<1>3. PICK row : row = [held EXCEPT ![o] = e]
  OBVIOUS
<1>4. /\ rec' = [rec EXCEPT ![d] = row] /\ ledger' = [ledger EXCEPT ![d] = gone]
      /\ cursor' = [cursor EXCEPT ![d] = n] /\ log' = log
  BY <1>1, <1>2, <1>3 DEF Commit, relay, Sound, SoundStore
<1>5. n \in 0..Len(log)
  BY <1>2 DEF Follows, Sound, SoundRelay
<1>6. held \in [Object -> AnyEntry] /\ e \in AnyEntry /\ Older(held[o], e)
  BY <1>1, <1>2 DEF WrittenRow, Row, AnyEntry
<1>7. ASSUME NEW x \in Object, ~Older(held[x], ToldBy(UpTo(log, n), x))
      PROVE  ~Older(row[x], ToldBy(UpTo(log, n), x))
  <2>1. PICK t \in AnyEntry : t = ToldBy(UpTo(log, n), x)
    BY <1>5, ToldEntry
  <2>2. CASE x = o
    <3>1. ~Older(held[o], t) /\ held[o] \in AnyEntry /\ row[o] = e
      BY <1>3, <1>6, <1>7, <2>1, <2>2
    <3>2. ~Older(e, t)
      BY <1>6, <3>1, EntryParts DEF Older
    <3> QED BY <2>1, <2>2, <3>1, <3>2
  <2>3. CASE x # o
    BY <1>3, <1>6, <1>7, <2>3
  <2> QED BY <2>2, <2>3
<1>8. Holds(row, gone, n, log)
  BY <1>2, <1>7, CoversIs DEF Holds
<1> QED BY <1>4, <1>8, CoversAt DEF Grows

LEMMA VanishLocalCovers ==
  ASSUME Sound, Follows, CursorCovers, NEW d \in Device, NEW o \in Object, VanishLocal(d, o)
  PROVE  CursorCovers'
<1>1. PICK held \in WrittenRow, gone \in SUBSET Object, n \in Nat :
        held = rec[d] /\ gone = ledger[d] /\ n = cursor[d]
  BY DEF Sound, SoundStore
<1>2. PICK row : row = [held EXCEPT ![o] = NoEntry]
  OBVIOUS
<1>3. /\ rec' = [rec EXCEPT ![d] = row] /\ ledger' = [ledger EXCEPT ![d] = gone \cup {o}]
      /\ cursor' = [cursor EXCEPT ![d] = n] /\ log' = log
  BY <1>1, <1>2 DEF VanishLocal, relay, Sound, SoundStore
<1>4. Holds(held, gone, n, log)
  BY <1>1, CoversIs
<1>5. \A x \in Object : x # o => row[x] = held[x]
  BY <1>2 DEF WrittenRow, Row
<1>6. Holds(row, gone \cup {o}, n, log)
  BY <1>4, <1>5 DEF Holds
<1> QED BY <1>3, <1>6, CoversAt DEF Grows

LEMMA LogoutCovers ==
  ASSUME Sound, Follows, CursorCovers, NEW d \in Device, Logout(d)
  PROVE  CursorCovers'
<1>1. PICK row : row = [o \in Object |-> NoEntry]
  OBVIOUS
<1>2. /\ rec' = [rec EXCEPT ![d] = row] /\ ledger' = [ledger EXCEPT ![d] = {}]
      /\ cursor' = [cursor EXCEPT ![d] = 0] /\ log' = log
  BY <1>1 DEF Logout, NoCursor, relay
<1>3. UpTo(log, 0) = {}
  BY DEF UpTo
<1>4. Holds(row, {}, 0, log)
  <2>1. \A o \in Object : row[o] = NoEntry
    BY <1>1
  <2>2. \A o : ToldBy({}, o) = NoEntry
    BY NothingTold
  <2>3. ~Older(NoEntry, NoEntry)
    BY StampOrder DEF AnyEntry
  <2> QED BY <1>3, <2>1, <2>2, <2>3 DEF Holds
<1> QED BY <1>2, <1>4, CoversAt DEF Grows

LEMMA NextCovers ==
  ASSUME Parts = 1, Sound, Follows, CursorCovers, [Next]_vars
  PROVE  CursorCovers'
<1>1. ASSUME NEW d \in Device,
             Start(d) \/ Ask(d) \/ Page(d) \/ Subscribe(d) \/ Break(d) \/ Publish(d) \/ Crash(d)
      PROVE CursorCovers'
  <2>1. Grows /\ UNCHANGED <<rec, ledger, cursor>>
    BY <1>1 DEF Start, Ask, Page, Subscribe, Break, Publish, PublishJournal, Send, RemoveJournal,
                SendFails, Accept, Crash, relay, disk, Grows
  <2> QED BY <2>1, CoversStays
<1>2. ASSUME NEW d \in Device, ApplyPage(d) PROVE CursorCovers'
  <2>1. log' = log
    BY <1>2 DEF ApplyPage, relay
  <2>2. PICK n \in 0..Len(log) : \E m \in n..Len(log), l \in GoodLoop :
          n = cursor[d] /\ Apply(d, Events((n + 1)..m), m)
    BY <1>2, ApplyPageIs
  <2> QED BY <2>1, <2>2, ApplyCovers
<1>3. ASSUME NEW d \in Device, Receive(d) PROVE CursorCovers'
  <2>1. log' = log
    BY <1>3 DEF Receive, relay
  <2>2. CASE UNCHANGED disk
    BY <2>1, <2>2, CoversStays DEF disk, Grows
  <2>3. ASSUME NEW n \in 0..Len(log), NEW m \in n..Len(log), n = cursor[d],
               Apply(d, Events((n + 1)..m), m)
        PROVE  CursorCovers'
    BY <2>1, <2>3, ApplyCovers
  <2> QED BY <1>3, <2>2, <2>3, ReceiveIs
<1>4. ASSUME NEW d \in Device, Loop(d) \/ Publish(d) \/ Crash(d) PROVE CursorCovers'
  BY <1>1, <1>2, <1>3, <1>4, LoadCovers DEF Loop
<1>5. ASSUME NEW d \in Device, NEW o \in Object, SendVanish(d, o) PROVE CursorCovers'
  <2>1. Grows /\ UNCHANGED <<rec, ledger, cursor>>
    BY <1>5 DEF SendVanish, Accept, relay, disk, Grows
  <2> QED BY <2>1, CoversStays
<1>6. CASE BuildPack \/ DeleteCovered \/ UNCHANGED vars
  <2>1. Grows /\ UNCHANGED <<rec, ledger, cursor>>
    BY <1>6 DEF BuildPack, DeleteCovered, vars, relay, disk, Grows
  <2> QED BY <2>1, CoversStays
<1> QED BY <1>4, <1>5, <1>6, LogoutCovers, CommitCovers, VanishLocalCovers DEF Next

LEMMA InitCovers == Init => CursorCovers
<1> SUFFICES ASSUME Init PROVE CursorCovers
  OBVIOUS
<1>1. log = <<>> /\ \A d \in Device : cursor[d] = 0 /\ \A o \in Object : rec[d][o] = NoEntry
  BY DEF Init, NoCursor
<1>2. UpTo(log, 0) = {} /\ \A o : ToldBy({}, o) = NoEntry
  BY NothingTold DEF UpTo
<1>3. ~Older(NoEntry, NoEntry)
  BY StampOrder DEF AnyEntry
<1>4. \A d \in Device : Holds(rec[d], ledger[d], cursor[d], log)
  BY <1>1, <1>2, <1>3 DEF Holds
<1> QED BY <1>4, CoversIs

\* While no patch is deleted under a catch-up, a loop is always where its
\* device's cursor is and every pack is what the stream told (sync_stream).
LEMMA AlwaysFollows ==
  ASSUME CutsDuringSync = FALSE \/ MaxPacks = 0
  PROVE  Spec => []Follows
<1>1. Init => Follows
  BY InitFollows
<1>2. Sound /\ Follows /\ [Next]_vars => Follows'
  BY NextFollows
<1> QED BY <1>1, <1>2, AlwaysSound, PTL DEF Spec

\* What its cursor passed a device holds: an object no one vanished shows at
\* least the newest entry the stream tells up to the cursor, whatever packs,
\* pages and live events it came by and where it failed, crashed or logged out
\* (sync_stream, subscribe, live, apply, merge_pack).  Where a patch is one
\* event and none is deleted under a catch-up: it is false otherwise (README,
\* section 10, items 5 and 6).
THEOREM CursorNeverAhead ==
  ASSUME Parts = 1, CutsDuringSync = FALSE
  PROVE  Spec => []CursorCovers
<1>1. Init => CursorCovers
  BY InitCovers
<1>2. Sound /\ Follows /\ CursorCovers /\ [Next]_vars => CursorCovers'
  BY NextCovers
<1>3. Spec => []Follows
  BY AlwaysFollows
<1> QED BY <1>1, <1>2, <1>3, AlwaysSound, PTL DEF Spec

-----------------------------------------------------------------------------
(* What a device shows the stream has, or its journal. *)

OnLog(s, o, e) == Patch(o, e, 1) \in UpTo(s, Len(s))

Keeps(row, items, s) ==
  \A o \in Object : \/ row[o] = NoEntry \/ OnLog(s, o, row[o])
                    \/ [object |-> o, entry |-> row[o]] \in items

\* An item about to leave the journal is on the stream.
SentFirst(p, s) == p.pc = "sent" => OnLog(s, Oldest(p.items).object, Oldest(p.items).entry)

Known == \A d \in Device : Keeps(rec[d], journal[d], log) /\ SentFirst(pub[d], log)

LEMMA OnLogStays ==
  ASSUME Sound, Grows
  PROVE  /\ \A o, e : OnLog(log, o, e) => OnLog(log', o, e)
         /\ \A event : log' = Append(log, event) => event \in UpTo(log', Len(log'))
<1>1. /\ Len(log) \in Nat /\ Len(log') \in Nat /\ Len(log) <= Len(log')
      /\ \A i \in 1..Len(log) : log'[i] = log[i]
  BY StreamStays DEF Sound, SoundRelay
<1>2. UpTo(log, Len(log)) \subseteq UpTo(log', Len(log'))
  <2>1. \A i \in 1..Len(log) : i \in 1..Len(log')
    BY <1>1
  <2> QED BY <1>1, <2>1 DEF UpTo
<1>3. ASSUME NEW event, log' = Append(log, event) PROVE event \in UpTo(log', Len(log'))
  <2>1. log \in Seq(WrittenEvent \cup {event})
    BY DEF Sound, SoundRelay
  <2>2. Len(log') = Len(log) + 1 /\ log'[Len(log) + 1] = event
    BY <1>3, <2>1
  <2>3. Len(log) + 1 \in 1..Len(log')
    BY <1>1, <2>2
  <2> QED BY <2>2, <2>3 DEF UpTo
<1> QED BY <1>2, <1>3 DEF OnLog

\* A step of one device's store and pass.
LEMMA KnownAt ==
  ASSUME Sound, Known, Grows, NEW d \in Device, NEW row, NEW items, NEW p,
         rec' = [rec EXCEPT ![d] = row], journal' = [journal EXCEPT ![d] = items],
         pub' = [pub EXCEPT ![d] = p], Keeps(row, items, log'), SentFirst(p, log')
  PROVE  Known'
<1>1. /\ rec \in [Device -> WrittenRow] /\ journal \in [Device -> SUBSET WrittenItem]
      /\ pub \in [Device -> GoodPass]
  BY DEF Sound, SoundStore, SoundPass
<1>2. \A e \in Device : Keeps(rec[e], journal[e], log') /\ SentFirst(pub[e], log')
  BY OnLogStays DEF Known, Keeps, SentFirst
<1> QED BY <1>1, <1>2 DEF Known

LEMMA KnownStays ==
  ASSUME Sound, Known, Grows, UNCHANGED <<rec, journal, pub>>
  PROVE  Known'
  BY OnLogStays DEF Known, Keeps, SentFirst

\* A step of one device's store alone.
LEMMA StoreKnown ==
  ASSUME Sound, Known, Grows, NEW d \in Device, NEW row, NEW items,
         rec' = [rec EXCEPT ![d] = row], journal' = [journal EXCEPT ![d] = items],
         UNCHANGED pub, Keeps(row, items, log')
  PROVE  Known'
<1>1. PICK p \in GoodPass : p = pub[d]
  BY DEF Sound, SoundPass
<1>2. pub' = [pub EXCEPT ![d] = p]
  BY <1>1 DEF Sound, SoundPass
<1>3. SentFirst(p, log')
  BY <1>1, OnLogStays DEF Known, SentFirst
<1> QED BY <1>2, <1>3, KnownAt

\* What a merge takes from the stream: the newest of entries it has.
LEMMA MergedKnown ==
  ASSUME Sound, Parts = 1, Known, log' = log, UNCHANGED <<journal, pub>>, NEW d \in Device, NEW row,
         rec' = [rec EXCEPT ![d] = row],
         \A o \in Object : row[o] \in {rec[d][o], NoEntry} \/ OnLog(log, o, row[o])
  PROVE  Known'
<1>1. PICK items \in SUBSET WrittenItem : items = journal[d]
  BY DEF Sound, SoundStore
<1>2. journal' = [journal EXCEPT ![d] = items]
  BY <1>1 DEF Sound, SoundStore
<1>3. Keeps(row, items, log)
  BY <1>1 DEF Known, Keeps
<1> QED BY <1>2, <1>3, StoreKnown DEF Grows

\* The newest whole entry of some events of the stream is on it.
LEMMA NewestOnLog ==
  ASSUME Sound, Parts = 1, NEW seqs \in SUBSET DOMAIN log, NEW o \in Object
  PROVE  Newest(Whole(Events(seqs), o)) = NoEntry \/ OnLog(log, o, Newest(Whole(Events(seqs), o)))
<1>1. PICK S : S = Whole(Events(seqs), o)
  OBVIOUS
<1>2. S \in SUBSET AnyEntry
  BY <1>1, WholeWritten
<1>3. Newest(S) \in S \cup {NoEntry}
  BY <1>2, NewestThere
<1>4. \A e \in S : Patch(o, e, 1) \in Events(seqs)
  BY <1>1 DEF Whole
<1>5. Events(seqs) \subseteq UpTo(log, Len(log))
  BY DEF Events, UpTo, Sound, SoundRelay
<1> QED BY <1>1, <1>3, <1>4, <1>5 DEF OnLog

LEMMA LoadKnown ==
  ASSUME Parts = 1, Sound, Follows, Known, NEW d \in Device, Load(d)
  PROVE  Known'
<1>1. PICK held \in WrittenRow : held = rec[d]
  BY DEF Sound, SoundStore
<1>2. PICK p \in WrittenPack : p = loop[d].announced /\ p.cursor \in Nat /\ p.rows \in WrittenRow
  BY DEF Sound, SoundLoop, GoodLoop, WrittenPack, PackType
<1>3. Honest(p, log) /\ Len(log) \in Nat /\ DOMAIN log = 1..Len(log)
  BY <1>2 DEF Load, Follows, InPlace, Sound, SoundRelay
<1>4. PICK row : row = [o \in Object |-> Newer(held[o], p.rows[o])]
  OBVIOUS
<1>5. rec' = [rec EXCEPT ![d] = row] /\ log' = log /\ UNCHANGED <<journal, pub>>
  BY <1>1, <1>2, <1>4 DEF Load, MergePack, relay
<1>6. ASSUME NEW o \in Object
      PROVE  row[o] \in {held[o], NoEntry} \/ OnLog(log, o, row[o])
  <2>1. row[o] \in {held[o], p.rows[o]}
    BY <1>4 DEF Newer
  <2>2. p.rows[o] = NoEntry \/ OnLog(log, o, p.rows[o])
    <3>1. p.rows[o] = ToldBy(UpTo(log, p.cursor), o)
      BY <1>3 DEF Honest
    <3>2. 1..p.cursor \in SUBSET DOMAIN log
      BY <1>2, <1>3 DEF Honest
    <3>3. UpTo(log, p.cursor) = Events(1..p.cursor)
      BY DEF UpTo, Events
    <3> QED BY <3>1, <3>2, <3>3, NewestOnLog DEF ToldBy
  <2> QED BY <2>1, <2>2
<1> QED BY <1>1, <1>5, <1>6, MergedKnown

LEMMA ApplyKnown ==
  ASSUME Parts = 1, Sound, Known, log' = log, UNCHANGED <<journal, pub>>, NEW d \in Device,
         NEW seqs \in SUBSET DOMAIN log, NEW to, Apply(d, Events(seqs), to)
  PROVE  Known'
<1>1. PICK held \in WrittenRow, gone \in SUBSET Object : held = rec[d] /\ gone = ledger[d]
  BY DEF Sound, SoundStore
<1>2. PICK events : events = Events(seqs)
  OBVIOUS
<1>3. PICK row : row = [o \in Object |->
         IF o \in Vanished(events) THEN NoEntry
         ELSE Newer(held[o], Newest(IF o \in Vanished(events) \cup gone THEN {} ELSE Whole(events, o)))]
  OBVIOUS
<1>4. rec' = [rec EXCEPT ![d] = row]
  <2>1. rec' = [rec EXCEPT ![d] = [o \in Object |->
         IF o \in Vanished(events) THEN NoEntry
         ELSE Newer(held[o], Newest([x \in Object |->
                IF x \in Vanished(events) \cup gone THEN {} ELSE Whole(events, x)][o]))]]
    BY <1>1, <1>2 DEF Apply
  <2> QED BY <1>3, <2>1
<1>5. Newest({}) = NoEntry
  <2>1. {} \in SUBSET AnyEntry
    OBVIOUS
  <2> QED BY <2>1, NewestThere
<1>6. ASSUME NEW o \in Object
      PROVE  row[o] \in {held[o], NoEntry} \/ OnLog(log, o, row[o])
  <2>1. row[o] \in {held[o], NoEntry, Newest(Whole(events, o))}
    BY <1>3, <1>5 DEF Newer
  <2> QED BY <1>2, <2>1, NewestOnLog
<1> QED BY <1>1, <1>4, <1>6, MergedKnown

LEMMA CommitKnown ==
  ASSUME Sound, Known, NEW d \in Device, NEW o \in Object, Commit(d, o)
  PROVE  Known'
<1>1. PICK e \in Entry : /\ rec' = [rec EXCEPT ![d][o] = e]
                         /\ journal' = [journal EXCEPT ![d] = @ \cup {[object |-> o, entry |-> e]}]
  BY CommitWrites
<1>2. PICK held \in WrittenRow, had \in SUBSET WrittenItem : held = rec[d] /\ had = journal[d]
  BY DEF Sound, SoundStore
<1>3. PICK row, items : row = [held EXCEPT ![o] = e] /\ items = had \cup {[object |-> o, entry |-> e]}
  OBVIOUS
<1>4. /\ rec' = [rec EXCEPT ![d] = row] /\ journal' = [journal EXCEPT ![d] = items]
      /\ log' = log /\ pub' = pub
  BY <1>1, <1>2, <1>3 DEF Commit, relay
<1>5. Keeps(row, items, log)
  <2>1. Keeps(held, had, log) /\ DOMAIN held = Object
    BY <1>2 DEF Known, WrittenRow, Row
  <2> QED BY <1>3, <2>1 DEF Keeps
<1> QED BY <1>4, <1>5, StoreKnown DEF Grows

LEMMA VanishLocalKnown ==
  ASSUME Sound, Known, NEW d \in Device, NEW o \in Object, VanishLocal(d, o)
  PROVE  Known'
<1>1. PICK held \in WrittenRow, items \in SUBSET WrittenItem : held = rec[d] /\ items = journal[d]
  BY DEF Sound, SoundStore
<1>2. PICK row : row = [held EXCEPT ![o] = NoEntry]
  OBVIOUS
<1>3. /\ rec' = [rec EXCEPT ![d] = row] /\ journal' = [journal EXCEPT ![d] = items]
      /\ log' = log /\ pub' = pub
  BY <1>1, <1>2 DEF VanishLocal, relay, Sound, SoundStore
<1>4. Keeps(row, items, log)
  <2>1. Keeps(held, items, log) /\ DOMAIN held = Object
    BY <1>1 DEF Known, WrittenRow, Row
  <2> QED BY <1>2, <2>1 DEF Keeps
<1> QED BY <1>3, <1>4, StoreKnown DEF Grows

LEMMA LogoutKnown == ASSUME Sound, Known, NEW d \in Device, Logout(d) PROVE Known'
<1>1. PICK row : row = [o \in Object |-> NoEntry]
  OBVIOUS
<1>2. /\ rec' = [rec EXCEPT ![d] = row] /\ journal' = [journal EXCEPT ![d] = {}]
      /\ log' = log /\ pub' = [pub EXCEPT ![d] = NoPub]
  BY <1>1 DEF Logout, Ended, relay
<1>3. Keeps(row, {}, log') /\ SentFirst(NoPub, log')
  BY <1>1 DEF Keeps, SentFirst, NoPub, PassAt
<1> QED BY <1>2, <1>3, KnownAt DEF Grows

\* A step of a pass that leaves record and journal alone.
LEMMA PassKnown ==
  ASSUME Sound, Known, Grows, UNCHANGED <<rec, journal>>, NEW d \in Device, NEW p,
         pub' = [pub EXCEPT ![d] = p], SentFirst(p, log')
  PROVE  Known'
<1>1. PICK row \in WrittenRow, items \in SUBSET WrittenItem : row = rec[d] /\ items = journal[d]
  BY DEF Sound, SoundStore
<1>2. rec' = [rec EXCEPT ![d] = row] /\ journal' = [journal EXCEPT ![d] = items]
  BY <1>1 DEF Sound, SoundStore
<1>3. Keeps(row, items, log')
  BY <1>1, OnLogStays DEF Known, Keeps
<1> QED BY <1>2, <1>3, KnownAt

\* The last part is sent, and with it the item is on the stream.
LEMMA SendKnown == ASSUME Parts = 1, Sound, Known, NEW d \in Device, Send(d) PROVE Known'
<1>1. PICK p \in GoodPass : p = pub[d] /\ p.pc = "sending"
  BY DEF Sound, SoundPass, Send
<1>2. PICK item : item = Oldest(p.items)
  OBVIOUS
<1>3. p.part = 1
  BY DEF GoodPass, PassType
<1>4. PICK event : event = Patch(item.object, item.entry, 1) /\ log' = Append(log, event)
  BY <1>1, <1>2, <1>3 DEF Send, NextPart, Accept
<1>5. PICK k : k = PassAt("sent", p.by, p.items, 1)
  OBVIOUS
<1>6. pub' = [pub EXCEPT ![d] = k] /\ UNCHANGED <<rec, journal>>
  BY <1>1, <1>3, <1>5 DEF Send, disk
<1>7. Grows
  BY <1>4 DEF Grows
<1>8. SentFirst(k, log')
  <2>1. event \in UpTo(log', Len(log'))
    BY <1>4, <1>7, OnLogStays
  <2> QED BY <1>2, <1>4, <1>5, <2>1 DEF SentFirst, OnLog, PassAt
<1> QED BY <1>6, <1>7, <1>8, PassKnown

LEMMA RemoveJournalKnown ==
  ASSUME Sound, Known, NEW d \in Device, RemoveJournal(d)
  PROVE  Known'
<1>1. PICK p \in GoodPass : p = pub[d] /\ p.pc = "sent"
  BY DEF Sound, SoundPass, RemoveJournal
<1>2. PICK item \in WrittenItem : item = Oldest(p.items)
  BY <1>1, PartWritten DEF GoodPass
<1>3. PICK row \in WrittenRow, had \in SUBSET WrittenItem : row = rec[d] /\ had = journal[d]
  BY DEF Sound, SoundStore
<1>4. PICK k : k.pc \in {"sending", "idle"} /\ pub' = [pub EXCEPT ![d] = k]
  <2>1. \/ \E k : k = PassAt("sending", p.by, p.items \ {item}, 1) /\ pub' = [pub EXCEPT ![d] = k]
        \/ \E k : k = NoPub /\ pub' = [pub EXCEPT ![d] = k]
    BY <1>1, <1>2 DEF RemoveJournal
  <2>2. \A rest : PassAt("sending", p.by, rest, 1).pc = "sending" /\ NoPub.pc = "idle"
    BY DEF NoPub, PassAt
  <2> QED BY <2>1, <2>2
<1>5. PICK items : items = had \ {item}
  OBVIOUS
<1>6. /\ rec' = [rec EXCEPT ![d] = row] /\ journal' = [journal EXCEPT ![d] = items] /\ log' = log
  BY <1>1, <1>2, <1>3, <1>5 DEF RemoveJournal, Sent, relay, Sound, SoundStore
<1>7. OnLog(log, item.object, item.entry) /\ Keeps(row, had, log)
  BY <1>1, <1>2, <1>3 DEF Known, SentFirst
<1>8. Keeps(row, items, log)
  <2>1. ASSUME NEW o \in Object, [object |-> o, entry |-> row[o]] = item
        PROVE  OnLog(log, o, row[o])
    <3>1. item.object = o /\ item.entry = row[o]
      BY <2>1
    <3> QED BY <1>7, <3>1
  <2> QED BY <1>5, <1>7, <2>1 DEF Keeps
<1>9. SentFirst(k, log')
  BY <1>4 DEF SentFirst
<1> QED BY <1>4, <1>6, <1>8, <1>9, KnownAt DEF Grows

LEMMA NextKnown ==
  ASSUME Parts = 1, Sound, Follows, Known, [Next]_vars
  PROVE  Known'
<1>1. ASSUME NEW d \in Device, Start(d) \/ Ask(d) \/ Page(d) \/ Subscribe(d) \/ Break(d)
      PROVE  Known'
  <2>1. Grows /\ UNCHANGED <<rec, journal, pub>>
    BY <1>1 DEF Start, Ask, Page, Subscribe, Break, relay, disk, Grows
  <2> QED BY <2>1, KnownStays
<1>2. ASSUME NEW d \in Device, ApplyPage(d) PROVE Known'
  <2>1. log' = log /\ UNCHANGED <<journal, pub>>
    BY <1>2 DEF ApplyPage, relay
  <2>2. PICK l \in GoodLoop : l = loop[d]
    BY DEF Sound, SoundLoop
  <2>3. l.page \in SUBSET DOMAIN log
    BY DEF GoodLoop
  <2>4. \E to : Apply(d, Events(l.page), to)
    BY <1>2, <2>2 DEF ApplyPage
  <2> QED BY <2>1, <2>3, <2>4, ApplyKnown
<1>3. ASSUME NEW d \in Device, Receive(d) PROVE Known'
  <2>1. log' = log /\ UNCHANGED pub
    BY <1>3 DEF Receive, relay
  <2>2. CASE UNCHANGED disk
    BY <2>1, <2>2, KnownStays DEF disk, Grows
  <2>3. ASSUME NEW n \in 0..Len(log), NEW m \in n..Len(log), n = cursor[d],
               Apply(d, Events((n + 1)..m), m), UNCHANGED journal
        PROVE  Known'
    <3>1. ((n + 1)..m) \in SUBSET DOMAIN log
      BY DEF Sound, SoundRelay
    <3> QED BY <2>1, <2>3, <3>1, ApplyKnown
  <2> QED BY <1>3, <2>2, <2>3, ReceiveIs
<1>4. ASSUME NEW d \in Device, PublishJournal(d) PROVE Known'
  <2>1. log' = log /\ UNCHANGED <<rec, journal>>
    BY <1>4 DEF PublishJournal, relay, disk
  <2>2. CASE UNCHANGED pub
    BY <2>1, <2>2, KnownStays DEF Grows
  <2>3. ASSUME NEW by, NEW items, NEW k, k = PassAt("sending", by, items, 1),
               pub' = [pub EXCEPT ![d] = k]
        PROVE  Known'
    <3>1. SentFirst(k, log')
      BY <2>3 DEF SentFirst, PassAt
    <3> QED BY <2>1, <2>3, <3>1, PassKnown DEF Grows
  <2>4. \/ UNCHANGED pub
        \/ \E by, items, k : k = PassAt("sending", by, items, 1) /\ pub' = [pub EXCEPT ![d] = k]
    BY <1>4 DEF PublishJournal
  <2> QED BY <2>2, <2>3, <2>4
<1>5. ASSUME NEW d \in Device, SendFails(d) \/ Crash(d) PROVE Known'
  <2>1. Grows /\ UNCHANGED <<rec, journal>> /\ pub' = [pub EXCEPT ![d] = NoPub]
    BY <1>5 DEF SendFails, Crash, Ended, Accept, relay, disk, Grows
  <2>2. SentFirst(NoPub, log')
    BY DEF SentFirst, NoPub, PassAt
  <2> QED BY <2>1, <2>2, PassKnown
<1>6. ASSUME NEW d \in Device, Loop(d) PROVE Known'
  BY <1>1, <1>2, <1>3, <1>6, LoadKnown DEF Loop
<1>7. ASSUME NEW d \in Device, Publish(d) PROVE Known'
  BY <1>4, <1>5, <1>7, SendKnown, RemoveJournalKnown DEF Publish
<1>8. ASSUME NEW d \in Device, NEW o \in Object, SendVanish(d, o) PROVE Known'
  <2>1. Grows /\ UNCHANGED <<rec, journal, pub>>
    BY <1>8 DEF SendVanish, Accept, relay, disk, Grows
  <2> QED BY <2>1, KnownStays
<1>9. CASE BuildPack \/ DeleteCovered \/ UNCHANGED vars
  <2>1. Grows /\ UNCHANGED <<rec, journal, pub>>
    BY <1>9 DEF BuildPack, DeleteCovered, vars, relay, disk, session, Grows
  <2> QED BY <2>1, KnownStays
<1> QED BY <1>5, <1>6, <1>7, <1>8, <1>9, CommitKnown, VanishLocalKnown, LogoutKnown DEF Next

LEMMA InitKnown == Init => Known
<1>1. Init => \A d \in Device : pub[d] = NoPub /\ \A o \in Object : rec[d][o] = NoEntry
  BY DEF Init
<1>2. NoPub.pc = "idle"
  BY DEF NoPub, PassAt
<1> QED BY <1>1, <1>2 DEF Known, Keeps, SentFirst

\* At the head with an empty journal a device shows what the stream tells.
LEMMA SettledShows ==
  ASSUME Parts = 1, Sound, CursorCovers, Known, NEW d \in Device, Settled(d),
         NEW o \in Object \ VanishedAnywhere
  PROVE  rec[d][o] = Told(Len(log), o)
<1>1. Len(log) \in Nat /\ DOMAIN log = 1..Len(log) /\ cursor[d] = Len(log) /\ journal[d] = {}
  BY DEF Sound, SoundRelay, Settled
<1>2. o \notin Vanished(Events(1..Len(log))) /\ o \notin ledger[d]
  <2>1. ledger[d] \in {ledger[e] : e \in Device}
    OBVIOUS
  <2> QED BY <1>1, <2>1 DEF VanishedAnywhere
<1>3. PICK S : S = Whole(Events(1..Len(log)), o)
  OBVIOUS
<1>4. S \in SUBSET AnyEntry
  <2>1. 1..Len(log) \in SUBSET DOMAIN log
    BY <1>1
  <2> QED BY <1>3, <2>1, WholeWritten
<1>5. PICK t \in AnyEntry : t = Told(Len(log), o) /\ t = Newest(S)
  BY <1>2, <1>3, <1>4, NewestThere DEF Told, AnyEntry
<1>6. PICK x \in AnyEntry : x = rec[d][o]
  BY DEF Sound, SoundStore, WrittenRow, Row, AnyEntry
<1>7. ~Older(x, t)
  BY <1>1, <1>2, <1>5, <1>6 DEF CursorCovers
<1>8. x = NoEntry \/ x \in S
  <2>1. x = NoEntry \/ OnLog(log, o, x)
    BY <1>1, <1>6 DEF Known, Keeps
  <2>2. Patch(o, x, 1) \in Events(1..Len(log)) => x \in S
    BY <1>3 DEF Whole, Patch
  <2> QED BY <2>1, <2>2 DEF OnLog, UpTo, Events
<1>9. ~Older(t, x)
  BY <1>4, <1>5, <1>8, NewestThere, StampOrder
<1> QED BY <1>5, <1>6, <1>7, <1>9, StampOrder

\* Two devices at the head with nothing left to send show the same of every
\* object that no one vanished, however each got there: by pack, by pages or
\* live, over gaps, failed calls, crashes and logouts (publish_journal,
\* sync_stream, live).
THEOREM SettledDevicesAgree ==
  ASSUME Parts = 1, CutsDuringSync = FALSE
  PROVE  Spec => []Converged
<1>1. Sound /\ Follows /\ Known /\ [Next]_vars => Known'
  BY NextKnown
<1>2. Sound /\ CursorCovers /\ Known => Converged
  BY SettledShows DEF Converged
<1>3. Init => Known
  BY InitKnown
<1>4. Spec => []Follows /\ []CursorCovers
  BY AlwaysFollows, CursorNeverAhead
<1> QED BY <1>1, <1>2, <1>3, <1>4, AlwaysSound, PTL DEF Spec

-----------------------------------------------------------------------------
(* What was vanished stays gone. *)

Gone(row, gone, at, s) ==
  \A o \in Object :
    (o \in gone \/ o \in Vanished(UpTo(s, at))) => o \in gone /\ row[o] = NoEntry

\* What the ledger has or the cursor's stream vanished the device does not show.
VanishesHeld == \A d \in Device : Gone(rec[d], ledger[d], cursor[d], log)

LEMMA HeldAt ==
  ASSUME Sound, Follows, VanishesHeld, Grows, NEW d \in Device, NEW row, NEW gone, NEW n,
         rec' = [rec EXCEPT ![d] = row], ledger' = [ledger EXCEPT ![d] = gone],
         cursor' = [cursor EXCEPT ![d] = n], Gone(row, gone, n, log')
  PROVE  VanishesHeld'
<1>1. /\ rec \in [Device -> WrittenRow] /\ cursor \in [Device -> Nat]
      /\ ledger \in [Device -> SUBSET Object]
  BY DEF Sound, SoundStore
<1>2. Len(log) \in Nat /\ \A k \in 0..Len(log) : UpTo(log', k) = UpTo(log, k)
  BY StreamStays DEF Sound, SoundRelay
<1>3. \A e \in Device : cursor[e] \in 0..Len(log)
  BY <1>1, <1>2 DEF Follows
<1>4. \A e \in Device : Gone(rec[e], ledger[e], cursor[e], log')
  BY <1>2, <1>3 DEF VanishesHeld, Gone
<1> QED BY <1>1, <1>4 DEF VanishesHeld

LEMMA HeldStays ==
  ASSUME Sound, Follows, VanishesHeld, Grows, UNCHANGED <<rec, ledger, cursor>>
  PROVE  VanishesHeld'
<1>1. Len(log) \in Nat /\ \A k \in 0..Len(log) : UpTo(log', k) = UpTo(log, k)
  BY StreamStays DEF Sound, SoundRelay
<1>2. \A e \in Device : cursor[e] \in 0..Len(log)
  BY <1>1 DEF Follows, Sound, SoundStore
<1> QED BY <1>1, <1>2 DEF VanishesHeld, Gone

\* Vanishes are heeded whether they come in these events or came before (apply).
LEMMA ApplyHolds ==
  ASSUME Sound, Follows, VanishesHeld, log' = log, NEW d \in Device,
         NEW n \in 0..Len(log), NEW m \in n..Len(log), n = cursor[d],
         Apply(d, Events((n + 1)..m), m)
  PROVE  VanishesHeld'
<1>1. PICK events : events = Events((n + 1)..m)
  OBVIOUS
<1>2. PICK held \in WrittenRow, gone \in SUBSET Object : held = rec[d] /\ gone = ledger[d]
  BY DEF Sound, SoundStore
<1>3. PICK row : row = [o \in Object |->
         IF o \in Vanished(events) THEN NoEntry
         ELSE Newer(held[o], Newest(IF o \in Vanished(events) \cup gone THEN {} ELSE Whole(events, o)))]
  OBVIOUS
<1>4. rec' = [rec EXCEPT ![d] = row]
  <2>1. rec' = [rec EXCEPT ![d] = [o \in Object |->
         IF o \in Vanished(events) THEN NoEntry
         ELSE Newer(held[o], Newest([x \in Object |->
                IF x \in Vanished(events) \cup gone THEN {} ELSE Whole(events, x)][o]))]]
    BY <1>1, <1>2 DEF Apply
  <2> QED BY <1>3, <2>1
<1>5. /\ ledger' = [ledger EXCEPT ![d] = gone \cup Vanished(events)]
      /\ cursor' = [cursor EXCEPT ![d] = m]
  BY <1>1, <1>2 DEF Apply
<1>6. Vanished(UpTo(log, m)) = Vanished(UpTo(log, n)) \cup Vanished(events)
  <2>1. 1..m = (1..n) \cup ((n + 1)..m)
    BY DEF Sound, SoundRelay
  <2>2. UpTo(log, m) = UpTo(log, n) \cup events
    BY <1>1, <2>1 DEF UpTo, Events
  <2> QED BY <2>2 DEF Vanished
<1>7. Newest({}) = NoEntry /\ Newer(NoEntry, NoEntry) = NoEntry
  <2>1. {} \in SUBSET AnyEntry
    OBVIOUS
  <2> QED BY <2>1, NewestThere DEF Newer
<1>8. Gone(held, gone, n, log)
  BY <1>2 DEF VanishesHeld
<1>9. ASSUME NEW o \in Object, o \in gone \cup Vanished(events) \cup Vanished(UpTo(log, m))
      PROVE  o \in gone \cup Vanished(events) /\ row[o] = NoEntry
  <2>1. CASE o \in Vanished(events)
    BY <1>3, <2>1
  <2>2. CASE o \notin Vanished(events)
    <3>1. o \in gone /\ held[o] = NoEntry
      BY <1>6, <1>8, <1>9, <2>2 DEF Gone
    <3>2. row[o] = Newer(held[o], Newest({}))
      BY <1>3, <2>2, <3>1
    <3> QED BY <1>7, <3>1, <3>2
  <2> QED BY <2>1, <2>2
<1>10. Gone(row, gone \cup Vanished(events), m, log)
  BY <1>9 DEF Gone
<1> QED BY <1>4, <1>5, <1>10, HeldAt DEF Grows

\* No commit writes to an object its device saw vanish (commit_local).
LEMMA CommitHolds ==
  ASSUME Sound, Follows, VanishesHeld, NEW d \in Device, NEW o \in Object, Commit(d, o)
  PROVE  VanishesHeld'
<1>1. PICK e \in Entry : rec' = [rec EXCEPT ![d][o] = e]
  BY CommitWrites
<1>2. PICK held \in WrittenRow, gone \in SUBSET Object, n \in Nat :
        held = rec[d] /\ gone = ledger[d] /\ n = cursor[d]
  BY DEF Sound, SoundStore
<1>3. PICK row : row = [held EXCEPT ![o] = e]
  OBVIOUS
<1>4. /\ rec' = [rec EXCEPT ![d] = row] /\ ledger' = [ledger EXCEPT ![d] = gone]
      /\ cursor' = [cursor EXCEPT ![d] = n] /\ log' = log /\ o \notin gone
  BY <1>1, <1>2, <1>3 DEF Commit, relay, Sound, SoundStore
<1>5. Gone(held, gone, n, log) /\ \A x \in Object : x # o => row[x] = held[x]
  BY <1>2, <1>3 DEF VanishesHeld, WrittenRow, Row
<1>6. Gone(row, gone, n, log)
  BY <1>4, <1>5 DEF Gone
<1> QED BY <1>4, <1>6, HeldAt DEF Grows

LEMMA VanishLocalHolds ==
  ASSUME Sound, Follows, VanishesHeld, NEW d \in Device, NEW o \in Object, VanishLocal(d, o)
  PROVE  VanishesHeld'
<1>1. PICK held \in WrittenRow, gone \in SUBSET Object, n \in Nat :
        held = rec[d] /\ gone = ledger[d] /\ n = cursor[d]
  BY DEF Sound, SoundStore
<1>2. PICK row : row = [held EXCEPT ![o] = NoEntry]
  OBVIOUS
<1>3. /\ rec' = [rec EXCEPT ![d] = row] /\ ledger' = [ledger EXCEPT ![d] = gone \cup {o}]
      /\ cursor' = [cursor EXCEPT ![d] = n] /\ log' = log
  BY <1>1, <1>2 DEF VanishLocal, relay, Sound, SoundStore
<1>4. /\ Gone(held, gone, n, log)
      /\ \A x \in Object : row[x] = IF x = o THEN NoEntry ELSE held[x]
  BY <1>1, <1>2 DEF VanishesHeld, WrittenRow, Row
<1>5. Gone(row, gone \cup {o}, n, log)
  BY <1>4 DEF Gone
<1> QED BY <1>3, <1>5, HeldAt DEF Grows

\* A logout forgets the ledger, and the cursor with it.
LEMMA LogoutHolds ==
  ASSUME Sound, Follows, VanishesHeld, NEW d \in Device, Logout(d)
  PROVE  VanishesHeld'
<1>1. PICK row : row = [o \in Object |-> NoEntry]
  OBVIOUS
<1>2. /\ rec' = [rec EXCEPT ![d] = row] /\ ledger' = [ledger EXCEPT ![d] = {}]
      /\ cursor' = [cursor EXCEPT ![d] = 0] /\ log' = log
  BY <1>1 DEF Logout, NoCursor, relay
<1>3. Gone(row, {}, 0, log)
  BY DEF Gone, UpTo, Vanished
<1> QED BY <1>2, <1>3, HeldAt DEF Grows

LEMMA NextHolds ==
  ASSUME MaxPacks = 0, Sound, Follows, VanishesHeld, [Next]_vars
  PROVE  VanishesHeld'
<1>1. ASSUME NEW d \in Device,
             Start(d) \/ Ask(d) \/ Page(d) \/ Subscribe(d) \/ Break(d) \/ Publish(d) \/ Crash(d)
      PROVE VanishesHeld'
  <2>1. Grows /\ UNCHANGED <<rec, ledger, cursor>>
    BY <1>1 DEF Start, Ask, Page, Subscribe, Break, Publish, PublishJournal, Send, RemoveJournal,
                SendFails, Accept, Crash, relay, disk, Grows
  <2> QED BY <2>1, HeldStays
<1>2. ASSUME NEW d \in Device, ApplyPage(d) PROVE VanishesHeld'
  <2>1. log' = log
    BY <1>2 DEF ApplyPage, relay
  <2>2. PICK n \in 0..Len(log) : \E m \in n..Len(log), l \in GoodLoop :
          n = cursor[d] /\ Apply(d, Events((n + 1)..m), m)
    BY <1>2, ApplyPageIs
  <2> QED BY <2>1, <2>2, ApplyHolds
<1>3. ASSUME NEW d \in Device, Receive(d) PROVE VanishesHeld'
  <2>1. log' = log
    BY <1>3 DEF Receive, relay
  <2>2. CASE UNCHANGED disk
    BY <2>1, <2>2, HeldStays DEF disk, Grows
  <2>3. ASSUME NEW n \in 0..Len(log), NEW m \in n..Len(log), n = cursor[d],
               Apply(d, Events((n + 1)..m), m)
        PROVE  VanishesHeld'
    BY <2>1, <2>3, ApplyHolds
  <2> QED BY <1>3, <2>2, <2>3, ReceiveIs
<1>4. ASSUME NEW d \in Device PROVE ~Load(d)
  BY DEF Load, Follows, NoPacks
<1>5. ASSUME NEW d \in Device, Loop(d) \/ Publish(d) \/ Crash(d) PROVE VanishesHeld'
  BY <1>1, <1>2, <1>3, <1>4, <1>5 DEF Loop
<1>6. ASSUME NEW d \in Device, NEW o \in Object, SendVanish(d, o) PROVE VanishesHeld'
  <2>1. Grows /\ UNCHANGED <<rec, ledger, cursor>>
    BY <1>6 DEF SendVanish, Accept, relay, disk, Grows
  <2> QED BY <2>1, HeldStays
<1>7. CASE BuildPack \/ DeleteCovered \/ UNCHANGED vars
  <2>1. Grows /\ UNCHANGED <<rec, ledger, cursor>>
    BY <1>7 DEF BuildPack, DeleteCovered, vars, relay, disk, Grows
  <2> QED BY <2>1, HeldStays
<1> QED BY <1>5, <1>6, <1>7, LogoutHolds, CommitHolds, VanishLocalHolds DEF Next

\* An object whose vanish a device's cursor has passed is gone from it and stays
\* gone, whatever entries of it the stream still brings, from whom and in how
\* many parts (apply and commit_local ask the ledger).  Where no pack is built:
\* a pack's cursor passes the vanishes, and its rows do not name them.
THEOREM VanishedStaysGone ==
  ASSUME MaxPacks = 0
  PROVE  Spec => []VanishReaches
<1>1. Init => VanishesHeld
  BY DEF Init, VanishesHeld, Gone, NoCursor, UpTo, Vanished
<1>2. Sound /\ Follows /\ VanishesHeld /\ [Next]_vars => VanishesHeld'
  BY NextHolds
<1>3. VanishesHeld => VanishReaches
  BY DEF VanishesHeld, Gone, VanishReaches, UpTo, Events
<1>4. Spec => []Follows
  BY AlwaysFollows
<1> QED BY <1>1, <1>2, <1>3, <1>4, AlwaysSound, PTL DEF Spec
==============================================================================
