------------------------------ MODULE OutboxInv ------------------------------
(***************************************************************************)
(* The inductive invariant of Outbox, in named parts.  TLC checks each     *)
(* part on the small instances; OutboxProofs proves them.                  *)
(***************************************************************************)
EXTENDS Outbox

Working == {"check", "read", "save", "send", "mark", "report"}

\* Which fields of the tasks mean something, by program counter.
TaskShape ==
  \A t \in Task :
    /\ task[t].pc # "idle" => task[t].inst \in Inst
    /\ task[t].pc \in Working => task[t].key \in Key

PubShape ==
  \A p \in Publisher : pub[p].pc # "idle" =>
    /\ pub[p].inst \in Inst
    /\ pub[p].change \in Change
    /\ pub[p].pc # "add" =>
         \/ pub[p].key = Personal(pub[p].change)
         \/ pub[p].key = SpaceKey(pub[p].change) /\ pub[p].change \in Spaced

RelShape == \A i \in Inst : rel[i].pc \in {"mark", "drop"} => rel[i].key \in Key

SignedOut == inst = 0 <=> logout = "done"

Typed == TypeOK /\ TaskShape /\ PubShape /\ RelShape /\ SignedOut

\* Whoever is about to mark an obligation published has seen it held.
HeldWhereMarked ==
  /\ PublishedIsHeld
  /\ heldBase \subseteq relayBase
  /\ \A t \in Task : task[t].pc = "mark" => relay[task[t].key] # {}
  /\ \A p \in Publisher : pub[p].pc \in {"cover", "mark"} => IsSpace(pub[p].key)
  /\ \A p \in Publisher : pub[p].pc = "mark" => pub[p].key[1] \in relayBase
  /\ \A i \in Inst : rel[i].pc = "mark" =>
       relay[rel[i].key] # {} \/ (IsSpace(rel[i].key) /\ rel[i].key[1] \in relayBase)

\* Obligations, queue items and offers are only ever of changes written here.
OnlyWritten ==
  /\ changes \subseteq written
  /\ \A k \in pending \cup queued : k[1] \in written
  /\ \A k \in Key : relay[k] # {} => k[1] \in written
  /\ \A t \in Task : task[t].pc \in Working => task[t].key[1] \in written
  /\ \A p \in Publisher : pub[p].pc \notin {"idle", "add"} =>
       pub[p].change \in written
  /\ \A p \in Publisher : \A o \in pub[p].owed : o[1][1] \in written
  /\ \A i \in Inst : \A o \in rel[i].list : o[1][1] \in written

\* A logout under way has shut commits and sweeps out, and found every row gone.
LogoutGate ==
  /\ logout # "no" => \A p \in Publisher \ {"rebase"} :
                         pub[p].pc # "add"
  /\ logout # "done" => written = changes
  /\ logout = "clear" => \A c \in written : Personal(c) \in published

Obligations == ObligationStored /\ LogoutGate /\ LogoutKeepsWrites

\* The parts below are for one instance, commits and rebases (OneEventOnly in
\* OutboxProofs).

\* What a task does for an obligation, by the step it stands at.
WorksOn(t, k) == task[t].pc \in Working /\ task[t].key = k
HasSigned(t) == task[t].pc \in {"save", "send", "mark"}
HasSaved(t) == task[t].pc \in {"send", "mark"}
MaySign(t, k) == WorksOn(t, k) /\ task[t].pc \in {"check", "read"} /\ task[t].unsealed
\* The engine will hear of the saved events when this task reports.
WillTell(t, k) ==
  /\ WorksOn(t, k)
  /\ HasSaved(t) \/ (task[t].pc = "report" /\ (task[t].ok \/ task[t].sealed))

\* What the relays hold is what the row holds, until the row is gone for good; a
\* rebase may outlive a logout and save a row that nobody sent.
RowIsSent ==
  \A k \in Key :
    /\ k \notin pending => events[k] = 0
    /\ events[k] # 0 => relay[k] \subseteq {events[k]}
    /\ relay[k] # {} => k \in published \/ events[k] # 0 \/ logout = "done"
    /\ logout = "done" /\ k \in pending => events[k] # 0 \/ relay[k] = {}

\* A task sends what it saved, and signs only what no relay has.
TaskKnows ==
  \A t \in Task :
    /\ HasSigned(t) => task[t].event # 0 /\ relay[task[t].key] \subseteq {task[t].event}
    /\ HasSaved(t) =>
         /\ task[t].sealed
         /\ events[task[t].key] \in {0, task[t].event}
         /\ task[t].key \in published \/ events[task[t].key] # 0 \/ logout = "done"
         /\ logout = "done" /\ task[t].key \in pending => events[task[t].key] # 0
    /\ task[t].pc = "read" /\ task[t].unsealed /\ task[t].key \in pending
         /\ events[task[t].key] = 0 => relay[task[t].key] = {}

\* start() and a release list each obligation once, and the session start()
\* opened is its own until a logout.
ListedOnce ==
  \A i \in Inst :
    /\ \A o, q \in rel[i].list : o[1] = q[1] => o = q
    /\ rel[i].pc \in {"spaceOffer", "spaceEnsure"} => \A o \in rel[i].list : IsSpace(o[1])
    /\ rel[i].pc # "down" => owner = i \/ logout = "done"

\* No commit is inside `publish` during a logout, and only a logout closes a session.
ShutOut ==
  /\ logout # "no" => \A p \in Publisher \ {"rebase"} : pub[p].pc = "idle"
  /\ closing # {} => logout = "done"

\* The callers of `publish` bring different changes and offer what is owed of those.
Apart ==
  \A p \in Publisher : pub[p].pc # "idle" =>
    /\ \A q \in Publisher \ {p} : pub[q].pc # "idle" => pub[q].change # pub[p].change
    /\ \A o \in pub[p].owed : o[1][1] = pub[p].change

\* Nothing was ever signed for this obligation, and nobody is about to.
Untouched(k) ==
  /\ relay[k] = {} /\ events[k] = 0 /\ k \notin queued
  /\ \A t \in Task : ~WorksOn(t, k)

\* What start() has still to offer.
Unoffered(k) ==
  \E i \in Inst : \/ rel[i].pc \in {"down", "list"}
                  \/ rel[i].pc \in {"offer", "ensure"} /\ \E o \in rel[i].list : o[1] = k

\* An obligation whose row may be saved anew: once a relay has it, neither the
\* engine nor a task takes it for unsigned.
NotAgain(k) ==
  /\ k \in pending \cup published
  /\ Unoffered(k) => Untouched(k)
  /\ k \in queued \ hasEvents /\ relay[k] # {} => \E t \in Task : WillTell(t, k)
  /\ \A t \in Task : MaySign(t, k) => relay[k] = {}

\* An obligation that has no row yet.
Rowless(k) ==
  /\ Untouched(k) /\ k \notin pending
  /\ \A i \in Inst : \A o \in rel[i].list : o[1] # k

\* A caller of `publish` that looks for the personal row of its change...
Ahead(p) == pub[p].pc \in {"check", "read", "save"} /\ pub[p].key = Personal(pub[p].change)
\* ...or has not come past its obligation to the space...
BeforeSpace(p) ==
  \/ pub[p].pc = "add" \/ Ahead(p)
  \/ /\ pub[p].pc \in {"check", "cover", "mark", "read", "save"}
     /\ pub[p].key = SpaceKey(pub[p].change)
\* ...finds the row a commit stored, or misses it as it is published; the row of a
\* rebase and the other row are not there yet.
SavesWell(p) ==
  /\ Ahead(p) => IF p = "rebase" THEN Rowless(pub[p].key)
                 ELSE NotAgain(pub[p].key) /\ (pub[p].pc = "save" => pub[p].key \in published)
  /\ pub[p].pc = "add" => p # "rebase" /\ pub[p].change \notin written
  /\ pub[p].change \in Spaced /\ BeforeSpace(p) => Rowless(SpaceKey(pub[p].change))

SavesOnce == \A p \in Publisher : SavesWell(p)

OnceInv ==
  /\ OneEventPerObligation /\ RowIsSent /\ TaskKnows /\ ListedOnce /\ ShutOut
  /\ Apart /\ SavesOnce
=============================================================================
