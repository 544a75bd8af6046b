---------------------------- MODULE OutboxProofs ----------------------------
(***************************************************************************)
(* The theorems of Outbox: what is published is held, every written change *)
(* is owed until it is held (without the rebase, with which TLC shows a    *)
(* logout that erases an unpublished change), one queue task per instance, *)
(* no offer left behind, one event per obligation (for one instance and    *)
(* without sweeps), and the refinement of DurableWrite.  The inductive     *)
(* invariants are in OutboxInv, their type part in OutboxTypes.            *)
(***************************************************************************)
EXTENDS OutboxTypes

\* Relays only gain events, and bases.

LEMMA RelaysGrow ==
  ASSUME Typed, [Next]_vars
  PROVE  (\A k \in Key : relay[k] \subseteq relay'[k]) /\ relayBase \subseteq relayBase'
<1>0. relay \in [Key -> SUBSET Nat]
  BY DEF Typed, TypeOK
<1>1. ASSUME NEW t \in Task, TaskWorks(t) \/ TaskStoreFails(t)
      PROVE  (\A k \in Key : relay[k] \subseteq relay'[k]) /\ relayBase \subseteq relayBase'
  BY <1>0, <1>1 DEF TaskWorks, TaskNext, TaskLeave, TaskCheck, TaskRead, TaskSave, TaskAccepted, TaskUnanswered,
     TaskMark, TaskStoreFails, TaskReport, TaskLook, TaskRelock, relays
<1>2. ASSUME NEW c \in Change, Compact(c)
      PROVE  (\A k \in Key : relay[k] \subseteq relay'[k]) /\ relayBase \subseteq relayBase'
  BY <1>0, <1>2 DEF Compact
<1>3. CASE UNCHANGED relays
  BY <1>3 DEF relays
<1>4. ASSUME NEW p \in Publisher, PubWorks(p) \/ PubStoreFails(p) PROVE UNCHANGED relays
  BY <1>4 DEF PubWorks, AddLocalChange, PubCheck, PubCover, PubMark, PubRead, PubSave, PubStoreFails,
     PubSession, PubOpen, PubOffer, PubEnsure, PubUnchanged
<1>5. ASSUME NEW i \in Inst, RelWorks(i) \/ WalkEnds(i) \/ CloseSession(i) PROVE UNCHANGED relays
  BY <1>5 DEF RelWorks, StartOpens, RelList, RelOffer, RelEnsure, RelSettle, RelHeld, RelMark, RelDrop,
     WalkEnds, RelUnchanged, CloseSession
<1>6. ASSUME NEW c \in Change, NEW d \in Change, BeginCommit(c) \/ BeginSweep(c) \/ AddRebased(c, d)
               \/ ImportBaseMarks(c) \/ ImportBasePuts(c) PROVE UNCHANGED relays
  BY <1>6 DEF BeginCommit, BeginSweep, AddRebased, PubUnchanged, ImportBaseMarks, ImportBasePuts, EnvUnchanged
<1>7. ASSUME NEW k \in Key, ImportEcho(k) PROVE UNCHANGED relays
  BY <1>7 DEF ImportEcho, EnvUnchanged
<1>8. CASE RestartSync \/ Crash \/ LogoutAsked \/ LogoutReads \/ LogoutClears \/ UNCHANGED vars
  BY <1>3, <1>8 DEF RestartSync, Crash, LogoutAsked, LogoutReads, LogoutClears, vars
<1> QED BY <1>1, <1>2, <1>3, <1>4, <1>5, <1>6, <1>7, <1>8 DEF Next

\* A task reaches "mark" by an accepted event only, and works on a key it took
\* from the engine outbox.
LEMMA TaskEffects ==
  ASSUME Typed, NEW t \in Task, TaskWorks(t) \/ TaskStoreFails(t), NEW u \in Task
  PROVE  /\ task'[u].pc = "mark" =>
              task'[u].key = task[u].key /\ (task[u].pc = "mark" \/ (u = t /\ TaskAccepted(t)))
         /\ task'[u].pc \in Working =>
              task'[u].key \in queued \/ (task'[u].key = task[u].key /\ task[u].pc \in Working)
<1>0. task \in [Task -> TaskState]
  BY DEF Typed, TypeOK
<1>1. CASE u # t
  BY <1>0, <1>1 DEF TaskWorks, TaskNext, TaskLeave, TaskCheck, TaskRead, TaskSave, TaskAccepted, TaskUnanswered,
     TaskMark, TaskStoreFails, TaskReport, TaskLook, TaskRelock
<1>2. CASE u = t
  <2>1. CASE TaskNext(t)
    <3>1. ASSUME NEW k \in queued, NEW b,
                 task' = [task EXCEPT ![t] = [@ EXCEPT !.pc = "check", !.key = k, !.unsealed = b]]
          PROVE  task'[u].pc = "check" /\ task'[u].key \in queued
      BY <1>0, <1>2, <3>1 DEF TaskState
    <3>2. CASE \E k \in queued :
                 task' = [task EXCEPT ![t] = [@ EXCEPT !.pc = "check", !.key = k,
                                                       !.unsealed = k \notin hasEvents]]
      <4>1. task'[u].pc = "check" /\ task'[u].key \in queued
        BY <3>1, <3>2
      <4> QED BY <4>1
    <3>3. CASE task' = [task EXCEPT ![t].pc = "leave"]
      <4>1. task'[u].pc = "leave"
        BY <1>0, <1>2, <3>3 DEF TaskState
      <4> QED BY <4>1 DEF Working
    <3> QED BY <2>1, <3>2, <3>3, Zenon DEF TaskNext
  <2>2. CASE TaskCheck(t) \/ TaskRead(t)
    <3>1. ASSUME NEW q, NEW n, \/ task' = [task EXCEPT ![t] = [@ EXCEPT !.pc = q, !.ok = TRUE]]
                              \/ task' = [task EXCEPT ![t] = [@ EXCEPT !.pc = q, !.event = n]]
                              \/ task' = [task EXCEPT ![t].pc = q]
          PROVE  task'[u].pc = q /\ task'[u].key = task[u].key
      <4>1. CASE task' = [task EXCEPT ![t] = [@ EXCEPT !.pc = q, !.ok = TRUE]]
        BY <1>0, <1>2, <4>1 DEF TaskState
      <4>2. CASE task' = [task EXCEPT ![t] = [@ EXCEPT !.pc = q, !.event = n]]
        BY <1>0, <1>2, <4>2 DEF TaskState
      <4>3. CASE task' = [task EXCEPT ![t].pc = q]
        BY <1>0, <1>2, <4>3 DEF TaskState
      <4> QED BY <3>1, <4>1, <4>2, <4>3
    <3>2. PICK q \in {"report", "read", "save"},
                 n \in {events[task[t].key], signed[task[t].key] + 1} :
                 \/ task' = [task EXCEPT ![t] = [@ EXCEPT !.pc = q, !.ok = TRUE]]
                 \/ task' = [task EXCEPT ![t] = [@ EXCEPT !.pc = q, !.event = n]]
                 \/ task' = [task EXCEPT ![t].pc = q]
      BY <2>2, Zenon DEF TaskCheck, TaskRead
    <3>3. task[t].pc \in Working
      BY <2>2 DEF TaskCheck, TaskRead, Working
    <3> QED BY <1>2, <3>1, <3>2, <3>3
  <2>3. CASE TaskSave(t)
    BY <1>0, <1>2, <2>3 DEF TaskSave, TaskState, Working
  <2>4. CASE TaskAccepted(t)
    BY <1>0, <1>2, <2>4 DEF TaskAccepted, TaskState, Working
  <2>5. CASE TaskUnanswered(t)
    BY <1>0, <1>2, <2>5 DEF TaskUnanswered, TaskState, Working
  <2>6. CASE TaskMark(t)
    BY <1>0, <1>2, <2>6 DEF TaskMark, TaskState, Working
  <2>7. CASE TaskReport(t)
    BY <1>0, <1>2, <2>7 DEF TaskReport, TaskState, Working, IdleTask
  <2>8. CASE TaskLook(t)
    BY <1>0, <1>2, <2>8 DEF TaskLook, TaskState, Working, IdleTask
  <2>11. CASE TaskLeave(t)
    BY <1>0, <1>2, <2>11 DEF TaskLeave, TaskState, Working
  <2>9. CASE TaskRelock(t)
    BY <1>0, <1>2, <2>9 DEF TaskRelock, TaskState, Working, IdleTask
  <2>10. CASE TaskStoreFails(t)
    BY <1>0, <1>2, <2>10 DEF TaskStoreFails, TaskState, Working
  <2> QED BY <2>1, <2>2, <2>3, <2>4, <2>5, <2>6, <2>7, <2>8, <2>9, <2>10, <2>11 DEF TaskWorks
<1> QED BY <1>1, <1>2

\* A caller covers only space obligations, and marks one only when a base held
\* here covers its change.
LEMMA PubEffects ==
  ASSUME Typed, NEW p \in Publisher, PubWorks(p) \/ PubStoreFails(p), NEW u \in Publisher
  PROVE  /\ pub'[u].pc = "add" => pub'[u] = pub[u]
         /\ pub'[u].pc = "cover" => pub'[u] = pub[u] \/ IsSpace(pub'[u].key)
         /\ pub'[u].pc = "mark" =>
              \/ pub'[u] = pub[u]
              \/ pub[u].pc = "cover" /\ pub'[u].key = pub[u].key /\ pub[u].change \in heldBase
<1>0. pub \in [Publisher -> PubState]
  BY DEF Typed, TypeOK
<1>1. CASE u # p
  <2>1. \E r : pub' = [pub EXCEPT ![p] = r]
    BY DEF PubWorks, AddLocalChange, PubCheck, PubCover, PubMark, PubRead, PubSave, PubStoreFails,
       PubSession, PubOpen, PubOffer, PubEnsure, Advance
  <2> QED BY <1>0, <1>1, <2>1
<1>2. CASE u = p
  <2>1. ASSUME NEW W, Advance(p, W) PROVE pub'[p].pc \in {"check", "session"}
    <3>1. CASE pub' = [pub EXCEPT ![p] = [@ EXCEPT !.pc = "session", !.owed = W]]
      BY <1>0, <3>1 DEF PubState
    <3>2. CASE pub' = [pub EXCEPT ![p] = [@ EXCEPT !.pc = "check", !.owed = W,
                                                  !.key = SpaceKey(pub[p].change)]]
      BY <1>0, <3>2 DEF PubState
    <3> QED BY <2>1, <3>1, <3>2 DEF Advance
  <2>2. CASE PubCheck(p)
    BY <1>0, <1>2, <2>1, <2>2 DEF PubCheck, PubState
  <2>3. CASE PubCover(p)
    BY <1>0, <1>2, <2>3 DEF PubCover, PubState
  <2>4. CASE PubMark(p) \/ PubSave(p) \/ PubRead(p)
    <3>1. CASE PubMark(p)
      BY <1>0, <1>2, <2>1, <3>1 DEF PubMark
    <3>2. CASE PubSave(p)
      BY <1>0, <1>2, <2>1, <3>2 DEF PubSave
    <3>3. CASE PubRead(p)
      BY <1>0, <1>2, <2>1, <3>3 DEF PubRead, PubState
    <3> QED BY <2>4, <3>1, <3>2, <3>3
  <2>5. CASE AddLocalChange(p) \/ PubOpen(p) \/ PubEnsure(p)
    BY <1>0, <1>2, <2>5 DEF AddLocalChange, PubOpen, PubEnsure, PubState
  <2>6. CASE PubSession(p)
    BY <1>0, <1>2, <2>6 DEF PubSession, PubState, IdlePub
  <2>7. CASE PubStoreFails(p)
    BY <1>0, <1>2, <2>7 DEF PubStoreFails, PubState, IdlePub
  <2>8. CASE PubOffer(p)
    <3>1. CASE pub' = [pub EXCEPT ![p] = IdlePub]
      BY <1>0, <1>2, <3>1 DEF PubState, IdlePub
    <3>2. ASSUME NEW o,
                 pub' = [pub EXCEPT ![p] =
                         [@ EXCEPT !.owed = pub[p].owed \ {o},
                                   !.pc = IF o[1] \in queued THEN "offer" ELSE "ensure"]]
          PROVE  pub'[p].pc \in {"offer", "ensure"}
      BY <1>0, <3>2 DEF PubState
    <3> QED BY <1>2, <2>8, <3>1, <3>2 DEF PubOffer
  <2> QED BY <2>2, <2>3, <2>4, <2>5, <2>6, <2>7, <2>8 DEF PubWorks
<1> QED BY <1>1, <1>2

\* settle_published_pending marks what is published already, or what a base
\* held here covers.
LEMMA RelEffects ==
  ASSUME Typed, NEW i \in Inst, RelWorks(i) \/ WalkEnds(i), NEW j \in Inst, rel'[j].pc = "mark"
  PROVE  \/ rel'[j] = rel[j]
         \/ LET k == rel'[j].key IN
            k \in Key /\ (k \in published \/ (IsSpace(k) /\ k[1] \in heldBase))
<1>0. rel \in [Inst -> RelState]
  BY DEF Typed, TypeOK
<1>1. CASE j # i
  <2>1. \E r : rel' = [rel EXCEPT ![i] = r]
    BY DEF RelWorks, StartOpens, RelList, RelOffer, RelEnsure, RelSettle, RelHeld, RelMark, RelDrop, WalkEnds
  <2> QED BY <1>0, <1>1, <2>1
<1>2. CASE j = i
  <2>1. CASE RelHeld(i)
    <3>1. CASE rel' = [rel EXCEPT ![i].pc = "relist"]
      BY <1>0, <1>2, <3>1 DEF RelState
    <3>2. ASSUME NEW o, rel' = [rel EXCEPT ![i].list = rel[i].list \ {o}] PROVE FALSE
      BY <1>0, <1>2, <2>1, <3>2 DEF RelHeld, RelState
    <3>3. ASSUME NEW o \in rel[i].list, o[1] \in published \/ (IsSpace(o[1]) /\ o[1][1] \in heldBase),
                 rel' = [rel EXCEPT ![i] =
                          [@ EXCEPT !.pc = "mark", !.key = o[1], !.list = rel[i].list \ {o}]]
          PROVE  LET k == rel'[j].key IN
                 k \in Key /\ (k \in published \/ (IsSpace(k) /\ k[1] \in heldBase))
      BY <1>0, <1>2, <3>3 DEF RelState, Offer
    <3> QED BY <2>1, <3>1, <3>2, <3>3 DEF RelHeld
  <2>2. CASE RelOffer(i)
    <3>1. ASSUME NEW W, NEW q \in {"walk", "up", "offer", "spaceOffer", "ensure", "spaceEnsure"},
                 rel' = [rel EXCEPT ![i] = [@ EXCEPT !.list = W, !.pc = q]]
          PROVE  rel'[j].pc \notin {"mark", "drop"}
      BY <1>0, <1>2, <3>1 DEF RelState
    <3>2. \E W : \E q \in {"walk", "up", "offer", "spaceOffer", "ensure", "spaceEnsure"} :
            rel' = [rel EXCEPT ![i] = [@ EXCEPT !.list = W, !.pc = q]]
      BY <2>2 DEF RelOffer
    <3> QED BY <3>1, <3>2
  <2>3. CASE StartOpens(i) \/ RelEnsure(i) \/ RelSettle(i) \/ RelMark(i) \/ RelDrop(i)
    BY <1>0, <1>2, <2>3 DEF StartOpens, RelEnsure, RelSettle, RelMark, RelDrop, RelState
  <2>4. CASE RelList(i)
    BY <1>0, <1>2, <2>4 DEF RelList, RelState
  <2>5. CASE WalkEnds(i)
    BY <1>0, <1>2, <2>5 DEF WalkEnds, RelState
  <2> QED BY <2>1, <2>2, <2>3, <2>4, <2>5 DEF RelWorks
<1> QED BY <1>1, <1>2

\* A spawned queue task is at its loop head.
LEMMA EnsureEffects ==
  ASSUME task \in [Task -> TaskState], NEW i, EnsureQueue(i), NEW u \in Task
  PROVE  task'[u] = task[u] \/ (task'[u].pc = "next" /\ task'[u].inst = i)
  BY DEF EnsureQueue, IdleTask

\* Whoever is about to mark an obligation published has seen it held.
LEMMA HeldWhereMarkedAlways == Spec => []HeldWhereMarked
<1>1. Init => HeldWhereMarked
  BY DEF Init, HeldWhereMarked, PublishedIsHeld, IdleTask, IdlePub, DownRel
<1>2. Typed /\ HeldWhereMarked /\ [Next]_vars => HeldWhereMarked'
  <2> SUFFICES ASSUME Typed, HeldWhereMarked, [Next]_vars PROVE HeldWhereMarked'
    OBVIOUS
  <2>0. /\ \A k \in Key : relay[k] # {} => relay'[k] # {}
        /\ relayBase \subseteq relayBase' /\ heldBase \subseteq relayBase'
        /\ \A k \in published : k \in Key
    BY RelaysGrow DEF HeldWhereMarked, Typed, TypeOK, StoreOK
  <2>1. ASSUME UNCHANGED published PROVE PublishedIsHeld'
    BY <2>0, <2>1 DEF HeldWhereMarked, PublishedIsHeld
  <2>2. ASSUME NEW k \in Key, MarkPublished(k), relay[k] # {} \/ (IsSpace(k) /\ k[1] \in relayBase)
        PROVE  PublishedIsHeld'
    BY <2>0, <2>2 DEF HeldWhereMarked, PublishedIsHeld, MarkPublished
  <2>3. ASSUME UNCHANGED task PROVE \A t \in Task : task'[t].pc = "mark" => relay'[task'[t].key] # {}
    BY <2>0, <2>3 DEF HeldWhereMarked, Typed, TaskShape, Working
  <2>4. ASSUME UNCHANGED rel
        PROVE  \A i \in Inst : rel'[i].pc = "mark" =>
                 relay'[rel'[i].key] # {} \/ (IsSpace(rel'[i].key) /\ rel'[i].key[1] \in relayBase')
    BY <2>0, <2>4 DEF HeldWhereMarked, Typed, RelShape
  <2>5. ASSUME UNCHANGED pub
        PROVE  /\ \A p \in Publisher : pub'[p].pc \in {"cover", "mark"} => IsSpace(pub'[p].key)
               /\ \A p \in Publisher : pub'[p].pc = "mark" => pub'[p].key[1] \in relayBase'
    BY <2>0, <2>5 DEF HeldWhereMarked
  <2>6. ASSUME NEW t \in Task, TaskWorks(t) \/ TaskStoreFails(t) PROVE HeldWhereMarked'
    <3>1. UNCHANGED <<pub, rel>>
      BY <2>6 DEF TaskWorks, TaskNext, TaskLeave, TaskCheck, TaskRead, TaskSave, TaskAccepted, TaskUnanswered,
         TaskMark, TaskStoreFails, TaskReport, TaskLook, TaskRelock, TaskUnchanged
    <3>2. PublishedIsHeld' /\ heldBase' = heldBase
      <4>1. CASE TaskMark(t)
        <5>1. task[t].key \in Key /\ relay[task[t].key] # {}
          BY <4>1 DEF TaskMark, Typed, TaskShape, Working, HeldWhereMarked
        <5> QED BY <4>1, <5>1, <2>2 DEF TaskMark, MarkPublished
      <4>2. CASE UNCHANGED <<published, heldBase>>
        BY <2>1, <4>2
      <4> QED BY <2>6, <4>1, <4>2 DEF TaskWorks, TaskNext, TaskLeave, TaskCheck, TaskRead, TaskSave, SavePending,
               TaskAccepted, TaskUnanswered, TaskStoreFails, TaskReport, TaskLook, TaskRelock, store
    <3>3. \A u \in Task : task'[u].pc = "mark" => relay'[task'[u].key] # {}
      <4> SUFFICES ASSUME NEW u \in Task, task'[u].pc = "mark" PROVE relay'[task'[u].key] # {}
        OBVIOUS
      <4>1. CASE task[u].pc = "mark"
        BY <2>0, <2>6, <4>1, TaskEffects DEF HeldWhereMarked, Typed, TaskShape, Working
      <4>2. CASE u = t /\ TaskAccepted(t)
        <5>1. task[t].key \in Key /\ task'[t].key = task[t].key /\ relay \in [Key -> SUBSET Nat]
          BY <2>6, <4>2, TaskEffects DEF TaskAccepted, Typed, TypeOK, TaskShape, Working
        <5> QED BY <4>2, <5>1 DEF TaskAccepted
      <4> QED BY <2>6, <4>1, <4>2, TaskEffects
    <3>4. heldBase' \subseteq relayBase'
      BY <2>0, <3>2
    <3>5. \A i \in Inst : rel'[i].pc = "mark" =>
                 relay'[rel'[i].key] # {} \/ (IsSpace(rel'[i].key) /\ rel'[i].key[1] \in relayBase')
      BY <2>4, <3>1
    <3>6. /\ \A p \in Publisher : pub'[p].pc \in {"cover", "mark"} => IsSpace(pub'[p].key)
          /\ \A p \in Publisher : pub'[p].pc = "mark" => pub'[p].key[1] \in relayBase'
      BY <2>5, <3>1
    <3> QED BY <3>2, <3>3, <3>4, <3>5, <3>6 DEF HeldWhereMarked, IsSpace
  <2>7. ASSUME NEW p \in Publisher, PubWorks(p) \/ PubStoreFails(p) PROVE HeldWhereMarked'
    <3>1. rel' = rel /\ heldBase' = heldBase
      BY <2>7 DEF PubWorks, AddLocalChange, PubCheck, PubCover, PubMark, PubRead, PubSave, PubStoreFails,
         PubSession, PubOpen, PubOffer, PubEnsure, PubUnchanged, store, MarkPublished, SavePending
    <3>2. PublishedIsHeld'
      <4>1. CASE PubMark(p)
        <5>1. pub[p].key \in Key /\ IsSpace(pub[p].key) /\ pub[p].key[1] \in relayBase
          BY <4>1, Keys DEF PubMark, Typed, PubShape, HeldWhereMarked
        <5> QED BY <4>1, <5>1, <2>2 DEF PubMark
      <4>2. CASE UNCHANGED published
        BY <2>1, <4>2
      <4> QED BY <2>7, <4>1, <4>2 DEF PubWorks, AddLocalChange, PubCheck, PubCover, PubRead, PubSave,
               SavePending, PubStoreFails, PubSession, PubOpen, PubOffer, PubEnsure, store
    <3>3. \A t \in Task : task'[t].pc = "mark" => relay'[task'[t].key] # {}
      <4>1. CASE PubEnsure(p)
        <5>1. \A t \in Task : task'[t].pc = "mark" => task'[t] = task[t]
          BY <4>1, EnsureEffects DEF PubEnsure, Typed, TypeOK
        <5> QED BY <2>0, <5>1 DEF HeldWhereMarked, Typed, TaskShape, Working
      <4>2. CASE UNCHANGED task
        BY <2>3, <4>2
      <4> QED BY <2>7, <4>1, <4>2 DEF PubWorks, AddLocalChange, PubCheck, PubCover, PubMark, PubRead, PubSave,
               PubStoreFails, PubSession, PubOpen, PubOffer
    <3>4. ASSUME NEW u \in Publisher, pub'[u].pc \in {"cover", "mark"}
          PROVE  IsSpace(pub'[u].key) /\ (pub'[u].pc = "mark" => pub'[u].key[1] \in relayBase')
      <4>1. CASE pub'[u] = pub[u]
        BY <2>0, <3>4, <4>1 DEF HeldWhereMarked
      <4>2. CASE pub'[u].pc = "cover" /\ IsSpace(pub'[u].key)
        BY <4>2
      <4>3. CASE pub[u].pc = "cover" /\ pub'[u].key = pub[u].key /\ pub[u].change \in heldBase
        <5>1. IsSpace(pub[u].key)
          BY <4>3 DEF HeldWhereMarked
        <5>2. pub[u].key[1] = pub[u].change
          BY <4>3 DEF Typed, PubShape, Personal, SpaceKey
        <5> QED BY <2>0, <4>3, <5>1, <5>2
      <4> QED BY <2>7, <3>4, <4>1, <4>2, <4>3, PubEffects
    <3>5. \A i \in Inst : rel'[i].pc = "mark" =>
                 relay'[rel'[i].key] # {} \/ (IsSpace(rel'[i].key) /\ rel'[i].key[1] \in relayBase')
      BY <2>4, <3>1
    <3>6. heldBase' \subseteq relayBase'
      BY <2>0, <3>1
    <3> QED BY <3>2, <3>3, <3>4, <3>5, <3>6 DEF HeldWhereMarked, IsSpace
  <2>8. ASSUME NEW i \in Inst, RelWorks(i) \/ WalkEnds(i) PROVE HeldWhereMarked'
    <3>1. pub' = pub /\ heldBase' = heldBase
      BY <2>8 DEF RelWorks, StartOpens, RelList, RelOffer, RelEnsure, RelSettle, RelHeld, RelMark, RelDrop,
         WalkEnds, RelUnchanged, store, MarkPublished
    <3>2. PublishedIsHeld'
      <4>1. CASE RelMark(i)
        <5>1. rel[i].key \in Key /\ (relay[rel[i].key] # {} \/ (IsSpace(rel[i].key) /\ rel[i].key[1] \in relayBase))
          BY <4>1 DEF RelMark, Typed, RelShape, HeldWhereMarked
        <5> QED BY <4>1, <5>1, <2>2 DEF RelMark
      <4>2. CASE UNCHANGED published
        BY <2>1, <4>2
      <4> QED BY <2>8, <4>1, <4>2 DEF RelWorks, StartOpens, RelList, RelOffer, RelEnsure, RelSettle, RelHeld,
               RelDrop, WalkEnds, store
    <3>3. \A t \in Task : task'[t].pc = "mark" => relay'[task'[t].key] # {}
      <4>1. CASE RelEnsure(i)
        <5>1. \A t \in Task : task'[t].pc = "mark" => task'[t] = task[t]
          BY <4>1, EnsureEffects DEF RelEnsure, Typed, TypeOK
        <5> QED BY <2>0, <5>1 DEF HeldWhereMarked, Typed, TaskShape, Working
      <4>2. CASE UNCHANGED task
        BY <2>3, <4>2
      <4> QED BY <2>8, <4>1, <4>2 DEF RelWorks, StartOpens, RelList, RelOffer, RelSettle, RelHeld, RelMark,
               RelDrop, WalkEnds
    <3>4. ASSUME NEW j \in Inst, rel'[j].pc = "mark"
          PROVE  relay'[rel'[j].key] # {} \/ (IsSpace(rel'[j].key) /\ rel'[j].key[1] \in relayBase')
      <4>1. CASE rel'[j] = rel[j]
        BY <2>0, <3>4, <4>1 DEF HeldWhereMarked, Typed, RelShape
      <4>2. ASSUME NEW k \in Key, k = rel'[j].key, k \in published \/ (IsSpace(k) /\ k[1] \in heldBase)
            PROVE  relay'[k] # {} \/ (IsSpace(k) /\ k[1] \in relayBase')
        BY <2>0, <4>2 DEF HeldWhereMarked, PublishedIsHeld
      <4> QED BY <2>8, <3>4, <4>1, <4>2, RelEffects
    <3>5. heldBase' \subseteq relayBase'
      BY <2>0, <3>1
    <3>6. /\ \A p \in Publisher : pub'[p].pc \in {"cover", "mark"} => IsSpace(pub'[p].key)
          /\ \A p \in Publisher : pub'[p].pc = "mark" => pub'[p].key[1] \in relayBase'
      BY <2>5, <3>1
    <3> QED BY <3>2, <3>3, <3>4, <3>5, <3>6 DEF HeldWhereMarked, IsSpace
  <2>9. ASSUME NEW c \in Change, NEW d \in Change,
               BeginCommit(c) \/ BeginSweep(c) \/ AddRebased(c, d)
        PROVE  HeldWhereMarked'
    <3>1. UNCHANGED <<published, heldBase, task, rel>>
      BY <2>9 DEF BeginCommit, BeginSweep, AddRebased, PubUnchanged, store
    <3>2. \A u \in Publisher : pub'[u] = pub[u] \/ pub'[u].pc \notin {"cover", "mark"}
      <4>0. pub \in [Publisher -> PubState]
        BY DEF Typed, TypeOK
      <4>1. CASE BeginCommit(c)
        BY <4>0, <4>1 DEF BeginCommit, IdlePub
      <4>2. CASE BeginSweep(c)
        BY <4>0, <4>2 DEF BeginSweep, IdlePub
      <4>3. CASE AddRebased(c, d)
        BY <4>0, <4>3 DEF AddRebased, IdlePub
      <4> QED BY <2>9, <4>1, <4>2, <4>3
    <3>3. /\ \A p \in Publisher : pub'[p].pc \in {"cover", "mark"} => IsSpace(pub'[p].key)
          /\ \A p \in Publisher : pub'[p].pc = "mark" => pub'[p].key[1] \in relayBase'
      BY <2>0, <3>2 DEF HeldWhereMarked
    <3> QED BY <2>0, <2>1, <2>3, <2>4, <3>1, <3>3 DEF HeldWhereMarked, IsSpace
  <2>10. ASSUME UNCHANGED <<task, pub, rel>>, PublishedIsHeld', heldBase' \subseteq relayBase'
         PROVE  HeldWhereMarked'
    BY <2>3, <2>4, <2>5, <2>10 DEF HeldWhereMarked, IsSpace
  <2>11. CASE RestartSync \/ LogoutAsked \/ LogoutReads \/ UNCHANGED vars
    <3>1. UNCHANGED <<task, pub, rel, published, heldBase>>
      BY <2>11 DEF RestartSync, LogoutAsked, LogoutReads, vars, store
    <3> QED BY <2>0, <2>1, <2>10, <3>1
  <2>12. ASSUME NEW i \in Inst, CloseSession(i) PROVE HeldWhereMarked'
    <3>1. UNCHANGED <<task, pub, rel, published, heldBase>>
      BY <2>12 DEF CloseSession, store
    <3> QED BY <2>0, <2>1, <2>10, <3>1
  <2>13. CASE Crash
    <3>1. UNCHANGED <<published, heldBase>>
      BY <2>13 DEF Crash, store
    <3> QED BY <2>0, <2>1, <2>13, <3>1 DEF Crash, HeldWhereMarked, IdleTask, IdlePub, DownRel
  <2>14. CASE LogoutClears
    <3>1. published' = {} /\ heldBase' = {} /\ UNCHANGED <<task, pub, rel>>
      BY <2>14 DEF LogoutClears
    <3> QED BY <2>10, <3>1 DEF PublishedIsHeld
  <2>15. ASSUME NEW k \in Key, ImportEcho(k) PROVE HeldWhereMarked'
    <3>1. PublishedIsHeld'
      BY <2>2, <2>15 DEF ImportEcho
    <3> QED BY <2>0, <2>10, <2>15, <3>1 DEF ImportEcho, MarkPublished, EnvUnchanged
  <2>16. ASSUME NEW c \in Change, ImportBaseMarks(c) PROVE HeldWhereMarked'
    <3>1. SpaceKey(c) \in Key /\ IsSpace(SpaceKey(c)) /\ SpaceKey(c)[1] = c
      BY <2>16, Keys DEF ImportBaseMarks, SpaceKey, IsSpace
    <3>2. PublishedIsHeld'
      BY <2>2, <2>16, <3>1 DEF ImportBaseMarks
    <3> QED BY <2>0, <2>10, <2>16, <3>2 DEF ImportBaseMarks, MarkPublished, EnvUnchanged
  <2>17. ASSUME NEW c \in Change, ImportBasePuts(c) \/ Compact(c) PROVE HeldWhereMarked'
    <3>1. UNCHANGED <<published, task, pub, rel>> /\ heldBase' \subseteq relayBase'
      BY <2>0, <2>17 DEF ImportBasePuts, Compact, EnvUnchanged, store, relays
    <3> QED BY <2>1, <2>10, <3>1
  <2> QED BY <2>6, <2>7, <2>8, <2>9, <2>11, <2>12, <2>13, <2>14, <2>15, <2>16, <2>17 DEF Next
<1> QED BY <1>1, <1>2, TypedAlways, PTL DEF Spec

\* Publication acknowledgements decide durability (backend.rs:1766): however
\* queue tasks, sweeps, walks, imports, crashes and failed store calls
\* interleave, an obligation is marked published only when a relay holds an
\* event of it, or a base covering its change.
THEOREM AcknowledgedIsHeld == Spec => []PublishedIsHeld
<1>1. HeldWhereMarked => PublishedIsHeld
  BY DEF HeldWhereMarked
<1> QED BY <1>1, HeldWhereMarkedAlways, PTL

-----------------------------------------------------------------------------
(* The obligations of written changes, and logout.                         *)

\* What all but five actions leave true of written changes and their rows.
Quiet ==
  /\ UNCHANGED <<changes, written, logout>>
  /\ published \subseteq published' /\ pending \cup published \subseteq pending' \cup published'
  /\ \A p \in Publisher : pub'[p].pc = "add" => pub[p].pc = "add" \/ logout = "no"

\* Every other step leaves written changes and their rows alone.
LEMMA QuietSteps ==
  ASSUME Typed, [Next]_vars, "rebase" \notin Publisher
  PROVE  \/ Quiet
         \/ \E p \in Publisher : AddLocalChange(p)
         \/ LogoutAsked \/ LogoutReads \/ LogoutClears \/ Crash
<1>1. ASSUME NEW t \in Task, TaskWorks(t) \/ TaskStoreFails(t) PROVE Quiet
  BY <1>1 DEF TaskWorks, TaskNext, TaskLeave, TaskCheck, TaskRead, TaskSave, SavePending, TaskAccepted, TaskUnanswered,
     TaskMark, MarkPublished, TaskStoreFails, TaskReport, TaskLook, TaskRelock, TaskUnchanged, store, Quiet
<1>2. ASSUME NEW p \in Publisher, PubWorks(p) \/ PubStoreFails(p), ~AddLocalChange(p) PROVE Quiet
  <2>1. \A q \in Publisher : pub'[q].pc = "add" => pub[q].pc = "add"
    BY <1>2, PubEffects
  <2> QED BY <1>2, <2>1 DEF PubWorks, PubCheck, PubCover, PubMark, MarkPublished, PubRead, PubSave, SavePending,
          PubStoreFails, PubSession, PubOpen, PubOffer, PubEnsure, PubUnchanged, store, Quiet
<1>3. ASSUME NEW i \in Inst, RelWorks(i) \/ WalkEnds(i) \/ CloseSession(i) PROVE Quiet
  BY <1>3 DEF RelWorks, StartOpens, RelList, RelOffer, RelEnsure, RelSettle, RelHeld, RelMark, MarkPublished,
     RelDrop, WalkEnds, CloseSession, RelUnchanged, store, Quiet
<1>4. ASSUME NEW c \in Change, BeginCommit(c) PROVE Quiet
  BY <1>4 DEF BeginCommit, PubUnchanged, store, Quiet
<1>5. ASSUME NEW c \in Change, BeginSweep(c) PROVE Quiet
  BY <1>5 DEF BeginSweep, PubUnchanged, store, Quiet
<1>6. ASSUME NEW c \in Change, NEW d \in Change, AddRebased(c, d) PROVE FALSE
  BY <1>6 DEF AddRebased
<1>7. ASSUME NEW k \in Key, ImportEcho(k) PROVE Quiet
  BY <1>7 DEF ImportEcho, MarkPublished, EnvUnchanged, Quiet
<1>8. ASSUME NEW c \in Change, ImportBaseMarks(c) \/ ImportBasePuts(c) \/ Compact(c) PROVE Quiet
  BY <1>8 DEF ImportBaseMarks, MarkPublished, ImportBasePuts, Compact, EnvUnchanged, store, Quiet
<1>9. CASE RestartSync \/ UNCHANGED vars
  BY <1>9 DEF RestartSync, vars, store, Quiet
<1> QED BY <1>1, <1>2, <1>3, <1>4, <1>5, <1>6, <1>7, <1>8, <1>9 DEF Next

\* Without a rebase every written change is owed, and logout loses none.
LEMMA ObligationsAlways ==
  ASSUME "rebase" \notin Publisher
  PROVE  Spec => []Obligations
<1>1. Init => Obligations
  BY DEF Init, Obligations, ObligationStored, LogoutGate, LogoutKeepsWrites, IdlePub
<1>2. Typed /\ HeldWhereMarked /\ Obligations /\ [Next]_vars => Obligations'
  <2> SUFFICES ASSUME Typed, HeldWhereMarked, Obligations, [Next]_vars PROVE Obligations'
    OBVIOUS
  <2>0. /\ \A c \in written : Personal(c) \in Key /\ c \in Change
        /\ \A k \in Key : relay[k] # {} => relay'[k] # {}
        /\ changes \subseteq Change
    BY RelaysGrow, Keys DEF Typed, TypeOK, StoreOK
  <2>1. CASE Quiet
    <3>1. ObligationStored'
      BY <2>1 DEF Quiet, Obligations, ObligationStored
    <3>2. LogoutGate'
      BY <2>1 DEF Quiet, Obligations, LogoutGate
    <3>3. LogoutKeepsWrites'
      BY <2>0, <2>1 DEF Quiet, Obligations, LogoutKeepsWrites
    <3> QED BY <3>1, <3>2, <3>3 DEF Obligations
  <2>2. ASSUME NEW p \in Publisher, AddLocalChange(p) PROVE Obligations'
    <3>1. logout = "no" /\ logout' = "no" /\ changes' = written'
      BY <2>2 DEF AddLocalChange, PubUnchanged, Obligations, LogoutGate
    <3>2. ObligationStored'
      BY <2>2 DEF AddLocalChange, Obligations, ObligationStored
    <3> QED BY <3>1, <3>2 DEF Obligations, LogoutGate, LogoutKeepsWrites
  <2>3. CASE LogoutAsked
    BY <2>3 DEF LogoutAsked, store, relays, Obligations, ObligationStored, LogoutGate, LogoutKeepsWrites
  <2>4. CASE LogoutReads
    <3>1. pending = {} => \A c \in written : Personal(c) \in published
      BY <2>4 DEF LogoutReads, Obligations, ObligationStored, LogoutGate
    <3> QED BY <2>4, <3>1 DEF LogoutReads, store, relays, Obligations, ObligationStored, LogoutGate, LogoutKeepsWrites
  <2>5. CASE LogoutClears
    <3>1. \A c \in written : relay[Personal(c)] # {}
      <4>1. \A c \in written : Personal(c) \in published /\ ~IsSpace(Personal(c))
        BY <2>5 DEF LogoutClears, Obligations, LogoutGate, Personal, IsSpace
      <4> QED BY <4>1 DEF HeldWhereMarked, PublishedIsHeld
    <3> QED BY <2>5, <3>1 DEF LogoutClears, relays, Obligations, ObligationStored, LogoutGate, LogoutKeepsWrites
  <2>6. CASE Crash
    BY <2>6 DEF Crash, store, relays, Obligations, ObligationStored, LogoutGate, LogoutKeepsWrites
  <2> QED BY <2>1, <2>2, <2>3, <2>4, <2>5, <2>6, QuietSteps
<1> QED BY <1>1, <1>2, TypedAlways, HeldWhereMarkedAlways, PTL DEF Spec

\* Without rebases, a stored change keeps its row until its personal obligation
\* is published (outbox.rs:4-5), and a logout erases no unpublished change
\* (README.md:76-77).
THEOREM WritesAreOwed ==
  ASSUME "rebase" \notin Publisher
  PROVE  Spec => [](ObligationStored /\ LogoutKeepsWrites)
<1>1. Obligations => ObligationStored /\ LogoutKeepsWrites
  BY DEF Obligations
<1> QED BY <1>1, ObligationsAlways, PTL

\* The first half by itself: whatever crashes or fails, a stored change keeps a
\* row until its personal obligation is published (outbox.rs:4-5).
THEOREM StoredIsOwed ==
  ASSUME "rebase" \notin Publisher
  PROVE  Spec => []ObligationStored
<1>1. ObligationStored /\ LogoutKeepsWrites => ObligationStored
  OBVIOUS
<1> QED BY <1>1, WritesAreOwed, PTL

-----------------------------------------------------------------------------
(* The queue tasks of an instance.                                         *)

\* What an action of another task, or another action of this one, leaves alone.
LEMMA DrainingKept ==
  ASSUME Typed, NEW t \in Task, TaskWorks(t) \/ TaskStoreFails(t), ~TaskLeave(t), ~TaskRelock(t), NEW u \in Task
  PROVE  Draining(u)' = Draining(u) /\ (Draining(u) => task'[u].inst = task[u].inst)
<1>0. task \in [Task -> TaskState]
  BY DEF Typed, TypeOK
<1>1. CASE u # t
  BY <1>0, <1>1 DEF TaskWorks, TaskNext, TaskCheck, TaskRead, TaskSave, TaskAccepted, TaskUnanswered,
     TaskMark, TaskStoreFails, TaskReport, TaskLook, Draining
<1>2. CASE u = t
  <2>1. CASE TaskCheck(t) \/ TaskRead(t)
    <3>1. ASSUME NEW q, NEW n, \/ task' = [task EXCEPT ![t] = [@ EXCEPT !.pc = q, !.ok = TRUE]]
                              \/ task' = [task EXCEPT ![t] = [@ EXCEPT !.pc = q, !.event = n]]
                              \/ task' = [task EXCEPT ![t].pc = q]
          PROVE  task'[u].pc = q /\ task'[u].inst = task[u].inst
      <4>1. CASE task' = [task EXCEPT ![t] = [@ EXCEPT !.pc = q, !.ok = TRUE]]
        BY <1>0, <1>2, <4>1 DEF TaskState
      <4>2. CASE task' = [task EXCEPT ![t] = [@ EXCEPT !.pc = q, !.event = n]]
        BY <1>0, <1>2, <4>2 DEF TaskState
      <4>3. CASE task' = [task EXCEPT ![t].pc = q]
        BY <1>0, <1>2, <4>3 DEF TaskState
      <4> QED BY <3>1, <4>1, <4>2, <4>3
    <3>2. PICK q \in {"report", "read", "save"},
                 n \in {events[task[t].key], signed[task[t].key] + 1} :
                 \/ task' = [task EXCEPT ![t] = [@ EXCEPT !.pc = q, !.ok = TRUE]]
                 \/ task' = [task EXCEPT ![t] = [@ EXCEPT !.pc = q, !.event = n]]
                 \/ task' = [task EXCEPT ![t].pc = q]
      BY <2>1, Zenon DEF TaskCheck, TaskRead
    <3>3. task[t].pc \in {"check", "read"}
      BY <2>1 DEF TaskCheck, TaskRead
    <3>4. task'[u].pc = q /\ task'[u].inst = task[u].inst
      BY <3>1, <3>2
    <3> QED BY <1>2, <3>3, <3>4 DEF Draining
  <2>2. CASE TaskSave(t)
    BY <1>0, <1>2, <2>2 DEF TaskSave, TaskState, Draining
  <2>3. CASE TaskAccepted(t)
    BY <1>0, <1>2, <2>3 DEF TaskAccepted, TaskState, Draining
  <2>4. CASE TaskUnanswered(t)
    BY <1>0, <1>2, <2>4 DEF TaskUnanswered, TaskState, Draining
  <2>5. CASE TaskMark(t)
    BY <1>0, <1>2, <2>5 DEF TaskMark, TaskState, Draining
  <2>6. CASE TaskReport(t)
    BY <1>0, <1>2, <2>6 DEF TaskReport, TaskState, Draining, IdleTask
  <2>7. CASE TaskLook(t)
    BY <1>0, <1>2, <2>7 DEF TaskLook, TaskState, Draining, IdleTask
  <2>9. CASE TaskNext(t)
    <3>0. task[t].pc = "next"
      BY <2>9 DEF TaskNext
    <3>1. ASSUME NEW k, NEW b,
                 task' = [task EXCEPT ![t] = [@ EXCEPT !.pc = "check", !.key = k, !.unsealed = b]]
          PROVE  task'[u].pc = "check" /\ task'[u].inst = task[u].inst
      BY <1>0, <1>2, <3>1 DEF TaskState
    <3>2. CASE task' = [task EXCEPT ![t].pc = "leave"]
      <4>1. task'[u].pc = "leave" /\ task'[u].inst = task[u].inst
        BY <1>0, <1>2, <3>2 DEF TaskState
      <4> QED BY <1>2, <3>0, <4>1 DEF Draining
    <3>3. CASE \E k \in queued :
                 task' = [task EXCEPT ![t] = [@ EXCEPT !.pc = "check", !.key = k,
                                                            !.unsealed = k \notin hasEvents]]
      <4>1. task'[u].pc = "check" /\ task'[u].inst = task[u].inst
        BY <3>1, <3>3, Zenon
      <4> QED BY <1>2, <3>0, <4>1 DEF Draining
    <3> QED BY <2>9, <3>2, <3>3, Zenon DEF TaskNext
  <2>8. CASE TaskStoreFails(t)
    BY <1>0, <1>2, <2>8 DEF TaskStoreFails, TaskState, Draining
  <2> QED BY <2>1, <2>2, <2>3, <2>4, <2>5, <2>6, <2>7, <2>8, <2>9 DEF TaskWorks
<1> QED BY <1>1, <1>2

\* ensure_publish_queue spawns no second task for an instance.
LEMMA EnsureKeepsOne == ASSUME Typed, OneQueueTask, NEW i \in Inst, EnsureQueue(i) PROVE OneQueueTask'
<1>0. task \in [Task -> TaskState] /\ running \subseteq Inst
  BY DEF Typed, TypeOK, ProcessOK
<1>1. CASE UNCHANGED <<running, task>>
  BY <1>1 DEF OneQueueTask, Draining
<1>2. ASSUME NEW t \in Task, task[t].pc = "idle", i \notin running, running' = running \cup {i},
             task' = [task EXCEPT ![t] = [IdleTask EXCEPT !.pc = "next", !.inst = i]]
      PROVE  OneQueueTask'
  <2>1. task'[t].pc = "next" /\ task'[t].inst = i /\ \A u \in Task \ {t} : task'[u] = task[u]
    BY <1>0, <1>2 DEF IdleTask
  <2>2. ~Draining(t) /\ Draining(t)' /\ \A u \in Task \ {t} : Draining(u)' = Draining(u)
    BY <1>2, <2>1 DEF Draining
  <2> QED BY <1>2, <2>1, <2>2 DEF OneQueueTask
<1> QED BY <1>1, <1>2 DEF EnsureQueue

\* queue_running (outbox.rs:128-138, 369-383) admits one queue task into the
\* drain loop of an instance, and is set exactly while one is there.
THEOREM OneQueueTaskAlways == Spec => []OneQueueTask
<1>1. Init => OneQueueTask
  BY DEF Init, OneQueueTask, Draining, IdleTask
<1>2. Typed /\ OneQueueTask /\ [Next]_vars => OneQueueTask'
  <2> SUFFICES ASSUME Typed, OneQueueTask, [Next]_vars PROVE OneQueueTask'
    OBVIOUS
  <2>0. task \in [Task -> TaskState] /\ running \subseteq Inst
    BY DEF Typed, TypeOK, ProcessOK
  <2>1. CASE UNCHANGED <<running, task>>
    BY <2>1 DEF OneQueueTask, Draining
  <2>2. ASSUME NEW t \in Task, TaskWorks(t) \/ TaskStoreFails(t) PROVE OneQueueTask'
    <3>1. CASE TaskLeave(t)
      <4>1. Draining(t) /\ \A u \in Task \ {t} : task'[u] = task[u] /\ Draining(u)' = Draining(u)
        BY <2>0, <3>1 DEF TaskLeave, Draining
      <4>2. task' = [task EXCEPT ![t].pc = "look"] /\ running' = running \ {task[t].inst}
        BY <3>1 DEF TaskLeave
      <4>3. ~Draining(t)'
        BY <2>0, <4>2 DEF Draining, TaskState
      <4> QED BY <4>1, <4>2, <4>3 DEF OneQueueTask
    <3>2. CASE TaskRelock(t)
      <4>1. ~Draining(t) /\ \A u \in Task \ {t} : task'[u] = task[u] /\ Draining(u)' = Draining(u)
        BY <2>0, <3>2 DEF TaskRelock, Draining
      <4>2. CASE task' = [task EXCEPT ![t] = IdleTask] /\ running' = running
        <5>1. ~Draining(t)'
          BY <2>0, <4>2 DEF Draining, IdleTask
        <5> QED BY <4>1, <4>2, <5>1 DEF OneQueueTask
      <4>3. CASE /\ task[t].inst \notin running /\ running' = running \cup {task[t].inst}
                 /\ task' = [task EXCEPT ![t].pc = "next"]
        <5>1. Draining(t)' /\ task'[t].inst = task[t].inst
          BY <2>0, <4>3 DEF Draining, TaskState
        <5> QED BY <4>1, <4>3, <5>1 DEF OneQueueTask
      <4> QED BY <3>2, <4>2, <4>3 DEF TaskRelock
    <3>3. CASE ~TaskLeave(t) /\ ~TaskRelock(t)
      <4>1. running' = running
        BY <2>2, <3>3 DEF TaskWorks, TaskNext, TaskCheck, TaskRead, TaskSave, TaskAccepted, TaskUnanswered,
           TaskMark, TaskStoreFails, TaskReport, TaskLook
      <4>2. \A u \in Task : Draining(u)' = Draining(u) /\ (Draining(u) => task'[u].inst = task[u].inst)
        BY <2>2, <3>3, DrainingKept
      <4> QED BY <4>1, <4>2 DEF OneQueueTask
    <3> QED BY <3>1, <3>2, <3>3
  <2>3. ASSUME NEW p \in Publisher, PubWorks(p) \/ PubStoreFails(p) PROVE OneQueueTask'
    <3>1. CASE PubEnsure(p)
      <4>1. pub[p].inst \in Inst
        BY <3>1 DEF PubEnsure, Typed, PubShape
      <4> QED BY <3>1, <4>1, EnsureKeepsOne DEF PubEnsure
    <3>2. CASE ~PubEnsure(p)
      BY <2>1, <2>3, <3>2 DEF PubWorks, AddLocalChange, PubCheck, PubCover, PubMark, PubRead, PubSave,
         PubStoreFails, PubSession, PubOpen, PubOffer
    <3> QED BY <3>1, <3>2
  <2>4. ASSUME NEW i \in Inst, RelWorks(i) \/ WalkEnds(i) \/ CloseSession(i) PROVE OneQueueTask'
    <3>1. CASE RelEnsure(i)
      BY <3>1, EnsureKeepsOne DEF RelEnsure
    <3>2. CASE ~RelEnsure(i)
      BY <2>1, <2>4, <3>2 DEF RelWorks, StartOpens, RelList, RelOffer, RelSettle, RelHeld, RelMark, RelDrop,
         WalkEnds, CloseSession
    <3> QED BY <3>1, <3>2
  <2>5. ASSUME NEW c \in Change, NEW d \in Change, BeginCommit(c) \/ BeginSweep(c) \/ AddRebased(c, d)
               \/ ImportBaseMarks(c) \/ ImportBasePuts(c) \/ Compact(c) PROVE OneQueueTask'
    BY <2>1, <2>5 DEF BeginCommit, BeginSweep, AddRebased, ImportBaseMarks, ImportBasePuts, Compact, EnvUnchanged
  <2>6. ASSUME NEW k \in Key, ImportEcho(k) PROVE OneQueueTask'
    BY <2>1, <2>6 DEF ImportEcho, EnvUnchanged
  <2>7. CASE RestartSync \/ LogoutAsked \/ LogoutReads \/ LogoutClears \/ UNCHANGED vars
    BY <2>1, <2>7 DEF RestartSync, LogoutAsked, LogoutReads, LogoutClears, vars
  <2>8. CASE Crash
    BY <2>8 DEF Crash, OneQueueTask, Draining, IdleTask
  <2> QED BY <2>2, <2>3, <2>4, <2>5, <2>6, <2>7, <2>8 DEF Next
<1> QED BY <1>1, <1>2, TypedAlways, PTL DEF Spec

-----------------------------------------------------------------------------
(* No offer is stranded.                                                   *)

\* The callers that put something new into the engine outbox look for a queue
\* task next; other steps leave it as it is, shrink it or open a fresh one.
Waker(i) ==
  \/ i \in running
  \/ \E t \in Task : task[t].inst = i /\ task[t].pc \in {"look", "relock"}
  \/ \E p \in Publisher : pub[p].inst = i /\ pub[p].pc = "ensure"
  \/ rel[i].pc \in {"ensure", "spaceEnsure"}

\* ensure_publish_queue leaves a live instance with a queue task.
LEMMA EnsureWakes ==
  ASSUME NEW i \in Inst, EnsureQueue(i), i \notin stopped, running \subseteq Inst
  PROVE  i \in running' /\ running \subseteq running'
  BY DEF EnsureQueue

\* A queue task gives the flag up to look again, and what it finds then is its own.
LEMMA TaskStaysAwake ==
  ASSUME Typed, NoStrandedOffer, NEW t \in Task, TaskWorks(t) \/ TaskStoreFails(t)
  PROVE  NoStrandedOffer'
<1>0. task \in [Task -> TaskState] /\ running \subseteq Inst
  BY DEF Typed, TypeOK, ProcessOK
<1>1. UNCHANGED <<owner, stopped, pub, rel>>
  BY DEF TaskWorks, TaskNext, TaskLeave, TaskCheck, TaskRead, TaskSave, TaskAccepted, TaskUnanswered,
     TaskMark, TaskStoreFails, TaskReport, TaskLook, TaskRelock, TaskUnchanged, lifecycle
<1>2. queued' \subseteq queued
  BY DEF TaskWorks, TaskNext, TaskLeave, TaskCheck, TaskRead, TaskSave, TaskAccepted, TaskUnanswered,
     TaskMark, TaskStoreFails, TaskReport, TaskLook, TaskRelock, Report, engine
<1> SUFFICES ASSUME NEW i \in Inst, Live(i), queued # {}, Waker(i) PROVE Waker(i)'
  BY <1>1, <1>2 DEF NoStrandedOffer, Waker, Live
<1>3. CASE \/ \E p \in Publisher : pub[p].inst = i /\ pub[p].pc = "ensure"
           \/ rel[i].pc \in {"ensure", "spaceEnsure"}
  BY <1>1, <1>3 DEF Waker
<1>4. CASE TaskLeave(t)
  <2>1. task' = [task EXCEPT ![t].pc = "look"] /\ running' = running \ {task[t].inst}
    BY <1>4 DEF TaskLeave
  <2>2. task'[t].pc = "look" /\ task'[t].inst = task[t].inst
    BY <1>0, <2>1 DEF TaskState
  <2>3. \A u \in Task \ {t} : task'[u] = task[u]
    BY <1>0, <2>1
  <2>4. task[t].pc = "leave"
    BY <1>4 DEF TaskLeave
  <2> QED BY <1>3, <2>1, <2>2, <2>3, <2>4 DEF Waker
<1>5. CASE TaskRelock(t)
  <2>1. \A u \in Task \ {t} : task'[u] = task[u]
    BY <1>0, <1>5 DEF TaskRelock
  <2>2. running \subseteq running' /\ task[t].inst \in running'
    BY <1>5 DEF TaskRelock
  <2> QED BY <1>3, <2>1, <2>2 DEF Waker
<1>6. CASE TaskLook(t)
  <2>1. \A u \in Task \ {t} : task'[u] = task[u]
    BY <1>0, <1>6 DEF TaskLook
  <2>2. running' = running /\ task[t].pc = "look"
    BY <1>6 DEF TaskLook
  <2>3. CASE task[t].inst = i
    <3>1. task' = [task EXCEPT ![t].pc = "relock"]
      BY <1>6, <2>3 DEF TaskLook
    <3>2. task'[t].pc = "relock" /\ task'[t].inst = i
      BY <1>0, <2>3, <3>1 DEF TaskState
    <3> QED BY <3>2 DEF Waker
  <2>4. CASE task[t].inst # i
    BY <1>3, <2>1, <2>2, <2>4 DEF Waker
  <2> QED BY <2>3, <2>4
<1>7. CASE ~TaskLeave(t) /\ ~TaskRelock(t) /\ ~TaskLook(t)
  <2>1. running' = running
    BY <1>7 DEF TaskWorks, TaskNext, TaskCheck, TaskRead, TaskSave, TaskAccepted, TaskUnanswered,
       TaskMark, TaskStoreFails, TaskReport
  <2>2. task[t].pc \notin {"look", "relock"} /\ \A u \in Task \ {t} : task'[u] = task[u]
    BY <1>0, <1>7 DEF TaskWorks, TaskNext, TaskCheck, TaskRead, TaskSave, TaskAccepted, TaskUnanswered,
       TaskMark, TaskStoreFails, TaskReport
  <2> QED BY <1>3, <2>1, <2>2 DEF Waker
<1> QED BY <1>4, <1>5, <1>6, <1>7

\* A caller of publish looks for a queue task after each obligation it queued.
LEMMA PubStaysAwake ==
  ASSUME Typed, NoStrandedOffer, NEW p \in Publisher, PubWorks(p) \/ PubStoreFails(p)
  PROVE  NoStrandedOffer'
<1>0. pub \in [Publisher -> PubState] /\ running \subseteq Inst
  BY DEF Typed, TypeOK, ProcessOK
<1>1. UNCHANGED rel
  BY DEF PubWorks, AddLocalChange, PubCheck, PubCover, PubMark, PubRead, PubSave, PubStoreFails,
     PubSession, PubOpen, PubOffer, PubEnsure, PubUnchanged
<1>2. CASE PubOpen(p)
  BY <1>2 DEF PubOpen, OpenSession, NoStrandedOffer
<1>3. CASE PubEnsure(p)
  <2>1. UNCHANGED <<owner, stopped, queued>> /\ EnsureQueue(pub[p].inst)
    BY <1>3 DEF PubEnsure, lifecycle, engine
  <2> SUFFICES ASSUME NEW i \in Inst, Live(i), queued # {}, Waker(i) PROVE Waker(i)'
    BY <1>1, <2>1 DEF NoStrandedOffer, Waker, Live
  <2>2. running \subseteq running' /\ (pub[p].inst = i => i \in running')
    BY <2>1 DEF EnsureQueue, Live
  <2>3. \A u \in Publisher \ {p} : pub'[u] = pub[u]
    BY <1>0, <1>3 DEF PubEnsure
  <2>4. ASSUME NEW t \in Task, task[t].inst = i, task[t].pc \in {"look", "relock"} PROVE Waker(i)'
    <3>1. task'[t] = task[t]
      BY <2>1, <2>4 DEF EnsureQueue, Typed, TypeOK
    <3> QED BY <2>4, <3>1 DEF Waker
  <2> QED BY <1>1, <2>2, <2>3, <2>4 DEF Waker
<1>4. CASE PubOffer(p)
  <2>1. UNCHANGED <<owner, stopped, running, task>> /\ pub[p].pc = "offer"
    BY <1>4 DEF PubOffer, lifecycle
  <2>2. \A u \in Publisher \ {p} : pub'[u] = pub[u]
    BY <1>0, <1>4 DEF PubOffer
  <2>3. CASE UNCHANGED queued
    BY <1>1, <2>1, <2>2, <2>3 DEF NoStrandedOffer, Live
  <2>4. ASSUME NEW o \in pub[p].owed, Live(pub[p].inst), o[1] \notin queued,
               pub' = [pub EXCEPT ![p] = [@ EXCEPT !.owed = pub[p].owed \ {o}, !.pc = "ensure"]]
        PROVE  NoStrandedOffer'
    <3>1. pub'[p].pc = "ensure" /\ pub'[p].inst = pub[p].inst
      BY <1>0, <2>4 DEF PubState
    <3>2. \A i \in Inst : Live(i)' => i = pub[p].inst
      BY <2>1, <2>4 DEF Live
    <3> QED BY <3>1, <3>2 DEF NoStrandedOffer
  <2>5. ASSUME NEW o \in pub[p].owed, o[1] \in queued, Enqueue(o) PROVE UNCHANGED queued
    BY <2>5 DEF Enqueue
  <2>6. CASE UNCHANGED engine
    BY <2>3, <2>6 DEF engine
  <2>7. ASSUME NEW o \in pub[p].owed, Live(pub[p].inst), Enqueue(o),
               pub' = [pub EXCEPT ![p] = [@ EXCEPT !.owed = pub[p].owed \ {o},
                                          !.pc = IF o[1] \in queued THEN "offer" ELSE "ensure"]]
        PROVE  NoStrandedOffer'
    BY <2>3, <2>4, <2>5, <2>7
  <2> QED BY <1>4, <2>6, <2>7 DEF PubOffer
<1>5. CASE ~PubOpen(p) /\ ~PubEnsure(p) /\ ~PubOffer(p)
  <2>1. UNCHANGED <<owner, stopped, queued, running, task>>
    BY <1>5 DEF PubWorks, AddLocalChange, PubCheck, PubCover, PubMark, PubRead, PubSave, PubStoreFails,
       PubSession, lifecycle, engine
  <2>2. pub[p].pc # "ensure" /\ \A u \in Publisher \ {p} : pub'[u] = pub[u]
    BY <1>0, <1>5 DEF PubWorks, AddLocalChange, PubCheck, PubCover, PubMark, PubRead, PubSave,
       PubStoreFails, PubSession, Advance
  <2> QED BY <1>1, <2>1, <2>2 DEF NoStrandedOffer, Live
<1> QED BY <1>2, <1>3, <1>4, <1>5

\* So does start() and the release, whose list is offered the same way.
LEMMA RelStaysAwake ==
  ASSUME Typed, NoStrandedOffer, NEW j \in Inst, RelWorks(j) \/ WalkEnds(j) \/ CloseSession(j)
  PROVE  NoStrandedOffer'
<1>0. rel \in [Inst -> RelState] /\ running \subseteq Inst
  BY DEF Typed, TypeOK, ProcessOK
<1>1. UNCHANGED pub
  BY DEF RelWorks, StartOpens, RelList, RelOffer, RelEnsure, RelSettle, RelHeld, RelMark, RelDrop,
     WalkEnds, CloseSession, RelUnchanged
<1>2. CASE StartOpens(j)
  BY <1>2 DEF StartOpens, OpenSession, NoStrandedOffer
<1>3. CASE CloseSession(j)
  <2>1. UNCHANGED <<stopped, running, task, rel>>
    BY <1>3 DEF CloseSession
  <2>2. queued' = {} \/ UNCHANGED <<owner, queued>>
    BY <1>3 DEF CloseSession, engine
  <2> QED BY <1>1, <2>1, <2>2 DEF NoStrandedOffer, Live
<1>4. CASE RelEnsure(j)
  <2>1. UNCHANGED <<owner, stopped, queued>> /\ EnsureQueue(j)
    BY <1>4 DEF RelEnsure, lifecycle, engine
  <2> SUFFICES ASSUME NEW i \in Inst, Live(i), queued # {}, Waker(i) PROVE Waker(i)'
    BY <1>1, <2>1 DEF NoStrandedOffer, Waker, Live
  <2>2. running \subseteq running' /\ (j = i => i \in running')
    BY <2>1 DEF EnsureQueue, Live
  <2>3. \A u \in Inst \ {j} : rel'[u] = rel[u]
    BY <1>0, <1>4 DEF RelEnsure
  <2>4. ASSUME NEW t \in Task, task[t].inst = i, task[t].pc \in {"look", "relock"} PROVE Waker(i)'
    <3>1. task'[t] = task[t]
      BY <2>1, <2>4 DEF EnsureQueue, Typed, TypeOK
    <3> QED BY <2>4, <3>1 DEF Waker
  <2> QED BY <1>1, <2>2, <2>3, <2>4 DEF Waker
<1>5. CASE RelOffer(j)
  <2>1. UNCHANGED <<owner, stopped, running, task>> /\ rel[j].pc \in {"offer", "spaceOffer"}
    BY <1>5 DEF RelOffer, lifecycle
  <2>2. \A u \in Inst \ {j} : rel'[u] = rel[u]
    BY <1>0, <1>5 DEF RelOffer
  <2>3. CASE UNCHANGED queued
    BY <1>1, <2>1, <2>2, <2>3 DEF NoStrandedOffer, Live
  <2>4. ASSUME NEW o \in rel[j].list, Live(j), o[1] \notin queued, NEW q \in {"ensure", "spaceEnsure"},
               rel' = [rel EXCEPT ![j] = [@ EXCEPT !.list = rel[j].list \ {o}, !.pc = q]]
        PROVE  NoStrandedOffer'
    <3>1. rel'[j].pc = q
      BY <1>0, <2>4 DEF RelState
    <3>2. \A i \in Inst : Live(i)' => i = j
      BY <2>1, <2>4 DEF Live
    <3> QED BY <3>1, <3>2 DEF NoStrandedOffer
  <2>5. ASSUME NEW o \in rel[j].list, Live(j), Enqueue(o),
               rel' = [rel EXCEPT ![j] = [@ EXCEPT !.list = rel[j].list \ {o},
                         !.pc = IF o[1] \in queued THEN rel[j].pc
                                ELSE IF rel[j].pc = "offer" THEN "ensure" ELSE "spaceEnsure"]]
        PROVE  NoStrandedOffer'
    <3>1. CASE o[1] \in queued
      BY <2>3, <2>5, <3>1 DEF Enqueue
    <3>2. CASE o[1] \notin queued /\ rel[j].pc = "offer"
      BY <2>4, <2>5, <3>2
    <3>3. CASE o[1] \notin queued /\ rel[j].pc # "offer"
      BY <2>4, <2>5, <3>3
    <3> QED BY <3>1, <3>2, <3>3
  <2>6. CASE UNCHANGED engine
    BY <2>3, <2>6 DEF engine
  <2> QED BY <1>5, <2>5, <2>6 DEF RelOffer
<1>6. CASE ~StartOpens(j) /\ ~CloseSession(j) /\ ~RelEnsure(j) /\ ~RelOffer(j)
  <2>1. UNCHANGED <<owner, stopped, running, task>> /\ queued' \subseteq queued
    BY <1>6 DEF RelWorks, RelList, RelSettle, RelHeld, RelMark, RelDrop, WalkEnds, Report, lifecycle, engine
  <2>2. /\ rel[j].pc \notin {"ensure", "spaceEnsure"}
        /\ \A u \in Inst \ {j} : rel'[u] = rel[u]
    BY <1>0, <1>6 DEF RelWorks, RelList, RelSettle, RelHeld, RelMark, RelDrop, WalkEnds
  <2> QED BY <1>1, <2>1, <2>2 DEF NoStrandedOffer, Live
<1> QED BY <1>2, <1>3, <1>4, <1>5, <1>6

\* An offer that races the end of a drain finds a queue task, or the task that
\* gave the flag up finds the offer (outbox.rs:369-383).
THEOREM NoOfferIsStranded == Spec => []NoStrandedOffer
<1>1. Init => NoStrandedOffer
  BY DEF Init, NoStrandedOffer
<1>2. Typed /\ NoStrandedOffer /\ [Next]_vars => NoStrandedOffer'
  <2> SUFFICES ASSUME Typed, NoStrandedOffer, [Next]_vars PROVE NoStrandedOffer'
    OBVIOUS
  <2>1. ASSUME NEW t \in Task, TaskWorks(t) \/ TaskStoreFails(t) PROVE NoStrandedOffer'
    BY <2>1, TaskStaysAwake
  <2>2. ASSUME NEW p \in Publisher, PubWorks(p) \/ PubStoreFails(p) PROVE NoStrandedOffer'
    BY <2>2, PubStaysAwake
  <2>3. ASSUME NEW i \in Inst, RelWorks(i) \/ WalkEnds(i) \/ CloseSession(i) PROVE NoStrandedOffer'
    BY <2>3, RelStaysAwake
  <2>4. ASSUME NEW c \in Change, NEW d \in Change,
               BeginCommit(c) \/ BeginSweep(c) \/ AddRebased(c, d) PROVE NoStrandedOffer'
    <3>0. pub \in [Publisher -> PubState]
      BY DEF Typed, TypeOK
    <3>1. UNCHANGED <<owner, stopped, queued, running, task, rel>>
      BY <2>4 DEF BeginCommit, BeginSweep, AddRebased, PubUnchanged, lifecycle, engine
    <3>2. PICK p \in Publisher : pub[p].pc = "idle" /\ \A u \in Publisher \ {p} : pub'[u] = pub[u]
      BY <2>4, <3>0 DEF BeginCommit, BeginSweep, AddRebased
    <3> QED BY <3>1, <3>2 DEF NoStrandedOffer, Live
  <2>5. CASE RestartSync
    <3>1. UNCHANGED <<owner, queued, running, task, pub, rel>> /\ stopped \subseteq stopped'
      BY <2>5 DEF RestartSync, engine
    <3> QED BY <3>1 DEF NoStrandedOffer, Live
  <2>6. CASE Crash \/ LogoutClears
    BY <2>6 DEF Crash, LogoutClears, NoStrandedOffer
  <2>7. ASSUME NEW c \in Change, ImportBaseMarks(c) \/ ImportBasePuts(c) \/ Compact(c)
        PROVE  UNCHANGED <<owner, stopped, queued, running, task, pub, rel>>
    BY <2>7 DEF ImportBaseMarks, ImportBasePuts, Compact, EnvUnchanged, lifecycle, engine
  <2>8. ASSUME NEW k \in Key, ImportEcho(k)
        PROVE  UNCHANGED <<owner, stopped, queued, running, task, pub, rel>>
    BY <2>8 DEF ImportEcho, EnvUnchanged, lifecycle, engine
  <2>9. CASE LogoutAsked \/ LogoutReads \/ UNCHANGED vars
    BY <2>9 DEF LogoutAsked, LogoutReads, vars, lifecycle, engine, NoStrandedOffer, Live
  <2>10. CASE UNCHANGED <<owner, stopped, queued, running, task, pub, rel>>
    BY <2>10 DEF NoStrandedOffer, Live
  <2> QED BY <2>1, <2>2, <2>3, <2>4, <2>5, <2>6, <2>7, <2>8, <2>9, <2>10 DEF Next
<1> QED BY <1>1, <1>2, TypedAlways, PTL DEF Spec

-----------------------------------------------------------------------------
(* Only written changes are owed, queued, offered or sent.                 *)

\* A caller works on one change and owes only obligations of that change.
LEMMA PubOwes ==
  ASSUME Typed, NEW p \in Publisher, PubWorks(p) \/ PubStoreFails(p), NEW u \in Publisher
  PROVE  /\ pub'[u].pc \notin {"idle", "add"} => pub'[u].change = pub[u].change /\ pub[u].pc # "idle"
              /\ (pub[u].pc = "add" => u = p /\ AddLocalChange(p))
         /\ \A o \in pub'[u].owed : o \in pub[u].owed \/ (o[1] = pub[u].key /\ pub[u].pc \in {"read", "save"})
<1>0. pub \in [Publisher -> PubState]
  BY DEF Typed, TypeOK
<1>1. CASE u # p
  <2>1. \E r : pub' = [pub EXCEPT ![p] = r]
    BY DEF PubWorks, AddLocalChange, PubCheck, PubCover, PubMark, PubRead, PubSave, PubStoreFails,
       PubSession, PubOpen, PubOffer, PubEnsure, Advance
  <2>2. pub'[u] = pub[u]
    BY <1>0, <1>1, <2>1
  <2> QED BY <2>2
<1>2. CASE u = p
  <2>1. ASSUME NEW W, Advance(p, W) PROVE pub'[p].change = pub[p].change /\ pub'[p].owed = W
    <3>1. CASE pub' = [pub EXCEPT ![p] = [@ EXCEPT !.pc = "session", !.owed = W]]
      BY <1>0, <3>1 DEF PubState
    <3>2. CASE pub' = [pub EXCEPT ![p] = [@ EXCEPT !.pc = "check", !.owed = W,
                                                  !.key = SpaceKey(pub[p].change)]]
      BY <1>0, <3>2 DEF PubState
    <3> QED BY <2>1, <3>1, <3>2 DEF Advance
  <2>0. ASSUME NEW b, Advance(p, pub[p].owed \cup {<<pub[p].key, b>>})
        PROVE  /\ pub'[p].change = pub[p].change
               /\ \A o \in pub'[p].owed : o \in pub[p].owed \/ o[1] = pub[p].key
    BY <2>0, <2>1
  <2>2. CASE PubCheck(p)
    BY <1>0, <1>2, <2>1, <2>2 DEF PubCheck, PubState
  <2>3. CASE PubCover(p)
    BY <1>0, <1>2, <2>3 DEF PubCover, PubState
  <2>4. CASE PubMark(p) \/ PubSave(p)
    <3>1. CASE Advance(p, pub[p].owed)
      BY <1>2, <2>1, <2>4, <3>1 DEF PubMark, PubSave
    <3> QED BY <1>2, <2>4, <3>1, <2>0 DEF PubMark, PubSave
  <2>5. CASE PubRead(p)
    <3>1. CASE pub' = [pub EXCEPT ![p].pc = "save"]
      BY <1>0, <1>2, <2>5, <3>1 DEF PubRead, PubState
    <3> QED BY <1>2, <2>0, <2>5, <3>1 DEF PubRead
  <2>6. CASE AddLocalChange(p)
    BY <1>0, <1>2, <2>6 DEF AddLocalChange, PubState
  <2>7. CASE PubOpen(p) \/ PubEnsure(p)
    BY <1>0, <1>2, <2>7 DEF PubOpen, PubEnsure, PubState
  <2>8. CASE PubSession(p)
    BY <1>0, <1>2, <2>8 DEF PubSession, PubState, IdlePub
  <2>9. CASE PubStoreFails(p)
    BY <1>0, <1>2, <2>9 DEF PubStoreFails, PubState, IdlePub
  <2>10. CASE PubOffer(p)
    <3>1. CASE pub' = [pub EXCEPT ![p] = IdlePub]
      BY <1>0, <1>2, <3>1 DEF PubState, IdlePub
    <3>2. ASSUME NEW o,
                 pub' = [pub EXCEPT ![p] =
                         [@ EXCEPT !.owed = pub[p].owed \ {o},
                                   !.pc = IF o[1] \in queued THEN "offer" ELSE "ensure"]]
          PROVE  pub'[p].change = pub[p].change /\ pub'[p].owed \subseteq pub[p].owed
      BY <1>0, <3>2 DEF PubState
    <3> QED BY <1>2, <2>10, <3>1, <3>2 DEF PubOffer
  <2> QED BY <2>2, <2>3, <2>4, <2>5, <2>6, <2>7, <2>8, <2>9, <2>10 DEF PubWorks
<1> QED BY <1>1, <1>2

\* start() and release_space_pending list stored rows only.
LEMMA RelLists ==
  ASSUME Typed, NEW i \in Inst, RelWorks(i) \/ WalkEnds(i), NEW j \in Inst, NEW o \in rel'[j].list
  PROVE  o \in rel[j].list \/ o[1] \in pending
<1>0. rel \in [Inst -> RelState]
  BY DEF Typed, TypeOK
<1>1. CASE j # i
  <2>1. \E r : rel' = [rel EXCEPT ![i] = r]
    BY DEF RelWorks, StartOpens, RelList, RelOffer, RelEnsure, RelSettle, RelHeld, RelMark, RelDrop, WalkEnds
  <2> QED BY <1>0, <1>1, <2>1
<1>2. CASE j = i
  <2>1. \A b \in BOOLEAN : \A e \in Rows(b) : e[1] \in pending
    BY DEF Rows
  <2>2. CASE RelHeld(i)
    <3>1. CASE rel' = [rel EXCEPT ![i].pc = "relist"]
      BY <1>0, <1>2, <3>1 DEF RelState
    <3>2. ASSUME NEW e, rel' = [rel EXCEPT ![i].list = rel[i].list \ {e}] PROVE o \in rel[j].list
      BY <1>0, <1>2, <3>2 DEF RelState
    <3>3. ASSUME NEW e,
                 rel' = [rel EXCEPT ![i] =
                          [@ EXCEPT !.pc = "mark", !.key = e[1], !.list = rel[i].list \ {e}]]
          PROVE  o \in rel[j].list
      BY <1>0, <1>2, <3>3 DEF RelState
    <3> QED BY <2>2, <3>1, <3>2, <3>3 DEF RelHeld
  <2>3. CASE RelOffer(i)
    <3>1. ASSUME NEW W, NEW q, rel' = [rel EXCEPT ![i] = [@ EXCEPT !.list = W, !.pc = q]]
          PROVE  rel'[i].list = W
      BY <1>0, <3>1 DEF RelState
    <3> QED BY <1>2, <2>3, <3>1 DEF RelOffer
  <2>4. CASE StartOpens(i) \/ RelEnsure(i) \/ RelMark(i) \/ RelDrop(i)
    <3>1. CASE StartOpens(i) \/ RelMark(i)
      BY <1>0, <1>2, <3>1 DEF StartOpens, RelMark, RelState
    <3>2. CASE RelEnsure(i)
      BY <1>0, <1>2, <3>2 DEF RelEnsure, RelState
    <3>3. CASE RelDrop(i)
      BY <1>0, <1>2, <3>3 DEF RelDrop, RelState
    <3> QED BY <2>4, <3>1, <3>2, <3>3
  <2>5. CASE RelList(i) \/ RelSettle(i)
    <3>1. \E b, c \in BOOLEAN : rel'[i].list = Rows(b) \cup Rows(c)
      <4>1. CASE rel' = [rel EXCEPT ![i] = [@ EXCEPT !.pc = "offer", !.list = Rows(FALSE)]]
        BY <1>0, <4>1 DEF RelState
      <4>2. CASE rel' = [rel EXCEPT ![i] = [@ EXCEPT !.pc = "spaceOffer", !.list = Rows(TRUE)]]
        BY <1>0, <4>2 DEF RelState
      <4>3. CASE rel' = [rel EXCEPT ![i] = [@ EXCEPT !.pc = "held", !.list = Rows(FALSE) \cup Rows(TRUE)]]
        BY <1>0, <4>3 DEF RelState
      <4> QED BY <2>5, <4>1, <4>2, <4>3 DEF RelList, RelSettle
    <3> QED BY <1>2, <2>1, <3>1
  <2>6. CASE WalkEnds(i)
    BY <1>0, <1>2, <2>6 DEF WalkEnds, RelState
  <2> QED BY <2>2, <2>3, <2>4, <2>5, <2>6 DEF RelWorks
<1> QED BY <1>1, <1>2

\* The named parts of OnlyWritten that a step may leave alone together.
LEMMA OnlyWrittenKept ==
  ASSUME OnlyWritten, written \subseteq written'
  PROVE  /\ UNCHANGED task => \A t \in Task : task'[t].pc \in Working => task'[t].key[1] \in written'
         /\ UNCHANGED pub => \A p \in Publisher :
              /\ pub'[p].pc \notin {"idle", "add"} => pub'[p].change \in written'
              /\ \A o \in pub'[p].owed : o[1][1] \in written'
         /\ UNCHANGED rel => \A i \in Inst : \A o \in rel'[i].list : o[1][1] \in written'
         /\ UNCHANGED relay => \A k \in Key : relay'[k] # {} => k[1] \in written'
         /\ pending' \subseteq pending => \A k \in pending' : k[1] \in written'
         /\ queued' \subseteq queued => \A k \in queued' : k[1] \in written'
         /\ changes' \subseteq changes => changes' \subseteq written'
  BY DEF OnlyWritten

\* A spawned queue task works on nothing yet.
LEMMA EnsureOnlyWritten ==
  ASSUME Typed, OnlyWritten, written \subseteq written', NEW i, EnsureQueue(i)
  PROVE  \A t \in Task : task'[t].pc \in Working => task'[t].key[1] \in written'
  BY EnsureEffects DEF Typed, TypeOK, OnlyWritten, Working

\* Rows, offers, queue items and events are of written changes.
LEMMA OnlyWrittenAlways == Spec => []OnlyWritten
<1>1. Init => OnlyWritten
  BY DEF Init, OnlyWritten, IdleTask, IdlePub, DownRel, Working
<1>2. Typed /\ OnlyWritten /\ [Next]_vars => OnlyWritten'
  <2> SUFFICES ASSUME Typed, OnlyWritten, [Next]_vars PROVE OnlyWritten'
    OBVIOUS
  <2>1. ASSUME NEW t \in Task, TaskWorks(t) \/ TaskStoreFails(t) PROVE OnlyWritten'
    <3>1. UNCHANGED <<pub, rel, written, changes>>
      BY <2>1 DEF TaskWorks, TaskNext, TaskLeave, TaskCheck, TaskRead, TaskSave, SavePending, TaskAccepted, TaskUnanswered,
         TaskMark, MarkPublished, TaskStoreFails, TaskReport, TaskLook, TaskRelock, TaskUnchanged, store
    <3>2. task[t].pc \in Working => task[t].key \in Key /\ task[t].key[1] \in written
      BY DEF Typed, TaskShape, OnlyWritten
    <3>3. \A u \in Task : task'[u].pc \in Working => task'[u].key[1] \in written'
      BY <2>1, <3>1, TaskEffects DEF OnlyWritten
    <3>4. \A k \in pending' : k[1] \in written'
      <4>1. CASE TaskSave(t)
        BY <3>1, <3>2, <4>1 DEF TaskSave, SavePending, OnlyWritten, Working
      <4>2. CASE pending' \subseteq pending
        BY <3>1, <4>2 DEF OnlyWritten
      <4> QED BY <2>1, <4>1, <4>2 DEF TaskWorks, TaskNext, TaskLeave, TaskCheck, TaskRead, TaskAccepted, TaskUnanswered,
         TaskMark, MarkPublished, TaskStoreFails, TaskReport, TaskLook, TaskRelock, store
    <3>5. queued' \subseteq queued
      BY <2>1 DEF TaskWorks, TaskNext, TaskLeave, TaskCheck, TaskRead, TaskSave, TaskAccepted, TaskUnanswered,
         TaskMark, TaskStoreFails, TaskReport, Report, TaskLook, TaskRelock, engine
    <3>6. \A k \in Key : relay'[k] # {} => k[1] \in written'
      <4>1. CASE TaskAccepted(t) \/ TaskUnanswered(t)
        BY <3>1, <3>2, <4>1 DEF TaskAccepted, TaskUnanswered, Typed, TypeOK, OnlyWritten, Working
      <4>2. CASE UNCHANGED relay
        BY <3>1, <4>2 DEF OnlyWritten
      <4> QED BY <2>1, <4>1, <4>2 DEF TaskWorks, TaskNext, TaskLeave, TaskCheck, TaskRead, TaskSave,
         TaskMark, TaskStoreFails, TaskReport, TaskLook, TaskRelock, relays
    <3> QED BY <3>1, <3>3, <3>4, <3>5, <3>6, OnlyWrittenKept DEF OnlyWritten
  <2>2. ASSUME NEW p \in Publisher, PubWorks(p) \/ PubStoreFails(p) PROVE OnlyWritten'
    <3>1. UNCHANGED <<relay, rel>>
      BY <2>2 DEF PubWorks, AddLocalChange, PubCheck, PubCover, PubMark, PubRead, PubSave, PubStoreFails,
         PubSession, PubOpen, PubOffer, PubEnsure, PubUnchanged, relays
    <3>2. /\ written \subseteq written' /\ changes' \subseteq written'
          /\ AddLocalChange(p) => pub[p].change \in written'
      BY <2>2 DEF PubWorks, AddLocalChange, PubCheck, PubCover, PubMark, MarkPublished, PubRead, PubSave,
         SavePending, PubStoreFails, PubSession, PubOpen, PubOffer, PubEnsure, store, OnlyWritten
    <3>3. \A u \in Publisher : pub[u].pc \notin {"idle", "add"} => pub[u].key[1] \in written
      BY DEF Typed, PubShape, Personal, SpaceKey, OnlyWritten
    <3>4. \A u \in Publisher :
            /\ pub'[u].pc \notin {"idle", "add"} => pub'[u].change \in written'
            /\ \A o \in pub'[u].owed : o[1][1] \in written'
      BY <2>2, <3>2, <3>3, PubOwes DEF OnlyWritten
    <3>5. \A k \in pending' : k[1] \in written'
      <4>1. CASE AddLocalChange(p)
        BY <3>2, <4>1 DEF AddLocalChange, Personal, OnlyWritten
      <4>2. CASE PubSave(p)
        BY <3>2, <3>3, <4>2 DEF PubSave, SavePending, OnlyWritten
      <4>3. CASE pending' \subseteq pending
        BY <3>2, <4>3 DEF OnlyWritten
      <4> QED BY <2>2, <4>1, <4>2, <4>3 DEF PubWorks, PubCheck, PubCover, PubMark, MarkPublished, PubRead,
               PubStoreFails, PubSession, PubOpen, PubOffer, PubEnsure, store
    <3>6. \A k \in queued' : k[1] \in written'
      <4>1. CASE PubOffer(p)
        BY <3>2, <4>1 DEF PubOffer, Enqueue, engine, OnlyWritten
      <4>2. CASE queued' \subseteq queued
        BY <3>2, <4>2 DEF OnlyWritten
      <4> QED BY <2>2, <4>1, <4>2 DEF PubWorks, AddLocalChange, PubCheck, PubCover, PubMark, PubRead, PubSave,
               PubStoreFails, PubSession, PubOpen, OpenSession, PubEnsure, engine
    <3>7. \A t \in Task : task'[t].pc \in Working => task'[t].key[1] \in written'
      <4>1. CASE PubEnsure(p)
        BY <3>2, <4>1, EnsureOnlyWritten DEF PubEnsure
      <4>2. CASE UNCHANGED task
        BY <3>2, <4>2, OnlyWrittenKept
      <4> QED BY <2>2, <4>1, <4>2 DEF PubWorks, AddLocalChange, PubCheck, PubCover, PubMark, PubRead, PubSave,
               PubStoreFails, PubSession, PubOpen, PubOffer
    <3> QED BY <3>1, <3>2, <3>4, <3>5, <3>6, <3>7, OnlyWrittenKept DEF OnlyWritten
  <2>3. ASSUME NEW i \in Inst, RelWorks(i) \/ WalkEnds(i) PROVE OnlyWritten'
    <3>1. UNCHANGED <<pub, relay, written, changes>> /\ pending' \subseteq pending
      BY <2>3 DEF RelWorks, StartOpens, RelList, RelOffer, RelEnsure, RelSettle, RelHeld, RelMark,
         MarkPublished, RelDrop, WalkEnds, RelUnchanged, relays, store
    <3>2. \A j \in Inst : \A o \in rel'[j].list : o[1][1] \in written'
      BY <2>3, <3>1, RelLists DEF OnlyWritten
    <3>3. \A k \in queued' : k[1] \in written'
      <4>1. CASE RelOffer(i)
        BY <3>1, <4>1 DEF RelOffer, Enqueue, engine, OnlyWritten
      <4>2. CASE queued' \subseteq queued
        BY <3>1, <4>2 DEF OnlyWritten
      <4> QED BY <2>3, <4>1, <4>2 DEF RelWorks, StartOpens, OpenSession, RelList, RelEnsure, RelSettle, RelHeld,
               RelMark, RelDrop, Report, WalkEnds, engine
    <3>4. \A t \in Task : task'[t].pc \in Working => task'[t].key[1] \in written'
      <4>1. CASE RelEnsure(i)
        BY <3>1, <4>1, EnsureOnlyWritten DEF RelEnsure
      <4>2. CASE UNCHANGED task
        BY <3>1, <4>2, OnlyWrittenKept
      <4> QED BY <2>3, <4>1, <4>2 DEF RelWorks, StartOpens, RelList, RelOffer, RelSettle, RelHeld, RelMark,
               RelDrop, WalkEnds
    <3> QED BY <3>1, <3>2, <3>3, <3>4, OnlyWrittenKept DEF OnlyWritten
  <2>4. ASSUME NEW c \in Change, NEW d \in Change,
               BeginCommit(c) \/ BeginSweep(c) \/ AddRebased(c, d)
        PROVE  OnlyWritten'
    <3>1. UNCHANGED <<task, rel, relay, pending, queued>> /\ written \subseteq written' /\ changes' \subseteq written'
      BY <2>4 DEF BeginCommit, BeginSweep, AddRebased, PubUnchanged, store, relays, engine, OnlyWritten
    <3>2. \A u \in Publisher :
            /\ pub'[u].pc \notin {"idle", "add"} => pub'[u].change \in written'
            /\ \A o \in pub'[u].owed : o[1][1] \in written'
      <4>0. pub \in [Publisher -> PubState]
        BY DEF Typed, TypeOK
      <4>1. CASE BeginCommit(c)
        BY <3>1, <4>0, <4>1 DEF BeginCommit, IdlePub, OnlyWritten
      <4>2. CASE BeginSweep(c)
        BY <3>1, <4>0, <4>2 DEF BeginSweep, IdlePub, OnlyWritten
      <4>3. CASE AddRebased(c, d)
        BY <3>1, <4>0, <4>3 DEF AddRebased, IdlePub, OnlyWritten
      <4> QED BY <2>4, <4>1, <4>2, <4>3
    <3> QED BY <3>1, <3>2, OnlyWrittenKept DEF OnlyWritten
  <2>5. ASSUME UNCHANGED <<task, pub, rel, relay, written>>, changes' \subseteq changes,
               pending' \subseteq pending, queued' \subseteq queued
        PROVE  OnlyWritten'
    BY <2>5, OnlyWrittenKept DEF OnlyWritten
  <2>6. ASSUME NEW c \in Change, ImportBaseMarks(c) \/ ImportBasePuts(c) \/ Compact(c) PROVE OnlyWritten'
    BY <2>5, <2>6 DEF ImportBaseMarks, MarkPublished, ImportBasePuts, Compact, EnvUnchanged, store, relays, engine
  <2>7. ASSUME NEW k \in Key, ImportEcho(k) PROVE OnlyWritten'
    BY <2>5, <2>7 DEF ImportEcho, MarkPublished, EnvUnchanged, relays, engine
  <2>8. ASSUME NEW i \in Inst, CloseSession(i) PROVE OnlyWritten'
    BY <2>5, <2>8 DEF CloseSession, store, relays, engine
  <2>9. CASE RestartSync \/ LogoutAsked \/ LogoutReads \/ LogoutClears \/ UNCHANGED vars
    BY <2>5, <2>9 DEF RestartSync, LogoutAsked, LogoutReads, LogoutClears, vars, store, relays, engine
  <2>10. CASE Crash
    BY <2>10 DEF Crash, store, relays, OnlyWritten, IdleTask, IdlePub, DownRel, Working
  <2> QED BY <2>1, <2>2, <2>3, <2>4, <2>6, <2>7, <2>8, <2>9, <2>10 DEF Next
<1> QED BY <1>1, <1>2, TypedAlways, PTL DEF Spec

-----------------------------------------------------------------------------
(* One event per obligation, for one instance and commits alone.           *)

\* What each step of a queue task leaves in its locals.
LEMMA TaskFields ==
  ASSUME Typed, NEW t \in Task, TaskWorks(t) \/ TaskStoreFails(t)
  PROVE  /\ \A u \in Task : u # t => task'[u] = task[u]
         /\ TaskNext(t) => \/ task'[t].pc = "leave"
                           \/ /\ task'[t].pc = "check" /\ task'[t].key \in queued
                              /\ task'[t].unsealed => task'[t].key \notin hasEvents
         /\ TaskCheck(t) => \/ task'[t].pc = "report" /\ task'[t].key = task[t].key
                            \/ /\ task'[t].pc = "read" /\ task'[t].key = task[t].key
                               /\ task'[t].unsealed = task[t].unsealed
                               /\ task[t].key \notin published
         /\ TaskRead(t) => /\ task'[t].key = task[t].key
                           /\ \/ task'[t].pc = "report"
                              \/ /\ task'[t].pc = "save" /\ task[t].key \in pending
                                 /\ \/ /\ events[task[t].key] # 0
                                       /\ task'[t].event = events[task[t].key]
                                    \/ /\ events[task[t].key] = 0 /\ task[t].unsealed
                                       /\ task'[t].event = signed[task[t].key] + 1
         /\ TaskSave(t) => /\ task'[t].pc = "send" /\ task'[t].sealed
                           /\ task'[t].key = task[t].key /\ task'[t].event = task[t].event
         /\ TaskAccepted(t) => /\ task'[t].pc = "mark" /\ task'[t].sealed = task[t].sealed
                               /\ task'[t].key = task[t].key /\ task'[t].event = task[t].event
         /\ TaskUnanswered(t) => /\ task'[t].pc = "report" /\ task'[t].key = task[t].key
                                 /\ task'[t].sealed = task[t].sealed
         /\ TaskMark(t) => task'[t].pc = "report" /\ task'[t].key = task[t].key /\ task'[t].ok
         /\ TaskStoreFails(t) => /\ task'[t].pc = "report" /\ task'[t].key = task[t].key
                                 /\ task'[t].sealed = task[t].sealed
         /\ TaskReport(t) \/ TaskLeave(t) \/ TaskLook(t) \/ TaskRelock(t) => task'[t].pc \notin Working
<1>0. task \in [Task -> TaskState] /\ task[t] \in TaskState
  BY DEF Typed, TypeOK
<1>1. \A u \in Task : u # t => task'[u] = task[u]
  BY <1>0 DEF TaskWorks, TaskNext, TaskLeave, TaskCheck, TaskRead, TaskSave, TaskAccepted, TaskUnanswered,
     TaskMark, TaskStoreFails, TaskReport, TaskLook, TaskRelock
<1>2. ASSUME TaskNext(t)
      PROVE  \/ task'[t].pc = "leave"
             \/ /\ task'[t].pc = "check" /\ task'[t].key \in queued
                /\ task'[t].unsealed => task'[t].key \notin hasEvents
  <2>1. ASSUME NEW k \in queued, NEW b \in BOOLEAN, b => k \notin hasEvents,
               task' = [task EXCEPT ![t] = [@ EXCEPT !.pc = "check", !.key = k, !.unsealed = b]]
        PROVE  /\ task'[t].pc = "check" /\ task'[t].key \in queued
               /\ task'[t].unsealed => task'[t].key \notin hasEvents
    BY <1>0, <2>1 DEF TaskState
  <2>2. CASE task' = [task EXCEPT ![t].pc = "leave"]
    BY <1>0, <2>2 DEF TaskState
  <2>3. CASE \E k \in queued :
               task' = [task EXCEPT ![t] = [@ EXCEPT !.pc = "check", !.key = k, !.unsealed = k \notin hasEvents]]
    <3>1. PICK k \in queued :
            task' = [task EXCEPT ![t] = [@ EXCEPT !.pc = "check", !.key = k, !.unsealed = k \notin hasEvents]]
      BY <2>3
    <3>2. (k \notin hasEvents) \in BOOLEAN
      OBVIOUS
    <3> QED BY <2>1, <3>1, <3>2, Zenon
  <2> QED BY <1>2, <2>2, <2>3, Zenon DEF TaskNext
<1>3. ASSUME TaskCheck(t)
      PROVE  \/ task'[t].pc = "report" /\ task'[t].key = task[t].key
             \/ /\ task'[t].pc = "read" /\ task'[t].key = task[t].key
                /\ task'[t].unsealed = task[t].unsealed
                /\ task[t].key \notin published
  <2>1. CASE task' = [task EXCEPT ![t] = [@ EXCEPT !.pc = "report", !.ok = TRUE]]
    BY <1>0, <2>1 DEF TaskState
  <2>2. CASE task[t].key \notin published /\ task' = [task EXCEPT ![t].pc = "read"]
    BY <1>0, <2>2 DEF TaskState
  <2> QED BY <1>3, <2>1, <2>2, Zenon DEF TaskCheck
<1>4. ASSUME TaskRead(t)
      PROVE  /\ task'[t].key = task[t].key
             /\ \/ task'[t].pc = "report"
                \/ /\ task'[t].pc = "save" /\ task[t].key \in pending
                   /\ \/ /\ events[task[t].key] # 0
                         /\ task'[t].event = events[task[t].key]
                      \/ /\ events[task[t].key] = 0 /\ task[t].unsealed
                         /\ task'[t].event = signed[task[t].key] + 1
  <2>1. ASSUME NEW n, task' = [task EXCEPT ![t] = [@ EXCEPT !.pc = "save", !.event = n]]
        PROVE  task'[t].key = task[t].key /\ task'[t].pc = "save" /\ task'[t].event = n
    BY <1>0, <2>1 DEF TaskState
  <2>2. CASE task' = [task EXCEPT ![t] = [@ EXCEPT !.pc = "report", !.ok = TRUE]]
    BY <1>0, <2>2 DEF TaskState
  <2>3. CASE task' = [task EXCEPT ![t].pc = "report"]
    BY <1>0, <2>3 DEF TaskState
  <2> QED BY <1>4, <2>1, <2>2, <2>3, Zenon DEF TaskRead
<1>5. TaskSave(t) => /\ task'[t].pc = "send" /\ task'[t].sealed
                     /\ task'[t].key = task[t].key /\ task'[t].event = task[t].event
  BY <1>0 DEF TaskSave, TaskState
<1>6. TaskAccepted(t) => /\ task'[t].pc = "mark" /\ task'[t].sealed = task[t].sealed
                         /\ task'[t].key = task[t].key /\ task'[t].event = task[t].event
  BY <1>0 DEF TaskAccepted, TaskState
<1>7. TaskUnanswered(t) => /\ task'[t].pc = "report" /\ task'[t].key = task[t].key
                           /\ task'[t].sealed = task[t].sealed
  BY <1>0 DEF TaskUnanswered, TaskState
<1>8. TaskMark(t) => task'[t].pc = "report" /\ task'[t].key = task[t].key /\ task'[t].ok
  BY <1>0 DEF TaskMark, TaskState
<1>9. TaskStoreFails(t) => /\ task'[t].pc = "report" /\ task'[t].key = task[t].key
                           /\ task'[t].sealed = task[t].sealed
  BY <1>0 DEF TaskStoreFails, TaskState
<1>10. TaskReport(t) => task'[t].pc \notin Working
  BY <1>0 DEF TaskReport, TaskState, IdleTask, Working
<1>11. TaskLeave(t) \/ TaskLook(t) \/ TaskRelock(t) => task'[t].pc \notin Working
  BY <1>0 DEF TaskLeave, TaskLook, TaskRelock, TaskState, IdleTask, Working
<1> QED BY <1>1, <1>2, <1>3, <1>4, <1>5, <1>6, <1>7, <1>8, <1>9, <1>10, <1>11

\* With one instance no two tasks are in the drain loop.
LEMMA Alone ==
  ASSUME Typed, OneQueueTask, MaxInst = 1, NEW t \in Task, NEW u \in Task, Draining(t), Draining(u)
  PROVE  t = u
<1>1. task[t].inst \in Inst /\ task[u].inst \in Inst
  BY DEF Typed, TaskShape, Draining
<1>2. task[t].inst = task[u].inst
  BY <1>1, OutboxConstants DEF Inst
<1> QED BY <1>2 DEF OneQueueTask

\* A row's published mark and a task's move away from the relays forget nothing.
LEMMA RowsStay ==
  ASSUME Typed, OneEventPerObligation, RowIsSent, TaskKnows,
         UNCHANGED relay, (logout' = "done") <=> (logout = "done"),
         UNCHANGED <<pending, events, published>> \/ \E k \in Key : MarkPublished(k),
         \A u \in Task : task'[u] = task[u] \/ task'[u].pc \notin {"read", "save", "send", "mark"}
  PROVE  OneEventPerObligation' /\ RowIsSent' /\ TaskKnows'
<1>0. events \in [Key -> Nat] /\ pending \subseteq Key
  BY DEF Typed, TypeOK, StoreOK
<1>1. /\ published \subseteq published'
      /\ \A k \in Key : \/ events'[k] = events[k] /\ (k \in pending' <=> k \in pending)
                        \/ events'[k] = 0 /\ k \notin pending' /\ k \in published'
  BY <1>0 DEF MarkPublished
<1>2. RowIsSent'
  BY <1>1 DEF RowIsSent
<1>3. \A u \in Task : HasSigned(u) \/ task[u].pc = "read" => task[u].key \in Key
  BY DEF Typed, TaskShape, Working, HasSigned
<1>4. TaskKnows'
  <2> SUFFICES ASSUME NEW u \in Task, task'[u] = task[u], HasSigned(u) \/ task[u].pc = "read"
               PROVE  /\ HasSigned(u)' => task'[u].event # 0 /\ relay'[task'[u].key] \subseteq {task'[u].event}
                      /\ HasSaved(u)' =>
                           /\ task'[u].sealed
                           /\ events'[task'[u].key] \in {0, task'[u].event}
                           /\ task'[u].key \in published' \/ events'[task'[u].key] # 0 \/ logout' = "done"
                           /\ logout' = "done" /\ task'[u].key \in pending' => events'[task'[u].key] # 0
                      /\ task'[u].pc = "read" /\ task'[u].unsealed /\ task'[u].key \in pending'
                           /\ events'[task'[u].key] = 0 => relay'[task'[u].key] = {}
    BY DEF TaskKnows, HasSigned, HasSaved
  <2>1. task[u].key \in Key
    BY <1>3
  <2> QED BY <1>1, <2>1 DEF TaskKnows, HasSigned, HasSaved
<1>5. OneEventPerObligation'
  BY DEF OneEventPerObligation
<1> QED BY <1>2, <1>4, <1>5

\* A queue task saves before it sends and signs only what was never sent.
LEMMA TaskKeepsRows ==
  ASSUME Typed, OneQueueTask, MaxInst = 1, OneEventPerObligation, RowIsSent, TaskKnows,
         NEW t \in Task, TaskWorks(t) \/ TaskStoreFails(t)
  PROVE  OneEventPerObligation' /\ RowIsSent' /\ TaskKnows'
<1>0. /\ events \in [Key -> Nat] /\ pending \subseteq Key /\ signed \in [Key -> Nat]
      /\ relay \in [Key -> SUBSET Nat]
  BY DEF Typed, TypeOK, StoreOK
<1>1. \A u \in Task : u # t => task'[u] = task[u]
  BY TaskFields
<1>2. UNCHANGED logout
  BY DEF TaskWorks, TaskNext, TaskLeave, TaskCheck, TaskRead, TaskSave, TaskAccepted, TaskUnanswered,
     TaskMark, TaskStoreFails, TaskReport, TaskLook, TaskRelock, TaskUnchanged
<1> DEFINE k == task[t].key
<1>3. task[t].pc \in Working => k \in Key
  BY DEF Typed, TaskShape
<1>4. \A u \in Task : Draining(t) /\ Draining(u) => u = t
  BY Alone
<1>5. CASE TaskCheck(t)
  <2>1. UNCHANGED <<relay, pending, events, published>>
    BY <1>5 DEF TaskCheck, store, relays
  <2>2. CASE task'[t].pc = "report"
    BY <1>1, <1>2, <2>1, <2>2, RowsStay
  <2>3. CASE task'[t].pc = "read" /\ task'[t].key = k /\ k \notin published
    <3>1. k \in Key
      BY <1>3, <1>5 DEF TaskCheck, Working
    <3>2. task'[t].key \in pending' /\ events'[task'[t].key] = 0 => relay'[task'[t].key] = {}
      BY <1>2, <2>1, <2>3, <3>1 DEF RowIsSent
    <3>3. TaskKnows'
      BY <1>1, <1>2, <2>1, <2>3, <3>2 DEF TaskKnows, HasSigned, HasSaved
    <3> QED BY <1>2, <2>1, <3>3 DEF RowIsSent, OneEventPerObligation
  <2> QED BY <1>5, <2>2, <2>3, TaskFields
<1>6. CASE TaskRead(t)
  <2>1. UNCHANGED <<relay, pending, events, published>>
    BY <1>6 DEF TaskRead, store, relays
  <2>2. CASE task'[t].pc = "report"
    BY <1>1, <1>2, <2>1, <2>2, RowsStay
  <2>3. CASE task'[t].pc = "save"
    <3>1. k \in Key /\ task[t].pc = "read"
      BY <1>3, <1>6 DEF TaskRead, Working
    <3>2. task'[t].key = k /\ task'[t].event # 0 /\ relay[k] \subseteq {task'[t].event}
      <4>1. task'[t].key = k /\ k \in pending
        BY <1>6, <2>3, TaskFields
      <4>2. CASE events[k] # 0 /\ task'[t].event = events[k]
        BY <3>1, <4>1, <4>2 DEF RowIsSent
      <4>3. CASE events[k] = 0 /\ task[t].unsealed /\ task'[t].event = signed[k] + 1
        <5>1. relay[k] = {}
          BY <3>1, <4>1, <4>3 DEF TaskKnows
        <5> QED BY <1>0, <3>1, <4>1, <4>3, <5>1
      <4> QED BY <1>6, <2>3, <4>2, <4>3, TaskFields
    <3>3. TaskKnows'
      BY <1>1, <1>2, <2>1, <2>3, <3>2 DEF TaskKnows, HasSigned, HasSaved
    <3> QED BY <1>2, <2>1, <3>3 DEF RowIsSent, OneEventPerObligation
  <2> QED BY <1>6, <2>2, <2>3, TaskFields
<1>7. CASE TaskSave(t)
  <2>1. k \in Key /\ HasSigned(t) /\ Draining(t)
    BY <1>3, <1>7 DEF TaskSave, Working, HasSigned, Draining
  <2>2. /\ UNCHANGED <<relay, published>> /\ pending' = pending \cup {k}
        /\ events' = [events EXCEPT ![k] = task[t].event]
    BY <1>7 DEF TaskSave, SavePending, relays
  <2>3. task[t].event # 0 /\ relay[k] \subseteq {task[t].event}
    BY <2>1 DEF TaskKnows
  <2>4. RowIsSent'
    BY <1>0, <1>2, <2>1, <2>2, <2>3 DEF RowIsSent
  <2>5. task'[t].pc = "send" /\ task'[t].sealed /\ task'[t].key = k /\ task'[t].event = task[t].event
    BY <1>7, TaskFields
  <2>6. \A u \in Task : u # t => ~HasSigned(u)' /\ task'[u].pc # "read"
    BY <1>1, <1>4, <2>1 DEF HasSigned, Draining
  <2>7. TaskKnows'
    BY <1>0, <2>1, <2>2, <2>3, <2>5, <2>6 DEF TaskKnows, HasSigned, HasSaved
  <2> QED BY <2>2, <2>4, <2>7 DEF OneEventPerObligation
<1>8. CASE TaskAccepted(t) \/ TaskUnanswered(t)
  <2>1. k \in Key /\ HasSigned(t) /\ HasSaved(t) /\ Draining(t)
    BY <1>3, <1>8 DEF TaskAccepted, TaskUnanswered, Working, HasSigned, HasSaved, Draining
  <2>2. /\ UNCHANGED <<published, pending, events>>
        /\ UNCHANGED relay \/ relay' = [relay EXCEPT ![k] = @ \cup {task[t].event}]
    BY <1>8 DEF TaskAccepted, TaskUnanswered, store
  <2>3. /\ task[t].event # 0 /\ relay[k] \subseteq {task[t].event}
        /\ events[k] \in {0, task[t].event} /\ (k \in published \/ events[k] # 0 \/ logout = "done")
        /\ task[t].sealed /\ (logout = "done" /\ k \in pending => events[k] # 0)
    BY <2>1 DEF TaskKnows
  <2>4. relay'[k] \subseteq {task[t].event} /\ \A q \in Key : q # k => relay'[q] = relay[q]
    BY <1>0, <2>1, <2>2, <2>3
  <2>5. RowIsSent'
    BY <1>2, <2>1, <2>2, <2>3, <2>4 DEF RowIsSent
  <2>6. OneEventPerObligation'
    BY <2>1, <2>4 DEF OneEventPerObligation
  <2>7. \/ task'[t].pc = "report"
        \/ /\ task'[t].pc = "mark" /\ task'[t].sealed = task[t].sealed
           /\ task'[t].key = k /\ task'[t].event = task[t].event
    BY <1>8, TaskFields
  <2>8. \A u \in Task : u # t => ~HasSigned(u)' /\ task'[u].pc # "read"
    BY <1>1, <1>4, <2>1 DEF HasSigned, Draining
  <2>9. TaskKnows'
    BY <1>2, <2>1, <2>2, <2>3, <2>4, <2>7, <2>8 DEF TaskKnows, HasSigned, HasSaved
  <2> QED BY <2>5, <2>6, <2>9
<1>9. CASE TaskMark(t)
  <2>1. UNCHANGED relay /\ MarkPublished(k) /\ k \in Key
    BY <1>3, <1>9 DEF TaskMark, relays, Working
  <2>2. task'[t].pc = "report"
    BY <1>9, TaskFields
  <2> QED BY <1>1, <1>2, <2>1, <2>2, RowsStay
<1>10. CASE TaskNext(t) \/ TaskStoreFails(t) \/ TaskReport(t) \/ TaskLeave(t) \/ TaskLook(t) \/ TaskRelock(t)
  <2>1. UNCHANGED <<relay, pending, events, published>>
    BY <1>10 DEF TaskNext, TaskStoreFails, TaskReport, TaskLeave, TaskLook, TaskRelock, store, relays
  <2>2. task'[t].pc \notin {"read", "save", "send", "mark"}
    BY <1>10, TaskFields DEF Working
  <2> QED BY <1>1, <1>2, <2>1, <2>2, RowsStay
<1> QED BY <1>5, <1>6, <1>7, <1>8, <1>9, <1>10 DEF TaskWorks

\* A queue task does not take what is saved and sent for unsigned.
LEMMA TaskKeepsNotAgain ==
  ASSUME Typed, OneQueueTask, MaxInst = 1, TaskKnows, ListedOnce, logout # "done",
         NEW t \in Task, TaskWorks(t) \/ TaskStoreFails(t), NEW k \in Key, NotAgain(k)
  PROVE  NotAgain(k)'
<1>0. /\ events \in [Key -> Nat] /\ pending \subseteq Key /\ relay \in [Key -> SUBSET Nat]
      /\ queued \subseteq Key /\ hasEvents \subseteq Key
  BY DEF Typed, TypeOK, StoreOK, ProcessOK
<1>1. \A u \in Task : u # t => task'[u] = task[u]
  BY TaskFields
<1>2. UNCHANGED rel
  BY DEF TaskWorks, TaskNext, TaskLeave, TaskCheck, TaskRead, TaskSave, TaskAccepted, TaskUnanswered,
     TaskMark, TaskStoreFails, TaskReport, TaskLook, TaskRelock, TaskUnchanged
<1>3. Unoffered(k)' = Unoffered(k)
  BY <1>2 DEF Unoffered
<1>4. \A u \in Task : Draining(t) /\ Draining(u) => u = t
  BY Alone
<1>5. \A u \in Task : WillTell(u, k) \/ MaySign(u, k) => Draining(u)
  BY DEF WillTell, MaySign, WorksOn, HasSaved, Draining, Working
<1>6. \A u \in Task : u # t => /\ WorksOn(u, k)' = WorksOn(u, k) /\ MaySign(u, k)' = MaySign(u, k)
                               /\ WillTell(u, k)' = WillTell(u, k)
  BY <1>1 DEF WorksOn, MaySign, WillTell, HasSaved
<1>7. ASSUME UNCHANGED <<relay, queued, hasEvents>>,
             k \in pending' \cup published', Untouched(k) => events'[k] = 0,
             WorksOn(t, k)' => WorksOn(t, k) \/ k \in queued,
             WillTell(t, k) => WillTell(t, k)',
             MaySign(t, k)' => MaySign(t, k) \/ relay[k] = {}
      PROVE  NotAgain(k)'
  <2>1. Untouched(k) => Untouched(k)'
    BY <1>6, <1>7 DEF Untouched
  <2>2. ASSUME NEW u \in Task, MaySign(u, k)' PROVE relay'[k] = {}
    BY <1>6, <1>7, <2>2 DEF NotAgain
  <2>3. k \in queued' \ hasEvents' /\ relay'[k] # {} => \E u \in Task : WillTell(u, k)'
    BY <1>6, <1>7 DEF NotAgain
  <2> QED BY <1>3, <1>7, <2>1, <2>2, <2>3 DEF NotAgain
<1>8. WorksOn(t, k) => Draining(t)
  BY DEF WorksOn, Working, Draining
<1>9. CASE TaskNext(t)
  <2>1. UNCHANGED <<relay, queued, hasEvents, pending, published, events>> /\ task[t].pc = "next"
    BY <1>9 DEF TaskNext, store, relays, engine
  <2>2. ~WorksOn(t, k) /\ ~WillTell(t, k) /\ Draining(t)
    BY <2>1 DEF WorksOn, WillTell, Working, Draining
  <2>3. WorksOn(t, k)' => k \in queued
    BY <1>9, TaskFields DEF WorksOn, Working
  <2>4. MaySign(t, k)' => k \in queued \ hasEvents
    BY <1>9, TaskFields DEF MaySign, WorksOn, Working
  <2>5. \A u \in Task : ~WillTell(u, k)
    BY <1>4, <1>5, <2>2
  <2>6. MaySign(t, k)' => relay[k] = {}
    BY <2>4, <2>5 DEF NotAgain
  <2> QED BY <1>7, <2>1, <2>2, <2>3, <2>6 DEF NotAgain, Untouched
<1>10. CASE TaskCheck(t) \/ TaskRead(t) \/ TaskStoreFails(t)
  <2>1. UNCHANGED <<relay, queued, hasEvents, pending, published, events>> /\ task[t].pc \in Working
    BY <1>10 DEF TaskCheck, TaskRead, TaskStoreFails, store, relays, engine, Working
  <2>2. task'[t].key = task[t].key
    BY <1>10, TaskFields
  <2>3. WorksOn(t, k)' => WorksOn(t, k)
    BY <2>1, <2>2 DEF WorksOn
  <2>4. MaySign(t, k)' => MaySign(t, k)
    BY <1>10, <2>1, <2>2, <2>3, TaskFields DEF MaySign, TaskCheck, TaskRead, TaskStoreFails
  <2>5. WillTell(t, k) => WillTell(t, k)'
    <3> SUFFICES ASSUME WillTell(t, k) PROVE WillTell(t, k)'
      OBVIOUS
    <3>1. task[t].pc = "mark" /\ TaskStoreFails(t)
      BY <1>10 DEF WillTell, HasSaved, TaskCheck, TaskRead, TaskStoreFails
    <3>2. task[t].sealed
      BY <3>1 DEF TaskKnows, HasSaved
    <3> QED BY <2>2, <3>1, <3>2, TaskFields DEF WillTell, WorksOn, Working
  <2> QED BY <1>7, <2>1, <2>3, <2>4, <2>5 DEF NotAgain, Untouched
<1>11. CASE TaskSave(t) \/ TaskMark(t)
  <2>1. /\ UNCHANGED <<relay, queued, hasEvents>> /\ task[t].pc \in Working
        /\ SavePending(task[t].key, task[t].event) \/ MarkPublished(task[t].key)
    BY <1>11 DEF TaskSave, TaskMark, relays, engine, Working
  <2>2. /\ k \in pending' \cup published'
        /\ k # task[t].key => events'[k] = events[k]
    BY <1>0, <2>1 DEF SavePending, MarkPublished, NotAgain
  <2>3. task'[t].key = task[t].key
    BY <1>11, TaskFields
  <2>4. ~MaySign(t, k)' /\ (WillTell(t, k) => WillTell(t, k)')
    BY <1>11, <2>3, TaskFields DEF MaySign, WillTell, HasSaved, WorksOn, Working
  <2>5. Untouched(k) => events'[k] = 0
    BY <2>1, <2>2 DEF Untouched, WorksOn
  <2> QED BY <1>7, <2>1, <2>2, <2>3, <2>4, <2>5 DEF WorksOn
<1>12. CASE TaskAccepted(t) \/ TaskUnanswered(t)
  <2>1. /\ UNCHANGED <<queued, hasEvents, pending, published, events>> /\ HasSaved(t) /\ task[t].pc = "send"
        /\ \A q \in Key : q # task[t].key => relay'[q] = relay[q]
    BY <1>0, <1>12 DEF TaskAccepted, TaskUnanswered, store, engine, HasSaved
  <2>2. task'[t].key = task[t].key /\ task'[t].pc \in {"mark", "report"} /\ task'[t].sealed
    BY <1>12, <2>1, TaskFields DEF TaskKnows
  <2>3. Draining(t) /\ WorksOn(t, task[t].key)
    BY <2>1 DEF Draining, WorksOn, Working
  <2>4. \A u \in Task : ~MaySign(u, k)'
    BY <1>4, <1>5, <1>6, <2>2, <2>3 DEF MaySign
  <2>5. CASE k = task[t].key
    <3>1. ~Unoffered(k)
      BY <2>3, <2>5 DEF NotAgain, Untouched
    <3>2. WillTell(t, k)'
      BY <2>2, <2>5 DEF WillTell, WorksOn, Working, HasSaved
    <3> QED BY <1>3, <2>1, <2>4, <3>1, <3>2 DEF NotAgain
  <2>6. CASE k # task[t].key
    <3>1. ~WorksOn(t, k) /\ ~WorksOn(t, k)' /\ ~WillTell(t, k)
      BY <2>2, <2>6 DEF WorksOn, WillTell
    <3>2. Untouched(k) => Untouched(k)'
      BY <1>6, <2>1, <2>6, <3>1 DEF Untouched
    <3>3. k \in queued' \ hasEvents' /\ relay'[k] # {} => \E u \in Task : WillTell(u, k)'
      BY <1>6, <2>1, <2>6, <3>1 DEF NotAgain
    <3> QED BY <1>3, <2>1, <2>4, <3>2, <3>3 DEF NotAgain
  <2> QED BY <2>5, <2>6
<1>13. CASE TaskReport(t)
  <2>0. task[t].pc = "report" /\ Draining(t) /\ task[t].inst \in Inst
    BY <1>13 DEF TaskReport, Draining, Typed, TaskShape
  <2>1. UNCHANGED <<relay, pending, published, events>>
    BY <1>13 DEF TaskReport, store, relays
  <2>2. task'[t].pc \notin Working
    BY <1>13, TaskFields
  <2>3. ~WorksOn(t, k)' /\ ~MaySign(t, k)'
    BY <2>2 DEF WorksOn, MaySign
  <2>4. queued' \subseteq queued
    BY <1>13 DEF TaskReport, Report, engine
  <2>5. Untouched(k) => Untouched(k)'
    BY <1>6, <2>1, <2>3, <2>4 DEF Untouched
  <2>6. \A u \in Task : MaySign(u, k)' => relay'[k] = {}
    BY <1>6, <2>1, <2>3 DEF NotAgain
  <2>7. ASSUME k \in queued' \ hasEvents', relay'[k] # {} PROVE FALSE
    <3>1. ~Unoffered(k)
      BY <2>1, <2>7 DEF NotAgain, Untouched
    <3>2. SessionOpen(task[t].inst)
      <4>1. rel[task[t].inst].pc # "down"
        BY <2>0, <3>1 DEF Unoffered
      <4> QED BY <2>0, <4>1 DEF ListedOnce, SessionOpen
    <3>3. Report(task[t].key, task[t].ok, task[t].sealed)
      BY <1>13, <3>2 DEF TaskReport
    <3>4. k \in queued \ hasEvents
      BY <2>4, <2>7, <3>3 DEF Report
    <3>5. WillTell(t, k)
      <4>1. PICK u \in Task : WillTell(u, k)
        BY <2>1, <2>7, <3>4 DEF NotAgain
      <4> QED BY <1>4, <1>5, <2>0, <4>1
    <3>6. task[t].key = k /\ (task[t].ok \/ task[t].sealed)
      BY <2>0, <3>5 DEF WillTell, WorksOn, HasSaved
    <3> QED BY <2>7, <3>3, <3>4, <3>6 DEF Report
  <2> QED BY <1>3, <2>1, <2>5, <2>6, <2>7 DEF NotAgain
<1>14. CASE TaskLeave(t) \/ TaskLook(t) \/ TaskRelock(t)
  <2>1. UNCHANGED <<relay, queued, hasEvents, pending, published, events>> /\ task[t].pc \notin Working
    BY <1>14 DEF TaskLeave, TaskLook, TaskRelock, store, relays, engine, Working
  <2>2. task'[t].pc \notin Working
    BY <1>14, TaskFields
  <2> QED BY <1>7, <2>1, <2>2 DEF NotAgain, Untouched, WorksOn, WillTell, MaySign
<1> QED BY <1>9, <1>10, <1>11, <1>12, <1>13, <1>14 DEF TaskWorks

\* Nor does it make a row of its own.
LEMMA TaskKeepsRowless ==
  ASSUME Typed, NEW t \in Task, TaskWorks(t) \/ TaskStoreFails(t), NEW k \in Key, Rowless(k)
  PROVE  Rowless(k)'
<1>0. /\ events \in [Key -> Nat] /\ pending \subseteq Key /\ relay \in [Key -> SUBSET Nat]
  BY DEF Typed, TypeOK, StoreOK
<1>1. k \notin queued /\ ~WorksOn(t, k)
  BY DEF Rowless, Untouched
<1>2. \A u \in Task : ~WorksOn(u, k)'
  <2>1. \A u \in Task : u # t => ~WorksOn(u, k)'
    BY TaskFields DEF WorksOn, Rowless, Untouched
  <2>2. WorksOn(t, k)' => WorksOn(t, k) \/ k \in queued
    BY TaskEffects DEF WorksOn
  <2> QED BY <1>1, <2>1, <2>2
<1>3. UNCHANGED rel /\ (k \in queued' => k \in queued)
  BY DEF TaskWorks, TaskNext, TaskLeave, TaskCheck, TaskRead, TaskSave, TaskAccepted, TaskUnanswered,
     TaskMark, TaskStoreFails, TaskReport, Report, TaskLook, TaskRelock, TaskUnchanged, engine
<1>4. relay'[k] = relay[k]
  BY <1>0, <1>1 DEF TaskWorks, TaskNext, TaskLeave, TaskCheck, TaskRead, TaskSave, TaskAccepted, TaskUnanswered,
     TaskMark, TaskStoreFails, TaskReport, TaskLook, TaskRelock, relays, WorksOn, Working
<1>5. events'[k] = events[k] /\ (k \in pending' => k \in pending)
  <2>1. CASE TaskSave(t) \/ TaskMark(t)
    <3>1. task[t].key # k
      BY <1>1, <2>1 DEF TaskSave, TaskMark, WorksOn, Working
    <3> QED BY <1>0, <2>1, <3>1 DEF TaskSave, TaskMark, SavePending, MarkPublished
  <2>2. CASE UNCHANGED store
    BY <2>2 DEF store
  <2> QED BY <2>1, <2>2 DEF TaskWorks, TaskNext, TaskLeave, TaskCheck, TaskRead, TaskAccepted, TaskUnanswered,
     TaskStoreFails, TaskReport, TaskLook, TaskRelock
<1> QED BY <1>2, <1>3, <1>4, <1>5 DEF Rowless, Untouched

\* A listing has one offer of an obligation.
LEMMA RowsOnce ==
  /\ \A b \in BOOLEAN : \A o \in Rows(b) : IsSpace(o[1]) = b
  /\ \A b \in BOOLEAN : \A c \in BOOLEAN : \A o \in Rows(b) : \A q \in Rows(c) : o[1] = q[1] => o = q
<1>1. ASSUME NEW b \in BOOLEAN, NEW o \in Rows(b)
      PROVE  \E k \in pending : IsSpace(k) = b /\ o = <<k, events[k] # 0>>
  BY <1>1, Zenon DEF Rows
<1>2. \A b \in BOOLEAN : \A o \in Rows(b) : o = <<o[1], events[o[1]] # 0>> /\ IsSpace(o[1]) = b
  <2> SUFFICES ASSUME NEW b \in BOOLEAN, NEW o \in Rows(b)
               PROVE  o = <<o[1], events[o[1]] # 0>> /\ IsSpace(o[1]) = b
    OBVIOUS
  <2>1. PICK k \in pending : IsSpace(k) = b /\ o = <<k, events[k] # 0>>
    BY <1>1
  <2>2. o[1] = k
    BY <2>1
  <2> QED BY <2>1, <2>2, Zenon
<1> QED BY <1>2, Zenon

\* What each step of start() and of a release does to its list.
LEMMA RelFields ==
  ASSUME Typed, NEW i \in Inst, RelWorks(i) \/ WalkEnds(i)
  PROVE  /\ \A j \in Inst : j # i => rel'[j] = rel[j]
         /\ StartOpens(i) => rel[i].pc = "down" /\ rel'[i].pc = "list" /\ rel'[i].list = rel[i].list
         /\ RelList(i) => \/ rel[i].pc = "list" /\ rel'[i].pc = "offer" /\ rel'[i].list = Rows(FALSE)
                          \/ rel[i].pc = "relist" /\ rel'[i].pc = "spaceOffer" /\ rel'[i].list = Rows(TRUE)
         /\ RelOffer(i) => \/ rel'[i].list = {} /\ rel'[i].pc \in {"walk", "up"} /\ UNCHANGED engine
                           \/ \E o \in rel[i].list :
                                /\ Enqueue(o) /\ rel'[i].list = rel[i].list \ {o}
                                /\ rel'[i].pc = IF o[1] \in queued THEN rel[i].pc
                                                ELSE IF rel[i].pc = "offer" THEN "ensure" ELSE "spaceEnsure"
         /\ RelEnsure(i) => /\ rel'[i].list = rel[i].list
                            /\ \/ rel[i].pc = "ensure" /\ rel'[i].pc = "offer"
                               \/ rel[i].pc = "spaceEnsure" /\ rel'[i].pc = "spaceOffer"
         /\ WalkEnds(i) \/ RelSettle(i) \/ RelHeld(i) \/ RelMark(i) \/ RelDrop(i) =>
              /\ {rel[i].pc, rel'[i].pc} \subseteq {"walk", "up", "settle", "held", "mark", "drop", "relist"}
              /\ rel'[i].list \subseteq rel[i].list \/ rel'[i].list = Rows(FALSE) \cup Rows(TRUE)
<1>0. rel \in [Inst -> RelState] /\ rel[i] \in RelState
  BY DEF Typed, TypeOK
<1>1. \A j \in Inst : j # i => rel'[j] = rel[j]
  <2>1. \E r : rel' = [rel EXCEPT ![i] = r]
    BY DEF RelWorks, StartOpens, RelList, RelOffer, RelEnsure, RelSettle, RelHeld, RelMark, RelDrop, WalkEnds
  <2> QED BY <1>0, <2>1
<1>2. StartOpens(i) => rel[i].pc = "down" /\ rel'[i].pc = "list" /\ rel'[i].list = rel[i].list
  BY <1>0 DEF StartOpens, RelState
<1>3. ASSUME RelList(i)
      PROVE  \/ rel[i].pc = "list" /\ rel'[i].pc = "offer" /\ rel'[i].list = Rows(FALSE)
             \/ rel[i].pc = "relist" /\ rel'[i].pc = "spaceOffer" /\ rel'[i].list = Rows(TRUE)
  <2>1. ASSUME NEW q, NEW W, rel' = [rel EXCEPT ![i] = [@ EXCEPT !.pc = q, !.list = W]]
        PROVE  rel'[i].pc = q /\ rel'[i].list = W
    BY <1>0, <2>1 DEF RelState
  <2> QED BY <1>3, <2>1, Zenon DEF RelList
<1>4. ASSUME RelOffer(i)
      PROVE  \/ rel'[i].list = {} /\ rel'[i].pc \in {"walk", "up"} /\ UNCHANGED engine
             \/ \E o \in rel[i].list :
                  /\ Enqueue(o) /\ rel'[i].list = rel[i].list \ {o}
                  /\ rel'[i].pc = IF o[1] \in queued THEN rel[i].pc
                                  ELSE IF rel[i].pc = "offer" THEN "ensure" ELSE "spaceEnsure"
  <2>1. ASSUME NEW q, NEW W, rel' = [rel EXCEPT ![i] = [@ EXCEPT !.list = W, !.pc = q]]
        PROVE  rel'[i].pc = q /\ rel'[i].list = W
    BY <1>0, <2>1 DEF RelState
  <2>2. CASE /\ rel' = [rel EXCEPT ![i] =
                    [@ EXCEPT !.list = {}, !.pc = IF rel[i].pc = "offer" THEN "walk" ELSE "up"]]
             /\ UNCHANGED engine
    BY <2>1, <2>2
  <2>3. ASSUME NEW o \in rel[i].list, Enqueue(o),
               rel' = [rel EXCEPT ![i] =
                       [@ EXCEPT !.list = rel[i].list \ {o},
                                 !.pc = IF o[1] \in queued THEN rel[i].pc
                                        ELSE IF rel[i].pc = "offer" THEN "ensure"
                                        ELSE "spaceEnsure"]]
        PROVE  /\ rel'[i].list = rel[i].list \ {o}
               /\ rel'[i].pc = IF o[1] \in queued THEN rel[i].pc
                               ELSE IF rel[i].pc = "offer" THEN "ensure" ELSE "spaceEnsure"
    BY <2>1, <2>3, Zenon
  <2> QED BY <1>4, <2>2, <2>3, Zenon DEF RelOffer
<1>5. RelEnsure(i) => /\ rel'[i].list = rel[i].list
                      /\ \/ rel[i].pc = "ensure" /\ rel'[i].pc = "offer"
                         \/ rel[i].pc = "spaceEnsure" /\ rel'[i].pc = "spaceOffer"
  BY <1>0 DEF RelEnsure, RelState
<1> DEFINE Later == {"walk", "up", "settle", "held", "mark", "drop", "relist"}
<1>6. WalkEnds(i) => {rel[i].pc, rel'[i].pc} \subseteq Later /\ rel'[i].list \subseteq rel[i].list
  BY <1>0 DEF WalkEnds, RelState
<1>7. ASSUME RelSettle(i)
      PROVE  {rel[i].pc, rel'[i].pc} \subseteq Later /\ rel'[i].list = Rows(FALSE) \cup Rows(TRUE)
  <2>1. ASSUME NEW W, rel' = [rel EXCEPT ![i] = [@ EXCEPT !.pc = "held", !.list = W]]
        PROVE  rel'[i].pc = "held" /\ rel'[i].list = W
    BY <1>0, <2>1 DEF RelState
  <2> QED BY <1>7, <2>1 DEF RelSettle
<1>8. ASSUME RelHeld(i)
      PROVE  {rel[i].pc, rel'[i].pc} \subseteq Later /\ rel'[i].list \subseteq rel[i].list
  <2>1. CASE rel' = [rel EXCEPT ![i].pc = "relist"]
    BY <1>0, <1>8, <2>1 DEF RelHeld, RelState
  <2>2. ASSUME NEW e, rel' = [rel EXCEPT ![i].list = rel[i].list \ {e}]
        PROVE  rel'[i].pc = rel[i].pc /\ rel'[i].list \subseteq rel[i].list
    BY <1>0, <2>2 DEF RelState
  <2>3. ASSUME NEW e, rel' = [rel EXCEPT ![i] =
                          [@ EXCEPT !.pc = "mark", !.key = e[1], !.list = rel[i].list \ {e}]]
        PROVE  rel'[i].pc = "mark" /\ rel'[i].list \subseteq rel[i].list
    BY <1>0, <2>3 DEF RelState
  <2>4. rel[i].pc = "held"
    BY <1>8 DEF RelHeld
  <2>5. \/ rel' = [rel EXCEPT ![i].pc = "relist"]
        \/ rel'[i].pc = rel[i].pc /\ rel'[i].list \subseteq rel[i].list
        \/ rel'[i].pc = "mark" /\ rel'[i].list \subseteq rel[i].list
    BY <1>8, <2>2, <2>3, Zenon DEF RelHeld
  <2> QED BY <2>1, <2>4, <2>5
<1>9. RelMark(i) => {rel[i].pc, rel'[i].pc} \subseteq Later /\ rel'[i].list \subseteq rel[i].list
  BY <1>0 DEF RelMark, RelState
<1>10. RelDrop(i) => {rel[i].pc, rel'[i].pc} \subseteq Later /\ rel'[i].list \subseteq rel[i].list
  BY <1>0 DEF RelDrop, RelState
<1> QED BY <1>1, <1>2, <1>3, <1>4, <1>5, <1>6, <1>7, <1>8, <1>9, <1>10

\* Every list has one offer of an obligation, a release's only space ones.
LEMMA RelKeepsListed ==
  ASSUME Typed, ListedOnce, NEW i \in Inst, RelWorks(i) \/ WalkEnds(i), MaxInst = 1
  PROVE  ListedOnce'
<1>01. UNCHANGED logout
  BY DEF RelWorks, StartOpens, RelList, RelOffer, RelEnsure, RelSettle, RelHeld, RelMark, RelDrop, WalkEnds,
     RelUnchanged
<1>02. \A j \in Inst : j = i
  BY OutboxConstants DEF Inst
<1>0. \A j \in Inst : j = i /\ logout' = logout
  BY <1>01, <1>02
<1>1. /\ \A o, q \in rel[i].list : o[1] = q[1] => o = q
      /\ rel[i].pc \in {"spaceOffer", "spaceEnsure"} => \A o \in rel[i].list : IsSpace(o[1])
      /\ rel[i].pc # "down" => owner = i \/ logout = "done"
  BY DEF ListedOnce
<1> SUFFICES /\ \A o, q \in rel'[i].list : o[1] = q[1] => o = q
             /\ rel'[i].pc \in {"spaceOffer", "spaceEnsure"} => \A o \in rel'[i].list : IsSpace(o[1])
             /\ rel'[i].pc # "down" => owner' = i \/ logout = "done"
  BY <1>0 DEF ListedOnce
<1>2. CASE StartOpens(i)
  BY <1>01, <1>1, <1>2, RelFields DEF StartOpens, OpenSession
<1>3. CASE RelList(i)
  <2>1. owner' = owner
    BY <1>3 DEF RelList, lifecycle
  <2>2. /\ \A o, q \in Rows(TRUE) : o[1] = q[1] => o = q
        /\ \A o, q \in Rows(FALSE) : o[1] = q[1] => o = q
    BY RowsOnce, Zenon
  <2>3. \A o \in Rows(TRUE) : IsSpace(o[1])
    BY RowsOnce, Zenon
  <2>4. CASE rel[i].pc = "list" /\ rel'[i].pc = "offer" /\ rel'[i].list = Rows(FALSE)
    <3>1. owner' = i \/ logout = "done"
      BY <1>1, <2>1, <2>4
    <3>2. \A o, q \in rel'[i].list : o[1] = q[1] => o = q
      <4> SUFFICES ASSUME NEW o \in rel'[i].list, NEW q \in rel'[i].list, o[1] = q[1] PROVE o = q
        OBVIOUS
      <4>1. o \in Rows(FALSE) /\ q \in Rows(FALSE)
        BY <2>4, Zenon
      <4> QED BY <2>2, <4>1, Zenon
    <3>3. rel'[i].pc \notin {"spaceOffer", "spaceEnsure"}
      BY <2>4
    <3> QED BY <3>1, <3>2, <3>3
  <2>5. CASE rel[i].pc = "relist" /\ rel'[i].pc = "spaceOffer" /\ rel'[i].list = Rows(TRUE)
    <3>1. owner' = i \/ logout = "done"
      BY <1>1, <2>1, <2>5
    <3>2. \A o, q \in rel'[i].list : o[1] = q[1] => o = q
      <4> SUFFICES ASSUME NEW o \in rel'[i].list, NEW q \in rel'[i].list, o[1] = q[1] PROVE o = q
        OBVIOUS
      <4>1. o \in Rows(TRUE) /\ q \in Rows(TRUE)
        BY <2>5, Zenon
      <4> QED BY <2>2, <4>1, Zenon
    <3>3. \A o \in rel'[i].list : IsSpace(o[1])
      BY <2>3, <2>5, Zenon
    <3> QED BY <3>1, <3>2, <3>3
  <2> QED BY <1>3, <2>4, <2>5, RelFields
<1>4. CASE RelOffer(i) \/ RelEnsure(i)
  <2>1. owner' = owner /\ rel[i].pc # "down"
    BY <1>4 DEF RelOffer, RelEnsure, lifecycle
  <2>2. rel'[i].list \subseteq rel[i].list
    BY <1>4, RelFields
  <2>3. rel'[i].pc \in {"spaceOffer", "spaceEnsure"} => rel[i].pc \in {"spaceOffer", "spaceEnsure"}
    BY <1>4, RelFields DEF RelOffer
  <2> QED BY <1>01, <1>1, <2>1, <2>2, <2>3
<1>5. CASE WalkEnds(i) \/ RelSettle(i) \/ RelHeld(i) \/ RelMark(i) \/ RelDrop(i)
  <2>1. owner' = owner
    BY <1>5 DEF WalkEnds, RelSettle, RelHeld, RelMark, RelDrop, RelUnchanged, lifecycle
  <2>2. rel[i].pc # "down" /\ rel'[i].pc \notin {"spaceOffer", "spaceEnsure"}
    BY <1>5, RelFields
  <2>3. rel'[i].list \subseteq rel[i].list \/ rel'[i].list = Rows(FALSE) \cup Rows(TRUE)
    BY <1>5, RelFields
  <2> QED BY <1>01, <1>1, <2>1, <2>2, <2>3, RowsOnce
<1> QED BY <1>2, <1>3, <1>4, <1>5 DEF RelWorks

\* start() and a release offer an obligation as saved once it may be sent.
LEMMA RelKeepsNotAgain ==
  ASSUME Typed, MaxInst = 1, ListedOnce, NEW i \in Inst, RelWorks(i) \/ WalkEnds(i),
         NEW k \in Key, ~IsSpace(k), NotAgain(k)
  PROVE  NotAgain(k)'
<1>0. /\ events \in [Key -> Nat] /\ task \in [Task -> TaskState]
      /\ \A j \in Inst : j = i
  BY OutboxConstants DEF Typed, TypeOK, StoreOK, Inst
<1>1. UNCHANGED relay
  BY DEF RelWorks, StartOpens, RelList, RelOffer, RelEnsure, RelSettle, RelHeld, RelMark,
     RelDrop, WalkEnds, RelUnchanged, relays
<1>2. \A u \in Task : task'[u] = task[u] \/ RelEnsure(i)
  BY DEF RelWorks, StartOpens, RelList, RelOffer, RelSettle, RelHeld, RelMark, RelDrop, WalkEnds
<1>3. \A u \in Task : /\ WorksOn(u, k)' => WorksOn(u, k)
                      /\ MaySign(u, k)' => MaySign(u, k)
  <2>1. CASE RelEnsure(i)
    <3>1. \A u \in Task : task'[u] = task[u] \/ task'[u].pc = "next"
      BY <1>0, <2>1, EnsureEffects DEF RelEnsure
    <3> QED BY <3>1 DEF WorksOn, MaySign, Working
  <2> QED BY <1>2, <2>1 DEF WorksOn, MaySign
<1>4. \A u \in Task : WillTell(u, k) => WillTell(u, k)'
  <2>1. CASE RelEnsure(i)
    <3>1. \A u \in Task : task'[u] = task[u] \/ task[u].pc = "idle"
      BY <1>0, <2>1 DEF RelEnsure, EnsureQueue
    <3> QED BY <3>1 DEF WillTell, WorksOn, Working, HasSaved
  <2> QED BY <1>2, <2>1 DEF WillTell, WorksOn, HasSaved
<1>5. ASSUME Unoffered(k)' => Unoffered(k),
             k \in pending' \cup published', events'[k] \in {0, events[k]},
             k \in queued' => k \in queued,
             k \in queued' \ hasEvents' => k \in queued \ hasEvents
      PROVE  NotAgain(k)'
  BY <1>1, <1>3, <1>4, <1>5 DEF NotAgain, Untouched
<1>6. CASE StartOpens(i)
  <2>1. Unoffered(k) /\ queued' = {} /\ UNCHANGED <<pending, published, events>>
    BY <1>6 DEF Unoffered, StartOpens, OpenSession, store
  <2> QED BY <1>5, <2>1 DEF NotAgain
<1>7. CASE RelList(i)
  <2>1. UNCHANGED <<queued, hasEvents, pending, published, events>>
    BY <1>7 DEF RelList, store, engine
  <2>2. Unoffered(k)' => Unoffered(k)
    BY <1>0, <1>7, RelFields DEF Unoffered
  <2> QED BY <1>5, <2>1, <2>2 DEF NotAgain
<1>8. CASE RelOffer(i)
  <2>1. UNCHANGED <<pending, published, events>> /\ rel[i].pc \in {"offer", "spaceOffer"}
    BY <1>8 DEF RelOffer, store
  <2>2. CASE rel'[i].pc \in {"walk", "up"} /\ UNCHANGED engine
    <3>1. ~Unoffered(k)'
      BY <1>0, <2>2 DEF Unoffered
    <3> QED BY <1>5, <2>1, <2>2, <3>1 DEF NotAgain, engine
  <2>3. ASSUME NEW o \in rel[i].list, Enqueue(o), rel'[i].list = rel[i].list \ {o},
               rel'[i].pc = IF o[1] \in queued THEN rel[i].pc
                            ELSE IF rel[i].pc = "offer" THEN "ensure" ELSE "spaceEnsure"
        PROVE  NotAgain(k)'
    <3>1. Unoffered(k)' => Unoffered(k)
      BY <1>0, <2>1, <2>3 DEF Unoffered
    <3>2. CASE o[1] # k
      <4>1. k \in queued' => k \in queued
        BY <2>3, <3>2 DEF Enqueue
      <4>2. k \in queued' \ hasEvents' => k \in queued \ hasEvents
        BY <2>3, <3>2 DEF Enqueue
      <4> QED BY <1>5, <2>1, <3>1, <4>1, <4>2 DEF NotAgain
    <3>3. CASE o[1] = k
      <4>1. rel[i].pc = "offer"
        BY <2>1, <2>3, <3>3 DEF ListedOnce
      <4>2. Untouched(k)
        BY <2>3, <3>3, <4>1 DEF Unoffered, NotAgain
      <4>3. \A q \in rel'[i].list : q[1] # k
        BY <2>3, <3>3 DEF ListedOnce
      <4>4. ~Unoffered(k)'
        BY <1>0, <2>3, <4>1, <4>3 DEF Unoffered
      <4> QED BY <1>1, <1>3, <2>1, <4>2, <4>4 DEF NotAgain, Untouched, MaySign
    <3> QED BY <3>2, <3>3
  <2> QED BY <1>8, <2>2, <2>3, RelFields
<1>9. CASE RelEnsure(i)
  <2>1. UNCHANGED <<queued, hasEvents, pending, published, events>>
    BY <1>9 DEF RelEnsure, store, engine
  <2>2. Unoffered(k)' => Unoffered(k)
    BY <1>0, <1>9, RelFields DEF Unoffered
  <2> QED BY <1>5, <2>1, <2>2 DEF NotAgain
<1>10. CASE WalkEnds(i) \/ RelSettle(i) \/ RelHeld(i) \/ RelMark(i) \/ RelDrop(i)
  <2>1. rel'[i].pc \in {"walk", "up", "settle", "held", "mark", "drop", "relist"}
    BY <1>10, RelFields
  <2>2. ~Unoffered(k)'
    BY <1>0, <2>1 DEF Unoffered
  <2>3. k \in pending' \cup published' /\ events'[k] \in {0, events[k]}
    <3>1. CASE RelMark(i)
      BY <1>0, <3>1 DEF RelMark, MarkPublished, NotAgain
    <3>2. CASE UNCHANGED store
      BY <3>2 DEF store, NotAgain
    <3> QED BY <1>10, <3>1, <3>2 DEF WalkEnds, RelSettle, RelHeld, RelDrop
  <2>4. /\ k \in queued' => k \in queued
        /\ k \in queued' \ hasEvents' => k \in queued \ hasEvents
    BY <1>10 DEF WalkEnds, RelSettle, RelHeld, RelMark, RelDrop, Report, engine
  <2> QED BY <1>5, <2>2, <2>3, <2>4
<1> QED BY <1>6, <1>7, <1>8, <1>9, <1>10 DEF RelWorks

\* An obligation without a row is not listed.
LEMMA RelKeepsRowless ==
  ASSUME Typed, NEW i \in Inst, RelWorks(i) \/ WalkEnds(i), NEW k \in Key, Rowless(k)
  PROVE  Rowless(k)'
<1>0. events \in [Key -> Nat] /\ task \in [Task -> TaskState] /\ k \notin pending
  BY DEF Typed, TypeOK, StoreOK, Rowless
<1>1. UNCHANGED relay
  BY DEF RelWorks, StartOpens, RelList, RelOffer, RelEnsure, RelSettle, RelHeld, RelMark,
     RelDrop, WalkEnds, RelUnchanged, relays
<1>2. \A j \in Inst : \A o \in rel'[j].list : o[1] # k
  BY <1>0, RelLists DEF Rowless
<1>3. \A u \in Task : ~WorksOn(u, k)'
  <2>1. CASE RelEnsure(i)
    <3>1. \A u \in Task : task'[u] = task[u] \/ task'[u].pc = "next"
      BY <1>0, <2>1, EnsureEffects DEF RelEnsure
    <3> QED BY <3>1 DEF WorksOn, Working, Rowless, Untouched
  <2>2. CASE UNCHANGED task
    BY <2>2 DEF WorksOn, Rowless, Untouched
  <2> QED BY <2>1, <2>2 DEF RelWorks, StartOpens, RelList, RelOffer, RelSettle, RelHeld, RelMark, RelDrop, WalkEnds
<1>4. k \notin pending' /\ events'[k] = 0
  <2>1. CASE RelMark(i)
    BY <1>0, <2>1 DEF RelMark, MarkPublished, Rowless, Untouched
  <2>2. CASE UNCHANGED store
    BY <2>2 DEF store, Rowless, Untouched
  <2> QED BY <2>1, <2>2 DEF RelWorks, StartOpens, RelList, RelOffer, RelEnsure, RelSettle, RelHeld, RelDrop, WalkEnds
<1>5. k \notin queued'
  <2>0. k \notin queued
    BY DEF Rowless, Untouched
  <2>1. CASE RelOffer(i)
    BY <2>0, <2>1 DEF RelOffer, Enqueue, engine, Rowless
  <2>2. CASE ~RelOffer(i)
    BY <2>0, <2>2 DEF RelWorks, StartOpens, OpenSession, RelList, RelEnsure, RelSettle, RelHeld, RelMark, RelDrop,
       Report, WalkEnds, engine
  <2> QED BY <2>1, <2>2
<1> QED BY <1>1, <1>2, <1>3, <1>4, <1>5 DEF Rowless, Untouched

\* Nothing is known of an obligation of a change that was not written yet.
LEMMA NewIsRowless ==
  ASSUME OnlyWritten, RowIsSent, NEW k \in Key, k[1] \notin written
  PROVE  Rowless(k)
  BY DEF OnlyWritten, RowIsSent, Rowless, Untouched, WorksOn

\* Where each step of a caller of `publish` leads.
LEMMA PubMoves ==
  ASSUME Typed, HeldWhereMarked, NEW p \in Publisher, PubWorks(p) \/ PubStoreFails(p)
  PROVE  /\ pub[p].pc # "idle"
         /\ \A q \in Publisher : q # p => pub'[q] = pub[q]
         /\ pub'[p].pc # "idle" => pub'[p].change = pub[p].change
         /\ pub'[p].pc # "add"
         /\ Ahead(p)' => \/ AddLocalChange(p) /\ pub'[p].key = Personal(pub[p].change) /\ pub'[p].pc # "save"
                         \/ /\ Ahead(p) /\ pub'[p].key = pub[p].key
                            /\ PubCheck(p) \/ PubRead(p)
                            /\ pub'[p].pc = "save" => pub[p].key \notin pending
         /\ BeforeSpace(p)' /\ pub[p].change \in Spaced =>
              /\ BeforeSpace(p)
              /\ \/ AddLocalChange(p) \/ PubCheck(p) \/ PubCover(p) \/ PubRead(p)
                 \/ PubSave(p) /\ pub[p].key = Personal(pub[p].change)
         /\ PubSave(p) => \/ Ahead(p)
                          \/ /\ pub[p].key = SpaceKey(pub[p].change) /\ pub[p].change \in Spaced
                             /\ BeforeSpace(p)
<1>0. pub \in [Publisher -> PubState] /\ pub[p] \in PubState
  BY DEF Typed, TypeOK
<1>1. \A q \in Publisher : q # p => pub'[q] = pub[q]
  <2>1. \E r : pub' = [pub EXCEPT ![p] = r]
    BY DEF PubWorks, AddLocalChange, PubCheck, PubCover, PubMark, PubRead, PubSave, PubStoreFails,
       PubSession, PubOpen, PubOffer, PubEnsure, Advance
  <2> QED BY <1>0, <2>1
<1>2. pub[p].pc # "idle"
  BY DEF PubWorks, AddLocalChange, PubCheck, PubCover, PubMark, PubRead, PubSave, PubStoreFails,
     PubSession, PubOpen, PubOffer, PubEnsure
<1>3. /\ \A c \in Change : ~IsSpace(Personal(c)) /\ IsSpace(SpaceKey(c)) /\ Personal(c) # SpaceKey(c)
      /\ pub[p].change \in Change
      /\ pub[p].pc # "add" => \/ pub[p].key = Personal(pub[p].change)
                              \/ pub[p].key = SpaceKey(pub[p].change) /\ pub[p].change \in Spaced
      /\ pub[p].pc \in {"cover", "mark"} => IsSpace(pub[p].key)
  BY <1>2 DEF IsSpace, Personal, SpaceKey, Typed, PubShape, HeldWhereMarked
<1>4. ASSUME NEW W, Advance(p, W)
      PROVE  \/ pub'[p].pc = "session" /\ pub'[p].change = pub[p].change
             \/ /\ pub'[p].pc = "check" /\ pub'[p].change = pub[p].change
                /\ pub'[p].key = SpaceKey(pub[p].change)
                /\ ~IsSpace(pub[p].key) /\ pub[p].change \in Spaced
  <2>1. CASE pub' = [pub EXCEPT ![p] = [@ EXCEPT !.pc = "session", !.owed = W]]
    BY <1>0, <2>1 DEF PubState
  <2>2. ASSUME NEW k, pub' = [pub EXCEPT ![p] = [@ EXCEPT !.pc = "check", !.owed = W, !.key = k]]
        PROVE  pub'[p].pc = "check" /\ pub'[p].change = pub[p].change /\ pub'[p].key = k
    BY <1>0, <2>2 DEF PubState
  <2> QED BY <1>4, <2>1, <2>2, Zenon DEF Advance
<1>5. ASSUME NEW s, pub' = [pub EXCEPT ![p].pc = s]
      PROVE  pub'[p].pc = s /\ pub'[p].change = pub[p].change /\ pub'[p].key = pub[p].key
  BY <1>0, <1>5 DEF PubState
<1>6. CASE AddLocalChange(p)
  <2>1. pub'[p].pc = "check" /\ pub'[p].change = pub[p].change /\ pub'[p].key = Personal(pub[p].change)
    BY <1>0, <1>6 DEF AddLocalChange, PubState
  <2>2. pub[p].pc = "add"
    BY <1>6 DEF AddLocalChange
  <2> QED BY <1>1, <1>2, <1>6, <2>1, <2>2 DEF BeforeSpace, PubSave
<1>7. CASE PubCheck(p)
  <2>0. pub[p].pc = "check"
    BY <1>7 DEF PubCheck
  <2>1. \/ \E W : Advance(p, W)
        \/ pub' = [pub EXCEPT ![p].pc = IF IsSpace(pub[p].key) THEN "cover" ELSE "read"]
    BY <1>7 DEF PubCheck
  <2>2. CASE \E W : Advance(p, W)
    BY <1>1, <1>3, <1>4, <1>7, <2>0, <2>2 DEF Ahead, BeforeSpace, PubSave
  <2>3. CASE pub' = [pub EXCEPT ![p].pc = IF IsSpace(pub[p].key) THEN "cover" ELSE "read"]
    <3>1. PICK s \in {"cover", "read"} : pub' = [pub EXCEPT ![p].pc = s]
      BY <2>3
    <3>2. pub'[p].pc = s /\ pub'[p].change = pub[p].change /\ pub'[p].key = pub[p].key
      BY <1>5, <3>1
    <3> QED BY <1>1, <1>3, <1>7, <2>0, <3>2 DEF Ahead, BeforeSpace, PubSave
  <2> QED BY <2>1, <2>2, <2>3
<1>8. CASE PubCover(p)
  <2>0. pub[p].pc = "cover"
    BY <1>8 DEF PubCover
  <2>1. PICK s \in {"mark", "read"} : pub' = [pub EXCEPT ![p].pc = s]
    BY <1>8 DEF PubCover
  <2>2. pub'[p].pc = s /\ pub'[p].change = pub[p].change /\ pub'[p].key = pub[p].key
    BY <1>5, <2>1
  <2> QED BY <1>1, <1>3, <1>8, <2>0, <2>2 DEF Ahead, BeforeSpace, PubSave
<1>9. CASE PubMark(p)
  <2>0. pub[p].pc = "mark" /\ IsSpace(pub[p].key) /\ ~PubSave(p) /\ \E W : Advance(p, W)
    BY <1>3, <1>9 DEF PubMark, PubSave
  <2>1. pub'[p].pc = "session" /\ pub'[p].change = pub[p].change
    BY <1>4, <2>0
  <2> QED BY <1>1, <1>2, <2>0, <2>1 DEF Ahead, BeforeSpace
<1>10. CASE PubRead(p)
  <2>0. pub[p].pc = "read" /\ ~PubSave(p)
    BY <1>10 DEF PubRead, PubSave
  <2>1. CASE \E W : Advance(p, W)
    BY <1>1, <1>3, <1>4, <1>10, <2>0, <2>1 DEF Ahead, BeforeSpace
  <2>2. CASE pub[p].key \notin pending /\ pub' = [pub EXCEPT ![p].pc = "save"]
    <3>1. pub'[p].pc = "save" /\ pub'[p].change = pub[p].change /\ pub'[p].key = pub[p].key
      BY <1>5, <2>2
    <3> QED BY <1>1, <1>3, <1>10, <2>0, <2>2, <3>1 DEF Ahead, BeforeSpace
  <2> QED BY <1>10, <2>1, <2>2 DEF PubRead
<1>11. CASE PubSave(p)
  <2>0. pub[p].pc = "save" /\ \E W : Advance(p, W)
    BY <1>11 DEF PubSave
  <2> QED BY <1>1, <1>3, <1>4, <1>11, <2>0 DEF Ahead, BeforeSpace
<1>12. CASE PubSession(p) \/ PubOpen(p) \/ PubOffer(p) \/ PubEnsure(p) \/ PubStoreFails(p)
  <2>1. pub'[p].pc \in {"idle", "offer", "open", "ensure"} /\ (pub'[p].pc # "idle" => pub'[p].change = pub[p].change)
    <3>1. CASE PubOffer(p)
      <4>1. ASSUME NEW W, NEW s, pub' = [pub EXCEPT ![p] = [@ EXCEPT !.owed = W, !.pc = s]]
            PROVE  pub'[p].pc = s /\ pub'[p].change = pub[p].change
        BY <1>0, <4>1 DEF PubState
      <4>2. CASE pub' = [pub EXCEPT ![p] = IdlePub]
        BY <1>0, <4>2 DEF IdlePub
      <4>3. \/ pub' = [pub EXCEPT ![p] = IdlePub]
            \/ \E W : \E s \in {"offer", "ensure"} : pub' = [pub EXCEPT ![p] = [@ EXCEPT !.owed = W, !.pc = s]]
        BY <3>1 DEF PubOffer
      <4> QED BY <4>1, <4>2, <4>3
    <3>2. CASE PubSession(p)
      BY <1>0, <3>2 DEF PubSession, IdlePub, PubState
    <3>3. CASE PubOpen(p) \/ PubEnsure(p) \/ PubStoreFails(p)
      BY <1>0, <3>3 DEF PubOpen, PubEnsure, PubStoreFails, IdlePub, PubState
    <3> QED BY <1>12, <3>1, <3>2, <3>3
  <2>2. CASE ~PubSave(p)
    BY <1>1, <1>2, <2>1, <2>2 DEF Ahead, BeforeSpace
  <2> QED BY <1>11, <2>2
<1> QED BY <1>6, <1>7, <1>8, <1>9, <1>10, <1>11, <1>12 DEF PubWorks

\* Two callers of `publish` bring different changes, a step on.
LEMMA PubKeepsApart ==
  ASSUME Typed, OnlyWritten, HeldWhereMarked, Apart, NEW p \in Publisher, PubWorks(p) \/ PubStoreFails(p)
  PROVE  Apart'
<1>0. pub[p].pc # "idle"
  BY PubMoves
<1>1. \A u \in Publisher : pub'[u].pc # "idle" => pub[u].pc # "idle" /\ pub'[u].change = pub[u].change
  BY PubMoves
<1>2. \A u \in Publisher : pub[u].pc \in {"read", "save"} => pub[u].key[1] = pub[u].change
  BY DEF Typed, PubShape, Personal, SpaceKey
<1>3. \A u \in Publisher : \A o \in pub'[u].owed :
        o \in pub[u].owed \/ (pub[u].pc \in {"read", "save"} /\ o[1] = pub[u].key)
  BY PubOwes
<1> SUFFICES ASSUME NEW u \in Publisher, pub'[u].pc # "idle"
             PROVE  /\ \A q \in Publisher \ {u} : pub'[q].pc # "idle" => pub'[q].change # pub'[u].change
                    /\ \A o \in pub'[u].owed : o[1][1] = pub'[u].change
  BY DEF Apart
<1>4. \A q \in Publisher \ {u} : pub'[q].pc # "idle" => pub'[q].change # pub'[u].change
  BY <1>1 DEF Apart
<1>5. \A o \in pub'[u].owed : o[1][1] = pub'[u].change
  BY <1>1, <1>2, <1>3 DEF Apart
<1> QED BY <1>4, <1>5

\* A step of one caller leaves the obligations of another's change alone.
LEMMA PubKeepsOthers ==
  ASSUME Typed, HeldWhereMarked, Apart, NEW p \in Publisher, PubWorks(p) \/ PubStoreFails(p),
         NEW k \in Key, k[1] # pub[p].change
  PROVE  /\ NotAgain(k) => NotAgain(k)'
         /\ Rowless(k) => Rowless(k)'
<1>0. /\ events \in [Key -> Nat] /\ pending \subseteq Key /\ task \in [Task -> TaskState]
      /\ pub[p].pc # "idle"
  BY PubMoves DEF Typed, TypeOK, StoreOK
<1>1. UNCHANGED <<relay, rel>>
  BY DEF PubWorks, AddLocalChange, PubCheck, PubCover, PubMark, PubRead, PubSave, PubStoreFails,
     PubSession, PubOpen, PubOffer, PubEnsure, PubUnchanged, relays
<1>2. pub[p].pc # "add" => pub[p].key # k
  BY <1>0 DEF Typed, PubShape, Personal, SpaceKey
<1>3. Personal(pub[p].change) # k
  BY DEF Personal
<1>4. /\ events'[k] = events[k] /\ (k \in pending' <=> k \in pending)
      /\ published \subseteq published'
  <2>1. CASE AddLocalChange(p)
    BY <1>0, <1>3, <2>1 DEF AddLocalChange
  <2>2. CASE PubSave(p)
    BY <1>0, <1>2, <2>2 DEF PubSave, SavePending
  <2>3. CASE PubMark(p)
    BY <1>0, <1>2, <2>3 DEF PubMark, MarkPublished
  <2>4. CASE UNCHANGED store
    BY <2>4 DEF store
  <2> QED BY <2>1, <2>2, <2>3, <2>4 DEF PubWorks, PubCheck, PubCover, PubRead, PubSession, PubOpen, PubOffer,
           PubEnsure, PubStoreFails
<1>5. /\ k \in queued' => k \in queued
      /\ k \in queued' \ hasEvents' => k \in queued \ hasEvents
  <2>1. CASE PubOffer(p)
    <3>1. ASSUME NEW o \in pub[p].owed, Enqueue(o)
          PROVE  /\ k \in queued' => k \in queued
                 /\ k \in queued' \ hasEvents' => k \in queued \ hasEvents
      <4>1. o[1][1] = pub[p].change
        BY <1>0 DEF Apart
      <4>2. o[1] # k
        BY <4>1
      <4> QED BY <3>1, <4>2 DEF Enqueue
    <3>2. UNCHANGED engine \/ \E o \in pub[p].owed : Enqueue(o)
      BY <2>1 DEF PubOffer
    <3> QED BY <3>1, <3>2 DEF engine
  <2>2. CASE PubOpen(p)
    BY <2>2 DEF PubOpen, OpenSession
  <2>3. CASE UNCHANGED engine
    BY <2>3 DEF engine
  <2> QED BY <2>1, <2>2, <2>3 DEF PubWorks, AddLocalChange, PubCheck, PubCover, PubMark, PubRead, PubSave,
           PubSession, PubEnsure, PubStoreFails
<1>6. \A u \in Task : \/ task'[u] = task[u]
                      \/ task'[u].pc = "next" /\ task[u].pc = "idle"
  <2>1. CASE PubEnsure(p)
    <3>1. \A u \in Task : task'[u] = task[u] \/ task'[u].pc = "next"
      BY <1>0, <2>1, EnsureEffects DEF PubEnsure
    <3>2. \A u \in Task : task'[u] = task[u] \/ task[u].pc = "idle"
      BY <1>0, <2>1 DEF PubEnsure, EnsureQueue
    <3> QED BY <3>1, <3>2
  <2>2. CASE UNCHANGED task
    BY <2>2
  <2> QED BY <2>1, <2>2 DEF PubWorks, AddLocalChange, PubCheck, PubCover, PubMark, PubRead, PubSave,
           PubSession, PubOpen, PubOffer, PubStoreFails
<1>7. \A u \in Task : /\ WorksOn(u, k)' => WorksOn(u, k)
                      /\ MaySign(u, k)' => MaySign(u, k)
                      /\ WillTell(u, k) => WillTell(u, k)'
  BY <1>6 DEF WorksOn, MaySign, WillTell, HasSaved, Working
<1>8. Unoffered(k)' = Unoffered(k)
  BY <1>1 DEF Unoffered
<1>9. Untouched(k) => Untouched(k)'
  BY <1>1, <1>4, <1>5, <1>7 DEF Untouched
<1>10. ASSUME NotAgain(k) PROVE NotAgain(k)'
  BY <1>1, <1>4, <1>5, <1>7, <1>8, <1>9, <1>10 DEF NotAgain
<1>11. ASSUME Rowless(k) PROVE Rowless(k)'
  BY <1>1, <1>4, <1>9, <1>11 DEF Rowless
<1> QED BY <1>10, <1>11

\* A commit saves a row over its own only when that one is published.
LEMMA PubKeepsRows ==
  ASSUME Typed, OnlyWritten, HeldWhereMarked, OnceInv,
         NEW p \in Publisher, PubWorks(p) \/ PubStoreFails(p)
  PROVE  OneEventPerObligation' /\ RowIsSent' /\ TaskKnows'
<1>0. /\ events \in [Key -> Nat] /\ pending \subseteq Key /\ task \in [Task -> TaskState]
      /\ pub[p].change \in Change
  BY PubMoves DEF Typed, TypeOK, StoreOK, PubShape
<1>1. UNCHANGED <<relay, logout>>
  BY DEF PubWorks, AddLocalChange, PubCheck, PubCover, PubMark, PubRead, PubSave, PubStoreFails,
     PubSession, PubOpen, PubOffer, PubEnsure, PubUnchanged, relays
<1>2. p # "rebase" => logout = "no"
  BY PubMoves DEF OnceInv, ShutOut
<1>3. ASSUME NEW k \in Key, UNCHANGED <<task, published>>, pending' = pending \cup {k},
             events' = [events EXCEPT ![k] = 0],
             relay[k] = {} \/ (k \in published /\ logout # "done"),
             \A t \in Task : MaySign(t, k) => relay[k] = {},
             \A t \in Task : HasSaved(t) /\ task[t].key = k => k \in published /\ logout # "done"
      PROVE  OneEventPerObligation' /\ RowIsSent' /\ TaskKnows'
  <2>1. RowIsSent'
    BY <1>0, <1>1, <1>3 DEF OnceInv, RowIsSent
  <2>2. TaskKnows'
    <3> SUFFICES ASSUME NEW t \in Task
                 PROVE  /\ HasSigned(t)' => task'[t].event # 0 /\ relay'[task'[t].key] \subseteq {task'[t].event}
                        /\ HasSaved(t)' =>
                             /\ task'[t].sealed
                             /\ events'[task'[t].key] \in {0, task'[t].event}
                             /\ task'[t].key \in published' \/ events'[task'[t].key] # 0 \/ logout' = "done"
                             /\ logout' = "done" /\ task'[t].key \in pending' => events'[task'[t].key] # 0
                        /\ task'[t].pc = "read" /\ task'[t].unsealed /\ task'[t].key \in pending'
                             /\ events'[task'[t].key] = 0 => relay'[task'[t].key] = {}
      BY DEF TaskKnows
    <3>1. CASE task[t].key = k
      BY <1>0, <1>1, <1>3, <3>1 DEF OnceInv, TaskKnows, HasSigned, HasSaved, MaySign, WorksOn, Working
    <3>2. CASE task[t].key # k
      <4>1. HasSigned(t) \/ task[t].pc = "read" => task[t].key \in Key
        BY DEF Typed, TaskShape, Working, HasSigned
      <4>2. task[t].key \in Key => events'[task[t].key] = events[task[t].key]
        BY <1>0, <1>3, <3>2
      <4> QED BY <1>1, <1>3, <3>2, <4>1, <4>2 DEF OnceInv, TaskKnows, HasSigned, HasSaved
    <3> QED BY <3>1, <3>2
  <2> QED BY <1>1, <2>1, <2>2 DEF OnceInv, OneEventPerObligation
<1>4. CASE AddLocalChange(p)
  <2> DEFINE k == Personal(pub[p].change)
  <2>1. k \in Key /\ k[1] \notin written
    BY <1>0, <1>4, Keys DEF AddLocalChange, Personal, OnceInv, SavesOnce, SavesWell
  <2>2. Rowless(k)
    BY <2>1, NewIsRowless DEF OnceInv
  <2>3. /\ UNCHANGED <<task, published>> /\ pending' = pending \cup {k}
        /\ events' = [events EXCEPT ![k] = 0]
    BY <1>4 DEF AddLocalChange
  <2>4. /\ \A t \in Task : ~(HasSaved(t) /\ task[t].key = k)
        /\ relay[k] = {}
    BY <2>2 DEF Rowless, Untouched, WorksOn, HasSaved, Working
  <2> HIDE DEF k
  <2> QED BY <1>3, <2>1, <2>3, <2>4
<1>5. CASE PubSave(p)
  <2> DEFINE k == pub[p].key
  <2>1. /\ UNCHANGED <<task, published>> /\ pending' = pending \cup {k}
        /\ events' = [events EXCEPT ![k] = 0] /\ pub[p].pc = "save"
    BY <1>5 DEF PubSave, SavePending
  <2>2. CASE Ahead(p) /\ p # "rebase"
    <3>1. k \in Key /\ NotAgain(k) /\ k \in published /\ logout # "done"
      BY <1>0, <1>2, <2>1, <2>2, Keys DEF OnceInv, SavesOnce, SavesWell, Ahead
    <3> HIDE DEF k
    <3>2. \A t \in Task : MaySign(t, k) => relay[k] = {}
      BY <3>1 DEF NotAgain
    <3> QED BY <1>3, <2>1, <3>1, <3>2
  <2>3. CASE \/ Ahead(p) /\ p = "rebase"
             \/ k = SpaceKey(pub[p].change) /\ pub[p].change \in Spaced /\ BeforeSpace(p)
    <3>1. k \in Key /\ Rowless(k)
      BY <1>0, <2>3, Keys DEF OnceInv, SavesOnce, SavesWell, Ahead
    <3>2. /\ \A t \in Task : ~(HasSaved(t) /\ task[t].key = k)
          /\ relay[k] = {}
      BY <3>1 DEF Rowless, Untouched, WorksOn, HasSaved, Working
    <3> HIDE DEF k
    <3> QED BY <1>3, <2>1, <3>1, <3>2
  <2> QED BY <1>5, <2>2, <2>3, PubMoves
<1>6. CASE PubEnsure(p)
  <2>1. \A u \in Task : task'[u] = task[u] \/ task'[u].pc = "next"
    BY <1>0, <1>6, EnsureEffects DEF PubEnsure
  <2>2. UNCHANGED <<pending, events, published>>
    BY <1>6 DEF PubEnsure, store
  <2> QED BY <1>1, <2>1, <2>2, RowsStay DEF OnceInv
<1>7. CASE PubMark(p)
  <2>1. pub[p].key \in Key /\ MarkPublished(pub[p].key) /\ UNCHANGED task
    BY <1>7, Keys DEF PubMark, Typed, PubShape
  <2> QED BY <1>1, <2>1, RowsStay DEF OnceInv
<1>8. CASE PubCheck(p) \/ PubCover(p) \/ PubRead(p) \/ PubSession(p) \/ PubOpen(p) \/ PubOffer(p) \/ PubStoreFails(p)
  <2>1. UNCHANGED <<pending, events, published, task>>
    BY <1>8 DEF PubCheck, PubCover, PubRead, PubSession, PubOpen, PubOffer, PubStoreFails, store
  <2> QED BY <1>1, <2>1, RowsStay DEF OnceInv
<1> QED BY <1>4, <1>5, <1>6, <1>7, <1>8 DEF PubWorks

\* What SavesOnce says of a caller stays while it stands still and its obligations
\* are left alone.
LEMMA SavesStays ==
  ASSUME Typed, SavesOnce, NEW p \in Publisher, pub'[p] = pub[p],
         pub[p].pc = "add" => pub[p].change \notin written' \ written,
         \A k \in Key : k[1] = pub[p].change /\ Rowless(k) => Rowless(k)',
         p # "rebase" /\ pub[p].pc # "idle" =>
           /\ published \subseteq published'
           /\ \A k \in Key : k[1] = pub[p].change /\ ~IsSpace(k) /\ NotAgain(k) => NotAgain(k)'
  PROVE  SavesWell(p)'
<1>0. SavesWell(p)
  BY DEF SavesOnce
<1>1. Ahead(p)' = Ahead(p) /\ BeforeSpace(p)' = BeforeSpace(p)
  BY DEF Ahead, BeforeSpace
<1>2. ASSUME Ahead(p)
      PROVE  /\ pub[p].pc # "idle"
             /\ \E k \in Key : k = pub[p].key /\ k[1] = pub[p].change /\ ~IsSpace(k)
  <2>1. pub[p].pc # "idle" /\ pub[p].key = Personal(pub[p].change)
    BY <1>2 DEF Ahead
  <2>2. Personal(pub[p].change) \in Key
    BY <2>1, Keys DEF Typed, PubShape
  <2> QED BY <2>1, <2>2 DEF Personal, IsSpace
<1>3. ASSUME Ahead(p), p = "rebase" PROVE Rowless(pub[p].key)'
  <2>1. PICK k \in Key : k = pub[p].key /\ k[1] = pub[p].change
    BY <1>2, <1>3
  <2>2. Rowless(k)
    BY <1>0, <1>3, <2>1 DEF SavesWell
  <2>3. Rowless(k)' /\ pub'[p].key = k
    BY <2>1, <2>2
  <2> QED BY <2>3
<1>4. ASSUME Ahead(p), p # "rebase"
      PROVE  NotAgain(pub[p].key)' /\ (pub'[p].pc = "save" => pub'[p].key \in published')
  <2>1. PICK k \in Key : k = pub[p].key /\ k[1] = pub[p].change /\ ~IsSpace(k)
    BY <1>2, <1>4
  <2>2. NotAgain(k) /\ (pub[p].pc = "save" => k \in published)
    BY <1>0, <1>4, <2>1 DEF SavesWell
  <2>3. NotAgain(k)' /\ pub'[p].key = k /\ published \subseteq published'
    BY <1>2, <1>4, <2>1, <2>2
  <2> QED BY <2>2, <2>3
<1>5. ASSUME pub[p].change \in Spaced, BeforeSpace(p) PROVE Rowless(SpaceKey(pub[p].change))'
  <2>1. PICK k \in Key : k = SpaceKey(pub[p].change) /\ k[1] = pub[p].change /\ Rowless(k)
    BY <1>0, <1>5, Keys DEF SavesWell, SpaceKey
  <2>2. Rowless(k)' /\ SpaceKey(pub'[p].change) = k
    BY <2>1
  <2> QED BY <2>2 DEF SpaceKey
<1>6. pub'[p].pc = "add" => p # "rebase" /\ pub'[p].change \notin written'
  BY <1>0 DEF SavesWell
<1>7. Ahead(p)' => IF p = "rebase" THEN Rowless(pub[p].key)'
                   ELSE NotAgain(pub[p].key)' /\ (pub'[p].pc = "save" => pub'[p].key \in published')
  BY <1>1, <1>3, <1>4
<1>8. pub'[p].change \in Spaced /\ BeforeSpace(p)' => Rowless(SpaceKey(pub[p].change))'
  BY <1>1, <1>5
<1> QED BY <1>6, <1>7, <1>8 DEF SavesWell

\* ...and its own obligations, and those of the others, stay as SavesOnce says.
LEMMA PubKeepsOnce ==
  ASSUME Typed, OnlyWritten, HeldWhereMarked, OnceInv, MaxInst = 1, "sweep" \notin Publisher,
         NEW p \in Publisher, PubWorks(p) \/ PubStoreFails(p)
  PROVE  OnceInv'
<1>0. /\ events \in [Key -> Nat] /\ pending \subseteq Key
      /\ pub[p].change \in Change /\ pub[p].pc # "idle" /\ pub[p].inst \in Inst
  BY PubMoves DEF Typed, TypeOK, StoreOK, PubShape
<1>1. UNCHANGED <<relay, logout, rel>>
  BY DEF PubWorks, AddLocalChange, PubCheck, PubCover, PubMark, PubRead, PubSave, PubStoreFails,
     PubSession, PubOpen, PubOffer, PubEnsure, PubUnchanged, relays
<1>2. ListedOnce'
  <2>1. \A i \in Inst : i = pub[p].inst
    BY <1>0, OutboxConstants DEF Inst
  <2>2. owner' \in {owner, pub[p].inst}
    BY DEF PubWorks, AddLocalChange, PubCheck, PubCover, PubMark, PubRead, PubSave, PubStoreFails,
       PubSession, PubOpen, OpenSession, PubOffer, PubEnsure, lifecycle
  <2> QED BY <1>1, <2>1, <2>2 DEF OnceInv, ListedOnce
<1>3. ShutOut'
  <2>1. UNCHANGED closing
    BY DEF PubWorks, AddLocalChange, PubCheck, PubCover, PubMark, PubRead, PubSave, PubStoreFails,
       PubSession, PubOpen, OpenSession, PubOffer, PubEnsure, lifecycle
  <2>2. \A q \in Publisher : q # p => pub'[q] = pub[q]
    BY PubMoves
  <2>3. p # "rebase" => logout = "no"
    BY <1>0 DEF OnceInv, ShutOut
  <2> QED BY <1>1, <2>1, <2>2, <2>3 DEF OnceInv, ShutOut
<1>4. ASSUME Ahead(p)'
      PROVE  IF p = "rebase" THEN Rowless(pub[p].key)'
             ELSE NotAgain(pub[p].key)' /\ (pub'[p].pc = "save" => pub'[p].key \in published')
  <2>1. CASE AddLocalChange(p) /\ pub'[p].key = Personal(pub[p].change) /\ pub'[p].pc # "save"
    <3>1. PICK k \in Key : k = Personal(pub[p].change)
      BY <1>0, Keys
    <3>2. Rowless(k) /\ p # "rebase"
      <4>1. k[1] \notin written /\ p # "rebase"
        BY <2>1, <3>1 DEF AddLocalChange, Personal, OnceInv, SavesOnce, SavesWell
      <4> QED BY <4>1, NewIsRowless DEF OnceInv
    <3>3. UNCHANGED <<task, queued>> /\ k \in pending' /\ events'[k] = 0
      BY <1>0, <2>1, <3>1 DEF AddLocalChange, engine
    <3>4. Untouched(k)'
      BY <1>1, <3>2, <3>3 DEF Rowless, Untouched, WorksOn
    <3>5. NotAgain(k)'
      BY <3>3, <3>4 DEF NotAgain, Untouched, MaySign
    <3>6. NotAgain(pub[p].key)'
      BY <2>1, <3>1, <3>5
    <3> QED BY <2>1, <3>2, <3>6
  <2>2. CASE /\ Ahead(p) /\ pub'[p].key = pub[p].key
             /\ PubCheck(p) \/ PubRead(p)
             /\ pub'[p].pc = "save" => pub[p].key \notin pending
    <3>1. UNCHANGED <<task, queued, hasEvents, pending, published, events>>
      BY <2>2 DEF PubCheck, PubRead, store, engine
    <3>2. PICK k \in Key : k = pub[p].key
      BY <1>0, <2>2, Keys DEF Ahead
    <3>3. CASE p # "rebase"
      <4>1. NotAgain(k)
        BY <2>2, <3>2, <3>3 DEF OnceInv, SavesOnce, SavesWell
      <4>2. NotAgain(k)'
        BY <1>1, <3>1, <4>1 DEF NotAgain, Unoffered, Untouched, WorksOn, MaySign, WillTell, HasSaved
      <4>3. pub'[p].pc = "save" => k \in published'
        BY <2>2, <3>1, <3>2, <4>1 DEF NotAgain
      <4>4. NotAgain(pub[p].key)'
        BY <2>2, <3>2, <4>2
      <4> QED BY <2>2, <3>2, <3>3, <4>3, <4>4
    <3>4. CASE p = "rebase"
      <4>1. Rowless(k)
        BY <2>2, <3>2, <3>4 DEF OnceInv, SavesOnce, SavesWell
      <4>2. Rowless(k)'
        BY <1>1, <3>1, <4>1 DEF Rowless, Untouched, WorksOn
      <4>3. Rowless(pub[p].key)'
        BY <2>2, <3>2, <4>2
      <4> QED BY <3>4, <4>3
    <3> QED BY <3>3, <3>4
  <2> QED BY <1>4, <2>1, <2>2, PubMoves
<1>5. ASSUME pub'[p].change \in Spaced, BeforeSpace(p)' PROVE Rowless(SpaceKey(pub[p].change))'
  <2>0. pub'[p].change = pub[p].change
    <3>1. pub'[p].pc # "idle"
      BY <1>5 DEF BeforeSpace, Ahead
    <3> QED BY <3>1, PubMoves
  <2>1. PICK k \in Key : k = SpaceKey(pub[p].change) /\ Rowless(k)
    BY <1>5, <2>0, Keys, PubMoves DEF OnceInv, SavesOnce, SavesWell
  <2>2. \/ AddLocalChange(p) \/ PubCheck(p) \/ PubCover(p) \/ PubRead(p)
        \/ PubSave(p) /\ pub[p].key = Personal(pub[p].change)
    BY <1>5, <2>0, PubMoves
  <2>3. UNCHANGED <<task, queued>>
    BY <2>2 DEF AddLocalChange, PubCheck, PubCover, PubRead, PubSave, engine
  <2>4. k \notin pending' /\ events'[k] = 0
    <3>0. k # Personal(pub[p].change) /\ k \notin pending /\ events[k] = 0
      BY <2>1 DEF SpaceKey, Personal, Rowless, Untouched
    <3>1. CASE AddLocalChange(p)
      BY <1>0, <2>1, <3>0, <3>1 DEF AddLocalChange
    <3>2. CASE PubSave(p) /\ pub[p].key = Personal(pub[p].change)
      BY <1>0, <2>1, <3>0, <3>2 DEF PubSave, SavePending
    <3>3. CASE UNCHANGED store
      BY <3>0, <3>3 DEF store
    <3> QED BY <2>2, <3>1, <3>2, <3>3 DEF PubCheck, PubCover, PubRead
  <2>5. Rowless(k)'
    BY <1>1, <2>1, <2>3, <2>4 DEF Rowless, Untouched, WorksOn
  <2>6. SpaceKey(pub'[p].change) = k
    BY <2>0, <2>1
  <2> QED BY <2>5, <2>6 DEF SpaceKey
<1>6. SavesOnce'
  <2>1. SavesWell(p)'
    <3>1. pub'[p].pc # "add"
      BY PubMoves
    <3> QED BY <1>4, <1>5, <3>1 DEF SavesWell
  <2>2. ASSUME NEW q \in Publisher, q # p PROVE SavesWell(q)'
    <3>1. pub'[q] = pub[q]
      BY <2>2, PubMoves
    <3>2. CASE pub[q].pc = "idle"
      BY <3>1, <3>2 DEF SavesWell, Ahead, BeforeSpace
    <3>3. CASE pub[q].pc # "idle"
      <4>1. pub[q].change # pub[p].change
        BY <1>0, <2>2, <3>3 DEF OnceInv, Apart
      <4>2. /\ \A k \in Key : k[1] = pub[q].change /\ Rowless(k) => Rowless(k)'
            /\ \A k \in Key : k[1] = pub[q].change /\ NotAgain(k) => NotAgain(k)'
        BY <4>1, PubKeepsOthers DEF OnceInv
      <4>3. written' \subseteq written \cup {pub[p].change}
        BY DEF PubWorks, AddLocalChange, PubCheck, PubCover, PubMark, PubRead, PubSave, PubStoreFails,
           PubSession, PubOpen, PubOffer, PubEnsure
      <4>4. published \subseteq published'
        BY DEF PubWorks, AddLocalChange, PubCheck, PubCover, PubMark, MarkPublished, PubRead, PubSave, SavePending,
           PubStoreFails, PubSession, PubOpen, PubOffer, PubEnsure, store
      <4> QED BY <3>1, <4>1, <4>2, <4>3, <4>4, SavesStays DEF OnceInv
    <3> QED BY <3>2, <3>3
  <2> QED BY <2>1, <2>2 DEF SavesOnce
<1>7. Apart'
  BY PubKeepsApart DEF OnceInv
<1> QED BY <1>2, <1>3, <1>6, <1>7, PubKeepsRows DEF OnceInv

\* What stays when neither the tasks nor the lists change and the queue at most
\* empties.
LEMMA OnceStays ==
  ASSUME Typed, OnceInv, UNCHANGED <<relay, task, rel, pub, written>>,
         UNCHANGED <<queued, hasEvents>> \/ queued' = {}, ListedOnce', ShutOut',
         (logout' = "done") <=> (logout = "done"),
         UNCHANGED <<pending, events, published>> \/ \E k \in Key : MarkPublished(k)
  PROVE  OnceInv'
<1>0. events \in [Key -> Nat]
  BY DEF Typed, TypeOK, StoreOK
<1>1. OneEventPerObligation' /\ RowIsSent' /\ TaskKnows'
  BY RowsStay DEF OnceInv
<1>2. Apart'
  BY DEF OnceInv, Apart
<1>3. /\ published \subseteq published' /\ pending \subseteq pending' \cup published' /\ pending' \subseteq pending
      /\ \A k \in Key : events'[k] \in {0, events[k]}
  BY <1>0 DEF MarkPublished
<1>4. \A k \in Key : NotAgain(k) => NotAgain(k)'
  BY <1>3 DEF NotAgain, Unoffered, Untouched, WorksOn, MaySign, WillTell, HasSaved
<1>5. \A k \in Key : Rowless(k) => Rowless(k)'
  BY <1>3 DEF Rowless, Untouched, WorksOn
<1>6. \A p \in Publisher : SavesWell(p)'
  BY <1>3, <1>4, <1>5, SavesStays DEF OnceInv
<1> QED BY <1>1, <1>2, <1>6 DEF OnceInv, SavesOnce

\* A step of a queue task keeps the invariant, as no commit is inside `publish`
\* once a logout is done.
LEMMA TaskKeepsOnce ==
  ASSUME Typed, OneQueueTask, OnceInv, MaxInst = 1, NEW t \in Task, TaskWorks(t) \/ TaskStoreFails(t)
  PROVE  OnceInv'
<1>1. UNCHANGED <<lifecycle, rel, pub, logout, written>> /\ published \subseteq published'
  BY DEF TaskWorks, TaskNext, TaskLeave, TaskCheck, TaskRead, TaskSave, SavePending, TaskAccepted, TaskUnanswered,
     TaskMark, MarkPublished, TaskStoreFails, TaskReport, TaskLook, TaskRelock, TaskUnchanged, store
<1>2. OneEventPerObligation' /\ RowIsSent' /\ TaskKnows'
  BY TaskKeepsRows DEF OnceInv
<1>3. ListedOnce' /\ ShutOut' /\ Apart'
  BY <1>1 DEF OnceInv, ListedOnce, ShutOut, Apart, lifecycle
<1>4. ASSUME NEW p \in Publisher PROVE SavesWell(p)'
  <2>1. \A k \in Key : Rowless(k) => Rowless(k)'
    BY TaskKeepsRowless
  <2>2. ASSUME p # "rebase", pub[p].pc # "idle" PROVE \A k \in Key : NotAgain(k) => NotAgain(k)'
    <3>1. logout # "done"
      BY <2>2 DEF OnceInv, ShutOut
    <3> QED BY <3>1, TaskKeepsNotAgain DEF OnceInv
  <2> QED BY <1>1, <2>1, <2>2, SavesStays DEF OnceInv
<1> QED BY <1>2, <1>3, <1>4 DEF OnceInv, SavesOnce

\* So does a step of start() or of a release.
LEMMA RelKeepsOnce ==
  ASSUME Typed, OnceInv, MaxInst = 1, NEW i \in Inst, RelWorks(i) \/ WalkEnds(i)
  PROVE  OnceInv'
<1>0. task \in [Task -> TaskState] /\ rel \in [Inst -> RelState]
  BY DEF Typed, TypeOK
<1>1. UNCHANGED <<relay, closing, pub, logout, written>> /\ published \subseteq published'
  BY DEF RelWorks, StartOpens, OpenSession, RelList, RelOffer, RelEnsure, RelSettle, RelHeld, RelMark, MarkPublished,
     RelDrop, WalkEnds, RelUnchanged, store, relays, lifecycle
<1>2. OneEventPerObligation' /\ RowIsSent' /\ TaskKnows'
  <2>1. CASE RelMark(i)
    <3>1. rel[i].key \in Key /\ MarkPublished(rel[i].key) /\ UNCHANGED task
      BY <2>1 DEF RelMark, Typed, RelShape
    <3> QED BY <1>1, <3>1, RowsStay DEF OnceInv
  <2>2. CASE ~RelMark(i)
    <3>1. UNCHANGED <<pending, events, published>>
      BY <2>2 DEF RelWorks, StartOpens, RelList, RelOffer, RelEnsure, RelSettle, RelHeld, RelDrop, WalkEnds, store
    <3>2. \A u \in Task : task'[u] = task[u] \/ task'[u].pc = "next"
      <4>1. CASE RelEnsure(i)
        BY <1>0, <4>1, EnsureEffects DEF RelEnsure
      <4> QED BY <2>2, <4>1 DEF RelWorks, StartOpens, RelList, RelOffer, RelSettle, RelHeld, RelDrop, WalkEnds
    <3> QED BY <1>1, <3>1, <3>2, RowsStay DEF OnceInv
  <2> QED BY <2>1, <2>2
<1>3. ListedOnce' /\ ShutOut' /\ Apart'
  <2>1. ListedOnce'
    BY RelKeepsListed DEF OnceInv
  <2> QED BY <1>1, <2>1 DEF OnceInv, ShutOut, Apart
<1>4. ASSUME NEW p \in Publisher PROVE SavesWell(p)'
  <2>1. /\ \A k \in Key : Rowless(k) => Rowless(k)'
        /\ \A k \in Key : ~IsSpace(k) /\ NotAgain(k) => NotAgain(k)'
    BY RelKeepsRowless, RelKeepsNotAgain DEF OnceInv
  <2> QED BY <1>1, <2>1, SavesStays DEF OnceInv
<1> QED BY <1>2, <1>3, <1>4 DEF OnceInv, SavesOnce

\* A call that begins with a change nobody wrote, in a store that tells nothing of
\* it, finds no row of it.
LEMMA BeginsApart ==
  ASSUME Typed, OnlyWritten, OnceInv, NEW p \in Publisher, NEW c \in Change, c \notin written,
         \A q \in Publisher \ {p} : pub[q].pc = "add" => pub[q].change # c,
         \A q \in Publisher \ {p} : pub'[q] = pub[q],
         pub'[p].change = c, pub'[p].owed = {}, pub'[p].pc = IF p = "rebase" THEN "check" ELSE "add",
         pub'[p].pc = "check" => pub'[p].key = Personal(c),
         UNCHANGED <<relay, rel, logout, closing, owner, pending, events, published, queued, hasEvents, task>>,
         p # "rebase" => logout = "no" /\ written' = written,
         p = "rebase" => written' = written \cup {c}
  PROVE  OnceInv'
<1>1. OneEventPerObligation' /\ RowIsSent' /\ TaskKnows'
  BY RowsStay DEF OnceInv
<1>2. ListedOnce' /\ ShutOut'
  BY DEF OnceInv, ListedOnce, ShutOut
<1>3. \A q \in Publisher \ {p} : pub[q].pc # "idle" => pub[q].change # c
  BY DEF OnlyWritten
<1>4. Apart'
  BY <1>3 DEF OnceInv, Apart
<1>5. \A k \in Key : Rowless(k) => Rowless(k)'
  BY DEF Rowless, Untouched, WorksOn
<1>6. \A k \in Key : NotAgain(k) => NotAgain(k)'
  BY DEF NotAgain, Unoffered, Untouched, WorksOn, MaySign, WillTell, HasSaved
<1>7. ASSUME NEW q \in Publisher, q # p PROVE SavesWell(q)'
  <2>1. pub'[q] = pub[q] /\ (pub[q].pc = "add" => pub[q].change \notin written' \ written)
    BY <1>7
  <2> QED BY <1>5, <1>6, <2>1, SavesStays DEF OnceInv
<1>8. \A k \in Key : k[1] = c => Rowless(k)'
  BY <1>5, NewIsRowless DEF OnceInv
<1>9. SavesWell(p)'
  <2>1. ASSUME c \in Spaced PROVE Rowless(SpaceKey(pub[p].change))'
    <3>1. PICK k \in Key : k = SpaceKey(c) /\ k[1] = c
      BY <2>1, Keys DEF SpaceKey
    <3>2. Rowless(k)' /\ SpaceKey(pub'[p].change) = k
      BY <1>8, <3>1
    <3> QED BY <3>2 DEF SpaceKey
  <2>2. ASSUME p = "rebase" PROVE Rowless(pub[p].key)'
    <3>1. PICK k \in Key : k = Personal(c) /\ k[1] = c
      BY Keys DEF Personal
    <3>2. Rowless(k)' /\ pub'[p].key = k
      BY <1>8, <2>2, <3>1
    <3> QED BY <3>2
  <2>3. p # "rebase" => ~Ahead(p)' /\ pub'[p].change \notin written'
    BY DEF Ahead
  <2> QED BY <2>1, <2>2, <2>3 DEF SavesWell
<1> QED BY <1>1, <1>2, <1>4, <1>7, <1>9 DEF OnceInv, SavesOnce

\* "retries and restarts resend them byte for byte" (outbox.rs:8-9): one instance
\* whose changes are committed or rebased, not swept into a space, never has two
\* signed events of an obligation on the relays, whatever crashes, fails, is
\* imported or logs out meanwhile.  With two instances, or a sweep, TLC refutes it.
THEOREM OneEventOnly ==
  ASSUME MaxInst = 1, "sweep" \notin Publisher
  PROVE  Spec => []OneEventPerObligation
<1>1. Init => OnceInv
  BY DEF Init, OnceInv, OneEventPerObligation, RowIsSent, TaskKnows, HasSigned, HasSaved, ListedOnce, ShutOut,
     Apart, SavesOnce, SavesWell, Ahead, BeforeSpace, IdleTask, IdlePub, DownRel
<1>2. Typed /\ OneQueueTask /\ OnlyWritten /\ HeldWhereMarked /\ OnceInv /\ [Next]_vars => OnceInv'
  <2> SUFFICES ASSUME Typed, OneQueueTask, OnlyWritten, HeldWhereMarked, OnceInv, [Next]_vars PROVE OnceInv'
    OBVIOUS
  <2>0. pub \in [Publisher -> PubState]
    BY DEF Typed, TypeOK
  <2>1. ASSUME NEW t \in Task, TaskWorks(t) \/ TaskStoreFails(t) PROVE OnceInv'
    BY <2>1, TaskKeepsOnce
  <2>2. ASSUME NEW p \in Publisher, PubWorks(p) \/ PubStoreFails(p) PROVE OnceInv'
    BY <2>2, PubKeepsOnce
  <2>3. ASSUME NEW i \in Inst, RelWorks(i) \/ WalkEnds(i) PROVE OnceInv'
    BY <2>3, RelKeepsOnce
  <2>4. ASSUME NEW c \in Change, BeginCommit(c) PROVE OnceInv'
    <3>1. /\ UNCHANGED <<relays, rel, logout, store, lifecycle, engine, task, written>>
          /\ c \notin written /\ logout = "no" /\ "commit" \in Publisher
          /\ \A q \in Publisher \ {"commit"} : pub'[q] = pub[q]
          /\ pub'["commit"].pc = "add" /\ pub'["commit"].change = c /\ pub'["commit"].owed = {}
      BY <2>0, <2>4 DEF BeginCommit, PubUnchanged, IdlePub
    <3>2. \A q \in Publisher \ {"commit"} : pub[q].pc # "add"
      <4>1. \A q \in Publisher \ {"commit"} : q = "rebase"
        BY OutboxConstants
      <4> QED BY <4>1 DEF OnceInv, SavesOnce, SavesWell
    <3> QED BY <3>1, <3>2, BeginsApart DEF relays, store, lifecycle, engine
  <2>5. ASSUME NEW c \in Change, NEW d \in Change, AddRebased(c, d) PROVE OnceInv'
    <3>1. /\ UNCHANGED <<relays, rel, logout, pending, events, published, lifecycle, engine, task>>
          /\ d \notin written /\ written' = written \cup {d} /\ "rebase" \in Publisher
          /\ \A q \in Publisher : pub[q].pc = "add" => pub[q].change # d
          /\ \A q \in Publisher \ {"rebase"} : pub'[q] = pub[q]
          /\ pub'["rebase"].pc = "check" /\ pub'["rebase"].change = d /\ pub'["rebase"].owed = {}
          /\ pub'["rebase"].key = Personal(d)
      BY <2>0, <2>5 DEF AddRebased, PubUnchanged, IdlePub
    <3> QED BY <3>1, BeginsApart DEF relays, lifecycle, engine
  <2>6. ASSUME NEW c \in Change, BeginSweep(c) PROVE FALSE
    BY <2>6 DEF BeginSweep
  <2>7. ASSUME UNCHANGED <<relay, queued, hasEvents, task, rel, pub, written, owner, logout, closing>>,
               UNCHANGED <<pending, events, published>> \/ \E k \in Key : MarkPublished(k)
        PROVE  OnceInv'
    <3>1. ListedOnce' /\ ShutOut'
      BY <2>7 DEF OnceInv, ListedOnce, ShutOut
    <3> QED BY <2>7, <3>1, OnceStays
  <2>8. ASSUME NEW k \in Key, ImportEcho(k) PROVE OnceInv'
    BY <2>7, <2>8 DEF ImportEcho, EnvUnchanged, relays, lifecycle, engine
  <2>9. ASSUME NEW c \in Change, ImportBaseMarks(c) \/ ImportBasePuts(c) \/ Compact(c) PROVE OnceInv'
    <3>1. c \in Spaced => SpaceKey(c) \in Key
      BY Keys
    <3>2. UNCHANGED <<relay, queued, hasEvents, task, rel, pub, written, owner, logout, closing>>
      BY <2>9 DEF ImportBaseMarks, ImportBasePuts, Compact, EnvUnchanged, relays, lifecycle, engine
    <3>3. UNCHANGED <<pending, events, published>> \/ \E k \in Key : MarkPublished(k)
      BY <2>9, <3>1 DEF ImportBaseMarks, ImportBasePuts, Compact, store
    <3> QED BY <2>7, <3>2, <3>3
  <2>10. CASE UNCHANGED vars
    BY <2>7, <2>10 DEF vars, store, relays, lifecycle, engine
  <2>11. CASE LogoutAsked \/ LogoutReads
    <3>1. /\ UNCHANGED <<relay, queued, hasEvents, task, rel, pub, written, owner, closing>>
          /\ UNCHANGED <<pending, events, published>>
          /\ logout # "done" /\ logout' # "done"
      BY <2>11 DEF LogoutAsked, LogoutReads, store, relays, lifecycle, engine
    <3>2. ListedOnce' /\ ShutOut'
      BY <2>11, <3>1 DEF OnceInv, ListedOnce, ShutOut, LogoutAsked, LogoutReads
    <3> QED BY <3>1, <3>2, OnceStays
  <2>12. CASE LogoutClears
    <3>1. /\ pending' = {} /\ events' = [k \in Key |-> 0] /\ logout' = "done" /\ queued' = {}
          /\ UNCHANGED <<relay, task, rel, pub, written>>
      BY <2>12 DEF LogoutClears, relays
    <3>2. \A p \in Publisher \ {"rebase"} : pub[p].pc = "idle"
      BY <2>12 DEF LogoutClears, OnceInv, ShutOut
    <3>3. RowIsSent' /\ OneEventPerObligation'
      BY <3>1 DEF OnceInv, RowIsSent, OneEventPerObligation
    <3>4. TaskKnows'
      <4>1. \A t \in Task : HasSaved(t) => task[t].key \in Key
        BY DEF Typed, TaskShape, HasSaved, Working
      <4> QED BY <3>1, <4>1 DEF OnceInv, TaskKnows, HasSigned, HasSaved
    <3>5. ListedOnce' /\ ShutOut' /\ Apart'
      BY <3>1, <3>2 DEF OnceInv, ListedOnce, ShutOut, Apart
    <3>6. \A k \in Key : Rowless(k) => Rowless(k)'
      BY <3>1 DEF Rowless, Untouched, WorksOn
    <3>7. \A p \in Publisher : SavesWell(p)'
      BY <3>1, <3>2, <3>6, SavesStays DEF OnceInv
    <3> QED BY <3>3, <3>4, <3>5, <3>7 DEF OnceInv, SavesOnce
  <2>13. CASE Crash
    <3>1. /\ UNCHANGED <<relay, pending, events, published>> /\ logout # "done" /\ logout' = "no" /\ closing' = {}
          /\ \A t \in Task : task'[t].pc = "idle"
          /\ \A p \in Publisher : pub'[p].pc = "idle"
          /\ \A i \in Inst : rel'[i].pc = "down" /\ rel'[i].list = {}
      BY <2>13 DEF Crash, store, relays, IdleTask, IdlePub, DownRel
    <3>2. OneEventPerObligation' /\ RowIsSent' /\ TaskKnows'
      BY <3>1, RowsStay DEF OnceInv
    <3>3. ListedOnce' /\ ShutOut' /\ Apart' /\ SavesOnce'
      BY <3>1 DEF ListedOnce, ShutOut, Apart, SavesOnce, SavesWell, Ahead, BeforeSpace
    <3> QED BY <3>2, <3>3 DEF OnceInv
  <2>14. ASSUME NEW i \in Inst, CloseSession(i) PROVE OnceInv'
    <3>1. /\ UNCHANGED <<relay, pending, events, published, task, rel, pub, logout, written>> /\ logout = "done"
          /\ UNCHANGED <<queued, hasEvents>> \/ queued' = {}
          /\ closing' \subseteq closing
      BY <2>14 DEF CloseSession, store, relays, engine, OnceInv, ShutOut
    <3>2. ListedOnce' /\ ShutOut'
      BY <3>1 DEF OnceInv, ListedOnce, ShutOut
    <3> QED BY <3>1, <3>2, OnceStays
  <2>15. CASE RestartSync
    BY <2>15 DEF RestartSync
  <2> QED BY <2>1, <2>2, <2>3, <2>4, <2>5, <2>6, <2>8, <2>9, <2>10, <2>11, <2>12, <2>13, <2>14, <2>15 DEF Next
<1>3. OnceInv => OneEventPerObligation
  BY DEF OnceInv
<1> QED BY <1>1, <1>2, <1>3, TypedAlways, OneQueueTaskAlways, OnlyWrittenAlways, HeldWhereMarkedAlways, PTL DEF Spec

-----------------------------------------------------------------------------
(* Refinement: what a replica promises of the changes written on it.       *)

\* Without rebases, the outbox with its queue tasks, sweeps, walks, restarts,
\* crashes and logout implements DurableWrite.
THEOREM OutboxRefinesDurableWrite ==
  ASSUME "rebase" \notin Publisher
  PROVE  Spec => ImplementsDurableWrite
<1> DEFINE Delivered == {c \in Change : relay[Personal(c)] # {}}
           Acknowledged == {c \in Change : Personal(c) \in published}
           Inv == Typed /\ HeldWhereMarked /\ OnlyWritten /\ Obligations
<1>1. Init => Durable!Init
  BY Keys DEF Init, Durable!Init
<1>2. Inv /\ Inv' /\ [Next]_vars => [Durable!Next]_Durable!vars
  <2> SUFFICES ASSUME Inv, Inv', [Next]_vars
               PROVE  Durable!Next \/ UNCHANGED Durable!vars
    OBVIOUS
  <2> USE DEF Durable!Next, Durable!vars
  <2>0. /\ \A c \in Change : Personal(c) \in Key /\ Personal(c)[1] = c /\ ~IsSpace(Personal(c))
        /\ \A c, d \in Change : Personal(c) = Personal(d) => c = d
    BY Keys DEF Personal, IsSpace
  <2>1. ASSUME NEW k \in Key, MarkPublished(k), UNCHANGED <<relay, written, logout>>
        PROVE  Durable!Next \/ UNCHANGED Durable!vars
    <3>1. CASE \E c \in Change : k = Personal(c)
      <4>1. PICK c \in Change : k = Personal(c)
        BY <3>1
      <4>2. c \in Delivered
        BY <2>0, <2>1, <4>1 DEF MarkPublished, HeldWhereMarked, PublishedIsHeld
      <4>3. Acknowledged' = Acknowledged \cup {c}
        BY <2>0, <2>1, <4>1 DEF MarkPublished
      <4> QED BY <2>1, <4>2, <4>3 DEF Durable!Acknowledge
    <3>2. CASE \A c \in Change : k # Personal(c)
      BY <2>1, <3>2 DEF MarkPublished
    <3> QED BY <3>1, <3>2
  <2>2. ASSUME UNCHANGED <<published, relay, written>>, (logout' = "done") = (logout = "done")
        PROVE  UNCHANGED Durable!vars
    BY <2>2
  <2>3. ASSUME NEW t \in Task, TaskWorks(t) \/ TaskStoreFails(t) PROVE Durable!Next \/ UNCHANGED Durable!vars
    <3>1. UNCHANGED <<written, logout>>
      BY <2>3 DEF TaskWorks, TaskNext, TaskLeave, TaskCheck, TaskRead, TaskSave, TaskAccepted, TaskUnanswered,
         TaskMark, TaskStoreFails, TaskReport, TaskLook, TaskRelock, TaskUnchanged
    <3>2. CASE TaskMark(t)
      <4>1. task[t].key \in Key
        BY <3>2 DEF TaskMark, Typed, TaskShape, Working
      <4> QED BY <2>1, <3>1, <3>2, <4>1 DEF TaskMark, relays
    <3>3. CASE published' = published /\ relay' = [relay EXCEPT ![task[t].key] = @ \cup {task[t].event}]
                /\ task[t].pc = "send"
      <4>1. task[t].key \in Key /\ task[t].key[1] \in written /\ relay \in [Key -> SUBSET Nat]
            /\ written \subseteq Change
        BY <3>3 DEF Typed, TypeOK, TaskShape, OnlyWritten, Working
      <4>2. CASE \E c \in Change : task[t].key = Personal(c)
        <5>1. PICK c \in Change : task[t].key = Personal(c)
          BY <4>2
        <5>2. c \in written
          BY <2>0, <4>1, <5>1
        <5>3. Delivered' = Delivered \cup {c}
          BY <2>0, <3>3, <4>1, <5>1
        <5> QED BY <3>1, <3>3, <5>2, <5>3 DEF Durable!Deliver
      <4>3. CASE \A c \in Change : task[t].key # Personal(c)
        BY <2>0, <3>1, <3>3, <4>1, <4>3
      <4> QED BY <4>2, <4>3
    <3>4. CASE UNCHANGED <<published, relay>>
      BY <2>2, <3>1, <3>4
    <3> QED BY <2>3, <3>2, <3>3, <3>4 DEF TaskWorks, TaskNext, TaskLeave, TaskCheck, TaskRead, TaskSave, SavePending,
             TaskAccepted, TaskUnanswered, TaskStoreFails, TaskReport, TaskLook, TaskRelock, store, relays
  <2>4. ASSUME NEW p \in Publisher, PubWorks(p) \/ PubStoreFails(p) PROVE Durable!Next \/ UNCHANGED Durable!vars
    <3>1. UNCHANGED <<relay, logout>>
      BY <2>4 DEF PubWorks, AddLocalChange, PubCheck, PubCover, PubMark, PubRead, PubSave, PubStoreFails,
         PubSession, PubOpen, PubOffer, PubEnsure, PubUnchanged, relays
    <3>2. CASE AddLocalChange(p)
      <4>1. pub[p].change \in Change /\ logout # "done"
        BY <3>2 DEF AddLocalChange, Typed, PubShape, Obligations, LogoutGate
      <4>2. UNCHANGED <<Delivered, Acknowledged>> /\ written' = written \cup {pub[p].change}
        BY <3>1, <3>2 DEF AddLocalChange
      <4> QED BY <3>1, <4>1, <4>2 DEF Durable!Write
    <3>3. CASE PubMark(p)
      <4>1. pub[p].key \in Key
        BY <3>3, Keys DEF PubMark, Typed, PubShape
      <4> QED BY <2>1, <3>1, <3>3, <4>1 DEF PubMark
    <3>4. CASE ~AddLocalChange(p) /\ ~PubMark(p)
      <4>1. UNCHANGED <<published, written>>
        BY <2>4, <3>4 DEF PubWorks, PubCheck, PubCover, PubRead, PubSave, SavePending, PubStoreFails,
           PubSession, PubOpen, PubOffer, PubEnsure, store
      <4> QED BY <2>2, <3>1, <4>1
    <3> QED BY <3>2, <3>3, <3>4
  <2>5. ASSUME NEW i \in Inst, RelWorks(i) \/ WalkEnds(i) PROVE Durable!Next \/ UNCHANGED Durable!vars
    <3>1. UNCHANGED <<relay, logout, written>>
      BY <2>5 DEF RelWorks, StartOpens, RelList, RelOffer, RelEnsure, RelSettle, RelHeld, RelMark, RelDrop,
         WalkEnds, RelUnchanged, relays
    <3>2. CASE RelMark(i)
      BY <2>1, <3>1, <3>2 DEF RelMark, Typed, RelShape
    <3>3. CASE ~RelMark(i)
      <4>1. UNCHANGED published
        BY <2>5, <3>3 DEF RelWorks, StartOpens, RelList, RelOffer, RelEnsure, RelSettle, RelHeld, RelDrop,
           WalkEnds, store
      <4> QED BY <2>2, <3>1, <4>1
    <3> QED BY <3>2, <3>3
  <2>6. ASSUME NEW c \in Change, NEW d \in Change, BeginCommit(c) \/ BeginSweep(c) \/ AddRebased(c, d)
        PROVE  Durable!Next \/ UNCHANGED Durable!vars
    <3>1. UNCHANGED <<published, relay, written, logout>>
      BY <2>6 DEF BeginCommit, BeginSweep, AddRebased, PubUnchanged, store, relays
    <3> QED BY <2>2, <3>1
  <2>7. ASSUME NEW k \in Key, ImportEcho(k) PROVE Durable!Next \/ UNCHANGED Durable!vars
    BY <2>1, <2>7 DEF ImportEcho, EnvUnchanged, relays
  <2>8. ASSUME NEW c \in Change, ImportBaseMarks(c) PROVE Durable!Next \/ UNCHANGED Durable!vars
    BY <2>1, <2>8, Keys DEF ImportBaseMarks, EnvUnchanged, relays
  <2>9. ASSUME NEW c \in Change, ImportBasePuts(c) \/ Compact(c) PROVE Durable!Next \/ UNCHANGED Durable!vars
    BY <2>2, <2>9 DEF ImportBasePuts, Compact, EnvUnchanged, store, relays
  <2>10. ASSUME NEW i \in Inst, CloseSession(i) PROVE Durable!Next \/ UNCHANGED Durable!vars
    BY <2>2, <2>10 DEF CloseSession, store, relays
  <2>11. CASE RestartSync \/ LogoutAsked \/ LogoutReads \/ Crash \/ UNCHANGED vars
    BY <2>2, <2>11 DEF RestartSync, LogoutAsked, LogoutReads, Crash, vars, store, relays
  <2>12. CASE LogoutClears
    <3>1. written \subseteq Acknowledged /\ logout # "done" /\ logout' = "done"
      BY <2>12 DEF LogoutClears, Obligations, LogoutGate, Typed, TypeOK
    <3>2. Acknowledged' = {} /\ UNCHANGED <<written, Delivered>>
      BY <2>12 DEF LogoutClears, relays
    <3> QED BY <3>1, <3>2 DEF Durable!Erase
  <2> QED BY <2>3, <2>4, <2>5, <2>6, <2>7, <2>8, <2>9, <2>10, <2>11, <2>12 DEF Next
<1> QED BY <1>1, <1>2, TypedAlways, HeldWhereMarkedAlways, OnlyWrittenAlways, ObligationsAlways, PTL
    DEF Spec, ImplementsDurableWrite, Durable!Spec
=============================================================================
