---------------------------- MODULE OutboxTypes ----------------------------
(***************************************************************************)
(* Type correctness of Outbox: Typed is inductive on its own.  The lemmas  *)
(* are one per process (a queue task, a caller of `publish`, an instance's *)
(* start and release), one case per action.                                *)
(***************************************************************************)
EXTENDS OutboxInv, TLAPS

\* The initial records are typed.
LEMMA IdleTyped == IdleTask \in TaskState /\ IdlePub \in PubState /\ DownRel \in RelState
  BY OutboxConstants DEF IdleTask, IdlePub, DownRel, TaskState, PubState, RelState

\* The obligations of a change are keys.
LEMMA Keys ==
  /\ \A c \in Change : Personal(c) \in Key
  /\ \A c \in Spaced : SpaceKey(c) \in Key
  BY DEF Personal, SpaceKey, Key

\* An obligation added to a set of offers leaves a set of offers.
LEMMA Offers ==
  \A k \in Key, W \in SUBSET Offer, b \in BOOLEAN : W \cup {<<k, b>>} \in SUBSET Offer
  BY DEF Offer

\* A step of a queue task keeps the tasks typed.
LEMMA TaskTyped ==
  ASSUME Typed, NEW t \in Task, TaskWorks(t) \/ TaskStoreFails(t)
  PROVE  task' \in [Task -> TaskState]
<1>0. task[t] \in TaskState /\ task \in [Task -> TaskState]
  BY DEF Typed, TypeOK
<1>1. CASE TaskNext(t)
  <2>1. ASSUME NEW k \in Key, NEW b \in BOOLEAN,
               task' = [task EXCEPT ![t] = [@ EXCEPT !.pc = "check", !.key = k, !.unsealed = b]]
        PROVE task' \in [Task -> TaskState]
    BY <1>0, <2>1 DEF TaskState
  <2>2. CASE task' = [task EXCEPT ![t].pc = "leave"]
    BY <1>0, <2>2 DEF TaskState
  <2>3. queued \subseteq Key
    BY DEF Typed, TypeOK, ProcessOK
  <2>4. \A k : (k \notin hasEvents) \in BOOLEAN
    OBVIOUS
  <2> QED BY <1>1, <2>1, <2>2, <2>3, <2>4, Zenon DEF TaskNext
<1>12. CASE TaskLeave(t)
  BY <1>0, <1>12 DEF TaskLeave, TaskState
<1>2. CASE TaskCheck(t)
  <2>1. CASE task' = [task EXCEPT ![t] = [@ EXCEPT !.pc = "report", !.ok = TRUE]]
    BY <1>0, <2>1 DEF TaskState
  <2>2. CASE task' = [task EXCEPT ![t].pc = "read"]
    BY <1>0, <2>2 DEF TaskState
  <2> QED BY <1>2, <2>1, <2>2 DEF TaskCheck
<1>3. CASE TaskRead(t)
  <2>1. task[t].key \in Key
    BY <1>3 DEF TaskRead, Typed, TaskShape, Working
  <2>2. events[task[t].key] \in Nat /\ signed[task[t].key] + 1 \in Nat
    BY <2>1 DEF Typed, TypeOK, StoreOK
  <2>3. CASE task' = [task EXCEPT ![t] = [@ EXCEPT !.pc = "report", !.ok = TRUE]]
    BY <1>0, <2>3 DEF TaskState
  <2>4. CASE task' = [task EXCEPT ![t].pc = "report"]
    BY <1>0, <2>4 DEF TaskState
  <2>5. ASSUME NEW n \in Nat, task' = [task EXCEPT ![t] = [@ EXCEPT !.pc = "save", !.event = n]]
        PROVE task' \in [Task -> TaskState]
    BY <1>0, <2>5 DEF TaskState
  <2> QED BY <1>3, <2>2, <2>3, <2>4, <2>5, Zenon DEF TaskRead
<1>4. CASE TaskSave(t)
  BY <1>0, <1>4 DEF TaskState, TaskSave
<1>5. CASE TaskAccepted(t)
  BY <1>0, <1>5 DEF TaskState, TaskAccepted
<1>6. CASE TaskUnanswered(t)
  BY <1>0, <1>6 DEF TaskState, TaskUnanswered
<1>7. CASE TaskMark(t)
  BY <1>0, <1>7 DEF TaskState, TaskMark
<1>8. CASE TaskReport(t)
  BY <1>0, <1>8, OutboxConstants DEF TaskState, TaskReport, IdleTask
<1>9. CASE TaskLook(t)
  <2>1. CASE task' = [task EXCEPT ![t] = IdleTask]
    BY <1>0, <2>1, IdleTyped
  <2>2. CASE task' = [task EXCEPT ![t].pc = "relock"]
    BY <1>0, <2>2 DEF TaskState
  <2> QED BY <1>9, <2>1, <2>2 DEF TaskLook
<1>10. CASE TaskRelock(t)
  <2>1. CASE task' = [task EXCEPT ![t] = IdleTask]
    BY <1>0, <2>1, IdleTyped
  <2>2. CASE task' = [task EXCEPT ![t].pc = "next"]
    BY <1>0, <2>2 DEF TaskState
  <2> QED BY <1>10, <2>1, <2>2 DEF TaskRelock
<1>11. CASE TaskStoreFails(t)
  BY <1>0, <1>11 DEF TaskState, TaskStoreFails
<1> QED BY <1>1, <1>2, <1>3, <1>4, <1>5, <1>6, <1>7, <1>8, <1>9, <1>10, <1>11, <1>12 DEF TaskWorks

\* So does the move of a caller to its next candidate.
LEMMA AdvanceTyped ==
  ASSUME Typed, NEW p \in Publisher, NEW W \in SUBSET Offer, Advance(p, W), pub[p].pc # "idle"
  PROVE  pub' \in [Publisher -> PubState]
<1>0. pub[p] \in PubState /\ pub \in [Publisher -> PubState]
  BY DEF Typed, TypeOK
<1>1. CASE pub' = [pub EXCEPT ![p] = [@ EXCEPT !.pc = "session", !.owed = W]]
  BY <1>0, <1>1 DEF PubState
<1>2. ASSUME NEW k \in Key, pub' = [pub EXCEPT ![p] = [@ EXCEPT !.pc = "check", !.owed = W, !.key = k]]
      PROVE  pub' \in [Publisher -> PubState]
  BY <1>0, <1>2 DEF PubState
<1>3. \A c \in Spaced : SpaceKey(c) \in Key
  BY DEF SpaceKey, Key
<1> QED BY <1>1, <1>2, <1>3, Zenon DEF Advance

\* A step of a caller of `publish` keeps the callers typed.
LEMMA PubTyped ==
  ASSUME Typed, NEW p \in Publisher, PubWorks(p) \/ PubStoreFails(p)
  PROVE  pub' \in [Publisher -> PubState]
<1>0. pub[p] \in PubState /\ pub \in [Publisher -> PubState]
  BY DEF Typed, TypeOK
<1>00. pub[p].owed \in SUBSET Offer
  BY <1>0 DEF PubState
<1>1. CASE AddLocalChange(p)
  <2>1. Personal(pub[p].change) \in Key
    BY <1>1 DEF Typed, PubShape, AddLocalChange, Personal, Key
  <2> QED BY <1>0, <1>1, <2>1 DEF AddLocalChange, PubState
<1>2. CASE PubCheck(p)
  <2>1. CASE pub' = [pub EXCEPT ![p].pc = IF IsSpace(pub[p].key) THEN "cover" ELSE "read"]
    BY <1>0, <2>1 DEF PubState
  <2> QED BY <1>00, <1>2, <2>1, AdvanceTyped DEF PubCheck
<1>3. CASE PubCover(p)
  BY <1>0, <1>3 DEF PubCover, PubState
<1>4. CASE PubMark(p)
  BY <1>00, <1>4, AdvanceTyped DEF PubMark
<1>5. CASE PubRead(p)
  <2>1. ASSUME pub[p].key \in pending PROVE pub[p].owed \cup {<<pub[p].key, events[pub[p].key] # 0>>} \in SUBSET Offer
    <3>1. pub[p].key \in Key
      BY <2>1 DEF Typed, TypeOK, StoreOK
    <3>2. (events[pub[p].key] # 0) \in BOOLEAN
      OBVIOUS
    <3> QED BY <1>00, <3>1, <3>2, Offers, Zenon
  <2>2. CASE pub' = [pub EXCEPT ![p].pc = "save"]
    BY <1>0, <2>2 DEF PubState
  <2> QED BY <1>5, <2>1, <2>2, AdvanceTyped DEF PubRead
<1>6. CASE PubSave(p)
  <2>1. pub[p].key \in Key
    BY <1>6, Keys DEF Typed, PubShape, PubSave
  <2>2. pub[p].owed \cup {<<pub[p].key, FALSE>>} \in SUBSET Offer
    BY <1>00, <2>1, Offers
  <2> QED BY <1>6, <2>2, AdvanceTyped DEF PubSave
<1>7. CASE PubSession(p)
  <2>1. CASE pub' = [pub EXCEPT ![p] = IdlePub]
    BY <1>0, <2>1, IdleTyped
  <2>2. CASE pub' = [pub EXCEPT ![p].pc =
                     IF SessionOpen(pub[p].inst) \/ pub[p].inst \in stopped
                     THEN "offer" ELSE "open"]
    BY <1>0, <2>2 DEF PubState
  <2> QED BY <1>7, <2>1, <2>2 DEF PubSession
<1>8. CASE PubOpen(p)
  BY <1>0, <1>8 DEF PubOpen, PubState
<1>9. CASE PubOffer(p)
  <2>1. CASE pub' = [pub EXCEPT ![p] = IdlePub]
    BY <1>0, <2>1, IdleTyped
  <2>2. ASSUME NEW o,
               pub' = [pub EXCEPT ![p] =
                       [@ EXCEPT !.owed = pub[p].owed \ {o},
                                 !.pc = IF o[1] \in queued THEN "offer" ELSE "ensure"]]
        PROVE  pub' \in [Publisher -> PubState]
    <3>1. pub[p].owed \ {o} \in SUBSET Offer
      BY <1>00
    <3>2. CASE o[1] \in queued
      <4>1. pub' = [pub EXCEPT ![p] = [@ EXCEPT !.owed = pub[p].owed \ {o}, !.pc = "offer"]]
        BY <2>2, <3>2
      <4> QED BY <1>0, <3>1, <4>1 DEF PubState
    <3>3. CASE o[1] \notin queued
      <4>1. pub' = [pub EXCEPT ![p] = [@ EXCEPT !.owed = pub[p].owed \ {o}, !.pc = "ensure"]]
        BY <2>2, <3>3
      <4> QED BY <1>0, <3>1, <4>1 DEF PubState
    <3> QED BY <3>2, <3>3
  <2> QED BY <1>9, <2>1, <2>2 DEF PubOffer
<1>10. CASE PubEnsure(p)
  BY <1>0, <1>10 DEF PubEnsure, PubState
<1>11. CASE PubStoreFails(p)
  BY <1>0, <1>11, IdleTyped DEF PubStoreFails
<1> QED BY <1>1, <1>2, <1>3, <1>4, <1>5, <1>6, <1>7, <1>8, <1>9, <1>10, <1>11 DEF PubWorks

\* The stored rows are offers.
LEMMA RowsTyped == ASSUME Typed, NEW b \in BOOLEAN PROVE Rows(b) \in SUBSET Offer
<1>1. \A k \in pending : k \in Key
  BY DEF Typed, TypeOK, StoreOK
<1>2. \A k \in Key : <<k, events[k] # 0>> \in Offer
  <2>1. \A k \in Key, c \in BOOLEAN : <<k, c>> \in Offer
    BY DEF Offer
  <2>2. \A k : (events[k] # 0) \in BOOLEAN
    OBVIOUS
  <2> QED BY <2>1, <2>2, Zenon
<1> QED BY <1>1, <1>2, Zenon DEF Rows

\* A step of start() or of a release keeps the instances typed.
LEMMA RelTyped ==
  ASSUME Typed, NEW i \in Inst, RelWorks(i) \/ WalkEnds(i)
  PROVE  rel' \in [Inst -> RelState]
<1>0. rel[i] \in RelState /\ rel \in [Inst -> RelState]
  BY DEF Typed, TypeOK
<1>1. CASE StartOpens(i)
  BY <1>0, <1>1 DEF StartOpens, RelState
<1>2. CASE RelList(i)
  <2>1. ASSUME NEW q \in {"offer", "spaceOffer"}, NEW W \in SUBSET Offer,
               rel' = [rel EXCEPT ![i] = [@ EXCEPT !.pc = q, !.list = W]]
        PROVE  rel' \in [Inst -> RelState]
    BY <1>0, <2>1 DEF RelState
  <2> QED BY <1>2, <2>1, RowsTyped, Zenon DEF RelList
<1>3. CASE RelOffer(i)
  <2>1. ASSUME NEW q \in {"walk", "up"},
               rel' = [rel EXCEPT ![i] = [@ EXCEPT !.list = {}, !.pc = q]]
        PROVE  rel' \in [Inst -> RelState]
    BY <1>0, <2>1 DEF RelState
  <2>2. ASSUME NEW W \in SUBSET Offer, NEW q \in {"offer", "spaceOffer", "ensure", "spaceEnsure"},
               rel' = [rel EXCEPT ![i] = [@ EXCEPT !.list = W, !.pc = q]]
        PROVE  rel' \in [Inst -> RelState]
    BY <1>0, <2>2 DEF RelState
  <2>5. \A o : rel[i].list \ {o} \in SUBSET Offer
    BY <1>0 DEF RelState
  <2>3. (IF rel[i].pc = "offer" THEN "walk" ELSE "up") \in {"walk", "up"}
    OBVIOUS
  <2>4. \A o : (IF o[1] \in queued THEN rel[i].pc
                 ELSE IF rel[i].pc = "offer" THEN "ensure" ELSE "spaceEnsure")
               \in {"offer", "spaceOffer", "ensure", "spaceEnsure"}
    BY <1>3 DEF RelOffer
  <2> QED BY <1>3, <2>1, <2>2, <2>3, <2>4, <2>5, Zenon DEF RelOffer
<1>4. CASE RelEnsure(i)
  BY <1>0, <1>4 DEF RelEnsure, RelState
<1>5. CASE RelSettle(i)
  <2>1. ASSUME NEW W \in SUBSET Offer, rel' = [rel EXCEPT ![i] = [@ EXCEPT !.pc = "held", !.list = W]]
        PROVE  rel' \in [Inst -> RelState]
    BY <1>0, <2>1 DEF RelState
  <2>2. Rows(FALSE) \cup Rows(TRUE) \in SUBSET Offer
    BY RowsTyped
  <2> QED BY <1>5, <2>1, <2>2, Zenon DEF RelSettle
<1>6. CASE RelHeld(i)
  <2>1. CASE rel' = [rel EXCEPT ![i].pc = "relist"]
    BY <1>0, <2>1 DEF RelState
  <2>2. ASSUME NEW W \in SUBSET Offer, rel' = [rel EXCEPT ![i].list = W]
        PROVE  rel' \in [Inst -> RelState]
    BY <1>0, <2>2 DEF RelState
  <2>3. ASSUME NEW W \in SUBSET Offer, NEW k \in Key,
               rel' = [rel EXCEPT ![i] = [@ EXCEPT !.pc = "mark", !.key = k, !.list = W]]
        PROVE  rel' \in [Inst -> RelState]
    BY <1>0, <2>3 DEF RelState
  <2>4. \A o \in rel[i].list : o[1] \in Key /\ rel[i].list \ {o} \in SUBSET Offer
    BY <1>0 DEF RelState, Offer
  <2>5. ASSUME NEW o \in rel[i].list,
               rel' = [rel EXCEPT ![i] =
                          [@ EXCEPT !.pc = "mark", !.key = o[1], !.list = rel[i].list \ {o}]]
        PROVE  rel' \in [Inst -> RelState]
    BY <2>3, <2>4, <2>5, Zenon
  <2>6. ASSUME NEW o \in rel[i].list, rel' = [rel EXCEPT ![i].list = rel[i].list \ {o}]
        PROVE  rel' \in [Inst -> RelState]
    BY <2>2, <2>4, <2>6, Zenon
  <2> QED BY <1>6, <2>1, <2>5, <2>6 DEF RelHeld
<1>7. CASE RelMark(i)
  BY <1>0, <1>7 DEF RelMark, RelState
<1>8. CASE RelDrop(i)
  BY <1>0, <1>8 DEF RelDrop, RelState
<1>9. CASE WalkEnds(i)
  BY <1>0, <1>9 DEF WalkEnds, RelState
<1> QED BY <1>1, <1>2, <1>3, <1>4, <1>5, <1>6, <1>7, <1>8, <1>9 DEF RelWorks

\* A working task has an instance and a key.
LEMMA TaskShaped ==
  ASSUME Typed, NEW t \in Task, TaskWorks(t) \/ TaskStoreFails(t)
  PROVE  TaskShape'
<1>0. task[t] \in TaskState /\ task \in [Task -> TaskState] /\ TaskShape
  BY DEF Typed, TypeOK
<1>1. CASE TaskNext(t)
  <2>1. queued \subseteq Key
    BY DEF Typed, TypeOK, ProcessOK
  <2>2. CASE task' = [task EXCEPT ![t].pc = "leave"]
    BY <1>0, <1>1, <2>2 DEF TaskNext, TaskShape, TaskState, Working
  <2>3. ASSUME NEW k \in Key, NEW b, task' = [task EXCEPT ![t] = [@ EXCEPT !.pc = "check", !.key = k, !.unsealed = b]]
        PROVE  TaskShape'
    BY <1>0, <1>1, <2>3 DEF TaskNext, TaskShape, TaskState, Working
  <2> QED BY <1>1, <2>1, <2>2, <2>3, Zenon DEF TaskNext
<1>12. CASE TaskLeave(t)
  BY <1>0, <1>12 DEF TaskShape, TaskLeave, TaskState, Working
<1>2. CASE TaskCheck(t)
  <2>1. CASE task' = [task EXCEPT ![t] = [@ EXCEPT !.pc = "report", !.ok = TRUE]]
    BY <1>0, <1>2, <2>1 DEF TaskShape, TaskCheck, TaskState, Working
  <2>2. CASE task' = [task EXCEPT ![t].pc = "read"]
    BY <1>0, <1>2, <2>2 DEF TaskShape, TaskCheck, TaskState, Working
  <2> QED BY <1>2, <2>1, <2>2 DEF TaskCheck
<1>3. CASE TaskRead(t)
  <2>1. CASE task' = [task EXCEPT ![t] = [@ EXCEPT !.pc = "report", !.ok = TRUE]]
    BY <1>0, <1>3, <2>1 DEF TaskShape, TaskRead, TaskState, Working
  <2>2. CASE task' = [task EXCEPT ![t].pc = "report"]
    BY <1>0, <1>3, <2>2 DEF TaskShape, TaskRead, TaskState, Working
  <2>3. ASSUME NEW n, task' = [task EXCEPT ![t] = [@ EXCEPT !.pc = "save", !.event = n]]
        PROVE  TaskShape'
    BY <1>0, <1>3, <2>3 DEF TaskShape, TaskRead, TaskState, Working
  <2> QED BY <1>3, <2>1, <2>2, <2>3, Zenon DEF TaskRead
<1>4. CASE TaskSave(t)
  BY <1>0, <1>4 DEF TaskShape, TaskSave, TaskState, Working
<1>5. CASE TaskAccepted(t)
  BY <1>0, <1>5 DEF TaskShape, TaskAccepted, TaskState, Working
<1>6. CASE TaskUnanswered(t)
  BY <1>0, <1>6 DEF TaskShape, TaskUnanswered, TaskState, Working
<1>7. CASE TaskMark(t)
  BY <1>0, <1>7 DEF TaskShape, TaskMark, TaskState, Working
<1>8. CASE TaskReport(t)
  BY <1>0, <1>8 DEF TaskShape, TaskReport, TaskState, Working, IdleTask
<1>9. CASE TaskLook(t)
  BY <1>0, <1>9 DEF TaskShape, TaskLook, TaskState, Working, IdleTask
<1>10. CASE TaskRelock(t)
  BY <1>0, <1>10 DEF TaskShape, TaskRelock, TaskState, Working, IdleTask
<1>11. CASE TaskStoreFails(t)
  BY <1>0, <1>11 DEF TaskShape, TaskStoreFails, TaskState, Working
<1> QED BY <1>1, <1>2, <1>3, <1>4, <1>5, <1>6, <1>7, <1>8, <1>9, <1>10, <1>11, <1>12 DEF TaskWorks

\* The next candidate of a caller is an obligation of its change.
LEMMA AdvanceShaped ==
  ASSUME Typed, NEW p \in Publisher, pub[p].pc \notin {"idle", "add"}, NEW W, Advance(p, W)
  PROVE  PubShape'
<1>0. pub[p] \in PubState /\ pub \in [Publisher -> PubState] /\ PubShape
  BY DEF Typed, TypeOK
<1>1. CASE pub' = [pub EXCEPT ![p] = [@ EXCEPT !.pc = "session", !.owed = W]]
  BY <1>0, <1>1 DEF PubShape, PubState
<1>2. CASE /\ pub[p].change \in Spaced
           /\ pub' = [pub EXCEPT ![p] = [@ EXCEPT !.pc = "check", !.owed = W,
                                                  !.key = SpaceKey(pub[p].change)]]
  BY <1>0, <1>2 DEF PubShape, PubState
<1> QED BY <1>1, <1>2 DEF Advance

\* A caller has an instance, a change and one of its obligations.
LEMMA PubShaped ==
  ASSUME Typed, NEW p \in Publisher, PubWorks(p) \/ PubStoreFails(p)
  PROVE  PubShape'
<1>0. pub[p] \in PubState /\ pub \in [Publisher -> PubState] /\ PubShape
  BY DEF Typed, TypeOK
<1>1. CASE AddLocalChange(p)
  BY <1>0, <1>1 DEF AddLocalChange, PubShape, PubState
<1>2. CASE PubCheck(p)
  <2>1. CASE Advance(p, pub[p].owed)
    BY <1>2, <2>1, AdvanceShaped DEF PubCheck
  <2>2. CASE pub' = [pub EXCEPT ![p].pc = IF IsSpace(pub[p].key) THEN "cover" ELSE "read"]
    BY <1>0, <1>2, <2>2 DEF PubCheck, PubShape, PubState
  <2> QED BY <1>2, <2>1, <2>2 DEF PubCheck
<1>3. CASE PubCover(p)
  BY <1>0, <1>3 DEF PubCover, PubShape, PubState
<1>4. CASE PubMark(p)
  BY <1>4, AdvanceShaped DEF PubMark
<1>5. CASE PubRead(p)
  <2>1. CASE pub' = [pub EXCEPT ![p].pc = "save"]
    BY <1>0, <1>5, <2>1 DEF PubRead, PubShape, PubState
  <2> QED BY <1>5, <2>1, AdvanceShaped DEF PubRead
<1>6. CASE PubSave(p)
  BY <1>6, AdvanceShaped DEF PubSave
<1>7. CASE PubSession(p)
  <2>1. CASE pub' = [pub EXCEPT ![p] = IdlePub]
    BY <1>0, <2>1 DEF PubShape, PubState, IdlePub
  <2>2. CASE pub' = [pub EXCEPT ![p].pc = IF SessionOpen(pub[p].inst) \/ pub[p].inst \in stopped
                                         THEN "offer" ELSE "open"]
    BY <1>0, <1>7, <2>2 DEF PubSession, PubShape, PubState
  <2> QED BY <1>7, <2>1, <2>2 DEF PubSession
<1>8. CASE PubOpen(p)
  BY <1>0, <1>8 DEF PubOpen, PubShape, PubState
<1>9. CASE PubOffer(p)
  <2>1. CASE pub' = [pub EXCEPT ![p] = IdlePub]
    BY <1>0, <2>1 DEF PubShape, PubState, IdlePub
  <2>2. ASSUME NEW o,
               pub' = [pub EXCEPT ![p] =
                       [@ EXCEPT !.owed = pub[p].owed \ {o},
                                 !.pc = IF o[1] \in queued THEN "offer" ELSE "ensure"]]
        PROVE  PubShape'
    BY <1>0, <1>9, <2>2 DEF PubOffer, PubShape, PubState
  <2> QED BY <1>9, <2>1, <2>2 DEF PubOffer
<1>10. CASE PubEnsure(p)
  BY <1>0, <1>10 DEF PubEnsure, PubShape, PubState
<1>11. CASE PubStoreFails(p)
  BY <1>0, <1>11 DEF PubStoreFails, PubShape, PubState, IdlePub
<1> QED BY <1>1, <1>2, <1>3, <1>4, <1>5, <1>6, <1>7, <1>8, <1>9, <1>10, <1>11 DEF PubWorks

\* An instance about to mark an obligation names it.
LEMMA RelShaped ==
  ASSUME Typed, NEW i \in Inst, RelWorks(i) \/ WalkEnds(i)
  PROVE  RelShape'
<1>0. rel[i] \in RelState /\ rel \in [Inst -> RelState] /\ RelShape
  BY DEF Typed, TypeOK
<1>1. CASE StartOpens(i)
  BY <1>0, <1>1 DEF StartOpens, RelState, RelShape
<1>2. CASE RelList(i)
  <2>1. ASSUME NEW W, NEW q \in {"offer", "spaceOffer"},
               rel' = [rel EXCEPT ![i] = [@ EXCEPT !.pc = q, !.list = W]]
        PROVE  RelShape'
    BY <1>0, <2>1 DEF RelState, RelShape
  <2> QED BY <1>2, <2>1 DEF RelList
<1>3. CASE RelOffer(i)
  <2>1. ASSUME NEW W, NEW q \in {"offer", "spaceOffer", "ensure", "spaceEnsure", "walk", "up"},
               rel' = [rel EXCEPT ![i] = [@ EXCEPT !.list = W, !.pc = q]]
        PROVE  RelShape'
    BY <1>0, <2>1 DEF RelState, RelShape
  <2>2. (IF rel[i].pc = "offer" THEN "walk" ELSE "up") \in {"walk", "up"}
    OBVIOUS
  <2>3. \A o : (IF o[1] \in queued THEN rel[i].pc
                 ELSE IF rel[i].pc = "offer" THEN "ensure" ELSE "spaceEnsure")
               \in {"offer", "spaceOffer", "ensure", "spaceEnsure"}
    BY <1>3 DEF RelOffer
  <2> QED BY <1>3, <2>1, <2>2, <2>3, Zenon DEF RelOffer
<1>4. CASE RelEnsure(i)
  BY <1>0, <1>4 DEF RelEnsure, RelState, RelShape
<1>5. CASE RelSettle(i)
  BY <1>0, <1>5 DEF RelSettle, RelState, RelShape
<1>6. CASE RelHeld(i)
  <2>1. CASE rel' = [rel EXCEPT ![i].pc = "relist"]
    BY <1>0, <2>1 DEF RelState, RelShape
  <2>2. ASSUME NEW o \in rel[i].list, rel' = [rel EXCEPT ![i].list = rel[i].list \ {o}]
        PROVE  RelShape'
    BY <1>0, <1>6, <2>2 DEF RelHeld, RelState, RelShape
  <2>3. ASSUME NEW o \in rel[i].list,
               rel' = [rel EXCEPT ![i] =
                          [@ EXCEPT !.pc = "mark", !.key = o[1], !.list = rel[i].list \ {o}]]
        PROVE  RelShape'
    <3>1. o[1] \in Key
      BY <1>0 DEF RelState, Offer
    <3> QED BY <1>0, <2>3, <3>1 DEF RelState, RelShape
  <2> QED BY <1>6, <2>1, <2>2, <2>3 DEF RelHeld
<1>7. CASE RelMark(i)
  BY <1>0, <1>7 DEF RelMark, RelState, RelShape
<1>8. CASE RelDrop(i)
  BY <1>0, <1>8 DEF RelDrop, RelState, RelShape
<1>9. CASE WalkEnds(i)
  BY <1>0, <1>9 DEF WalkEnds, RelState, RelShape
<1> QED BY <1>1, <1>2, <1>3, <1>4, <1>5, <1>6, <1>7, <1>8, <1>9 DEF RelWorks

\* A spawned queue task is typed.
LEMMA EnsureTyped ==
  ASSUME Typed, NEW i \in Inst, EnsureQueue(i)
  PROVE  running' \subseteq Inst /\ task' \in [Task -> TaskState] /\ TaskShape'
<1>0. task \in [Task -> TaskState] /\ TaskShape /\ running \subseteq Inst
  BY DEF Typed, TypeOK, ProcessOK
<1>1. CASE UNCHANGED <<running, task>>
  BY <1>0, <1>1 DEF TaskShape
<1>2. ASSUME NEW t \in Task, running' = running \cup {i},
             task' = [task EXCEPT ![t] = [IdleTask EXCEPT !.pc = "next", !.inst = i]]
      PROVE  running' \subseteq Inst /\ task' \in [Task -> TaskState] /\ TaskShape'
  <2>1. [IdleTask EXCEPT !.pc = "next", !.inst = i] \in TaskState
    <3>1. i \in 0..MaxInst /\ 0 \in 0..MaxInst
      BY OutboxConstants DEF Inst
    <3> QED BY <3>1 DEF TaskState, IdleTask
  <2>2. TaskShape'
    BY <1>0, <1>2 DEF IdleTask, TaskShape, TaskState, Working
  <2> QED BY <1>0, <1>2, <2>1, <2>2
<1> QED BY <1>1, <1>2 DEF EnsureQueue

-----------------------------------------------------------------------------
\* Every variable keeps its type and shape, whatever runs.
LEMMA TypedAlways == Spec => []Typed
<1>1. Init => Typed
  <2> SUFFICES ASSUME Init PROVE Typed
    OBVIOUS
  <2>1. StoreOK /\ ProcessOK
    BY OutboxConstants DEF Init, StoreOK, ProcessOK, Inst
  <2>2. task \in [Task -> TaskState] /\ pub \in [Publisher -> PubState] /\ rel \in [Inst -> RelState]
    BY IdleTyped DEF Init
  <2>3. TaskShape /\ PubShape /\ RelShape /\ SignedOut
    BY DEF Init, TaskShape, PubShape, RelShape, SignedOut, IdleTask, IdlePub, DownRel, Working
  <2>4. relay \in [Key -> SUBSET Nat] /\ signed \in [Key -> Nat]
    BY DEF Init
  <2> QED BY <2>1, <2>2, <2>3, <2>4, OutboxConstants DEF Init, Typed, TypeOK
<1>2. Typed /\ [Next]_vars => Typed'
  <2> SUFFICES ASSUME Typed, [Next]_vars PROVE Typed'
    OBVIOUS
  <2>1. ASSUME NEW t \in Task, TaskWorks(t) \/ TaskStoreFails(t) PROVE Typed'
    <3>1. task' \in [Task -> TaskState] /\ TaskShape'
      BY <2>1, TaskTyped, TaskShaped
    <3>2. TaskUnchanged
      BY <2>1 DEF TaskWorks, TaskNext, TaskLeave, TaskCheck, TaskRead, TaskSave, TaskAccepted, TaskUnanswered,
         TaskMark, TaskStoreFails, TaskReport, TaskLook, TaskRelock
    <3>3. PubShape' /\ RelShape' /\ SignedOut'
      BY <3>2 DEF TaskUnchanged, lifecycle, Typed, PubShape, RelShape, SignedOut
    <3>4. StoreOK'
      <4>1. CASE TaskSave(t)
        <5>1. task[t].key \in Key /\ task[t].event \in Nat
          BY <4>1 DEF TaskSave, Typed, TypeOK, TaskShape, TaskState, Working
        <5> QED BY <4>1, <5>1 DEF TaskSave, SavePending, Typed, TypeOK, StoreOK
      <4>2. CASE TaskMark(t)
        <5>1. task[t].key \in Key
          BY <4>2 DEF TaskMark, Typed, TypeOK, TaskShape, TaskState, Working
        <5> QED BY <4>2, <5>1 DEF TaskMark, MarkPublished, Typed, TypeOK, StoreOK
      <4>3. CASE UNCHANGED store
        BY <4>3 DEF store, Typed, TypeOK, StoreOK
      <4> QED BY <2>1, <4>1, <4>2, <4>3 DEF TaskWorks, TaskNext, TaskLeave, TaskCheck, TaskRead, TaskAccepted,
               TaskUnanswered, TaskStoreFails, TaskReport, TaskLook, TaskRelock
    <3>5. ProcessOK'
      <4>1. queued' \subseteq Key /\ hasEvents' \subseteq Key
        <5>1. CASE TaskReport(t)
          <6>1. task[t].key \in Key
            BY <5>1 DEF TaskReport, Typed, TypeOK, TaskShape, TaskState, Working
          <6> QED BY <5>1, <6>1 DEF TaskReport, Report, Typed, TypeOK, ProcessOK, engine
        <5>2. CASE UNCHANGED engine
          BY <5>2 DEF engine, Typed, TypeOK, ProcessOK
        <5> QED BY <2>1, <5>1, <5>2 DEF TaskWorks, TaskNext, TaskLeave, TaskCheck, TaskRead, TaskAccepted, TaskSave,
               TaskMark, TaskUnanswered, TaskStoreFails, TaskLook, TaskRelock
      <4>2. running' \subseteq Inst
        <5>1. CASE TaskLeave(t)
          BY <5>1 DEF TaskLeave, Typed, TypeOK, ProcessOK
        <5>2. CASE TaskRelock(t)
          BY <5>2 DEF TaskRelock, Typed, TypeOK, ProcessOK, TaskShape
        <5> QED BY <2>1, <5>1, <5>2 DEF TaskWorks, TaskNext, TaskReport, TaskCheck, TaskRead, TaskAccepted, TaskSave,
               TaskMark, TaskUnanswered, TaskStoreFails, TaskLook, Typed, TypeOK, ProcessOK
      <4> QED BY <3>2, <4>1, <4>2 DEF TaskUnchanged, lifecycle, Typed, TypeOK, ProcessOK
    <3>6. relay' \in [Key -> SUBSET Nat] /\ relayBase' \subseteq Change
      <4>1. CASE TaskAccepted(t) \/ TaskUnanswered(t)
        <5>1. task[t].event \in Nat
          BY DEF Typed, TypeOK, TaskState
        <5> QED BY <4>1, <5>1 DEF TaskAccepted, TaskUnanswered, Typed, TypeOK
      <4>2. CASE UNCHANGED relays
        BY <4>2 DEF relays, Typed, TypeOK
      <4> QED BY <2>1, <4>1, <4>2 DEF TaskWorks, TaskNext, TaskLeave, TaskCheck, TaskRead, TaskReport, TaskSave,
               TaskMark, TaskStoreFails, TaskLook, TaskRelock
    <3>7. signed' \in [Key -> Nat] /\ fails' \in 0..MaxFail
      <4>1. CASE TaskRead(t)
        BY <4>1 DEF TaskRead, Typed, TypeOK
      <4>2. CASE TaskStoreFails(t)
        BY <4>2, OutboxConstants DEF TaskStoreFails, Typed, TypeOK
      <4>3. CASE UNCHANGED <<signed, fails>>
        BY <4>3 DEF Typed, TypeOK
      <4> QED BY <2>1, <4>1, <4>2, <4>3 DEF TaskWorks, TaskNext, TaskLeave, TaskCheck, TaskAccepted, TaskReport, TaskSave,
               TaskMark, TaskUnanswered, TaskLook, TaskRelock
    <3> QED BY <3>1, <3>2, <3>3, <3>4, <3>5, <3>6, <3>7 DEF TaskUnchanged, Typed, TypeOK
  <2>2. ASSUME NEW p \in Publisher, PubWorks(p) \/ PubStoreFails(p) PROVE Typed'
    <3>1. pub' \in [Publisher -> PubState] /\ PubShape'
      BY <2>2, PubTyped, PubShaped
    <3>2. PubUnchanged
      BY <2>2 DEF PubWorks, AddLocalChange, PubCheck, PubCover, PubMark, PubRead, PubSave, PubStoreFails,
         PubSession, PubOpen, PubOffer, PubEnsure
    <3>3. inst' = inst
      BY <2>2 DEF PubWorks, AddLocalChange, PubCheck, PubCover, PubMark, PubRead, PubSave, PubStoreFails,
         PubSession, PubOpen, OpenSession, PubOffer, PubEnsure, lifecycle
    <3>4. RelShape' /\ SignedOut'
      BY <3>2, <3>3 DEF PubUnchanged, Typed, RelShape, SignedOut
    <3>5. StoreOK' /\ written' \subseteq Change
      <4>1. CASE AddLocalChange(p)
        <5>1. pub[p].change \in Change /\ Personal(pub[p].change) \in Key
          BY <4>1, Keys DEF AddLocalChange, Typed, PubShape
        <5> QED BY <4>1, <5>1 DEF AddLocalChange, Typed, TypeOK, StoreOK
      <4>2. CASE PubMark(p) \/ PubSave(p)
        <5>1. pub[p].key \in Key
          BY <4>2, Keys DEF PubMark, PubSave, Typed, PubShape
        <5> QED BY <4>2, <5>1 DEF PubMark, PubSave, MarkPublished, SavePending, Typed, TypeOK, StoreOK
      <4>3. CASE UNCHANGED <<store, written>>
        BY <4>3 DEF store, Typed, TypeOK, StoreOK
      <4> QED BY <2>2, <4>1, <4>2, <4>3 DEF PubWorks, PubCheck, PubCover, PubRead, PubStoreFails,
               PubSession, PubOpen, PubOffer, PubEnsure
    <3>6. ProcessOK' /\ task' \in [Task -> TaskState] /\ TaskShape'
      <4>1. CASE PubOpen(p)
        BY <3>2, <4>1 DEF PubUnchanged, PubOpen, OpenSession, Typed, TypeOK, ProcessOK, TaskShape, PubState
      <4>2. CASE PubOffer(p)
        <5>1. \A o \in pub[p].owed : o[1] \in Key
          BY DEF Typed, TypeOK, PubState, Offer
        <5> QED BY <3>2, <4>2, <5>1 DEF PubUnchanged, PubOffer, Enqueue, lifecycle, engine,
                 Typed, TypeOK, ProcessOK, TaskShape
      <4>3. CASE PubEnsure(p)
        <5>1. pub[p].inst \in Inst
          BY <4>3 DEF PubEnsure, Typed, PubShape
        <5> QED BY <3>2, <4>3, <5>1, EnsureTyped DEF PubUnchanged, PubEnsure, lifecycle, engine,
                 Typed, TypeOK, ProcessOK
      <4>4. CASE UNCHANGED <<lifecycle, engine, running, task>>
        BY <3>2, <4>4 DEF PubUnchanged, lifecycle, engine, Typed, TypeOK, ProcessOK, TaskShape
      <4> QED BY <2>2, <4>1, <4>2, <4>3, <4>4 DEF PubWorks, AddLocalChange, PubCheck, PubCover, PubMark,
               PubRead, PubSave, PubStoreFails, PubSession
    <3>7. fails' \in 0..MaxFail
      <4>1. CASE PubStoreFails(p)
        BY <4>1, OutboxConstants DEF PubStoreFails, Typed, TypeOK
      <4>2. CASE UNCHANGED fails
        BY <4>2 DEF Typed, TypeOK
      <4> QED BY <2>2, <4>1, <4>2 DEF PubWorks, AddLocalChange, PubCheck, PubCover, PubMark,
               PubRead, PubSave, PubSession, PubOpen, PubOffer, PubEnsure
    <3> QED BY <3>1, <3>2, <3>4, <3>5, <3>6, <3>7 DEF PubUnchanged, relays, Typed, TypeOK
  <2>3. ASSUME NEW i \in Inst, RelWorks(i) \/ WalkEnds(i) PROVE Typed'
    <3>1. rel' \in [Inst -> RelState] /\ RelShape'
      BY <2>3, RelTyped, RelShaped
    <3>2. RelUnchanged
      BY <2>3 DEF RelWorks, StartOpens, RelList, RelOffer, RelEnsure, RelSettle, RelHeld, RelMark, RelDrop,
         WalkEnds
    <3>3. inst' = inst
      BY <2>3 DEF RelWorks, StartOpens, OpenSession, RelList, RelOffer, RelEnsure, RelSettle, RelHeld,
         RelMark, RelDrop, WalkEnds, lifecycle
    <3>4. PubShape' /\ SignedOut'
      BY <3>2, <3>3 DEF RelUnchanged, Typed, PubShape, SignedOut
    <3>5. StoreOK'
      <4>1. CASE RelMark(i)
        <5>1. rel[i].key \in Key
          BY <4>1 DEF RelMark, Typed, RelShape
        <5> QED BY <4>1, <5>1 DEF RelMark, MarkPublished, Typed, TypeOK, StoreOK
      <4>2. CASE UNCHANGED store
        BY <4>2 DEF store, Typed, TypeOK, StoreOK
      <4> QED BY <2>3, <4>1, <4>2 DEF RelWorks, StartOpens, RelList, RelOffer, RelEnsure, RelSettle, RelHeld,
               RelDrop, WalkEnds
    <3>6. ProcessOK' /\ task' \in [Task -> TaskState] /\ TaskShape'
      <4>1. CASE StartOpens(i)
        BY <4>1 DEF StartOpens, OpenSession, Typed, TypeOK, ProcessOK, TaskShape, Inst
      <4>2. CASE RelOffer(i)
        <5>1. \A o \in rel[i].list : o[1] \in Key
          BY DEF Typed, TypeOK, RelState, Offer
        <5>2. queued' \subseteq Key /\ hasEvents' \subseteq Key
          <6>1. CASE UNCHANGED engine
            BY <6>1 DEF engine, Typed, TypeOK, ProcessOK
          <6>2. ASSUME NEW o \in rel[i].list, Enqueue(o) PROVE queued' \subseteq Key /\ hasEvents' \subseteq Key
            BY <5>1, <6>2 DEF Enqueue, Typed, TypeOK, ProcessOK
          <6> QED BY <4>2, <6>1, <6>2 DEF RelOffer
        <5>3. UNCHANGED <<lifecycle, running, walked, task>>
          BY <4>2 DEF RelOffer
        <5> QED BY <5>2, <5>3 DEF lifecycle, Typed, TypeOK, ProcessOK, TaskShape
      <4>3. CASE RelEnsure(i)
        BY <4>3, EnsureTyped DEF RelEnsure, lifecycle, engine, Typed, TypeOK, ProcessOK
      <4>4. CASE RelDrop(i)
        BY <4>4 DEF RelDrop, Report, RelShape, lifecycle, engine, Typed, TypeOK, ProcessOK, TaskShape
      <4>5. CASE WalkEnds(i)
        BY <4>5 DEF WalkEnds, lifecycle, engine, Typed, TypeOK, ProcessOK, TaskShape
      <4>6. CASE UNCHANGED <<lifecycle, engine, running, walked, task>>
        BY <4>6 DEF lifecycle, engine, Typed, TypeOK, ProcessOK, TaskShape
      <4> QED BY <2>3, <4>1, <4>2, <4>3, <4>4, <4>5, <4>6 DEF RelWorks, RelList, RelSettle, RelHeld, RelMark
    <3>7. passes' \in 0..MaxPasses
      <4>1. CASE WalkEnds(i)
        BY <4>1, OutboxConstants DEF WalkEnds, Typed, TypeOK
      <4>2. CASE UNCHANGED passes
        BY <4>2 DEF Typed, TypeOK
      <4> QED BY <2>3, <4>1, <4>2 DEF RelWorks, StartOpens, RelList, RelOffer, RelEnsure, RelSettle, RelHeld,
               RelMark, RelDrop
    <3> QED BY <3>1, <3>2, <3>4, <3>5, <3>6, <3>7 DEF RelUnchanged, relays, Typed, TypeOK
  <2>4. ASSUME NEW c \in Change, BeginCommit(c) \/ BeginSweep(c) PROVE Typed'
    <3>0. pub \in [Publisher -> PubState] /\ PubShape /\ inst \in 0..MaxInst /\ (inst # 0 => inst \in Inst)
      BY OutboxConstants DEF Typed, TypeOK, ProcessOK, Inst
    <3>1. pub' \in [Publisher -> PubState] /\ PubShape'
      <4>1. CASE BeginCommit(c)
        BY <3>0, <4>1 DEF BeginCommit, IdlePub, PubState, PubShape
      <4>2. CASE BeginSweep(c)
        <5>1. Personal(c) \in Key /\ inst \in Inst
          BY <4>2, Keys DEF BeginSweep, Typed, TypeOK, ProcessOK
        <5> QED BY <3>0, <4>2, <5>1 DEF BeginSweep, IdlePub, PubState, PubShape
      <4> QED BY <2>4, <4>1, <4>2
    <3> QED BY <2>4, <3>1 DEF BeginCommit, BeginSweep, PubUnchanged, store, relays, lifecycle, engine,
             Typed, TypeOK, StoreOK, ProcessOK, TaskShape, RelShape, SignedOut
  <2>5. ASSUME NEW c \in Change, NEW d \in Change, AddRebased(c, d) PROVE Typed'
    <3>0. pub \in [Publisher -> PubState] /\ PubShape /\ inst \in 0..MaxInst /\ (inst # 0 => inst \in Inst)
      BY OutboxConstants DEF Typed, TypeOK, ProcessOK, Inst
    <3>1. Personal(d) \in Key
      BY Keys
    <3>2. pub' \in [Publisher -> PubState] /\ PubShape'
      BY <2>5, <3>0, <3>1 DEF AddRebased, IdlePub, PubState, PubShape
    <3> QED BY <2>5, <3>2 DEF AddRebased, PubUnchanged, relays, lifecycle, engine,
             Typed, TypeOK, StoreOK, ProcessOK, TaskShape, RelShape, SignedOut
  <2>6. CASE RestartSync
    <3>1. inst \in Inst /\ inst + 1 \in 0..MaxInst /\ inst + 1 # 0
      BY <2>6, OutboxConstants DEF RestartSync, Inst
    <3> QED BY <2>6, <3>1 DEF RestartSync, store, relays, engine, bounds,
             Typed, TypeOK, StoreOK, ProcessOK, TaskShape, PubShape, RelShape, SignedOut
  <2>7. ASSUME NEW i \in Inst, CloseSession(i) PROVE Typed'
    BY <2>7, OutboxConstants DEF CloseSession, store, relays, engine, bounds,
       Typed, TypeOK, StoreOK, ProcessOK, TaskShape, PubShape, RelShape, SignedOut
  <2>8. CASE Crash
    <3>1. task' \in [Task -> TaskState] /\ pub' \in [Publisher -> PubState] /\ rel' \in [Inst -> RelState]
      BY <2>8, IdleTyped DEF Crash
    <3>2. TaskShape' /\ PubShape' /\ RelShape' /\ SignedOut'
      BY <2>8 DEF Crash, TaskShape, PubShape, RelShape, SignedOut, IdleTask, IdlePub, DownRel, Working
    <3>3. ProcessOK' /\ crashes' \in 0..MaxCrash
      BY <2>8, OutboxConstants DEF Crash, Typed, TypeOK, ProcessOK, Inst
    <3> QED BY <2>8, <3>1, <3>2, <3>3 DEF Crash, store, relays, Typed, TypeOK, StoreOK
  <2>9. CASE LogoutAsked \/ LogoutReads
    BY <2>9 DEF LogoutAsked, LogoutReads, store, relays, lifecycle, engine, bounds,
       Typed, TypeOK, StoreOK, ProcessOK, TaskShape, PubShape, RelShape, SignedOut
  <2>10. CASE LogoutClears
    <3>1. inst \in Inst
      BY <2>10, OutboxConstants DEF LogoutClears, Typed, TypeOK, ProcessOK, SignedOut, Inst
    <3>2. ProcessOK' /\ StoreOK'
      BY <2>10, <3>1, OutboxConstants DEF LogoutClears, Typed, TypeOK, ProcessOK, StoreOK
    <3> QED BY <2>10, <3>2 DEF LogoutClears, relays, bounds, Typed, TypeOK, TaskShape, PubShape, RelShape, SignedOut
  <2>11. ASSUME NEW k \in Key, ImportEcho(k) PROVE Typed'
    BY <2>11 DEF ImportEcho, MarkPublished, EnvUnchanged, relays, lifecycle, engine, bounds,
       Typed, TypeOK, StoreOK, ProcessOK, TaskShape, PubShape, RelShape, SignedOut
  <2>12. ASSUME NEW c \in Change, ImportBaseMarks(c) PROVE Typed'
    <3>1. SpaceKey(c) \in Key
      BY <2>12, Keys DEF ImportBaseMarks
    <3> QED BY <2>12, <3>1 DEF ImportBaseMarks, MarkPublished, EnvUnchanged, relays, lifecycle, engine, bounds,
       Typed, TypeOK, StoreOK, ProcessOK, TaskShape, PubShape, RelShape, SignedOut
  <2>13. ASSUME NEW c \in Change, ImportBasePuts(c) \/ Compact(c) PROVE Typed'
    BY <2>13 DEF ImportBasePuts, Compact, EnvUnchanged, store, relays, lifecycle, engine, bounds,
       Typed, TypeOK, StoreOK, ProcessOK, TaskShape, PubShape, RelShape, SignedOut
  <2>14. CASE UNCHANGED vars
    BY <2>14 DEF vars, store, relays, lifecycle, engine, bounds,
       Typed, TypeOK, StoreOK, ProcessOK, TaskShape, PubShape, RelShape, SignedOut
  <2> QED
    BY <2>1, <2>2, <2>3, <2>4, <2>5, <2>6, <2>7, <2>8, <2>9, <2>10, <2>11, <2>12, <2>13, <2>14 DEF Next
<1> QED BY <1>1, <1>2, PTL DEF Spec

\* Every variable of the outbox has its type in every reachable state: no
\* handler of sync/outbox.rs works on an obligation, instance or event that
\* does not exist.
THEOREM TypeCorrect == Spec => []TypeOK
<1>1. Typed => TypeOK
  BY DEF Typed
<1> QED BY <1>1, TypedAlways, PTL
=============================================================================
