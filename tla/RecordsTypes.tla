----------------------------- MODULE RecordsTypes -----------------------------
(***************************************************************************)
(* What every state of Records has: its types, and that a device shows,    *)
(* sends and is sent only what was written.  Records merges by Newest and  *)
(* Max, CHOOSEs over sets that are finite only because stamps, devices and *)
(* writes are bounded, so the module starts with their existence.          *)
(***************************************************************************)
EXTENDS Records, WellFoundedInduction, TLAPS

\* A set of naturals has a least element.
LEMMA Least ==
  ASSUME NEW S \in SUBSET Nat, S # {}
  PROVE  \E m \in S : \A x \in S : m <= x
<1> DEFINE R == {p \in Nat \X Nat : p[1] < p[2]}
<1>1. OpToRel(<, Nat) = R
  BY DEF OpToRel
<1>2. IsWellFoundedOn(R, Nat)
  BY <1>1, NatLessThanWellFounded
<1>3. \A x, m \in Nat : x < m => <<x, m>> \in R
  OBVIOUS
<1> HIDE DEF R
<1>4. PICK m \in S : \A x \in S : ~(<<x, m>> \in R)
  BY <1>2, WFMin
<1>5. \A x \in S : ~(x < m)
  BY <1>3, <1>4, Zenon
<1> QED BY <1>5

\* A bounded one has a greatest.
LEMMA Greatest ==
  ASSUME NEW K \in Nat, NEW S \in SUBSET (0..K), S # {}
  PROVE  \E m \in S : \A x \in S : x <= m
<1> DEFINE T == {K - x : x \in S}
<1>1. \A x \in S : K - x \in Nat
  OBVIOUS
<1>2. T \in SUBSET Nat /\ T # {}
  BY <1>1, Zenon
<1>3. PICK y \in T : \A z \in T : y <= z
  BY <1>2, Least, Zenon
<1>4. PICK m \in S : y = K - m
  OBVIOUS
<1>5. ASSUME NEW x \in S PROVE x <= m
  <2>1. K - x \in T
    OBVIOUS
  <2>2. K - m <= K - x
    BY <1>3, <1>4, <2>1, Zenon
  <2>3. x \in Nat /\ m \in Nat
    OBVIOUS
  <2> HIDE DEF T
  <2> QED BY <2>2, <2>3
<1> QED BY <1>5

\* Max is the greatest (FiniteSetsExt).
LEMMA MaxThere ==
  ASSUME NEW K \in Nat, NEW S \in SUBSET (0..K), S # {}
  PROVE  Max(S) \in S /\ \A x \in S : x <= Max(S)
<1>1. \E m \in S : \A x \in S : m >= x
  BY Greatest
<1> QED BY <1>1 DEF Max

AnyEntry == Entry \cup {NoEntry}

\* Stamps are bounded in each part.
LEMMA EntryParts ==
  /\ \A e \in AnyEntry : e.time \in 0..MaxTime /\ e.dev \in 0..MaxIndex /\ e.n \in 0..MaxWrites
  /\ {MaxTime, MaxIndex, MaxWrites} \subseteq Nat
  /\ NoEntry \notin Entry
  BY RecordsConstants DEF AnyEntry, Entry, NoEntry

\* Of any entries one is newest, by time, then device, then bytes
\* (record_merge, whose result is thus some entry that was there).
LEMMA NewestThere ==
  ASSUME NEW S \in SUBSET AnyEntry
  PROVE  /\ Newest(S) \in S \cup {NoEntry}
         /\ \A x \in S : ~Older(Newest(S), x)
<1> DEFINE A == S \cup {NoEntry}
           T == {e.time : e \in A}
<1>1. A \subseteq AnyEntry /\ A # {}
  BY DEF AnyEntry
<1>2. T \in SUBSET (0..MaxTime) /\ T # {}
  BY <1>1, EntryParts
<1>3. PICK t \in T : \A x \in T : x <= t
  BY <1>2, EntryParts, Greatest
<1> DEFINE D == {e.dev : e \in {x \in A : x.time = t}}
<1>4. D \in SUBSET (0..MaxIndex) /\ D # {}
  BY <1>1, EntryParts
<1>5. PICK v \in D : \A x \in D : x <= v
  BY <1>4, EntryParts, Greatest
<1> DEFINE N == {e.n : e \in {x \in A : x.time = t /\ x.dev = v}}
<1>6. N \in SUBSET (0..MaxWrites) /\ N # {}
  BY <1>1, EntryParts
<1>7. PICK n \in N : \A x \in N : x <= n
  BY <1>6, EntryParts, Greatest
<1>8. PICK m \in A : m.time = t /\ m.dev = v /\ m.n = n
  OBVIOUS
<1>9. ASSUME NEW x \in A PROVE ~Older(m, x)
  <2>1. x.time <= t
    BY <1>3
  <2>2. x.time = t => x.dev <= v
    BY <1>5
  <2>3. x.time = t /\ x.dev = v => x.n <= n
    BY <1>7
  <2>4. /\ x.time \in Nat /\ x.dev \in Nat /\ x.n \in Nat
        /\ t \in Nat /\ v \in Nat /\ n \in Nat
    BY <1>1, <1>8, EntryParts
  <2> HIDE DEF A, T, D, N
  <2> QED BY <1>8, <2>1, <2>2, <2>3, <2>4 DEF Older
<1>10. \E e \in S \cup {NoEntry} : \A x \in S : ~Older(e, x)
  BY <1>9
<1> QED BY <1>10 DEF Newest

-----------------------------------------------------------------------------
(* The invariant: types, with every entry held or sent one that was        *)
(* written, every seq held one of the stream, and no pass over nothing.    *)

WrittenEvent == {e \in EventType : e.kind = "patch" => e.entry \in written[e.object]}
WrittenRow == {row \in Row : \A o \in Object : row[o] \in written[o] \cup {NoEntry}}
WrittenPack == {p \in PackType : p.rows \in WrittenRow}
WrittenItem == {x \in Item : x.entry \in written[x.object]}
GoodLoop == {l \in LoopType : l.page \subseteq DOMAIN log /\ l.announced \in WrittenPack}
GoodPass == {p \in PassType : p.items \subseteq WrittenItem /\ (p.pc # "idle" => p.items # {})}

SoundRelay == log \in Seq(WrittenEvent) /\ cut \in Nat /\ pack \in WrittenPack
SoundStore ==
  /\ rec \in [Device -> WrittenRow] /\ journal \in [Device -> SUBSET WrittenItem]
  /\ cursor \in [Device -> Nat] /\ ledger \in [Device -> SUBSET Object]
  /\ clock \in [Device -> 0..MaxTime] /\ ClockCovers
SoundLoop == loop \in [Device -> GoodLoop] /\ inbox \in [Device -> Seq(DOMAIN log)]
SoundPass ==
  /\ pub \in [Device -> GoodPass]
  /\ wanted \in [Device -> BOOLEAN] /\ vanishing \in [Device -> SUBSET Object]
SoundCount == written \in [Object -> SUBSET Entry] /\ count \in [Bounded -> Nat]

Sound == SoundRelay /\ SoundStore /\ SoundLoop /\ SoundPass /\ SoundCount

\* Nothing leaves the stream and no write is forgotten.
Grown == DOMAIN log \subseteq DOMAIN log' /\ \A o \in Object : written[o] \subseteq written'[o]

\* What was sound of a part stays so while the rest grows.
LEMMA PartsStay ==
  ASSUME Grown
  PROVE  /\ WrittenEvent \subseteq WrittenEvent' /\ WrittenRow \subseteq WrittenRow'
         /\ WrittenPack \subseteq WrittenPack' /\ WrittenItem \subseteq WrittenItem'
         /\ GoodLoop \subseteq GoodLoop' /\ GoodPass \subseteq GoodPass'
         /\ Seq(DOMAIN log) \subseteq Seq(DOMAIN log')
<1>1. WrittenEvent \subseteq WrittenEvent' /\ WrittenItem \subseteq WrittenItem'
  BY DEF Grown, WrittenEvent, WrittenItem, EventType, Item
<1>2. WrittenRow \subseteq WrittenRow'
  BY DEF Grown, WrittenRow
<1>3. WrittenPack \subseteq WrittenPack'
  BY <1>2 DEF WrittenPack
<1>4. GoodLoop \subseteq GoodLoop'
  BY <1>3 DEF Grown, GoodLoop
<1>5. GoodPass \subseteq GoodPass'
  BY <1>1 DEF GoodPass
<1>6. Seq(DOMAIN log) \subseteq Seq(DOMAIN log')
  BY DEF Grown
<1> QED BY <1>1, <1>2, <1>3, <1>4, <1>5, <1>6

LEMMA RelayStays == ASSUME Sound, Grown, UNCHANGED relay PROVE SoundRelay'
<1>1. log \in Seq(WrittenEvent')
  BY PartsStay DEF Sound, SoundRelay
<1>2. pack \in WrittenPack'
  BY PartsStay DEF Sound, SoundRelay
<1> QED BY <1>1, <1>2 DEF Sound, SoundRelay, relay

LEMMA StoreStays == ASSUME Sound, Grown, UNCHANGED disk PROVE SoundStore'
<1>1. rec \in [Device -> WrittenRow'] /\ journal \in [Device -> SUBSET WrittenItem']
  BY PartsStay DEF Sound, SoundStore
<1> QED BY <1>1 DEF Sound, SoundStore, ClockCovers, disk

LEMMA LoopStays == ASSUME Sound, Grown, UNCHANGED <<loop, inbox>> PROVE SoundLoop'
  BY PartsStay DEF Sound, SoundLoop

LEMMA PassStays == ASSUME Sound, Grown, UNCHANGED <<pub, wanted, vanishing>> PROVE SoundPass'
  BY PartsStay DEF Sound, SoundPass

\* Sound implies the type invariant.
LEMMA SoundTypes == Sound => TypeOK
<1> SUFFICES ASSUME Sound PROVE TypeOK
  OBVIOUS
<1>1. WrittenEvent \subseteq EventType /\ WrittenRow \subseteq Row /\ WrittenPack \subseteq PackType
      /\ WrittenItem \subseteq Item /\ GoodLoop \subseteq LoopType /\ GoodPass \subseteq PassType
  BY DEF WrittenEvent, WrittenRow, WrittenPack, WrittenItem, GoodLoop, GoodPass
<1>2. log \in Seq(EventType) /\ cut \in Nat /\ pack \in PackType
  BY <1>1 DEF Sound, SoundRelay
<1>3. DOMAIN log \subseteq Nat
  BY <1>2
<1>4. loop \in [Device -> LoopType] /\ inbox \in [Device -> Seq(Nat)]
  BY <1>1, <1>3 DEF Sound, SoundLoop
<1>5. rec \in [Device -> Row] /\ journal \in [Device -> SUBSET Item]
  BY <1>1 DEF Sound, SoundStore
<1> QED BY <1>1, <1>2, <1>4, <1>5 DEF Sound, SoundStore, SoundPass, SoundCount, TypeOK

-----------------------------------------------------------------------------
(* The loop's steps *)

\* The positions a loop can be put in from a sound one, or from none.
LEMMA LoopRecords ==
  ASSUME NEW l \in GoodLoop, NEW pc \in {"off", "ask", "load", "page", "apply", "send",
                                         "sending", "subscribe", "live", "failed"},
         NEW by \in {"start", "gap", "retry"}, NEW n \in Nat
  PROVE  /\ [l EXCEPT !.pc = pc] \in GoodLoop /\ [l EXCEPT !.after = n] \in GoodLoop
         /\ [l EXCEPT !.pc = pc, !.after = n] \in GoodLoop
         /\ [l EXCEPT !.pc = pc, !.loaded = TRUE] \in GoodLoop
         /\ [l EXCEPT !.loaded = TRUE, !.pc = pc] \in GoodLoop
         /\ \A loaded \in BOOLEAN, p \in WrittenPack :
              [l EXCEPT !.pc = pc, !.after = n, !.loaded = loaded, !.announced = p] \in GoodLoop
         /\ \A page \in SUBSET DOMAIN log :
              page \subseteq Nat => /\ [l EXCEPT !.pc = pc, !.page = page, !.head = n] \in GoodLoop
                                    /\ [l EXCEPT !.pc = pc, !.after = n, !.page = page] \in GoodLoop
  BY DEF GoodLoop, LoopType, WrittenPack

LEMMA NewLoops ==
  ASSUME SoundCount
  PROVE  /\ NoPack \in WrittenPack /\ Resting \in GoodLoop
         /\ \A pc \in {"off", "ask", "failed"} : [Resting EXCEPT !.pc = pc] \in GoodLoop
         /\ \A by \in {"start", "gap", "retry"} : CatchUp(by) \in GoodLoop
         /\ \A n \in Nat : [Resting EXCEPT !.pc = "live", !.after = n] \in GoodLoop
<1>1. [o \in Object |-> NoEntry] \in WrittenRow
  BY DEF WrittenRow, Row
<1>2. NoPack \in WrittenPack
  BY <1>1 DEF NoPack, WrittenPack, PackType, WrittenRow
<1>3. Resting \in GoodLoop
  BY <1>2 DEF Resting, GoodLoop, LoopType, WrittenPack
<1>4. \A pc \in {"off", "ask", "failed"} : [Resting EXCEPT !.pc = pc] \in GoodLoop
  BY <1>3, LoopRecords
<1>5. \A by \in {"start", "gap", "retry"} : CatchUp(by) \in GoodLoop
  BY <1>3 DEF CatchUp, GoodLoop, LoopType
<1>6. \A n \in Nat : [Resting EXCEPT !.pc = "live", !.after = n] \in GoodLoop
  BY <1>3, LoopRecords
<1> QED BY <1>2, <1>3, <1>4, <1>5, <1>6

LEMMA LoopTo ==
  ASSUME Sound, Grown, NEW d \in Device, NEW l, l \in GoodLoop',
         loop' = [loop EXCEPT ![d] = l],
         inbox' = inbox \/ \E q \in Seq(DOMAIN log') : inbox' = [inbox EXCEPT ![d] = q]
  PROVE  SoundLoop'
<1>1. loop \in [Device -> GoodLoop'] /\ inbox \in [Device -> Seq(DOMAIN log')]
  BY PartsStay DEF Sound, SoundLoop
<1> QED BY <1>1 DEF SoundLoop

\* A step of the loop that leaves relay, store and passes alone.
LEMMA LoopOnly ==
  ASSUME Sound, NEW d \in Device, NEW l \in GoodLoop, loop' = [loop EXCEPT ![d] = l],
         inbox' = inbox \/ \E q \in Seq(DOMAIN log) : inbox' = [inbox EXCEPT ![d] = q],
         UNCHANGED <<relay, disk, pub, wanted, vanishing, written>>, count' \in [Bounded -> Nat]
  PROVE  Sound'
<1>1. Grown /\ log' = log
  BY DEF Grown, relay
<1>2. l \in GoodLoop'
  BY <1>1, PartsStay
<1>3. SoundLoop'
  BY <1>1, <1>2, LoopTo
<1>4. SoundCount'
  BY DEF Sound, SoundCount
<1> QED BY <1>1, <1>3, <1>4, RelayStays, StoreStays, PassStays DEF Sound

LEMMA UsedCounts ==
  ASSUME Sound, NEW what \in Bounded, Used(what)
  PROVE  count' \in [Bounded -> Nat]
  BY DEF Used, Sound, SoundCount

LEMMA AskSound == ASSUME Sound, NEW d \in Device, Ask(d) PROVE Sound'
<1>1. pack \in WrittenPack /\ cursor \in [Device -> Nat]
  BY DEF Sound, SoundRelay, SoundStore
<1>2. PICK l \in GoodLoop : loop[d] = l
  BY DEF Sound, SoundLoop
<1>3. PICK pc \in {"load", "page"}, loaded \in BOOLEAN :
        loop' = [loop EXCEPT ![d] = [loop[d] EXCEPT
                   !.pc = pc, !.after = cursor[d], !.loaded = loaded, !.announced = pack]]
  BY DEF Ask
<1>4. PICK n \in Nat : n = cursor[d]
  BY <1>1
<1>5. PICK p \in WrittenPack : p = pack
  BY <1>1
<1>6. [l EXCEPT !.pc = pc, !.after = n, !.loaded = loaded, !.announced = p] \in GoodLoop
  BY LoopRecords
<1>7. UNCHANGED <<relay, disk, inbox, pub, wanted, vanishing, written, count>>
  BY DEF Ask
<1>8. loop' = [loop EXCEPT ![d] = [l EXCEPT !.pc = pc, !.after = n, !.loaded = loaded, !.announced = p]]
  BY <1>2, <1>3, <1>4, <1>5
<1>9. count' \in [Bounded -> Nat]
  BY <1>7 DEF Sound, SoundCount
<1> QED BY <1>6, <1>7, <1>8, <1>9, LoopOnly

LEMMA StartSound == ASSUME Sound, NEW d \in Device, Start(d) PROVE Sound'
<1>1. PICK l \in GoodLoop : l = CatchUp("start")
  BY NewLoops DEF Sound
<1>2. loop' = [loop EXCEPT ![d] = l]
  BY <1>1 DEF Start
<1>3. UNCHANGED <<relay, disk, inbox, pub, wanted, vanishing, written, count>>
  BY DEF Start
<1>4. count' \in [Bounded -> Nat]
  BY <1>3 DEF Sound, SoundCount
<1> QED BY <1>2, <1>3, <1>4, LoopOnly

\* A page is a set of seqs of the stream.
LEMMA PageSound == ASSUME Sound, NEW d \in Device, Page(d) PROVE Sound'
<1>1. PICK l \in GoodLoop : loop[d] = l
  BY DEF Sound, SoundLoop
<1>2. UNCHANGED <<relay, disk, inbox, pub, wanted, vanishing, written, count>>
  BY DEF Page
<1>3. count' \in [Bounded -> Nat]
  BY <1>2 DEF Sound, SoundCount
<1>4. PICK n \in Nat : n = Len(log)
  BY DEF Sound, SoundRelay
<1>5. DOMAIN log \subseteq Nat
  BY DEF Sound, SoundRelay
<1>6. \A page \in SUBSET DOMAIN log :
        [l EXCEPT !.pc = "apply", !.page = page, !.head = n] \in GoodLoop
  BY <1>5, LoopRecords
<1>7. CASE \E pc \in {"page", "load"} :
             loop' = [loop EXCEPT ![d] = [loop[d] EXCEPT !.loaded = TRUE, !.pc = pc]]
  <2>1. PICK pc \in {"page", "load"} :
          loop' = [loop EXCEPT ![d] = [l EXCEPT !.loaded = TRUE, !.pc = pc]]
    BY <1>1, <1>7
  <2>2. [l EXCEPT !.loaded = TRUE, !.pc = pc] \in GoodLoop
    BY LoopRecords
  <2> QED BY <1>2, <1>3, <2>1, <2>2, LoopOnly
<1>8. CASE \E page \in SUBSET DOMAIN log :
             loop' = [loop EXCEPT ![d] = [loop[d] EXCEPT
                        !.pc = "apply", !.page = page, !.head = Len(log)]]
  <2>1. PICK page \in SUBSET DOMAIN log :
          loop' = [loop EXCEPT ![d] = [l EXCEPT !.pc = "apply", !.page = page, !.head = n]]
    BY <1>1, <1>4, <1>8
  <2> QED BY <1>2, <1>3, <1>6, <2>1, LoopOnly
<1>9. {i \in StoredAfter(loop[d].after) :
         Cardinality({j \in StoredAfter(loop[d].after) : j < i}) < PageSize} \in SUBSET DOMAIN log
  BY DEF StoredAfter, Stored
<1>10. \/ \E pc \in {"page", "load"} :
             loop' = [loop EXCEPT ![d] = [loop[d] EXCEPT !.loaded = TRUE, !.pc = pc]]
       \/ \E page \in SUBSET DOMAIN log :
             loop' = [loop EXCEPT ![d] = [loop[d] EXCEPT
                        !.pc = "apply", !.page = page, !.head = Len(log)]]
  BY <1>9 DEF Page
<1> QED BY <1>7, <1>8, <1>10

\* The relay's answer to a subscription is the seq of an event it holds.
LEMMA SubscribeSound == ASSUME Sound, NEW d \in Device, Subscribe(d) PROVE Sound'
<1>1. PICK n \in Nat : n = cursor[d]
  BY DEF Sound, SoundStore
<1>2. [Resting EXCEPT !.pc = "live", !.after = n] \in GoodLoop
  BY NewLoops DEF Sound
<1>3. loop' = [loop EXCEPT ![d] = [Resting EXCEPT !.pc = "live", !.after = n]]
  BY <1>1 DEF Subscribe
<1>4. UNCHANGED <<relay, disk, pub, wanted, vanishing, written, count>>
  BY DEF Subscribe
<1>5. count' \in [Bounded -> Nat]
  BY <1>4 DEF Sound, SoundCount
<1>6. ASSUME StoredAfter(cursor[d]) # {} PROVE Min(StoredAfter(cursor[d])) \in DOMAIN log
  <2>1. StoredAfter(cursor[d]) \in SUBSET Nat /\ StoredAfter(cursor[d]) \subseteq DOMAIN log
    BY DEF StoredAfter, Stored, Sound, SoundRelay
  <2>2. \E m \in StoredAfter(cursor[d]) : \A x \in StoredAfter(cursor[d]) : m <= x
    BY <1>6, <2>1, Least
  <2> QED BY <2>1, <2>2 DEF Min
<1>7. \E q \in Seq(DOMAIN log) : inbox' = [inbox EXCEPT ![d] = q]
  <2>1. <<>> \in Seq(DOMAIN log)
    OBVIOUS
  <2>2. \A i \in DOMAIN log : <<i>> \in Seq(DOMAIN log)
    OBVIOUS
  <2> QED BY <1>6, <2>1, <2>2 DEF Subscribe
<1> QED BY <1>2, <1>3, <1>4, <1>5, <1>7, LoopOnly

LEMMA BreakSound == ASSUME Sound, NEW d \in Device, Break(d) PROVE Sound'
<1>1. PICK l \in GoodLoop : l = Broken(d)
  BY NewLoops DEF Broken, Sound
<1>2. loop' = [loop EXCEPT ![d] = l]
  BY <1>1 DEF Break
<1>3. UNCHANGED <<relay, disk, pub, wanted, vanishing, written>> /\ Used("fails")
  BY DEF Break, Upset
<1>4. \E q \in Seq(DOMAIN log) : inbox' = [inbox EXCEPT ![d] = q]
  <2>1. inbox' = [inbox EXCEPT ![d] = <<>>]
    BY DEF Break
  <2>2. <<>> \in Seq(DOMAIN log)
    OBVIOUS
  <2> QED BY <2>1, <2>2, Zenon
<1>5. count' \in [Bounded -> Nat]
  BY <1>3, UsedCounts DEF Bounded
<1> QED BY <1>2, <1>3, <1>4, <1>5, LoopOnly

-----------------------------------------------------------------------------
(* Merging *)

\* What merging a pack or a run of events does to a device's record and
\* clock: a row is kept, replaced by a newer entry that was written, or
\* dropped, and the clock is at least what any row shows.
Merges(d) ==
  \E row \in WrittenRow, c \in 0..MaxTime :
    /\ rec' = [rec EXCEPT ![d] = row] /\ clock' = [clock EXCEPT ![d] = c]
    /\ clock[d] <= c
    /\ \A o \in Object :
         /\ row[o].time <= c
         /\ \/ row[o] \in {rec[d][o], NoEntry}
            \/ row[o] \in written[o] /\ Older(rec[d][o], row[o])

\* The newer of two entries, or of one and nothing, is one of them.
LEMMA NewerParts ==
  ASSUME NEW a \in AnyEntry, NEW b \in AnyEntry
  PROVE  \/ Newer(a, b) = a
         \/ Newer(a, b) = b /\ b # NoEntry /\ Older(a, b)
<1>1. a.time \in Nat /\ a.dev \in Nat /\ a.n \in Nat
  BY EntryParts
<1>2. ~Older(a, NoEntry)
  BY <1>1 DEF Older, NoEntry
<1> QED BY <1>2 DEF Newer

\* merge_pack and apply merge what they were given for each object, seen,
\* into what the device held.
LEMMA MergeRow ==
  ASSUME Sound, NEW d \in Device, NEW seen \in WrittenRow, NEW gone,
         rec' = [rec EXCEPT ![d] = [o \in Object |->
                   IF o \in gone THEN NoEntry ELSE Newer(rec[d][o], seen[o])]],
         clock' = [clock EXCEPT ![d] = Max({clock[d]} \cup {seen[o].time : o \in Object})]
  PROVE  Merges(d)
<1>1. PICK held \in WrittenRow : held = rec[d]
  BY DEF Sound, SoundStore
<1>2. PICK K \in Nat : K = MaxTime
  BY EntryParts
<1>3. \A o \in Object : held[o] \in AnyEntry /\ seen[o] \in AnyEntry
  BY DEF WrittenRow, Row, AnyEntry
<1> DEFINE times == {clock[d]} \cup {seen[o].time : o \in Object}
           row == [o \in Object |-> IF o \in gone THEN NoEntry ELSE Newer(held[o], seen[o])]
<1>4. times \in SUBSET (0..K) /\ times # {}
  <2>1. clock[d] \in 0..K
    BY <1>2 DEF Sound, SoundStore
  <2>2. \A o \in Object : seen[o].time \in 0..K
    BY <1>2, <1>3, EntryParts
  <2> QED BY <2>1, <2>2
<1>5. Max(times) \in times /\ \A x \in times : x <= Max(times)
  <2> HIDE DEF times
  <2> QED BY <1>4, MaxThere
<1>6. PICK c \in 0..K : c = Max(times)
  BY <1>4, <1>5
<1>7. clock[d] <= c /\ \A o \in Object : seen[o].time <= c
  BY <1>5, <1>6
<1>8. \A o \in Object : held[o].time \in Nat /\ held[o].time <= c
  <2>1. \A o \in Object : held[o].time <= clock[d]
    BY <1>1 DEF Sound, SoundStore, ClockCovers
  <2>2. clock[d] \in 0..K /\ \A o \in Object : held[o].time \in Nat
    BY <1>2, <1>3, EntryParts DEF Sound, SoundStore
  <2> HIDE DEF times
  <2> QED BY <1>6, <1>7, <2>1, <2>2
<1>9. ASSUME NEW o \in Object
      PROVE  /\ row[o].time <= c /\ row[o] \in written[o] \cup {NoEntry} /\ row[o] \in AnyEntry
             /\ \/ row[o] \in {held[o], NoEntry}
                \/ row[o] \in written[o] /\ Older(held[o], row[o])
  <2>1. held[o] \in written[o] \cup {NoEntry} /\ seen[o] \in written[o] \cup {NoEntry}
    BY DEF WrittenRow
  <2>2. CASE o \in gone
    <3>1. row[o] = NoEntry /\ NoEntry.time = 0
      BY <2>2 DEF NoEntry
    <3>2. c \in Nat
      BY <1>2
    <3> HIDE DEF row, times
    <3> QED BY <3>1, <3>2 DEF AnyEntry
  <2>3. CASE o \notin gone
    <3>1. row[o] = Newer(held[o], seen[o])
      BY <2>3
    <3>2. \/ row[o] = held[o]
          \/ row[o] = seen[o] /\ seen[o] # NoEntry /\ Older(held[o], seen[o])
      <4> HIDE DEF row
      <4> QED BY <1>3, <3>1, NewerParts
    <3> HIDE DEF row, times
    <3> QED BY <1>3, <1>7, <1>8, <2>1, <3>2
  <2> QED BY <2>2, <2>3
<1>10. row \in WrittenRow
  BY <1>9 DEF WrittenRow, Row, AnyEntry
<1>11. rec' = [rec EXCEPT ![d] = row] /\ clock' = [clock EXCEPT ![d] = c]
  BY <1>1, <1>6
<1> HIDE DEF row, times
<1> QED BY <1>1, <1>2, <1>7, <1>9, <1>10, <1>11 DEF Merges

LEMMA MergedStore ==
  ASSUME Sound, Grown, NEW d \in Device, Merges(d), journal' = journal,
         written' = written,
         cursor' \in [Device -> Nat], ledger' \in [Device -> SUBSET Object]
  PROVE  SoundStore'
<1>1. PICK row \in WrittenRow, c \in 0..MaxTime :
        /\ rec' = [rec EXCEPT ![d] = row] /\ clock' = [clock EXCEPT ![d] = c]
        /\ clock[d] <= c /\ \A o \in Object : row[o].time <= c
  BY DEF Merges
<1>2. rec \in [Device -> WrittenRow] /\ journal \in [Device -> SUBSET WrittenItem]
      /\ clock \in [Device -> 0..MaxTime] /\ ClockCovers /\ MaxTime \in Nat
  BY EntryParts DEF Sound, SoundStore
<1>3. rec' \in [Device -> WrittenRow] /\ clock' \in [Device -> 0..MaxTime]
  BY <1>1, <1>2
<1>4. rec' \in [Device -> WrittenRow'] /\ journal' \in [Device -> SUBSET WrittenItem']
  BY <1>2, <1>3, PartsStay
<1>5. ClockCovers'
  <2>1. \A e \in Device \ {d} : rec'[e] = rec[e] /\ clock'[e] = clock[e]
    BY <1>1, <1>2
  <2>2. rec'[d] = row /\ clock'[d] = c
    BY <1>1, <1>2
  <2>3. \A item \in journal[d] : item.entry.time \in Nat
    <3>1. \A item \in journal[d] : item.entry \in Entry
      BY <1>2 DEF WrittenItem, Item
    <3> QED BY <3>1, EntryParts DEF AnyEntry
  <2>4. \A item \in journal[d] : item.entry.time <= c
    BY <1>1, <1>2, <2>3 DEF ClockCovers
  <2> QED BY <1>1, <1>2, <2>1, <2>2, <2>4 DEF ClockCovers
<1> QED BY <1>3, <1>4, <1>5 DEF SoundStore

LEMMA MaxOfTwo == \A a, b \in Nat : Max({a, b}) \in Nat
<1> SUFFICES ASSUME NEW a \in Nat, NEW b \in Nat PROVE Max({a, b}) \in Nat
  OBVIOUS
<1> DEFINE S == {a, b}
<1>1. a + b \in Nat /\ S \in SUBSET (0..(a + b)) /\ S # {}
  OBVIOUS
<1>2. Max(S) \in S
  <2> HIDE DEF S
  <2> QED BY <1>1, MaxThere
<1> QED BY <1>2

\* A step that merges and moves the loop.
LEMMA MergedSound ==
  ASSUME Sound, NEW d \in Device, Merges(d),
         NEW l \in GoodLoop, loop' = [loop EXCEPT ![d] = l],
         inbox' = inbox \/ \E q \in Seq(DOMAIN log) : inbox' = [inbox EXCEPT ![d] = q],
         UNCHANGED <<relay, journal, pub, wanted, vanishing, written, count>>,
         cursor' \in [Device -> Nat], ledger' \in [Device -> SUBSET Object]
  PROVE  Sound'
<1>1. Grown /\ log' = log
  BY DEF Grown, relay
<1>2. l \in GoodLoop'
  BY <1>1, PartsStay
<1>3. SoundLoop'
  BY <1>1, <1>2, LoopTo
<1>4. SoundCount'
  BY DEF Sound, SoundCount
<1>5. SoundStore'
  BY <1>1, MergedStore
<1> QED BY <1>1, <1>3, <1>4, <1>5, RelayStays, PassStays DEF Sound

\* merge_pack gives the device some of the pack's rows.
LEMMA LoadMerges == ASSUME Sound, NEW d \in Device, Load(d) PROVE Merges(d)
<1>1. PICK p \in WrittenPack : p = loop[d].announced
  BY DEF Sound, SoundLoop, GoodLoop
<1>2. PICK seen \in WrittenRow : seen = p.rows
  BY DEF WrittenPack
<1>3. /\ rec' = [rec EXCEPT ![d] = [o \in Object |-> Newer(rec[d][o], seen[o])]]
      /\ clock' = [clock EXCEPT ![d] = Max({clock[d]} \cup {seen[o].time : o \in Object})]
  BY <1>1, <1>2 DEF Load, MergePack
<1>4. PICK none : none = {}
  OBVIOUS
<1>5. rec' = [rec EXCEPT ![d] = [o \in Object |->
                IF o \in none THEN NoEntry ELSE Newer(rec[d][o], seen[o])]]
  BY <1>3, <1>4
<1> QED BY <1>3, <1>5, MergeRow

LEMMA LoadSound == ASSUME Sound, NEW d \in Device, Load(d) PROVE Sound'
<1>1. PICK l \in GoodLoop : loop[d] = l
  BY DEF Sound, SoundLoop
<1>2. /\ cursor[d] \in Nat /\ cursor \in [Device -> Nat] /\ ledger \in [Device -> SUBSET Object]
      /\ l.after \in Nat /\ l.announced.cursor \in Nat
  BY DEF Sound, SoundStore, GoodLoop, LoopType, WrittenPack, PackType
<1>3. PICK n \in Nat : n = Max({l.after, l.announced.cursor})
  BY <1>2, MaxOfTwo
<1>4. PICK m \in Nat : m = Max({cursor[d], l.announced.cursor})
  BY <1>2, MaxOfTwo
<1>5. [l EXCEPT !.pc = "page", !.after = n] \in GoodLoop
  BY LoopRecords
<1>6. loop' = [loop EXCEPT ![d] = [l EXCEPT !.pc = "page", !.after = n]]
  BY <1>1, <1>3 DEF Load
<1>7. cursor' = [cursor EXCEPT ![d] = m]
  BY <1>1, <1>4 DEF Load, MergePack
<1>8. UNCHANGED <<relay, journal, ledger, inbox, pub, wanted, vanishing, written, count>>
  BY DEF Load
<1>9. cursor' \in [Device -> Nat] /\ ledger' \in [Device -> SUBSET Object]
  BY <1>2, <1>7, <1>8
<1> QED BY <1>5, <1>6, <1>8, <1>9, LoadMerges, MergedSound

\* apply gives the device entries that were written.
LEMMA ApplyMerges ==
  ASSUME Sound, NEW d \in Device, NEW events \in SUBSET WrittenEvent, NEW to \in Nat,
         Apply(d, events, to)
  PROVE  /\ Merges(d)
         /\ cursor' \in [Device -> Nat] /\ ledger' \in [Device -> SUBSET Object]
<1> DEFINE gone == Vanished(events)
           new == [o \in Object |-> IF o \in gone \cup ledger[d] THEN {} ELSE Whole(events, o)]
<1>1. written \in [Object -> SUBSET Entry]
  BY DEF Sound, SoundCount
<1>2. \A o \in Object : new[o] \in SUBSET written[o]
  BY DEF Whole, WrittenEvent
<1>3. \A o \in Object : Newest(new[o]) \in written[o] \cup {NoEntry}
  <2>1. \A o \in Object : new[o] \in SUBSET AnyEntry
    BY <1>1, <1>2 DEF AnyEntry
  <2> HIDE DEF new
  <2> QED BY <1>2, <2>1, NewestThere
<1>4. PICK seen : seen = [o \in Object |-> Newest(new[o])]
  OBVIOUS
<1>5. seen \in WrittenRow
  <2> HIDE DEF new
  <2> QED BY <1>1, <1>3, <1>4 DEF WrittenRow, Row
<1>6. /\ rec' = [rec EXCEPT ![d] = [o \in Object |->
                   IF o \in gone THEN NoEntry ELSE Newer(rec[d][o], Newest(new[o]))]]
      /\ clock' = [clock EXCEPT ![d] = Max({clock[d]} \cup {Newest(new[o]).time : o \in Object})]
      /\ cursor' = [cursor EXCEPT ![d] = to]
      /\ ledger' = [ledger EXCEPT ![d] = ledger[d] \cup gone]
  BY DEF Apply
<1>7. /\ \A o \in Object : seen[o] = Newest(new[o])
      /\ {Newest(new[o]).time : o \in Object} = {seen[o].time : o \in Object}
  <2> HIDE DEF new
  <2> QED BY <1>4
<1>8. /\ rec' = [rec EXCEPT ![d] = [o \in Object |->
                   IF o \in gone THEN NoEntry ELSE Newer(rec[d][o], seen[o])]]
      /\ clock' = [clock EXCEPT ![d] = Max({clock[d]} \cup {seen[o].time : o \in Object})]
  <2> HIDE DEF new, gone
  <2> QED BY <1>6, <1>7
<1>9. Merges(d)
  <2>1. PICK g : g = gone
    OBVIOUS
  <2>2. PICK w \in WrittenRow : w = seen
    BY <1>5
  <2>3. /\ rec' = [rec EXCEPT ![d] = [o \in Object |->
                     IF o \in g THEN NoEntry ELSE Newer(rec[d][o], w[o])]]
        /\ clock' = [clock EXCEPT ![d] = Max({clock[d]} \cup {w[o].time : o \in Object})]
    BY <1>8, <2>1, <2>2
  <2> HIDE DEF new, gone
  <2> QED BY <2>3, MergeRow
<1>10. gone \subseteq Object
  BY DEF Vanished, WrittenEvent, EventType
<1>11. cursor' \in [Device -> Nat] /\ ledger' \in [Device -> SUBSET Object]
  <2> HIDE DEF new, gone
  <2> QED BY <1>6, <1>10 DEF Sound, SoundStore
<1> QED BY <1>9, <1>11

LEMMA HeadTail ==
  ASSUME NEW S, NEW q \in Seq(S), q # <<>>
  PROVE  Head(q) \in S /\ Tail(q) \in Seq(S)
  OBVIOUS

LEMMA EventsWritten ==
  ASSUME Sound, NEW seqs \in SUBSET DOMAIN log
  PROVE  Events(seqs) \in SUBSET WrittenEvent
  BY DEF Sound, SoundRelay, Events

\* A page is merged: sync_stream's apply.
LEMMA ApplyPageSound ==
  ASSUME Sound, NEW d \in Device, ApplyPage(d)
  PROVE  Sound' /\ Merges(d)
<1>1. PICK l \in GoodLoop : loop[d] = l
  BY DEF Sound, SoundLoop
<1>2. PICK L \in Nat : L = Len(log) /\ DOMAIN log = 1..L
  BY DEF Sound, SoundRelay
<1>3. l.page \subseteq 1..L /\ l.after \in Nat
  BY <1>2 DEF GoodLoop, LoopType
<1>4. Max({l.after} \cup l.page) \in Nat
  <2> DEFINE S == {l.after} \cup l.page
  <2>1. l.after + L \in Nat /\ S \in SUBSET (0..(l.after + L)) /\ S # {}
    BY <1>3
  <2>2. Max(S) \in S
    <3> HIDE DEF S
    <3> QED BY <2>1, MaxThere
  <2> QED BY <1>3, <2>2
<1>5. PICK n \in Nat : n = Max({l.after} \cup l.page)
  BY <1>4
<1>6. PICK pc \in {"live", "send", "page"} :
        loop' = [loop EXCEPT ![d] = [l EXCEPT !.pc = pc, !.after = n, !.page = {}]]
  BY <1>1, <1>5 DEF ApplyPage, AfterCatchUp
<1>7. Apply(d, Events(l.page), n)
  BY <1>1, <1>5 DEF ApplyPage
<1>8. Events(l.page) \in SUBSET WrittenEvent
  BY <1>2, <1>3, EventsWritten
<1>9. Merges(d) /\ cursor' \in [Device -> Nat] /\ ledger' \in [Device -> SUBSET Object]
  BY <1>7, <1>8, ApplyMerges
<1>10. [l EXCEPT !.pc = pc, !.after = n, !.page = {}] \in GoodLoop
  BY LoopRecords
<1>11. UNCHANGED <<relay, journal, inbox, pub, wanted, vanishing, written, count>>
  BY DEF ApplyPage
<1> QED BY <1>6, <1>9, <1>10, <1>11, MergedSound

\* An event of the subscription is known, merged, or past a gap.
LEMMA ReceiveSound ==
  ASSUME Sound, NEW d \in Device, Receive(d)
  PROVE  Sound' /\ (Merges(d) \/ UNCHANGED rec)
<1>1. PICK l \in GoodLoop : loop[d] = l
  BY DEF Sound, SoundLoop
<1>2. PICK q \in Seq(DOMAIN log) : q = inbox[d] /\ q # <<>>
  BY DEF Sound, SoundLoop, Receive
<1>3. Head(q) \in DOMAIN log /\ Tail(q) \in Seq(DOMAIN log)
  BY <1>2, HeadTail
<1>4. PICK seq \in DOMAIN log : seq = Head(q)
  BY <1>3
<1>5. seq \in Nat
  BY DEF Sound, SoundRelay
<1>6. inbox' = [inbox EXCEPT ![d] = Tail(q)]
  BY <1>2 DEF Receive
<1>7. UNCHANGED <<relay, pub, wanted, vanishing, written, count>>
  BY DEF Receive
<1>8. \E t \in Seq(DOMAIN log) : inbox' = [inbox EXCEPT ![d] = t]
  BY <1>3, <1>6
<1>9. count' \in [Bounded -> Nat]
  BY <1>7 DEF Sound, SoundCount
<1>10. CASE UNCHANGED <<loop, disk>>
  <2>1. loop' = [loop EXCEPT ![d] = l]
    BY <1>1, <1>10 DEF Sound, SoundLoop
  <2>2. Sound'
    BY <1>7, <1>8, <1>9, <1>10, <2>1, LoopOnly
  <2> QED BY <1>10, <2>2 DEF disk
<1>11. CASE /\ Apply(d, {log[seq]}, seq) /\ loop' = [loop EXCEPT ![d].after = seq]
            /\ UNCHANGED journal
  <2>1. {log[seq]} \in SUBSET WrittenEvent
    BY DEF Sound, SoundRelay
  <2>2. Merges(d) /\ cursor' \in [Device -> Nat] /\ ledger' \in [Device -> SUBSET Object]
    BY <1>5, <1>11, <2>1, ApplyMerges
  <2>3. [l EXCEPT !.after = seq] \in GoodLoop
    BY <1>5, LoopRecords
  <2>4. loop' = [loop EXCEPT ![d] = [l EXCEPT !.after = seq]]
    BY <1>1, <1>11
  <2>5. UNCHANGED journal
    BY <1>11
  <2> QED BY <1>7, <1>8, <2>2, <2>3, <2>4, <2>5, MergedSound
<1>12. CASE loop' = [loop EXCEPT ![d] = CatchUp("gap")] /\ UNCHANGED disk
  <2>1. PICK g \in GoodLoop : g = CatchUp("gap")
    BY NewLoops DEF Sound
  <2>2. Sound'
    BY <1>7, <1>8, <1>9, <1>12, <2>1, LoopOnly
  <2> QED BY <1>12, <2>2 DEF disk
<1> QED BY <1>2, <1>4, <1>10, <1>11, <1>12 DEF Receive

-----------------------------------------------------------------------------
(* Publishing *)

\* A journal that is not empty has a first item (publish_journal's order).
LEMMA OldestThere ==
  ASSUME NEW S \in SUBSET Item, S # {}
  PROVE  Oldest(S) \in S
<1> DEFINE T == {x.entry.time : x \in S}
<1>1. \A x \in S : x.entry.time \in Nat /\ x.entry.dev \in Nat /\ x.entry.n \in Nat
  BY EntryParts DEF Item, AnyEntry
<1>2. PICK t \in T : \A y \in T : t <= y
  <2>1. T \in SUBSET Nat /\ T # {}
    BY <1>1
  <2> HIDE DEF T
  <2> QED BY <2>1, Least
<1> DEFINE D == {x.entry.dev : x \in {y \in S : y.entry.time = t}}
<1>3. PICK v \in D : \A y \in D : v <= y
  <2>1. D \in SUBSET Nat /\ D # {}
    BY <1>1
  <2> HIDE DEF D, T
  <2> QED BY <2>1, Least
<1> DEFINE N == {x.entry.n : x \in {y \in S : y.entry.time = t /\ y.entry.dev = v}}
<1>4. PICK n \in N : \A y \in N : n <= y
  <2>1. N \in SUBSET Nat /\ N # {}
    BY <1>1
  <2> HIDE DEF N, D, T
  <2> QED BY <2>1, Least
<1>5. PICK m \in S : m.entry.time = t /\ m.entry.dev = v /\ m.entry.n = n
  OBVIOUS
<1>6. ASSUME NEW x \in S PROVE ~Older(x.entry, m.entry)
  <2>1. t <= x.entry.time
    BY <1>2
  <2>2. x.entry.time = t => v <= x.entry.dev
    BY <1>3
  <2>3. x.entry.time = t /\ x.entry.dev = v => n <= x.entry.n
    BY <1>4
  <2> HIDE DEF T, D, N
  <2> QED BY <1>1, <1>5, <2>1, <2>2, <2>3 DEF Older
<1>7. \E m0 \in S : \A x \in S : ~Older(x.entry, m0.entry)
  BY <1>6
<1> QED BY <1>7 DEF Oldest

\* The relay accepts what was written, and tells subscribers its seq.
LEMMA AcceptSound ==
  ASSUME Sound, NEW event \in WrittenEvent, Accept(event), UNCHANGED written
  PROVE  Grown /\ SoundRelay' /\ inbox' \in [Device -> Seq(DOMAIN log')]
<1>1. PICK n \in Nat : n = Len(log) /\ DOMAIN log = 1..n
  BY DEF Sound, SoundRelay
<1>2. log' \in Seq(WrittenEvent) /\ DOMAIN log' = 1..(n + 1)
  BY <1>1 DEF Sound, SoundRelay, Accept
<1>3. Grown
  BY <1>1, <1>2 DEF Grown
<1>4. SoundRelay'
  <2>1. WrittenEvent \subseteq WrittenEvent' /\ WrittenPack \subseteq WrittenPack'
    BY <1>3, PartsStay
  <2>2. log' \in Seq(WrittenEvent')
    BY <1>2, <2>1
  <2>3. pack' \in WrittenPack' /\ cut' \in Nat
    BY <2>1 DEF Sound, SoundRelay, Accept
  <2> QED BY <2>2, <2>3 DEF SoundRelay
<1>5. \A d \in Device : /\ inbox[d] \in Seq(DOMAIN log')
                        /\ Append(inbox[d], n + 1) \in Seq(DOMAIN log')
  <2>1. \A d \in Device : inbox[d] \in Seq(1..(n + 1))
    BY <1>1 DEF Sound, SoundLoop
  <2>2. n + 1 \in 1..(n + 1)
    OBVIOUS
  <2> QED BY <1>2, <2>1, <2>2
<1>6. inbox' = [d \in Device |->
                  IF loop[d].pc = "live" \/ (loop[d].by = "gap" /\ loop[d].pc \in {"ask", "load", "page", "apply"})
                  THEN Append(inbox[d], n + 1) ELSE inbox[d]]
  BY <1>1 DEF Accept
<1>7. inbox' \in [Device -> Seq(DOMAIN log')]
  BY <1>5, <1>6
<1> QED BY <1>3, <1>4, <1>7

LEMMA PassTo ==
  ASSUME Sound, Grown, NEW d \in Device, NEW p, p \in GoodPass',
         pub' = [pub EXCEPT ![d] = p],
         wanted' \in [Device -> BOOLEAN], vanishing' \in [Device -> SUBSET Object]
  PROVE  SoundPass'
  BY PartsStay DEF Sound, SoundPass

LEMMA NoPubGood == NoPub \in GoodPass
  BY RecordsConstants DEF NoPub, PassAt, GoodPass, PassType

LEMMA SendingGood ==
  ASSUME NEW items \in SUBSET WrittenItem, items # {}, NEW by \in {"commit", "loop"}
  PROVE  PassAt("sending", by, items, 1) \in GoodPass
<1>1. items \in SUBSET Item /\ 1 \in 1..Parts
  BY RecordsConstants DEF WrittenItem
<1> QED BY <1>1 DEF PassAt, GoodPass, PassType

\* Where the loop goes when its pass is over.
LEMMA AfterPublishLoop ==
  ASSUME Sound, NEW d \in Device, NEW by, NEW ok, AfterPublish(d, by, ok)
  PROVE  \E l \in GoodLoop : loop' = [loop EXCEPT ![d] = l]
<1>1. PICK l \in GoodLoop : loop[d] = l
  BY DEF Sound, SoundLoop
<1>2. CASE UNCHANGED loop
  <2>1. loop' = [loop EXCEPT ![d] = l]
    BY <1>1, <1>2 DEF Sound, SoundLoop
  <2> QED BY <2>1
<1>3. CASE loop' = [loop EXCEPT ![d] = [loop[d] EXCEPT !.pc = "subscribe"]]
  <2>1. [l EXCEPT !.pc = "subscribe"] \in GoodLoop
    BY LoopRecords
  <2> QED BY <1>1, <1>3, <2>1
<1>4. CASE loop' = [loop EXCEPT ![d] = Broken(d)]
  <2>1. Broken(d) \in GoodLoop
    BY NewLoops DEF Broken, Sound
  <2> QED BY <1>4, <2>1
<1> QED BY <1>2, <1>3, <1>4 DEF AfterPublish

LEMMA PublishJournalSound == ASSUME Sound, NEW d \in Device, PublishJournal(d) PROVE Sound'
<1>1. UNCHANGED <<relay, disk, inbox, vanishing, written, count>>
  BY DEF PublishJournal
<1>2. Grown /\ log' = log
  BY <1>1 DEF Grown, relay
<1>3. wanted' \in [Device -> BOOLEAN]
  <2>1. PICK w \in BOOLEAN : wanted' = [wanted EXCEPT ![d] = w]
    BY DEF PublishJournal
  <2> QED BY <2>1 DEF Sound, SoundPass
<1>4. \E l \in GoodLoop : loop' = [loop EXCEPT ![d] = l]
  <2>1. PICK l \in GoodLoop : loop[d] = l
    BY DEF Sound, SoundLoop
  <2>2. CASE UNCHANGED loop
    <3>1. loop' = [loop EXCEPT ![d] = l]
      BY <2>1, <2>2 DEF Sound, SoundLoop
    <3> QED BY <3>1
  <2>3. CASE loop' = [loop EXCEPT ![d] = [loop[d] EXCEPT !.pc = "sending"]]
    <3>1. [l EXCEPT !.pc = "sending"] \in GoodLoop
      BY LoopRecords
    <3> QED BY <2>1, <2>3, <3>1
  <2>4. CASE \E by \in {"loop", "commit"} : AfterPublish(d, by, TRUE)
    BY <2>4, AfterPublishLoop
  <2> QED BY <2>2, <2>3, <2>4 DEF PublishJournal, To
<1>5. SoundLoop'
  <2>1. GoodLoop \subseteq GoodLoop'
    BY <1>2, PartsStay
  <2> QED BY <1>1, <1>2, <1>4, <2>1, LoopTo
<1>6. vanishing' \in [Device -> SUBSET Object]
  BY <1>1 DEF Sound, SoundPass
<1>7. SoundPass'
  <2>1. PICK items \in SUBSET WrittenItem : items = journal[d]
    BY DEF Sound, SoundStore
  <2>2. CASE UNCHANGED pub
    <3>1. pub' \in [Device -> GoodPass']
      BY <1>2, <2>2, PartsStay DEF Sound, SoundPass
    <3> QED BY <1>3, <1>6, <3>1 DEF SoundPass
  <2>3. ASSUME items # {}, NEW by \in {"loop", "commit"},
               pub' = [pub EXCEPT ![d] = PassAt("sending", by, items, 1)]
        PROVE  SoundPass'
    <3>1. PICK p \in GoodPass : p = PassAt("sending", by, items, 1)
      BY <2>3, SendingGood
    <3> QED BY <1>2, <1>3, <1>6, <2>3, <3>1, PartsStay, PassTo
  <2> QED BY <2>1, <2>2, <2>3 DEF PublishJournal
<1>8. SoundCount'
  BY <1>1 DEF Sound, SoundCount
<1> QED BY <1>1, <1>2, <1>5, <1>7, <1>8, RelayStays, StoreStays DEF Sound

\* What a pass sends was written.
LEMMA PartWritten ==
  ASSUME Sound, NEW d \in Device, pub[d].pc # "idle"
  PROVE  NextPart(d) \in WrittenEvent /\ Oldest(pub[d].items) \in pub[d].items
<1>1. PICK p \in GoodPass : p = pub[d]
  BY DEF Sound, SoundPass
<1>2. p.items \in SUBSET Item /\ p.items # {} /\ p.items \subseteq WrittenItem /\ p.part \in 1..Parts
  BY <1>1 DEF GoodPass, PassType
<1>3. Oldest(p.items) \in p.items
  BY <1>2, OldestThere
<1>4. PICK x \in WrittenItem : x = Oldest(p.items)
  BY <1>2, <1>3
<1>5. Patch(x.object, x.entry, p.part) \in WrittenEvent
  BY <1>2 DEF WrittenItem, Item, WrittenEvent, EventType, Patch
<1> QED BY <1>1, <1>3, <1>4, <1>5 DEF NextPart

LEMMA SendSound == ASSUME Sound, NEW d \in Device, Send(d) PROVE Sound'
<1>1. pub[d].pc = "sending" /\ Accept(NextPart(d))
      /\ UNCHANGED <<disk, loop, wanted, vanishing, written, count>>
  BY DEF Send
<1>2. Grown /\ SoundRelay' /\ inbox' \in [Device -> Seq(DOMAIN log')]
  BY <1>1, PartWritten, AcceptSound
<1>3. loop' \in [Device -> GoodLoop']
  BY <1>1, <1>2, PartsStay DEF Sound, SoundLoop
<1>4. PICK p \in GoodPass : p = pub[d]
  BY DEF Sound, SoundPass
<1>5. p.part \in 1..Parts /\ Parts \in Nat /\ p.by \in {"commit", "loop"}
      /\ p.items \in SUBSET Item /\ p.items \subseteq WrittenItem /\ p.items # {}
  BY <1>1, <1>4, RecordsConstants DEF GoodPass, PassType
<1>6. PICK next : next = IF p.part < Parts THEN PassAt("sending", p.by, p.items, p.part + 1)
                                           ELSE PassAt("sent", p.by, p.items, p.part)
  OBVIOUS
<1>7. next \in GoodPass
  <2>1. CASE p.part < Parts
    <3>1. p.part + 1 \in 1..Parts
      BY <1>5, <2>1
    <3> QED BY <1>5, <1>6, <2>1, <3>1 DEF GoodPass, PassType, PassAt
  <2>2. CASE ~(p.part < Parts)
    BY <1>5, <1>6, <2>2 DEF GoodPass, PassType, PassAt
  <2> QED BY <2>1, <2>2
<1>8. pub' = [pub EXCEPT ![d] = next]
  BY <1>4, <1>6 DEF Send
<1>9. SoundPass'
  <2>1. next \in GoodPass'
    BY <1>2, <1>7, PartsStay
  <2>2. wanted' \in [Device -> BOOLEAN] /\ vanishing' \in [Device -> SUBSET Object]
    BY <1>1 DEF Sound, SoundPass
  <2> QED BY <1>2, <1>8, <2>1, <2>2, PassTo
<1>10. SoundCount'
  BY <1>1 DEF Sound, SoundCount
<1> QED BY <1>1, <1>2, <1>3, <1>9, <1>10, StoreStays DEF Sound, SoundLoop

LEMMA RemoveJournalSound == ASSUME Sound, NEW d \in Device, RemoveJournal(d) PROVE Sound'
<1>1. UNCHANGED <<relay, rec, cursor, ledger, clock, inbox, wanted, vanishing, written, count>>
  BY DEF RemoveJournal
<1>2. Grown /\ log' = log
  BY <1>1 DEF Grown, relay
<1>3. PICK p \in GoodPass : p = pub[d]
  BY DEF Sound, SoundPass
<1>4. PICK rest \in SUBSET WrittenItem : rest = p.items \ {Oldest(p.items)}
  BY DEF GoodPass
<1>5. p.by \in {"commit", "loop"}
  BY DEF GoodPass, PassType
<1>6. SoundStore'
  <2>1. journal' = [journal EXCEPT ![d] = @ \ Sent(d)]
    BY DEF RemoveJournal
  <2>2. journal \in [Device -> SUBSET WrittenItem]
    BY DEF Sound, SoundStore
  <2>3. journal' \in [Device -> SUBSET WrittenItem] /\ \A e \in Device : journal'[e] \subseteq journal[e]
    BY <2>1, <2>2
  <2>4. journal' \in [Device -> SUBSET WrittenItem'] /\ rec' \in [Device -> WrittenRow']
    BY <1>1, <1>2, <2>3, PartsStay DEF Sound, SoundStore
  <2>5. ClockCovers'
    BY <1>1, <2>3 DEF Sound, SoundStore, ClockCovers
  <2> QED BY <1>1, <2>4, <2>5 DEF Sound, SoundStore
<1>7. \E next \in GoodPass : pub' = [pub EXCEPT ![d] = next]
  <2>1. CASE rest # {} /\ pub' = [pub EXCEPT ![d] = PassAt("sending", p.by, rest, 1)]
    BY <1>5, <2>1, SendingGood
  <2>2. CASE pub' = [pub EXCEPT ![d] = NoPub]
    BY <2>2, NoPubGood
  <2> QED BY <1>3, <1>4, <2>1, <2>2 DEF RemoveJournal
<1>8. SoundPass'
  <2>1. GoodPass \subseteq GoodPass'
    BY <1>2, PartsStay
  <2>2. wanted' \in [Device -> BOOLEAN] /\ vanishing' \in [Device -> SUBSET Object]
    BY <1>1 DEF Sound, SoundPass
  <2> QED BY <1>2, <1>7, <2>1, <2>2, PassTo
<1>9. SoundLoop'
  <2>1. CASE UNCHANGED loop
    BY <1>1, <1>2, <2>1, LoopStays
  <2>2. CASE AfterPublish(d, pub[d].by, TRUE)
    <3>1. PICK l \in GoodLoop : loop' = [loop EXCEPT ![d] = l]
      BY <2>2, AfterPublishLoop
    <3>2. l \in GoodLoop'
      BY <1>2, PartsStay
    <3> QED BY <1>1, <1>2, <3>1, <3>2, LoopTo
  <2> QED BY <2>1, <2>2 DEF RemoveJournal
<1>10. SoundCount'
  BY <1>1 DEF Sound, SoundCount
<1> QED BY <1>1, <1>2, <1>6, <1>8, <1>9, <1>10, RelayStays DEF Sound

\* An event is accepted, or the relay is left as it was.
LEMMA MayAccept ==
  ASSUME Sound, UNCHANGED written,
         UNCHANGED <<relay, inbox>> \/ \E event \in WrittenEvent : Accept(event)
  PROVE  Grown /\ SoundRelay' /\ inbox' \in [Device -> Seq(DOMAIN log')]
<1>1. CASE UNCHANGED <<relay, inbox>>
  <2>1. Grown /\ log' = log
    BY <1>1 DEF Grown, relay
  <2>2. inbox' \in [Device -> Seq(DOMAIN log')]
    BY <1>1, <2>1 DEF Sound, SoundLoop
  <2> QED BY <1>1, <2>1, <2>2, RelayStays
<1>2. ASSUME NEW event \in WrittenEvent, Accept(event)
      PROVE  Grown /\ SoundRelay' /\ inbox' \in [Device -> Seq(DOMAIN log')]
  BY <1>2, AcceptSound
<1> QED BY <1>1, <1>2

LEMMA SendFailsSound == ASSUME Sound, NEW d \in Device, SendFails(d) PROVE Sound'
<1>1. /\ pub[d].pc = "sending" /\ Used("fails")
      /\ UNCHANGED <<disk, wanted, vanishing, written>>
      /\ pub' = [pub EXCEPT ![d] = NoPub]
      /\ AfterPublish(d, pub[d].by, FALSE)
  BY DEF SendFails, Upset
<1>2. UNCHANGED <<relay, inbox>> \/ \E event \in WrittenEvent : Accept(event)
  BY <1>1, PartWritten DEF SendFails
<1>3. Grown /\ SoundRelay' /\ inbox' \in [Device -> Seq(DOMAIN log')]
  BY <1>1, <1>2, MayAccept
<1>4. loop' \in [Device -> GoodLoop']
  <2>1. PICK l \in GoodLoop : loop' = [loop EXCEPT ![d] = l]
    BY <1>1, AfterPublishLoop
  <2>2. loop' \in [Device -> GoodLoop]
    BY <2>1 DEF Sound, SoundLoop
  <2> QED BY <1>3, <2>2, PartsStay
<1>5. SoundPass'
  <2>1. NoPub \in GoodPass'
    BY <1>3, NoPubGood, PartsStay
  <2>2. wanted' \in [Device -> BOOLEAN] /\ vanishing' \in [Device -> SUBSET Object]
    BY <1>1 DEF Sound, SoundPass
  <2> QED BY <1>1, <1>3, <2>1, <2>2, PassTo
<1>6. SoundCount'
  BY <1>1, UsedCounts DEF Sound, SoundCount, Bounded
<1> QED BY <1>1, <1>3, <1>4, <1>5, <1>6, StoreStays DEF Sound, SoundLoop

LEMMA SendVanishSound ==
  ASSUME Sound, NEW d \in Device, NEW o \in Object, SendVanish(d, o)
  PROVE  Sound'
<1>1. UNCHANGED <<disk, loop, pub, wanted, written, count>>
      /\ vanishing' = [vanishing EXCEPT ![d] = @ \ {o}]
  BY DEF SendVanish
<1>2. VanishOf(o) \in WrittenEvent
  BY RecordsConstants DEF VanishOf, WrittenEvent, EventType
<1>3. Grown /\ SoundRelay' /\ inbox' \in [Device -> Seq(DOMAIN log')]
  BY <1>1, <1>2, MayAccept DEF SendVanish
<1>4. loop' \in [Device -> GoodLoop']
  BY <1>1, <1>3, PartsStay DEF Sound, SoundLoop
<1>5. SoundPass'
  <2>1. pub' \in [Device -> GoodPass']
    BY <1>1, <1>3, PartsStay DEF Sound, SoundPass
  <2> QED BY <1>1, <2>1 DEF Sound, SoundPass
<1>6. SoundCount'
  BY <1>1 DEF Sound, SoundCount
<1> QED BY <1>1, <1>3, <1>4, <1>5, <1>6, StoreStays DEF Sound, SoundLoop

-----------------------------------------------------------------------------
(* The device and the world *)

\* A write shows at once: its stamp is past what it replaces.
LEMMA CommitWrites ==
  ASSUME Sound, NEW d \in Device, NEW o \in Object, Commit(d, o)
  PROVE  \E e \in Entry :
           /\ Older(rec[d][o], e) /\ rec' = [rec EXCEPT ![d][o] = e]
           /\ clock[d] < e.time /\ e.time \in 1..MaxTime /\ clock' = [clock EXCEPT ![d] = e.time]
           /\ journal' = [journal EXCEPT ![d] = @ \cup {[object |-> o, entry |-> e]}]
           /\ written' = [written EXCEPT ![o] = @ \cup {e}]
<1>1. PICK time \in (clock[d] + 1)..MaxTime :
        LET e == [time |-> time, dev |-> Index[d], n |-> count.writes + 1] IN
          /\ clock' = [clock EXCEPT ![d] = time]
          /\ rec' = [rec EXCEPT ![d][o] = Newer(@, e)]
          /\ journal' = [journal EXCEPT ![d] = @ \cup {[object |-> o, entry |-> e]}]
          /\ written' = [written EXCEPT ![o] = @ \cup {e}]
  BY DEF Commit
<1>2. PICK e : e = [time |-> time, dev |-> Index[d], n |-> count.writes + 1]
  OBVIOUS
<1>3. clock[d] \in Nat /\ MaxTime \in Nat /\ time \in 1..MaxTime /\ clock[d] < time
  BY EntryParts DEF Sound, SoundStore
<1>4. count["writes"] + 1 \in 1..MaxWrites
  <2>1. count["writes"] \in Nat /\ count["writes"] < MaxWrites /\ MaxWrites \in Nat
    BY EntryParts DEF Sound, SoundCount, Bounded, Commit
  <2> QED BY <2>1
<1>5. e \in Entry /\ e.time = time
  BY <1>2, <1>3, <1>4 DEF Entry
<1>6. PICK row \in WrittenRow : row = rec[d]
  BY DEF Sound, SoundStore
<1>7. Older(row[o], e)
  <2>1. row[o].time <= clock[d]
    BY <1>6 DEF Sound, SoundStore, ClockCovers
  <2>2. row[o].time \in Nat
    BY EntryParts DEF WrittenRow, Row, AnyEntry
  <2> QED BY <1>3, <1>5, <2>1, <2>2 DEF Older
<1>8. rec' = [rec EXCEPT ![d][o] = e]
  BY <1>1, <1>2, <1>6, <1>7 DEF Newer
<1> QED BY <1>1, <1>2, <1>3, <1>5, <1>6, <1>7, <1>8

LEMMA CommitSound ==
  ASSUME Sound, NEW d \in Device, NEW o \in Object, Commit(d, o)
  PROVE  Sound'
<1>1. UNCHANGED <<relay, cursor, ledger, loop, inbox, pub, vanishing>> /\ Used("writes")
      /\ wanted' = [wanted EXCEPT ![d] = TRUE]
  BY DEF Commit
<1>2. PICK e \in Entry :
           /\ rec' = [rec EXCEPT ![d][o] = e]
           /\ clock[d] < e.time /\ e.time \in 1..MaxTime /\ clock' = [clock EXCEPT ![d] = e.time]
           /\ journal' = [journal EXCEPT ![d] = @ \cup {[object |-> o, entry |-> e]}]
           /\ written' = [written EXCEPT ![o] = @ \cup {e}]
  BY CommitWrites
<1>3. SoundCount' /\ e \in written'[o] /\ Grown
  <2>1. written \in [Object -> SUBSET Entry] /\ log' = log
    BY <1>1 DEF Sound, SoundCount, relay
  <2>2. count' \in [Bounded -> Nat]
    BY <1>1, UsedCounts DEF Bounded
  <2> QED BY <1>2, <2>1, <2>2 DEF SoundCount, Grown
<1>4. SoundStore'
  <2>1. /\ rec \in [Device -> WrittenRow'] /\ journal \in [Device -> SUBSET WrittenItem']
        /\ clock \in [Device -> 0..MaxTime] /\ MaxTime \in Nat /\ ClockCovers
    BY <1>3, PartsStay, EntryParts DEF Sound, SoundStore
  <2>2. PICK row \in WrittenRow' : row = rec[d]
    BY <2>1
  <2>3. [row EXCEPT ![o] = e] \in WrittenRow'
    BY <1>2, <1>3 DEF WrittenRow, Row
  <2>4. rec' = [rec EXCEPT ![d] = [row EXCEPT ![o] = e]]
    BY <1>2, <2>2
  <2>5. rec' \in [Device -> WrittenRow']
    BY <2>1, <2>3, <2>4
  <2>6. PICK item : item = [object |-> o, entry |-> e]
    OBVIOUS
  <2>7. item \in WrittenItem' /\ item.entry = e
    BY <1>3, <2>6 DEF WrittenItem, Item
  <2>8. journal' \in [Device -> SUBSET WrittenItem']
    BY <1>2, <2>1, <2>6, <2>7
  <2>9. clock' \in [Device -> 0..MaxTime]
    BY <1>2, <2>1
  <2>10. ASSUME NEW x \in Device, NEW y \in Object PROVE rec'[x][y].time <= clock'[x]
    <3>1. CASE x = d
      <4>1. row[y].time \in Nat
        BY <1>2, <2>2, EntryParts DEF WrittenRow, Row, AnyEntry, Sound, SoundStore
      <4>2. row[y].time <= clock[d] /\ clock[d] \in Nat /\ e.time \in Nat
        BY <1>2, <2>1, <2>2 DEF ClockCovers
      <4>3. rec'[x][y] = IF y = o THEN e ELSE row[y]
        BY <2>1, <2>3, <2>4, <3>1 DEF WrittenRow, Row
      <4> QED BY <1>2, <2>1, <3>1, <4>1, <4>2, <4>3
    <3>2. CASE x # d
      BY <1>2, <2>1, <3>2 DEF ClockCovers
    <3> QED BY <3>1, <3>2
  <2>11. ASSUME NEW x \in Device, NEW j \in journal'[x] PROVE j.entry.time <= clock'[x]
    <3>1. CASE x = d /\ j \in journal[d]
      <4>1. j.entry.time <= clock[d] /\ clock[d] \in Nat /\ e.time \in Nat
        BY <1>2, <2>1, <3>1 DEF ClockCovers
      <4>2. j.entry.time \in Nat
        <5>1. j.entry \in Entry
          BY <3>1 DEF Sound, SoundStore, WrittenItem, Item
        <5> QED BY <5>1, EntryParts DEF AnyEntry
      <4> QED BY <1>2, <2>1, <3>1, <4>1, <4>2
    <3>2. CASE x = d /\ j = item
      BY <1>2, <2>1, <2>7, <3>2
    <3>3. CASE x # d
      BY <1>2, <2>1, <2>11, <3>3 DEF ClockCovers
    <3> QED BY <1>2, <2>1, <2>6, <2>11, <3>1, <3>2, <3>3
  <2> QED BY <1>1, <2>5, <2>8, <2>9, <2>10, <2>11 DEF Sound, SoundStore, ClockCovers
<1>5. SoundPass'
  <2>1. pub' \in [Device -> GoodPass']
    BY <1>1, <1>3, PartsStay DEF Sound, SoundPass
  <2> QED BY <1>1, <2>1 DEF Sound, SoundPass
<1> QED BY <1>1, <1>3, <1>4, <1>5, RelayStays, LoopStays DEF Sound

\* A vanish drops the row and nothing else of the record.
LEMMA VanishMerges ==
  ASSUME Sound, NEW d \in Device, NEW o \in Object, VanishLocal(d, o)
  PROVE  Merges(d)
<1>1. PICK row \in WrittenRow : row = rec[d]
  BY DEF Sound, SoundStore
<1>2. PICK next : next = [row EXCEPT ![o] = NoEntry]
  OBVIOUS
<1>3. next \in WrittenRow
  BY <1>2 DEF WrittenRow, Row
<1>4. rec' = [rec EXCEPT ![d] = next] /\ clock' = clock
  BY <1>1, <1>2 DEF VanishLocal
<1>5. PICK c \in 0..MaxTime : c = clock[d] /\ clock' = [clock EXCEPT ![d] = c]
  BY <1>4 DEF Sound, SoundStore
<1>6. \A x \in Object : /\ next[x] \in {row[x], NoEntry}
                        /\ row[x].time <= c /\ NoEntry.time = 0 /\ c \in Nat
  <2>1. \A x \in Object : next[x] = IF x = o THEN NoEntry ELSE row[x]
    BY <1>2 DEF WrittenRow, Row
  <2>2. \A x \in Object : row[x].time <= c
    BY <1>1, <1>5 DEF Sound, SoundStore, ClockCovers
  <2> QED BY <2>1, <2>2 DEF NoEntry
<1>7. clock[d] <= c
  BY <1>5, <1>6
<1>8. \A x \in Object : next[x].time <= c /\ next[x] \in {rec[d][x], NoEntry}
  BY <1>1, <1>6
<1> QED BY <1>3, <1>4, <1>5, <1>7, <1>8 DEF Merges

LEMMA VanishLocalSound ==
  ASSUME Sound, NEW d \in Device, NEW o \in Object, VanishLocal(d, o)
  PROVE  Sound'
<1>1. /\ UNCHANGED <<relay, journal, cursor, clock, loop, inbox, pub, wanted, written>>
      /\ Used("vanishes")
      /\ ledger' = [ledger EXCEPT ![d] = @ \cup {o}]
      /\ vanishing' = [vanishing EXCEPT ![d] = @ \cup {o}]
  BY DEF VanishLocal, Upset
<1>2. Grown
  BY <1>1 DEF Grown, relay
<1>3. cursor' \in [Device -> Nat] /\ ledger' \in [Device -> SUBSET Object]
  BY <1>1 DEF Sound, SoundStore
<1>4. SoundStore'
  BY <1>1, <1>2, <1>3, VanishMerges, MergedStore
<1>5. SoundPass'
  <2>1. pub' \in [Device -> GoodPass']
    BY <1>1, <1>2, PartsStay DEF Sound, SoundPass
  <2> QED BY <1>1, <2>1 DEF Sound, SoundPass
<1>6. SoundCount'
  BY <1>1, UsedCounts DEF Sound, SoundCount, Bounded
<1> QED BY <1>1, <1>2, <1>4, <1>5, <1>6, RelayStays, LoopStays DEF Sound

LEMMA EndedSound ==
  ASSUME Sound, NEW d \in Device, Ended(d), UNCHANGED <<relay, written>>
  PROVE  SoundRelay' /\ SoundLoop' /\ SoundPass' /\ Grown
<1>1. Grown /\ log' = log
  BY DEF Grown, relay
<1>2. PICK l : l = Resting /\ l \in GoodLoop'
  BY <1>1, NewLoops, PartsStay DEF Sound
<1>3. loop' = [loop EXCEPT ![d] = l] /\ inbox' = [inbox EXCEPT ![d] = <<>>]
  BY <1>2 DEF Ended
<1>4. \E q \in Seq(DOMAIN log') : inbox' = [inbox EXCEPT ![d] = q]
  <2>1. <<>> \in Seq(DOMAIN log')
    OBVIOUS
  <2> QED BY <1>3, <2>1, Zenon
<1>5. SoundLoop'
  BY <1>1, <1>2, <1>3, <1>4, LoopTo
<1>6. SoundPass'
  <2>1. NoPub \in GoodPass'
    BY <1>1, NoPubGood, PartsStay
  <2>2. wanted' \in [Device -> BOOLEAN] /\ vanishing' \in [Device -> SUBSET Object]
    BY DEF Ended, Sound, SoundPass
  <2>3. pub' = [pub EXCEPT ![d] = NoPub]
    BY DEF Ended
  <2> QED BY <1>1, <2>1, <2>2, <2>3, PassTo
<1> QED BY <1>1, <1>5, <1>6, RelayStays

LEMMA CrashSound == ASSUME Sound, NEW d \in Device, Crash(d) PROVE Sound'
<1>1. Ended(d) /\ UNCHANGED <<relay, disk, written>> /\ Used("crashes")
  BY DEF Crash, Upset
<1>2. SoundCount'
  BY <1>1, UsedCounts DEF Sound, SoundCount, Bounded
<1> QED BY <1>1, <1>2, EndedSound, StoreStays DEF Sound

\* A logout leaves nothing shown or journaled, so any clock will do.
LEMMA LogoutSound == ASSUME Sound, NEW d \in Device, Logout(d) PROVE Sound'
<1>1. /\ Ended(d) /\ UNCHANGED <<relay, written>> /\ Used("logouts")
      /\ rec' = [rec EXCEPT ![d] = [o \in Object |-> NoEntry]]
      /\ journal' = [journal EXCEPT ![d] = {}]
      /\ cursor' = [cursor EXCEPT ![d] = NoCursor]
      /\ ledger' = [ledger EXCEPT ![d] = {}]
      /\ clock' \in {clock, [clock EXCEPT ![d] = 0]}
  BY DEF Logout, Upset
<1>2. SoundRelay' /\ SoundLoop' /\ SoundPass' /\ Grown
  BY <1>1, EndedSound
<1>3. SoundCount'
  BY <1>1, UsedCounts DEF Sound, SoundCount, Bounded
<1>4. SoundStore'
  <2>1. /\ rec \in [Device -> WrittenRow'] /\ journal \in [Device -> SUBSET WrittenItem']
        /\ cursor \in [Device -> Nat] /\ ledger \in [Device -> SUBSET Object]
        /\ clock \in [Device -> 0..MaxTime] /\ ClockCovers
    BY <1>2, PartsStay DEF Sound, SoundStore
  <2>2. PICK none \in WrittenRow' : none = [o \in Object |-> NoEntry]
    <3>1. [o \in Object |-> NoEntry] \in WrittenRow'
      BY DEF WrittenRow, Row
    <3> QED BY <3>1
  <2>3. rec' \in [Device -> WrittenRow'] /\ journal' \in [Device -> SUBSET WrittenItem']
    BY <1>1, <2>1, <2>2
  <2>4. cursor' \in [Device -> Nat] /\ ledger' \in [Device -> SUBSET Object]
    BY <1>1, <2>1 DEF NoCursor
  <2>5. clock' \in [Device -> 0..MaxTime] /\ clock'[d] \in Nat
        /\ \A x \in Device \ {d} : clock'[x] = clock[x]
    BY <1>1, <2>1, EntryParts
  <2>6. /\ \A x \in Device \ {d} : rec'[x] = rec[x] /\ journal'[x] = journal[x]
        /\ rec'[d] = none /\ journal'[d] = {}
    BY <1>1, <2>1, <2>2
  <2>7. \A o \in Object : none[o].time = 0
    BY <2>2 DEF NoEntry
  <2>8. ClockCovers'
    BY <2>1, <2>5, <2>6, <2>7 DEF ClockCovers
  <2> QED BY <2>3, <2>4, <2>5, <2>8 DEF SoundStore
<1> QED BY <1>2, <1>3, <1>4 DEF Sound

\* The builder packs entries that were written.
LEMMA BuildPackSound == ASSUME Sound, BuildPack PROVE Sound'
<1>1. /\ UNCHANGED <<log, cut, disk, session, written>> /\ Used("packs")
      /\ pack' = [cursor |-> Len(log), cut |-> cut,
                  rows |-> [o \in Object |-> Told(Len(log), o)]]
  BY DEF BuildPack
<1>2. Grown
  BY <1>1 DEF Grown
<1>3. PICK L \in Nat : L = Len(log) /\ DOMAIN log = 1..L
  BY DEF Sound, SoundRelay
<1>4. Events(1..L) \in SUBSET WrittenEvent
  BY <1>3, EventsWritten
<1>5. \A o \in Object : Told(L, o) \in written[o] \cup {NoEntry}
  <2>1. TAKE o \in Object
  <2>2. Whole(Events(1..L), o) \in SUBSET written[o] /\ written[o] \subseteq AnyEntry
    BY <1>4 DEF Whole, WrittenEvent, Sound, SoundCount, AnyEntry
  <2>3. Newest(Whole(Events(1..L), o)) \in written[o] \cup {NoEntry}
    BY <2>2, NewestThere
  <2> QED BY <2>3 DEF Told
<1>6. PICK rows : rows = [o \in Object |-> Told(L, o)]
  OBVIOUS
<1>7. rows \in WrittenRow
  <2>1. written \in [Object -> SUBSET Entry]
    BY DEF Sound, SoundCount
  <2> QED BY <1>5, <1>6, <2>1 DEF WrittenRow, Row
<1>8. cut \in Nat
  BY DEF Sound, SoundRelay
<1>9. pack' = [cursor |-> L, cut |-> cut, rows |-> rows]
  BY <1>1, <1>3, <1>6
<1>10. pack' \in WrittenPack
  BY <1>3, <1>7, <1>8, <1>9 DEF WrittenPack, PackType, WrittenRow
<1>11. SoundRelay'
  <2>1. pack' \in WrittenPack' /\ log' \in Seq(WrittenEvent')
    BY <1>1, <1>2, <1>10, PartsStay DEF Sound, SoundRelay
  <2> QED BY <1>1, <1>8, <2>1 DEF SoundRelay
<1>12. SoundCount'
  BY <1>1, UsedCounts DEF Sound, SoundCount, Bounded
<1> QED BY <1>1, <1>2, <1>11, <1>12, StoreStays, LoopStays, PassStays DEF Sound, session

LEMMA DeleteCoveredSound == ASSUME Sound, DeleteCovered PROVE Sound'
<1>1. /\ UNCHANGED <<log, disk, session, written>> /\ Used("cuts")
      /\ cut' = pack.cursor /\ pack' = [pack EXCEPT !.cut = pack.cursor]
  BY DEF DeleteCovered
<1>2. Grown
  BY <1>1 DEF Grown
<1>3. PICK p \in WrittenPack : p = pack
  BY DEF Sound, SoundRelay
<1>4. p.cursor \in Nat /\ [p EXCEPT !.cut = p.cursor] \in WrittenPack
  BY DEF WrittenPack, PackType
<1>5. SoundRelay'
  <2>1. log' \in Seq(WrittenEvent')
    BY <1>1, <1>2, PartsStay DEF Sound, SoundRelay
  <2>2. pack' = [p EXCEPT !.cut = p.cursor] /\ cut' = p.cursor
    BY <1>1, <1>3
  <2>3. pack' \in WrittenPack' /\ cut' \in Nat
    BY <1>2, <1>4, <2>2, PartsStay
  <2> QED BY <2>1, <2>3 DEF SoundRelay
<1>6. SoundCount'
  BY <1>1, UsedCounts DEF Sound, SoundCount, Bounded
<1> QED BY <1>1, <1>2, <1>5, <1>6, StoreStays, LoopStays, PassStays DEF Sound, session

-----------------------------------------------------------------------------
LEMMA InitSound == Init => Sound
<1> SUFFICES ASSUME Init PROVE Sound
  OBVIOUS
<1>1. SoundCount
  BY DEF Init, SoundCount
<1>2. NoPack \in WrittenPack /\ Resting \in GoodLoop /\ NoPub \in GoodPass
  BY <1>1, NewLoops, NoPubGood
<1>3. SoundRelay
  BY <1>2 DEF Init, SoundRelay
<1>4. [o \in Object |-> NoEntry] \in WrittenRow
  BY DEF WrittenRow, Row
<1>5. ClockCovers
  BY DEF Init, ClockCovers, NoEntry
<1>6. SoundStore
  BY <1>4, <1>5, EntryParts DEF Init, SoundStore, NoCursor
<1>7. SoundLoop
  BY <1>2 DEF Init, SoundLoop
<1>8. SoundPass
  BY <1>2 DEF Init, SoundPass
<1> QED BY <1>1, <1>3, <1>6, <1>7, <1>8 DEF Sound

LEMMA NextSound == ASSUME Sound, [Next]_vars PROVE Sound'
<1>1. ASSUME NEW d \in Device, Loop(d) PROVE Sound'
  BY <1>1, StartSound, AskSound, LoadSound, PageSound, ApplyPageSound, SubscribeSound,
     ReceiveSound, BreakSound DEF Loop
<1>2. ASSUME NEW d \in Device, Publish(d) PROVE Sound'
  BY <1>2, PublishJournalSound, SendSound, RemoveJournalSound, SendFailsSound DEF Publish
<1>3. ASSUME NEW d \in Device, Crash(d) \/ Logout(d) PROVE Sound'
  BY <1>3, CrashSound, LogoutSound
<1>4. ASSUME NEW d \in Device, NEW o \in Object,
             Commit(d, o) \/ VanishLocal(d, o) \/ SendVanish(d, o)
      PROVE Sound'
  BY <1>4, CommitSound, VanishLocalSound, SendVanishSound
<1>5. CASE UNCHANGED vars
  <2>1. Grown
    BY <1>5 DEF Grown, vars, relay
  <2>2. SoundCount'
    BY <1>5 DEF vars, Sound, SoundCount
  <2> QED BY <1>5, <2>1, <2>2, RelayStays, StoreStays, LoopStays, PassStays DEF Sound, vars, session
<1> QED BY <1>1, <1>2, <1>3, <1>4, <1>5, BuildPackSound, DeleteCoveredSound DEF Next

LEMMA AlwaysSound == Spec => []Sound
  BY InitSound, NextSound, PTL DEF Spec

\* Every reachable state of record mode is well typed: for any devices,
\* objects, parts of a patch, pages, failures, crashes and logouts, what a
\* device shows, journals or sends is an entry of the right object.
THEOREM TypeCorrect == Spec => []TypeOK
  BY AlwaysSound, SoundTypes, PTL

\* A device's clock is never behind what it shows or has journaled
\* (commit_local, apply, merge_pack observe every stamp): its next write wins
\* over what it replaces.  A logout may reset the clock since nothing is left
\* that it would have to be past.
THEOREM NextWriteWins == Spec => []ClockCovers
<1>1. Sound => ClockCovers
  BY DEF Sound, SoundStore
<1> QED BY <1>1, AlwaysSound, PTL
==============================================================================
