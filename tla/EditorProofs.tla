----------------------------- MODULE EditorProofs -----------------------------
(***************************************************************************)
(* What Editor shows, for every set of blocks, every number of strokes and *)
(* writes and every change by others.  When selecting and refreshing are   *)
(* slow (CaretSlow), types hold, and a page at rest is what the replica    *)
(* holds (SettledPageIsSaved).  When all four keys are (AllSlow; TLC shows *)
(* that strokes are lost otherwise), no stroke is lost (NoStrokeLost).     *)
(*                                                                         *)
(* Three facts make them inductive.  Only the block with the caret waits   *)
(* to be saved (Fit), so a save loses no other's typing.  Every stroke in  *)
(* the page, in the replica or in an answer under way is carried by a      *)
(* write (StrokesInv), so that adopting an answer forgets none.  And a     *)
(* page that differs from the replica is owed a re-read, unless the last   *)
(* one failed (PageOwed); a stale answer does not end it (StaleKnown).     *)
(***************************************************************************)
EXTENDS Editor, FiniteSetTheorems, TLAPS

CaretSlow == {"select", "refresh"} \subseteq Slow
AllSlow == {"sibling", "select", "close", "refresh"} \subseteq Slow

Page == [content : [Block -> Text], live : [Block -> Text], dirty : SUBSET Block,
         active : Block \cup {None}, focused : BOOLEAN]
Write == [kind : {"save", "task"}, block : Block, text : Text, new : BOOLEAN]
Waiter == [kind : {"idle"}, reader : Reader]
ReaderPC == {"off", "loop", "wait", "idle", "asked", "served", "failed"}
ReaderState == [pc : ReaderPC, mark : Nat, seen : [Block -> Text]]
Result == [page : Page, writes : Seq(Write)]

Together(p) == \A b \in Block : p.content[b] = Gone <=> p.live[b] = Gone

\* Only the block with the caret waits to be saved, and it is there.
Fit(p) ==
  /\ p \in Page /\ p.dirty \subseteq {p.active}
  /\ Together(p)
  /\ p.active # None => p.live[p.active] # Gone

\* A refresh waits at most once, and runs while nothing is dirty; an answer's
\* mark is never ahead of the writes; one answer is out at a time.
Reads ==
  /\ \A i, j \in DOMAIN queue :
       queue[i] = Idle("refresh") /\ queue[j] = Idle("refresh")
         => i = j /\ reader["refresh"].pc = "idle"
  /\ reader["refresh"].pc # "off" => page.dirty = {}
  /\ \A r \in Reader : reader[r].mark <= issued
  /\ ~(reader["settled"].pc \in Answered /\ reader["refresh"].pc \in Answered)

Typed ==
  /\ Fit(page) /\ queue \in Seq(Write \cup Waiter) /\ issued \in 0..MaxWrites
  /\ reader \in [Reader -> ReaderState]
  /\ again \in BOOLEAN /\ missed \in BOOLEAN /\ wanted \in BOOLEAN /\ committed \in BOOLEAN
  /\ open \in BOOLEAN /\ saved \in [Block -> Text]
  /\ typed \subseteq Stroke /\ accounted \subseteq Stroke
  /\ upsets \in 0..MaxUpsets

IsWrite(w) == w.kind # "idle"
Texts(writes) == UNION {writes[i].text : i \in {j \in DOMAIN writes : IsWrite(writes[j])}}
Working(writes) == \E i \in DOMAIN writes : IsWrite(writes[i])
Strokes(texts) == (UNION {texts[b] : b \in Block}) \cap Stroke
Waiting(p) == (UNION {p.live[b] : b \in p.dirty}) \cap Stroke
Carried == accounted \cup Texts(queue)

\* What has been typed, or is anywhere past the screen, has a write.
StrokesInv ==
  /\ Strokes(page.content) \subseteq Carried
  /\ Strokes(saved) \subseteq accounted
  /\ \A r \in Reader : Strokes(reader[r].seen) \subseteq accounted
  /\ typed \subseteq Carried \cup Waiting(page)

Refreshes ==
  \/ wanted \/ reader["refresh"].pc \in {"idle", "failed"}
  \/ reader["refresh"].pc \in {"asked", "served"} /\ reader["refresh"].mark = WriteMark

\* A page that is not the replica's will be read again, or its last re-read failed.
PageOwed ==
  open /\ page.content # saved =>
    Working(queue) \/ committed \/ reader["settled"].pc # "off" \/ Refreshes \/ missed

\* An answer that is stale does not end the re-reading.
StaleKnown ==
  /\ open /\ reader["settled"].pc = "served" /\ reader["settled"].seen # saved =>
       again \/ committed
  /\ open /\ reader["refresh"].pc = "served" /\ reader["refresh"].seen # saved =>
       committed \/ reader["settled"].pc \in {"loop", "wait", "idle", "asked"}

Inv == Typed /\ Reads /\ (AllSlow => StrokesInv) /\ PageOwed /\ StaleKnown

-----------------------------------------------------------------------------
(* Texts and queues *)

LEMMA TextFacts ==
  /\ Gone \in Text /\ {} \in Text /\ {0} \in Text
  /\ {} # Gone /\ {0} # Gone /\ Gone \cap Stroke = {}
  /\ \A t \in Text : t # Gone => t \subseteq Stroke \cup {0}
  /\ \A t \in SUBSET (Stroke \cup {0}) : t \in Text /\ t # Gone
<1>1. MaxStrokes \in Nat
  BY EditorConstants
<1>2. MaxStrokes + 1 \notin Stroke \cup {0}
  BY <1>1 DEF Stroke
<1>3. Gone \notin SUBSET (Stroke \cup {0})
  BY <1>2 DEF Gone
<1>4. {0} # Gone /\ Gone \cap Stroke = {}
  BY <1>1, <1>2 DEF Gone
<1> HIDE DEF Gone
<1>5. {} \in SUBSET (Stroke \cup {0}) /\ {0} \in SUBSET (Stroke \cup {0})
  OBVIOUS
<1>6. Gone \in Text /\ {} \in Text /\ {0} \in Text
  BY <1>5, Zenon DEF Text
<1>7. {} # Gone
  BY <1>3, <1>5
<1>8. \A t \in Text : t # Gone => t \in SUBSET (Stroke \cup {0})
  BY Zenon DEF Text
<1>9. \A t \in SUBSET (Stroke \cup {0}) : t \in Text /\ t # Gone
  BY <1>3, Zenon DEF Text
<1> QED BY <1>4, <1>6, <1>7, <1>8, <1>9

LEMMA ConcatFacts ==
  ASSUME NEW q \in Seq(Write \cup Waiter), NEW w \in Seq(Write \cup Waiter)
  PROVE  /\ q \o w \in Seq(Write \cup Waiter)
         /\ Texts(q \o w) = Texts(q) \cup Texts(w)
         /\ Working(q \o w) <=> Working(q) \/ Working(w)
<1> DEFINE r == q \o w
<1>1. /\ r \in Seq(Write \cup Waiter) /\ Len(r) = Len(q) + Len(w)
      /\ \A i \in 1..Len(r) : r[i] = IF i <= Len(q) THEN q[i] ELSE w[i - Len(q)]
  OBVIOUS
<1>2. DOMAIN q = 1..Len(q) /\ DOMAIN w = 1..Len(w) /\ DOMAIN r = 1..Len(r)
  BY <1>1
<1>3. Len(q) \in Nat /\ Len(w) \in Nat
  OBVIOUS
<1> HIDE DEF r
<1>4. \A i \in DOMAIN q : i \in DOMAIN r /\ r[i] = q[i]
  BY <1>1, <1>2, <1>3
<1>5. \A i \in DOMAIN w : i + Len(q) \in DOMAIN r /\ r[i + Len(q)] = w[i]
  BY <1>1, <1>2, <1>3
<1>6. \A i \in DOMAIN r : \/ i \in DOMAIN q /\ r[i] = q[i]
                          \/ i - Len(q) \in DOMAIN w /\ r[i] = w[i - Len(q)]
  BY <1>1, <1>2, <1>3
<1>7. Working(r) <=> Working(q) \/ Working(w)
  BY <1>4, <1>5, <1>6, Zenon DEF Working
<1>8. Texts(r) \subseteq Texts(q) \cup Texts(w)
  BY <1>6, Zenon DEF Texts
<1>9. Texts(q) \subseteq Texts(r) /\ Texts(w) \subseteq Texts(r)
  BY <1>4, <1>5, Zenon DEF Texts
<1> QED BY <1>1, <1>7, <1>8, <1>9 DEF r

LEMMA SmallQueues ==
  /\ <<>> \in Seq(Write) /\ Texts(<<>>) = {} /\ ~Working(<<>>)
  /\ \A w \in Write : /\ <<w>> \in Seq(Write) /\ Texts(<<w>>) = w.text /\ Working(<<w>>)
  /\ \A w \in Waiter : /\ <<w>> \in Seq(Write \cup Waiter) /\ Texts(<<w>>) = {}
                       /\ ~Working(<<w>>)
<1>1. DOMAIN <<>> = {} /\ <<>> \in Seq(Write)
  OBVIOUS
<1>2. ASSUME NEW w
      PROVE  Texts(<<w>>) = (IF IsWrite(w) THEN w.text ELSE {}) /\ (Working(<<w>>) <=> IsWrite(w))
  <2> DEFINE s == <<w>>
  <2>1. DOMAIN s = {1} /\ s[1] = w
    OBVIOUS
  <2> HIDE DEF s
  <2>2. Working(s) <=> IsWrite(w)
    BY <2>1, Zenon DEF Working
  <2>3. {j \in DOMAIN s : IsWrite(s[j])} = IF IsWrite(w) THEN {1} ELSE {}
    BY <2>1
  <2>4. Texts(s) = IF IsWrite(w) THEN w.text ELSE {}
    BY <2>1, <2>3 DEF Texts
  <2> QED BY <2>2, <2>4 DEF s
<1>3. Texts(<<>>) = {} /\ ~Working(<<>>)
  BY <1>1 DEF Texts, Working
<1>4. ASSUME NEW w \in Write PROVE IsWrite(w) /\ <<w>> \in Seq(Write)
  BY DEF IsWrite, Write
<1>5. ASSUME NEW w \in Write PROVE Texts(<<w>>) = w.text /\ Working(<<w>>)
  BY <1>2, <1>4
<1>6. ASSUME NEW w \in Waiter PROVE ~IsWrite(w) /\ <<w>> \in Seq(Write \cup Waiter)
  BY DEF IsWrite, Waiter
<1>7. ASSUME NEW w \in Waiter PROVE Texts(<<w>>) = {} /\ ~Working(<<w>>)
  BY <1>2, <1>6
<1> QED BY <1>1, <1>3, <1>4, <1>5, <1>6, <1>7

LEMMA AppendFacts ==
  ASSUME NEW q \in Seq(Write), NEW w \in Write
  PROVE  /\ Append(q, w) \in Seq(Write) /\ Texts(Append(q, w)) = Texts(q) \cup w.text
         /\ Working(Append(q, w))
<1>1. q \in Seq(Write \cup Waiter) /\ <<w>> \in Seq(Write \cup Waiter)
  OBVIOUS
<1>2. Append(q, w) = q \o <<w>> /\ Append(q, w) \in Seq(Write)
  OBVIOUS
<1>3. /\ Texts(q \o <<w>>) = Texts(q) \cup Texts(<<w>>)
      /\ Working(q \o <<w>>) <=> Working(q) \/ Working(<<w>>)
  BY <1>1, ConcatFacts, Zenon
<1>4. Texts(<<w>>) = w.text /\ Working(<<w>>)
  BY SmallQueues, Zenon
<1> QED BY <1>2, <1>3, <1>4, Zenon

\* The head is taken.
LEMMA TailFacts ==
  ASSUME NEW q \in Seq(Write \cup Waiter), q # <<>>
  PROVE  /\ Tail(q) \in Seq(Write \cup Waiter) /\ Head(q) \in Write \cup Waiter
         /\ IsWrite(Head(q)) <=> Head(q) \in Write
         /\ Texts(q) = IF IsWrite(Head(q)) THEN Head(q).text \cup Texts(Tail(q))
                                           ELSE Texts(Tail(q))
         /\ Working(q) <=> IsWrite(Head(q)) \/ Working(Tail(q))
<1>1. /\ Tail(q) \in Seq(Write \cup Waiter) /\ Head(q) \in Write \cup Waiter
      /\ q = <<Head(q)>> \o Tail(q)
  OBVIOUS
<1>2. IsWrite(Head(q)) <=> Head(q) \in Write
  BY <1>1 DEF IsWrite, Write, Waiter
<1>3. /\ Texts(q) = Texts(<<Head(q)>>) \cup Texts(Tail(q))
      /\ Working(q) <=> Working(<<Head(q)>>) \/ Working(Tail(q))
  <2>1. <<Head(q)>> \in Seq(Write \cup Waiter)
    BY <1>1
  <2> QED BY <1>1, <2>1, ConcatFacts, Zenon
<1>4. CASE IsWrite(Head(q))
  BY <1>1, <1>2, <1>3, <1>4, SmallQueues
<1>5. CASE ~IsWrite(Head(q))
  BY <1>1, <1>2, <1>3, <1>5, SmallQueues
<1> QED BY <1>4, <1>5

-----------------------------------------------------------------------------
(* The page *)

\* Showing the page's texts again keeps what is on screen with the caret.
LEMMA SyncFacts ==
  ASSUME NEW p \in Page
  PROVE  /\ SyncTexts(p) \in Page /\ Together(SyncTexts(p))
         /\ SyncTexts(p).content = p.content /\ SyncTexts(p).dirty = p.dirty
         /\ SyncTexts(p).active = p.active /\ SyncTexts(p).focused = p.focused
         /\ \A b \in Block : SyncTexts(p).live[b] \in {p.live[b], p.content[b]}
<1> DEFINE l == [b \in Block |-> IF p.content[b] # Gone /\ p.focused /\ p.active = b /\ p.live[b] # Gone
                                 THEN p.live[b] ELSE p.content[b]]
           s == [p EXCEPT !.live = l]
<1>1. SyncTexts(p) = s
  BY Zenon DEF SyncTexts
<1>2. /\ l \in [Block -> Text]
      /\ \A b \in Block : l[b] = Gone <=> p.content[b] = Gone
      /\ \A b \in Block : l[b] \in {p.live[b], p.content[b]}
  BY DEF Page
<1> HIDE DEF l
<1>3. /\ s \in Page /\ s.live = l /\ s.content = p.content /\ s.dirty = p.dirty
      /\ s.active = p.active /\ s.focused = p.focused
  BY <1>2 DEF Page
<1> HIDE DEF s
<1>4. Together(s)
  BY <1>2, <1>3 DEF Together
<1>5. \A b \in Block : s.live[b] \in {p.live[b], p.content[b]}
  BY <1>2, <1>3
<1> QED BY <1>1, <1>3, <1>4, <1>5, Zenon

Flushed(r, b, f) ==
  /\ f \in Result /\ Fit(f.page) /\ f.page.dirty = {}
  /\ f.page.active = b /\ f.page.focused = r.page.focused
  /\ \/ f.writes = r.writes /\ f.page.content = r.page.content
     \/ /\ f.writes = Append(r.writes, Save(b, r.page.live[b], FALSE))
        /\ f.page.content = [r.page.content EXCEPT ![b] = r.page.live[b]]
  /\ b \in r.page.dirty => r.page.live[b] \cap Stroke \subseteq Strokes(f.page.content)

\* A save of the block with the caret leaves nothing dirty.
LEMMA FlushFacts ==
  ASSUME NEW r \in Result, Fit(r.page), NEW b \in Block, r.page.active = b
  PROVE  Flushed(r, b, Flush(r, b))
<1> DEFINE p == r.page
           w == r.writes
           q == [p EXCEPT !.dirty = {}]
           z == [q EXCEPT !.content[b] = p.live[b]]
<1>1. p \in Page /\ w \in Seq(Write) /\ r = [page |-> p, writes |-> w]
  BY DEF Result
<1>2. p.dirty \ {b} = {} /\ p.live[b] # Gone /\ p.content[b] # Gone /\ b # None
  BY EditorConstants DEF Fit, Together
<1>3. CASE b \notin p.dirty
  <2>1. Flush(r, b) = r
    BY <1>3 DEF Flush
  <2>2. p.dirty = {}
    BY <1>3 DEF Fit
  <2> QED BY <1>3, <2>1, <2>2 DEF Flushed
<1>4. ASSUME b \in p.dirty, p.live[b] = p.content[b] PROVE Flushed(r, b, Flush(r, b))
  <2> DEFINE f == [page |-> q, writes |-> w]
  <2>1. Flush(r, b) = f
    BY <1>2, <1>4, Zenon DEF Flush
  <2>2. /\ q \in Page /\ q.dirty = {} /\ q.active = b /\ q.live = p.live
        /\ q.content = p.content /\ q.focused = p.focused
    BY <1>1 DEF Page
  <2> HIDE DEF q
  <2>3. Fit(q)
    BY <1>2, <2>2 DEF Fit, Together
  <2>4. f \in Result /\ f.page = q /\ f.writes = w
    BY <1>1, <2>2 DEF Result
  <2>5. p.live[b] \cap Stroke \subseteq Strokes(q.content)
    BY <1>4, <2>2 DEF Strokes
  <2> HIDE DEF f
  <2> QED BY <2>1, <2>2, <2>3, <2>4, <2>5, Zenon DEF Flushed
<1>5. ASSUME b \in p.dirty, p.live[b] # p.content[b] PROVE Flushed(r, b, Flush(r, b))
  <2> DEFINE v == Append(w, Save(b, p.live[b], FALSE))
             f == [page |-> SyncTexts(z), writes |-> v]
  <2>1. Flush(r, b) = f
    <3>1. [p EXCEPT !.dirty = @ \ {b}] = q
      BY <1>2
    <3> HIDE DEF q
    <3> QED BY <1>2, <1>5, <3>1, Zenon DEF Flush
  <2>2. /\ z \in Page /\ z.dirty = {} /\ z.active = b /\ z.live = p.live
        /\ z.content = [p.content EXCEPT ![b] = p.live[b]] /\ z.focused = p.focused
    BY <1>1 DEF Page
  <2> HIDE DEF z
  <2>3. /\ SyncTexts(z) \in Page /\ Together(SyncTexts(z)) /\ SyncTexts(z).content = z.content
        /\ SyncTexts(z).dirty = {} /\ SyncTexts(z).active = b
        /\ SyncTexts(z).focused = p.focused
    BY <2>2, SyncFacts, Zenon
  <2>4. Save(b, p.live[b], FALSE) \in Write
    BY <1>1 DEF Save, Write, Page
  <2>5. v \in Seq(Write)
    BY <1>1, <2>4, AppendFacts, Zenon
  <2> HIDE DEF v
  <2>6. f \in Result /\ f.page = SyncTexts(z) /\ f.writes = v
    BY <2>3, <2>5 DEF Result
  <2>7. z.content[b] = p.live[b]
    BY <1>1, <2>2 DEF Page
  <2>8. SyncTexts(z).live[b] # Gone
    BY <1>2, <2>3, <2>7 DEF Together
  <2>9. p.live[b] \cap Stroke \subseteq Strokes(z.content)
    BY <2>7 DEF Strokes
  <2> HIDE DEF f
  <2>10. Fit(f.page)
    BY <2>3, <2>6, <2>8, Zenon DEF Fit
  <2> QED BY <2>1, <2>2, <2>3, <2>6, <2>9, <2>10 DEF Flushed, v
<1> QED BY <1>3, <1>4, <1>5

LEMMA NoWritesFacts ==
  ASSUME NEW p \in Page
  PROVE  NoWrites(p) \in Result /\ NoWrites(p).page = p /\ NoWrites(p).writes = <<>>
  BY SmallQueues DEF NoWrites, Result

\* What a key leaves behind is carried: new content by a write, typing that no
\* longer waits by the page or a write.
Accounts(p, r) ==
  /\ Strokes(r.page.content) \subseteq Strokes(p.content) \cup Texts(r.writes)
  /\ AllSlow => Waiting(p) \subseteq Strokes(p.content) \cup Texts(r.writes) \cup Waiting(r.page)
  /\ r.page.content # p.content => Working(r.writes)
  /\ p.dirty = {} => r.page.dirty = {}

Fine(r) == r \in Result /\ Fit(r.page) /\ Accounts(page, r)

\* What a function of texts holds after one is replaced.
LEMMA StrokesExcept ==
  ASSUME NEW f \in [Block -> Text], NEW b \in Block, NEW t
  PROVE  Strokes([f EXCEPT ![b] = t]) \subseteq Strokes(f) \cup (t \cap Stroke)
  BY DEF Strokes

LEMMA FlushAccounts ==
  ASSUME NEW p \in Page, Fit(p), NEW b \in Block, p.active = b
  PROVE  LET f == Flush(NoWrites(p), b)
         IN  /\ f \in Result /\ Fit(f.page) /\ f.page.dirty = {} /\ Accounts(p, f)
             /\ f.page.active = b /\ f.page.focused = p.focused
<1> DEFINE r == NoWrites(p)
           f == Flush(r, b)
           s == Save(b, p.live[b], FALSE)
<1>1. r \in Result /\ r.page = p /\ r.writes = <<>>
  BY NoWritesFacts
<1> HIDE DEF r
<1>2. Flushed(r, b, f)
  BY <1>1, FlushFacts, Zenon
<1>3. s \in Write /\ s.text = p.live[b]
  BY DEF Save, Write, Page
<1> HIDE DEF f, s
<1>4. p.dirty \subseteq {b}
  BY DEF Fit
<1>5. Waiting(p) = IF b \in p.dirty THEN p.live[b] \cap Stroke ELSE {}
  BY <1>4 DEF Waiting
<1>9. /\ f \in Result /\ Fit(f.page) /\ f.page.dirty = {} /\ f.page.active = b
      /\ f.page.focused = p.focused
  BY <1>1, <1>2, Zenon DEF Flushed
<1>10. p.content \in [Block -> Text]
  BY DEF Page
<1>6. CASE f.writes = <<>> /\ f.page.content = p.content
  <2>1. Waiting(p) \subseteq Strokes(p.content)
    BY <1>1, <1>2, <1>5, <1>6 DEF Flushed
  <2>2. Accounts(p, f)
    BY <1>6, <2>1, <1>9 DEF Accounts
  <2> QED BY <1>9, <2>2, Zenon DEF f, r
<1>7. CASE f.writes = Append(<<>>, s) /\ f.page.content = [p.content EXCEPT ![b] = p.live[b]]
  <2>1. Texts(f.writes) = p.live[b] /\ Working(f.writes)
    BY <1>3, <1>7, AppendFacts, SmallQueues
  <2>2. Strokes(f.page.content) \subseteq Strokes(p.content) \cup (p.live[b] \cap Stroke)
    BY <1>7, <1>10, StrokesExcept, Zenon
  <2>3. Accounts(p, f)
    BY <1>5, <1>9, <2>1, <2>2 DEF Accounts
  <2> QED BY <1>9, <2>3, Zenon DEF f, r
<1>8. \/ f.writes = <<>> /\ f.page.content = p.content
      \/ f.writes = Append(<<>>, s) /\ f.page.content = [p.content EXCEPT ![b] = p.live[b]]
  BY <1>1, <1>2, Zenon DEF Flushed, s
<1> QED BY <1>1, <1>2, <1>6, <1>7, <1>8, Zenon DEF Flushed, f, r

Lists(order, D) == order \in Seq(D) /\ {order[i] : i \in DOMAIN order} = D

Committed(p, D, texts, c) ==
  /\ c \in Result /\ Together(c.page)
  /\ c.page.content = [b \in Block |-> IF b \in D THEN texts[b] ELSE p.content[b]]
  /\ c.page.dirty = p.dirty \ D
  /\ c.page.active = p.active /\ c.page.focused = p.focused
  /\ Texts(c.writes) = UNION {texts[b] : b \in D}
  /\ D # {} => Working(c.writes)

LEMMA CommitFacts ==
  ASSUME NEW p \in Page, NEW D \in SUBSET Block, NEW texts \in [D -> Text],
         NEW order, Lists(order, D)
  PROVE  Committed(p, D, texts, Commit(p, texts, order))
<1> DEFINE t == [b \in Block |-> IF b \in D THEN texts[b] ELSE p.content[b]]
           l == [b \in Block |-> IF b \in D THEN texts[b] ELSE p.live[b]]
           q == [p EXCEPT !.content = t, !.live = l, !.dirty = p.dirty \ D]
           w == [i \in DOMAIN order |-> Save(order[i], texts[order[i]],
                                             p.content[order[i]] = Gone)]
           c == [page |-> SyncTexts(q), writes |-> w]
<1>1. t \in [Block -> Text] /\ l \in [Block -> Text] /\ DOMAIN texts = D
  BY DEF Page
<1>2. Commit(p, texts, order) = c
  BY <1>1, Zenon DEF Commit
<1> HIDE DEF t, l
<1>3. /\ q \in Page /\ q.content = t /\ q.dirty = p.dirty \ D /\ q.active = p.active
      /\ q.focused = p.focused
  BY <1>1 DEF Page
<1> HIDE DEF q
<1>4. DOMAIN order = 1..Len(order) /\ Len(order) \in Nat /\ \A i \in DOMAIN order : order[i] \in D
  BY DEF Lists
<1>5. \A i \in DOMAIN order : /\ w[i] \in Write
                              /\ w[i].text = texts[order[i]] /\ IsWrite(w[i])
  BY <1>4 DEF Save, Write, IsWrite, Page
<1>6. w \in Seq(Write) /\ DOMAIN w = DOMAIN order
  <2> DEFINE n == Len(order)
  <2>1. w \in [1..n -> Write] /\ n \in Nat
    BY <1>4, <1>5
  <2> HIDE DEF w, n
  <2>2. w \in Seq(Write)
    BY <2>1
  <2> QED BY <2>1, <2>2, <1>4 DEF n
<1> HIDE DEF w
<1>7. Texts(w) = UNION {texts[b] : b \in D}
  <2>1. \A i \in DOMAIN w : IsWrite(w[i]) /\ w[i].text = texts[order[i]]
    BY <1>5, <1>6
  <2>2. {w[i].text : i \in {j \in DOMAIN w : IsWrite(w[j])}} = {texts[order[i]] : i \in DOMAIN order}
    BY <1>6, <2>1
  <2>3. {texts[order[i]] : i \in DOMAIN order} = {texts[b] : b \in D}
    BY Zenon DEF Lists
  <2> QED BY <2>2, <2>3 DEF Texts
<1>8. D # {} => Working(w)
  BY <1>5, <1>6, Zenon DEF Lists, Working
<1>9. /\ SyncTexts(q) \in Page /\ Together(SyncTexts(q)) /\ SyncTexts(q).content = t
      /\ SyncTexts(q).dirty = p.dirty \ D /\ SyncTexts(q).active = p.active
      /\ SyncTexts(q).focused = p.focused
  BY <1>3, SyncFacts, Zenon
<1>10. c \in Result /\ c.page = SyncTexts(q) /\ c.writes = w
  BY <1>6, <1>9 DEF Result
<1> HIDE DEF c
<1>11. c.page.content = [b \in Block |-> IF b \in D THEN texts[b] ELSE p.content[b]]
  BY <1>9, <1>10, Zenon DEF t
<1> QED BY <1>2, <1>7, <1>8, <1>9, <1>10, <1>11, Zenon DEF Committed

LEMMA Listings ==
  /\ \A a : Lists(<<a>>, {a})
  /\ \A a, c : Lists(<<a, c>>, {a, c})
<1>1. ASSUME NEW a PROVE Lists(<<a>>, {a})
  BY DEF Lists
<1>2. ASSUME NEW a, NEW c PROVE Lists(<<a, c>>, {a, c})
  <2> DEFINE s == <<a, c>>
  <2>1. s \in Seq({a, c}) /\ DOMAIN s = {1, 2} /\ s[1] = a /\ s[2] = c
    OBVIOUS
  <2> HIDE DEF s
  <2>2. {s[i] : i \in DOMAIN s} = {a, c}
    BY <2>1
  <2> QED BY <2>1, <2>2 DEF Lists, s
<1> QED BY <1>1, <1>2

\* The caret moves, and nothing waits.
LEMMA FocusClean ==
  ASSUME NEW r \in Result, r.page.dirty = {}, NEW b \in Block
  PROVE  /\ FocusOn(r, b) = [page |-> [r.page EXCEPT !.active = b], writes |-> r.writes]
         /\ [r.page EXCEPT !.active = b] \in Page
<1>1. r.page \in Page /\ r = [page |-> r.page, writes |-> r.writes]
  BY DEF Result
<1>2. Flush(r, r.page.active) = r
  BY DEF Flush
<1>3. FocusOn(r, b) = [r EXCEPT !.page.active = b]
  BY <1>2, Zenon DEF FocusOn
<1>4. [r EXCEPT !.page.active = b] = [page |-> [r.page EXCEPT !.active = b], writes |-> r.writes]
  BY <1>1
<1>5. [r.page EXCEPT !.active = b] \in Page
  BY <1>1 DEF Page
<1> QED BY <1>3, <1>4, <1>5

\* A page at rest with its caret moved.
LEMMA MoveCaret ==
  ASSUME NEW p \in Page, Together(p), p.dirty = {}, NEW x \in Block \cup {None},
         x # None => p.content[x] # Gone
  PROVE  LET q == [p EXCEPT !.active = x]
         IN  Fit(q) /\ q.content = p.content /\ q.dirty = {} /\ q.live = p.live
<1> DEFINE q == [p EXCEPT !.active = x]
<1>1. /\ q \in Page /\ q.content = p.content /\ q.live = p.live /\ q.dirty = {}
      /\ q.active = x
  BY DEF Page
<1> HIDE DEF q
<1>2. q.active # None => q.live[q.active] # Gone
  <2>1. CASE x = None
    BY <1>1, <2>1
  <2>2. CASE x # None
    <3>1. p.live[x] # Gone
      BY <2>2 DEF Together
    <3> QED BY <1>1, <3>1
  <2> QED BY <2>1, <2>2
<1>3. Together(q)
  BY <1>1 DEF Together
<1>4. Fit(q)
  BY <1>1, <1>2, <1>3 DEF Fit
<1> QED BY <1>1, <1>4, Zenon DEF q

\* A commit that covers what waits.
LEMMA CommitFine ==
  ASSUME NEW p, Fit(p), p.content = page.content, p.active = page.active,
         NEW D \in SUBSET Block, D # {}, NEW texts \in [D -> Text],
         NEW order, Lists(order, D), p.dirty \subseteq D,
         AllSlow => Waiting(page) \subseteq UNION {texts[b] : b \in D}
  PROVE  LET c == Commit(p, texts, order)
             left(x) == IF x \in D THEN texts[x] # Gone ELSE page.content[x] # Gone
         IN  /\ page.active = None \/ left(page.active) => Fine(c)
             /\ \A x \in Block : left(x) => Fine(FocusOn(c, x))
<1> DEFINE c == Commit(p, texts, order)
           left(x) == IF x \in D THEN texts[x] # Gone ELSE page.content[x] # Gone
<1>1. p \in Page
  BY DEF Fit
<1>2. Committed(p, D, texts, c)
  BY <1>1, CommitFacts, Zenon
<1> HIDE DEF c
<1>3. /\ c \in Result /\ c.page \in Page /\ c.writes \in Seq(Write) /\ Together(c.page)
      /\ c.page.active = page.active /\ Texts(c.writes) = UNION {texts[b] : b \in D}
      /\ Working(c.writes) /\ c.page.dirty = {}
      /\ \A b \in Block : c.page.content[b] = IF b \in D THEN texts[b] ELSE page.content[b]
  BY <1>2 DEF Committed, Result
<1>4. Strokes(c.page.content) \subseteq Strokes(page.content) \cup Texts(c.writes)
  BY <1>3 DEF Strokes
<1>5. ASSUME NEW q \in Page, q.content = c.page.content, q.dirty = {}, Fit(q)
      PROVE  Fine([page |-> q, writes |-> c.writes])
  <2> DEFINE r == [page |-> q, writes |-> c.writes]
  <2>1. r \in Result /\ r.page = q /\ r.writes = c.writes
    BY <1>3, <1>5 DEF Result
  <2> HIDE DEF r
  <2>2. Accounts(page, r)
    BY <1>3, <1>4, <1>5, <2>1 DEF Accounts
  <2>3. Fine(r)
    BY <1>5, <2>1, <2>2 DEF Fine
  <2> QED BY <2>3 DEF r
<1>6. ASSUME page.active = None \/ left(page.active) PROVE Fine(c)
  <2>1. page.active \in Block \cup {None}
    BY <1>1 DEF Page
  <2>2. c.page.active # None => c.page.live[c.page.active] # Gone
    BY <1>3, <1>6, <2>1 DEF Together
  <2>3. Fit(c.page)
    BY <1>3, <2>2 DEF Fit
  <2>4. c = [page |-> c.page, writes |-> c.writes]
    BY <1>3 DEF Result
  <2>5. Fine([page |-> c.page, writes |-> c.writes])
    BY <1>3, <1>5, <2>3
  <2> QED BY <2>4, <2>5
<1>7. ASSUME NEW x \in Block, left(x) PROVE Fine(FocusOn(c, x))
  <2> DEFINE q == [c.page EXCEPT !.active = x]
  <2>1. FocusOn(c, x) = [page |-> q, writes |-> c.writes] /\ q \in Page
    BY <1>3, FocusClean, Zenon
  <2>2. c.page.content[x] # Gone
    BY <1>3, <1>7
  <2>3. Fit(q) /\ q.content = c.page.content /\ q.dirty = {}
    BY <1>3, <2>2, MoveCaret
  <2> HIDE DEF q
  <2> QED BY <1>5, <2>1, <2>3
<1> QED BY <1>6, <1>7, Zenon DEF c

-----------------------------------------------------------------------------
(* Keys *)

\* A write moves the mark.
LEMMA WritesWork ==
  ASSUME NEW w \in Seq(Write), Len(w) # 0 PROVE Working(w)
<1>1. 1 \in DOMAIN w /\ w[1] \in Write
  OBVIOUS
<1>2. IsWrite(w[1])
  BY <1>1 DEF IsWrite, Write
<1> QED BY <1>1, <1>2, Zenon DEF Working

\* What is added to the queue is no refresh.
LEMMA QueueAppend ==
  ASSUME Typed, Reads, NEW w \in Seq(Write \cup {Idle("settled")}), queue' = queue \o w
  PROVE  \A i, j \in DOMAIN queue' :
           queue'[i] = Idle("refresh") /\ queue'[j] = Idle("refresh")
             => i = j /\ reader["refresh"].pc = "idle"
<1>1. /\ DOMAIN queue = 1..Len(queue) /\ DOMAIN w = 1..Len(w) /\ DOMAIN queue' = 1..Len(queue')
      /\ Len(queue) \in Nat /\ Len(w) \in Nat /\ Len(queue') = Len(queue) + Len(w)
      /\ \A i \in 1..Len(queue') : queue'[i] = IF i <= Len(queue) THEN queue[i]
                                                                 ELSE w[i - Len(queue)]
  BY DEF Typed
<1>2. \A i \in DOMAIN w : w[i] # Idle("refresh")
  <2>1. \A i \in DOMAIN w : w[i] \in Write \cup {Idle("settled")}
    OBVIOUS
  <2>2. \A x \in Write : x # Idle("refresh")
    BY DEF Write, Idle
  <2>3. Idle("settled") # Idle("refresh")
    BY DEF Idle
  <2> QED BY <2>1, <2>2, <2>3
<1>3. \A i \in DOMAIN queue' : queue'[i] = Idle("refresh") =>
        i \in DOMAIN queue /\ queue[i] = Idle("refresh")
  BY <1>1, <1>2
<1> QED BY <1>3, Zenon DEF Reads

\* Writes wait behind what waits, and none of them is a refresh.
LEMMA ReadsAppend ==
  ASSUME Typed, Reads, NEW w \in Seq(Write), queue' = queue \o w,
         UNCHANGED reader, issued' \in Nat, issued <= issued',
         page.dirty = {} => page'.dirty = {}
  PROVE  Reads'
<1>1. \A i, j \in DOMAIN queue' :
        queue'[i] = Idle("refresh") /\ queue'[j] = Idle("refresh")
          => i = j /\ reader'["refresh"].pc = "idle"
  <2>1. w \in Seq(Write \cup {Idle("settled")})
    OBVIOUS
  <2> QED BY <2>1, QueueAppend
<1>2. \A r \in Reader : reader'[r].mark <= issued'
  <2>1. \A r \in Reader : reader[r].mark \in Nat
    BY DEF Typed, ReaderState
  <2>2. issued \in Nat
    BY DEF Typed
  <2> QED BY <2>1, <2>2 DEF Reads
<1>3. Idle("refresh")' = Idle("refresh")
  BY DEF Idle
<1> QED BY <1>1, <1>2, <1>3 DEF Reads

\* Every key that ends in a result keeps the invariant.
LEMMA KeyStep ==
  ASSUME Inv, NEW r, Fine(r), Becomes(r), UNCHANGED <<typed, wanted, upsets>>,
         accounted \subseteq accounted', accounted' \subseteq Stroke, KeyFrame
  PROVE  Inv'
<1> DEFINE w == r.writes
<1>1. /\ w \in Seq(Write) /\ page' = r.page /\ queue' = queue \o w
      /\ issued' = issued + Len(w) /\ issued' <= MaxWrites /\ Len(w) \in Nat
  BY DEF Fine, Result, Becomes, Issue
<1>2. /\ UNCHANGED <<reader, again, missed, saved, committed, open>>
      /\ queue \in Seq(Write \cup Waiter) /\ issued \in Nat /\ MaxWrites \in Nat
  BY EditorConstants DEF KeyFrame, Inv, Typed
<1>3. w \in Seq(Write \cup Waiter)
  BY <1>1
<1> HIDE DEF w
<1>4. /\ queue' \in Seq(Write \cup Waiter) /\ Texts(queue') = Texts(queue) \cup Texts(w)
      /\ Working(queue') <=> Working(queue) \/ Working(w)
  BY <1>1, <1>2, <1>3, ConcatFacts, Zenon
<1>5. Accounts(page, r) /\ Fit(page')
  BY <1>1 DEF Fine
<1>6. Typed'
  <2>1. issued' \in 0..MaxWrites /\ Fit(page)'
    BY <1>1, <1>2, <1>5 DEF Fit, Together
  <2> QED BY <1>2, <1>4, <2>1 DEF Inv, Typed
<1>7. Reads'
  <2>1. issued' \in Nat /\ issued <= issued'
    BY <1>1, <1>2
  <2>2. page.dirty = {} => page'.dirty = {}
    BY <1>1, <1>5 DEF Accounts
  <2>3. Typed /\ Reads /\ w \in Seq(Write) /\ queue' = queue \o w /\ UNCHANGED reader
    BY <1>1, <1>2 DEF Inv
  <2> QED BY <2>1, <2>2, <2>3, ReadsAppend
<1>8. ASSUME AllSlow PROVE StrokesInv'
  <2>1. Texts(queue)' = Texts(queue) \cup Texts(w) /\ Carried \subseteq Carried'
    BY <1>4 DEF Carried, Texts
  <2>2. Texts(w) \subseteq Carried'
    BY <2>1 DEF Carried
  <2>3. Strokes(page.content)' \subseteq Strokes(page.content) \cup Texts(w)
    BY <1>1, <1>5 DEF Accounts, w, Strokes
  <2>4. Waiting(page) \subseteq Strokes(page.content) \cup Texts(w) \cup Waiting(page)'
    BY <1>8, <1>1, <1>5 DEF Accounts, w, Waiting
  <2>5. Strokes(saved)' = Strokes(saved) /\ \A x \in Reader : Strokes(reader[x].seen)' = Strokes(reader[x].seen)
    BY <1>2 DEF Strokes
  <2>6. /\ Strokes(page.content) \subseteq Carried /\ Strokes(saved) \subseteq accounted
        /\ \A x \in Reader : Strokes(reader[x].seen) \subseteq accounted
        /\ typed \subseteq Carried \cup Waiting(page)
    BY <1>8 DEF Inv, StrokesInv
  <2>7. Strokes(page.content)' \subseteq Carried' /\ typed' \subseteq Carried' \cup Waiting(page)'
    BY <2>1, <2>2, <2>3, <2>4, <2>6
  <2>8. Strokes(saved)' \subseteq accounted' /\ \A x \in Reader : Strokes(reader[x].seen)' \subseteq accounted'
    BY <2>5, <2>6
  <2> QED BY <2>7, <2>8 DEF StrokesInv
<1>9. PageOwed'
  <2>1. CASE Working(w)
    BY <1>4, <2>1 DEF PageOwed, Working
  <2>2. CASE ~Working(w)
    <3>1. Len(w) = 0 /\ page'.content = page.content
      BY <1>1, <1>5, <2>2, WritesWork DEF Accounts, w
    <3>2. issued' = issued
      BY <1>1, <1>2, <3>1
    <3>3. reader["refresh"].pc # "off" => WriteMark' = WriteMark
      <4>1. reader["refresh"].pc # "off" => page.dirty = {} /\ page'.dirty = {}
        BY <1>1, <1>5 DEF Inv, Reads, Accounts
      <4> QED BY <3>2, <4>1 DEF WriteMark
    <3>4. Refreshes => Refreshes'
      BY <1>2, <3>3 DEF Refreshes
    <3>5. Working(queue) => Working(queue)'
      BY <1>4 DEF Working
    <3> QED BY <1>2, <3>1, <3>4, <3>5 DEF Inv, PageOwed
  <2> QED BY <2>1, <2>2
<1>10. StaleKnown'
  BY <1>2 DEF Inv, StaleKnown
<1> QED BY <1>6, <1>7, <1>8, <1>9, <1>10 DEF Inv

\* A key that accounts for nothing more.
LEMMA FineKeeps ==
  ASSUME Inv, NEW r, Fine(r), Becomes(r), UNCHANGED <<wanted, typed, accounted, upsets>>, KeyFrame
  PROVE  Inv'
  BY KeyStep DEF Inv, Typed

\* The caret's block is a block, with a text that is there.
LEMMA CaretFacts ==
  ASSUME Typed, NEW b \in Block, page.active = b
  PROVE  /\ page \in Page /\ Fit(page) /\ page.dirty \subseteq {b} /\ b # None
         /\ page.live[b] \in Text /\ page.content[b] \in Text
         /\ page.live[b] # Gone /\ page.content[b] # Gone
         /\ page.live[b] \in SUBSET (Stroke \cup {0})
         /\ Waiting(page) \subseteq page.live[b]
<1>1. page \in Page /\ Fit(page) /\ page.dirty \subseteq {b} /\ b # None
  BY EditorConstants DEF Typed, Fit
<1>2. /\ page.live[b] \in Text /\ page.content[b] \in Text
      /\ page.live[b] # Gone /\ page.content[b] # Gone
  BY <1>1 DEF Page, Fit, Together
<1>3. page.live[b] \in SUBSET (Stroke \cup {0})
  BY <1>2, TextFacts
<1>4. Waiting(page) \subseteq page.live[b]
  BY <1>1 DEF Waiting
<1> QED BY <1>1, <1>2, <1>3, <1>4

LEMMA SaveDueKeeps == ASSUME Inv, NEW b \in Block, SaveDue(b) PROVE Inv'
<1>1. page.active = b /\ b # None
  BY EditorConstants DEF SaveDue, Inv, Typed, Fit
<1> DEFINE r == Flush(NoWrites(page), b)
<1>2. FlushOf(page, b) = r /\ page \in Page /\ Fit(page)
  BY <1>1 DEF FlushOf, Inv, Typed, Fit
<1>3. Fine(r)
  BY <1>1, <1>2, FlushAccounts, Zenon DEF Fine
<1>4. Becomes(r) /\ UNCHANGED <<wanted, typed, accounted, upsets>> /\ KeyFrame
  BY <1>2 DEF SaveDue
<1> QED BY <1>3, <1>4, FineKeeps

LEMMA ReshapeKeeps == ASSUME Inv, NEW b \in Block, Reshape(b) PROVE Inv'
<1> DEFINE texts == [x \in {b} |-> page.live[b]]
           c == Commit(page, texts, <<b>>)
<1>1. /\ page.active = b /\ Becomes(c) /\ UNCHANGED <<wanted, typed, accounted, upsets>>
      /\ KeyFrame
  BY DEF Reshape, Caret
<1>2. /\ Fit(page) /\ page.dirty \subseteq {b} /\ page.live[b] \in Text /\ page.live[b] # Gone
      /\ Waiting(page) \subseteq page.live[b]
  BY <1>1, CaretFacts DEF Inv
<1>3. texts \in [{b} -> Text] /\ texts[b] = page.live[b]
  BY <1>2
<1> HIDE DEF texts
<1>4. UNION {texts[x] : x \in {b}} = page.live[b]
  BY <1>3
<1>5. Lists(<<b>>, {b})
  BY Listings
<1>6. Fine(c)
  <2>1. {b} \in SUBSET Block /\ {b} # {}
    OBVIOUS
  <2> QED BY <1>1, <1>2, <1>3, <1>4, <1>5, <2>1, CommitFine
<1> QED BY <1>1, <1>6, FineKeeps

LEMMA SplitKeeps == ASSUME Inv, NEW b \in Block, Split(b) PROVE Inv'
<1>1. PICK c \in Block : \E tail \in SUBSET page.live[b] :
        /\ page.content[c] = Gone
        /\ Becomes(FocusOn(Commit(page,
             [x \in {b, c} |-> IF x = c THEN tail ELSE page.live[b] \ tail], <<b, c>>), c))
  BY Zenon DEF Split
<1>2. PICK tail \in SUBSET page.live[b] :
        /\ page.content[c] = Gone
        /\ Becomes(FocusOn(Commit(page,
             [x \in {b, c} |-> IF x = c THEN tail ELSE page.live[b] \ tail], <<b, c>>), c))
  BY <1>1, Zenon
<1> DEFINE texts == [x \in {b, c} |-> IF x = c THEN tail ELSE page.live[b] \ tail]
           r == FocusOn(Commit(page, texts, <<b, c>>), c)
<1>3. page.active = b /\ UNCHANGED <<wanted, typed, accounted, upsets>> /\ KeyFrame
  BY DEF Split, Caret
<1>4. /\ Fit(page) /\ page.dirty \subseteq {b} /\ page.content[b] # Gone
      /\ page.live[b] \in SUBSET (Stroke \cup {0}) /\ Waiting(page) \subseteq page.live[b]
  BY <1>3, CaretFacts DEF Inv
<1>5. b # c /\ tail \in SUBSET (Stroke \cup {0}) /\ page.live[b] \ tail \in SUBSET (Stroke \cup {0})
  BY <1>2, <1>4
<1>6. texts \in [{b, c} -> Text] /\ texts[b] = page.live[b] \ tail /\ texts[c] = tail /\ tail # Gone
  BY <1>5, TextFacts
<1>7. Becomes(r)
  BY <1>2, Zenon
<1> HIDE DEF texts
<1>8. Waiting(page) \subseteq UNION {texts[x] : x \in {b, c}}
  BY <1>4, <1>6
<1>9. Lists(<<b, c>>, {b, c})
  BY Listings, Zenon
<1>10. Fine(r)
  <2>1. {b, c} \in SUBSET Block /\ {b, c} # {} /\ page.dirty \subseteq {b, c} /\ c \in {b, c}
    BY <1>4
  <2> QED BY <1>4, <1>6, <1>8, <1>9, <2>1, CommitFine
<1> QED BY <1>3, <1>7, <1>10, FineKeeps

LEMMA MergeKeeps == ASSUME Inv, NEW b \in Block, Merge(b) PROVE Inv'
<1>1. PICK c \in Block \ {b} :
        /\ page.content[c] # Gone
        /\ Becomes(FocusOn(Commit(page,
             [x \in {b, c} |-> IF x = b THEN Gone ELSE page.live[c] \cup page.live[b]],
             <<c, b>>), c))
  BY Zenon DEF Merge
<1> DEFINE texts == [x \in {b, c} |-> IF x = b THEN Gone ELSE page.live[c] \cup page.live[b]]
           r == FocusOn(Commit(page, texts, <<c, b>>), c)
<1>2. page.active = b /\ UNCHANGED <<wanted, typed, accounted, upsets>> /\ KeyFrame
  BY DEF Merge, Caret
<1>3. /\ Fit(page) /\ page.dirty \subseteq {b}
      /\ page.live[b] \in SUBSET (Stroke \cup {0}) /\ Waiting(page) \subseteq page.live[b]
  BY <1>2, CaretFacts DEF Inv
<1>4. page.live[c] \in SUBSET (Stroke \cup {0})
  <2>1. page.live[c] \in Text /\ page.live[c] # Gone
    BY <1>1, <1>3 DEF Fit, Page, Together
  <2> QED BY <2>1, TextFacts
<1>5. page.live[c] \cup page.live[b] \in SUBSET (Stroke \cup {0})
  BY <1>3, <1>4
<1>6. /\ texts \in [{b, c} -> Text] /\ texts[b] = Gone
      /\ texts[c] = page.live[c] \cup page.live[b] /\ texts[c] # Gone
  <2>1. /\ Gone \in Text /\ page.live[c] \cup page.live[b] \in Text
        /\ page.live[c] \cup page.live[b] # Gone
    BY <1>5, TextFacts
  <2> HIDE DEF Gone
  <2> QED BY <1>1, <2>1
<1>7. Becomes(r)
  BY <1>1, Zenon
<1> HIDE DEF texts
<1>8. Waiting(page) \subseteq UNION {texts[x] : x \in {b, c}}
  BY <1>3, <1>6
<1>9. Lists(<<c, b>>, {b, c})
  <2>1. {b, c} = {c, b}
    OBVIOUS
  <2> QED BY <2>1, Listings
<1>10. Fine(r)
  <2>1. {b, c} \in SUBSET Block /\ {b, c} # {} /\ page.dirty \subseteq {b, c} /\ c \in {b, c}
    BY <1>1, <1>3
  <2> QED BY <1>1, <1>3, <1>6, <1>8, <1>9, <2>1, CommitFine
<1> QED BY <1>2, <1>7, <1>10, FineKeeps

\* The slow keys come when nothing waits.
LEMMA SlowKeys ==
  /\ CaretSlow /\ Allowed("select") => Settled
  /\ AllSlow => CaretSlow
  /\ \A key \in {"sibling", "close"} : AllSlow /\ Allowed(key) => Settled
  BY Zenon DEF AllSlow, CaretSlow, Allowed

LEMMA AddSiblingKeeps == ASSUME Inv, NEW b \in Block, AddSibling(b) PROVE Inv'
<1>1. PICK c \in Block :
        Becomes(FocusOn(Commit([page EXCEPT !.dirty = @ \ {b}], [x \in {c} |-> {}], <<c>>), c))
  BY Zenon DEF AddSibling
<1> DEFINE p == [page EXCEPT !.dirty = @ \ {b}]
           texts == [x \in {c} |-> {}]
           r == FocusOn(Commit(p, texts, <<c>>), c)
<1>2. /\ page.active = b /\ UNCHANGED <<wanted, typed, accounted, upsets>> /\ KeyFrame
      /\ Becomes(r) /\ (AllSlow => page.dirty = {})
  BY <1>1, SlowKeys DEF AddSibling, Caret, Settled
<1>3. Fit(page) /\ page \in Page /\ page.dirty \subseteq {b}
  BY <1>2, CaretFacts DEF Inv
<1>4. Fit(p) /\ p.content = page.content /\ p.active = page.active /\ p.dirty = {}
  <2>1. /\ p \in Page /\ p.content = page.content /\ p.live = page.live
        /\ p.active = page.active /\ p.dirty = {}
    BY <1>3 DEF Page
  <2> HIDE DEF p
  <2> QED BY <1>3, <2>1 DEF Fit, Together
<1>5. texts \in [{c} -> Text] /\ texts[c] = {} /\ texts[c] # Gone
  BY TextFacts
<1> HIDE DEF texts, p
<1>6. AllSlow => Waiting(page) = {}
  BY <1>2 DEF Waiting
<1>7. Lists(<<c>>, {c})
  BY Listings
<1>8. Fine(r)
  <2>1. {c} \in SUBSET Block /\ {c} # {} /\ p.dirty \subseteq {c} /\ c \in {c}
    BY <1>4
  <2> QED BY <1>4, <1>5, <1>6, <1>7, <2>1, CommitFine
<1> QED BY <1>2, <1>8, FineKeeps

\* Typing: one more stroke, in the block with the caret.
LEMMA TypeKeeps == ASSUME CaretSlow, Inv, NEW b \in Block, Type(b) PROVE Inv'
<1> DEFINE s == Cardinality(typed) + 1
           l == [page.live EXCEPT ![b] = @ \cup {s}]
           q == [page EXCEPT !.live = l, !.dirty = @ \cup {b}]
<1>1. /\ page.active = b /\ Cardinality(typed) < MaxStrokes /\ typed' = typed \cup {s}
      /\ reader["refresh"].pc = "off" /\ ~wanted
      /\ UNCHANGED <<queue, issued, wanted, accounted, upsets, reader, again, missed, saved,
                     committed, open>>
  BY DEF Type, Caret, KeyFrame, CaretSlow
<1>2. page' = [page EXCEPT !.live[b] = @ \cup {s}, !.dirty = @ \cup {b}]
  BY DEF Type
<1>3. s \in Stroke
  <2>1. IsFiniteSet(1..MaxStrokes)
    BY EditorConstants, FS_Interval
  <2>2. IsFiniteSet(typed)
    BY <2>1, FS_Subset DEF Inv, Typed, Stroke
  <2>3. Cardinality(typed) \in Nat
    BY <2>2, FS_CardinalityType
  <2> QED BY <1>1, <2>3, EditorConstants DEF Stroke
<1> HIDE DEF s
<1>4. /\ page \in Page /\ Fit(page) /\ page.dirty \subseteq {b}
      /\ page.live[b] \in SUBSET (Stroke \cup {0}) /\ page.content[b] # Gone
  BY <1>1, CaretFacts DEF Inv
<1>5. page.live[b] \cup {s} \in Text /\ page.live[b] \cup {s} # Gone
  BY <1>3, <1>4, TextFacts
<1>6. /\ l \in [Block -> Text] /\ l[b] = page.live[b] \cup {s}
      /\ \A x \in Block \ {b} : l[x] = page.live[x]
  BY <1>4, <1>5 DEF Page
<1>7. page' = q
  BY <1>2, <1>4 DEF Page
<1> HIDE DEF l
<1>8. /\ q \in Page /\ q.live = l /\ q.content = page.content /\ q.dirty = {b} /\ q.active = b
      /\ q.focused = page.focused
  BY <1>1, <1>4, <1>6 DEF Page
<1> HIDE DEF q
<1>9. Fit(q)
  <2>1. Together(q)
    BY <1>4, <1>5, <1>6, <1>8 DEF Fit, Together
  <2> QED BY <1>5, <1>6, <1>8, <2>1 DEF Fit
<1>10. Typed'
  <2>1. Fit(page)' /\ typed' \subseteq Stroke
    BY <1>1, <1>3, <1>7, <1>9 DEF Fit, Together, Inv, Typed
  <2> QED BY <1>1, <2>1 DEF Inv, Typed
<1>11. Reads'
  BY <1>1 DEF Inv, Reads, Idle
<1>12. ASSUME AllSlow PROVE StrokesInv'
  <2>1. Waiting(page) \subseteq l[b] \cap Stroke /\ s \in l[b] \cap Stroke
    BY <1>3, <1>4, <1>6 DEF Waiting
  <2>2. Waiting(q) = l[b] \cap Stroke
    BY <1>8 DEF Waiting
  <2>3. /\ Waiting(page)' = Waiting(q) /\ Carried' = Carried
        /\ Strokes(page.content)' = Strokes(page.content) /\ Strokes(saved)' = Strokes(saved)
        /\ \A r \in Reader : Strokes(reader[r].seen)' = Strokes(reader[r].seen)
    BY <1>1, <1>7, <1>8 DEF Waiting, Carried, Texts, Strokes
  <2>4. typed' \subseteq Carried' \cup Waiting(page)'
    BY <1>1, <2>1, <2>2, <2>3, <1>12 DEF Inv, StrokesInv
  <2> QED BY <1>1, <2>3, <2>4, <1>12 DEF Inv, StrokesInv
<1>13. PageOwed'
  BY <1>1, <1>7, <1>8 DEF Inv, PageOwed, Refreshes, Working
<1>14. StaleKnown'
  BY <1>1 DEF Inv, StaleKnown
<1> QED BY <1>10, <1>11, <1>12, <1>13, <1>14 DEF Inv

LEMMA CheckKeeps == ASSUME Inv, NEW b \in Block, Check(b) PROVE Inv'
<1> DEFINE q == [page EXCEPT !.dirty = @ \ {b}]
           w == Task(b, page.live[b])
           r == [page |-> q, writes |-> <<w>>]
<1>1. page' = q /\ Issue(<<w>>) /\ UNCHANGED <<wanted, typed, accounted, upsets>> /\ KeyFrame
  BY DEF Check
<1>2. page \in Page /\ Fit(page)
  BY DEF Inv, Typed, Fit
<1>3. /\ q \in Page /\ q.content = page.content /\ q.live = page.live /\ q.active = page.active
      /\ q.focused = page.focused /\ q.dirty = page.dirty \ {b}
  BY <1>2 DEF Page
<1>4. w \in Write /\ w.text = page.live[b]
  BY <1>2 DEF Task, Write, Page
<1> HIDE DEF q, w
<1>5. <<w>> \in Seq(Write) /\ Texts(<<w>>) = page.live[b] /\ Working(<<w>>)
  BY <1>4, SmallQueues, Zenon
<1>6. r \in Result /\ r.page = q /\ r.writes = <<w>>
  BY <1>3, <1>5 DEF Result
<1> HIDE DEF r
<1>7. Fit(q)
  BY <1>2, <1>3 DEF Fit, Together
<1>8. Waiting(page) \subseteq Waiting(q) \cup page.live[b]
  BY <1>3 DEF Waiting
<1>9. Accounts(page, r)
  BY <1>3, <1>5, <1>6, <1>8 DEF Accounts
<1>10. Fine(r) /\ Becomes(r)
  BY <1>1, <1>6, <1>7, <1>9 DEF Fine, Becomes
<1> QED BY <1>1, <1>10, FineKeeps

LEMMA SelectKeeps == ASSUME CaretSlow, Inv, Select PROVE Inv'
<1> DEFINE q == [page EXCEPT !.active = None]
           r == NoWrites(q)
<1>1. /\ page' = q /\ UNCHANGED <<queue, issued, wanted, typed, accounted, upsets>> /\ KeyFrame
      /\ page.dirty = {}
  BY SlowKeys DEF Select, Settled
<1>2. page \in Page /\ Together(page)
  BY DEF Inv, Typed, Fit
<1>3. /\ Fit(q) /\ q.content = page.content /\ q.dirty = {} /\ q \in Page
  BY <1>1, <1>2, MoveCaret DEF Fit
<1> HIDE DEF q
<1>4. r \in Result /\ r.page = q /\ r.writes = <<>>
  BY <1>3, NoWritesFacts
<1> HIDE DEF r
<1>5. Accounts(page, r)
  BY <1>1, <1>3, <1>4 DEF Accounts, Waiting
<1>6. Issue(r.writes)
  <2>1. issued \in Nat /\ issued <= MaxWrites /\ queue \in Seq(Write \cup Waiter)
    BY EditorConstants DEF Inv, Typed
  <2>2. Len(<<>>) = 0 /\ queue \o <<>> = queue
    BY <2>1
  <2> QED BY <1>1, <1>4, <2>1, <2>2 DEF Issue
<1>7. Fine(r) /\ Becomes(r)
  BY <1>1, <1>3, <1>4, <1>5, <1>6 DEF Fine, Becomes
<1> QED BY <1>1, <1>7, FineKeeps

LEMMA DeleteSelectedKeeps == ASSUME Inv, NEW b \in Block, DeleteSelected(b) PROVE Inv'
<1> DEFINE texts == [x \in {b} |-> Gone]
           c == Commit(page, texts, <<b>>)
<1>1. /\ page.active = None /\ Becomes(c) /\ UNCHANGED <<wanted, typed, upsets>> /\ KeyFrame
      /\ accounted' = accounted \cup (page.live[b] \cap Stroke)
  BY DEF DeleteSelected
<1>2. Fit(page) /\ page.dirty = {} /\ Waiting(page) = {}
  <2>1. page \in Page /\ Fit(page) /\ page.dirty \subseteq {None} /\ None \notin Block
    BY <1>1, EditorConstants DEF Inv, Typed, Fit
  <2>2. page.dirty = {}
    BY <2>1 DEF Page
  <2> QED BY <2>1, <2>2 DEF Waiting
<1>3. texts \in [{b} -> Text] /\ Lists(<<b>>, {b})
  BY TextFacts, Listings
<1> HIDE DEF texts
<1>4. Fine(c)
  <2>1. {b} \in SUBSET Block /\ {b} # {} /\ page.dirty \subseteq {b}
    BY <1>2
  <2> QED BY <1>1, <1>2, <1>3, <2>1, CommitFine
<1>5. accounted \subseteq accounted' /\ accounted' \subseteq Stroke
  BY <1>1 DEF Inv, Typed
<1> QED BY <1>1, <1>4, <1>5, KeyStep

LEMMA FocusKeeps == ASSUME Inv, NEW b \in Block, Focus(b) PROVE Inv'
<1> DEFINE p == [page EXCEPT !.focused = TRUE]
           r == NoWrites(p)
           s == IF page.active = None THEN r ELSE Flush(r, page.active)
           q == [s.page EXCEPT !.active = b]
           f == [page |-> q, writes |-> s.writes]
<1>1. /\ page.active # b /\ page.live[b] # Gone /\ Becomes(FocusOn(r, b))
      /\ UNCHANGED <<wanted, typed, accounted, upsets>> /\ KeyFrame
  BY DEF Focus
<1>2. page \in Page /\ Fit(page) /\ None \notin Block
  BY EditorConstants DEF Inv, Typed, Fit
<1>3. /\ p \in Page /\ p.content = page.content /\ p.live = page.live /\ p.dirty = page.dirty
      /\ p.active = page.active
  BY <1>2 DEF Page
<1> HIDE DEF p
<1>4. Fit(p) /\ r \in Result /\ r.page = p /\ r.writes = <<>>
  BY <1>2, <1>3, NoWritesFacts DEF Fit, Together
<1> HIDE DEF r
<1>5. FocusOn(r, b) = [s EXCEPT !.page.active = b]
  BY <1>1, <1>3, <1>4, Zenon DEF FocusOn
<1>6. /\ s \in Result /\ Fit(s.page) /\ s.page.dirty = {} /\ Accounts(p, s)
      /\ s.page.content[b] # Gone
  <2>1. CASE page.active = None
    <3>1. p.dirty = {} /\ s = r
      BY <1>2, <1>3, <2>1 DEF Fit, Page
    <3>2. p.content[b] # Gone
      BY <1>1, <1>2, <1>3 DEF Fit, Together
    <3>3. Accounts(p, r)
      BY <1>4 DEF Accounts
    <3> QED BY <1>4, <3>1, <3>2, <3>3
  <2>2. CASE page.active # None
    <3>1. page.active \in Block /\ s = Flush(r, page.active)
      BY <1>2, <2>2 DEF Page
    <3>2. s \in Result /\ Fit(s.page) /\ s.page.dirty = {} /\ Accounts(p, s)
      BY <1>3, <1>4, <3>1, FlushAccounts DEF r
    <3>3. Flushed(r, page.active, s)
      BY <1>3, <1>4, <3>1, FlushFacts
    <3>4. p.content[b] # Gone
      BY <1>1, <1>2, <1>3 DEF Fit, Together
    <3>5. s.page.content[b] # Gone
      BY <1>1, <1>3, <1>4, <3>3, <3>4 DEF Flushed, Page
    <3> QED BY <3>2, <3>5
  <2> QED BY <2>1, <2>2
<1> HIDE DEF s
<1>7. FocusOn(r, b) = f
  BY <1>5, <1>6 DEF Result
<1>8. Fit(q) /\ q.content = s.page.content /\ q.dirty = {}
  BY <1>6, MoveCaret DEF Fit
<1> HIDE DEF q
<1>9. f \in Result /\ f.page = q /\ f.writes = s.writes
  BY <1>6, <1>8 DEF Result, Fit
<1> HIDE DEF f
<1>10. Waiting(q) = {} /\ Waiting(s.page) = {} /\ Waiting(p) = Waiting(page)
  BY <1>3, <1>6, <1>8 DEF Waiting
<1>11. Accounts(page, f)
  BY <1>3, <1>6, <1>8, <1>9, <1>10 DEF Accounts
<1>12. Fine(f)
  BY <1>8, <1>9, <1>11 DEF Fine
<1> QED BY <1>1, <1>7, <1>12, FineKeeps

LEMMA BlurKeeps == ASSUME Inv, Blur PROVE Inv'
<1> DEFINE s == FlushOf(page, page.active)
           p == [s.page EXCEPT !.focused = FALSE]
           q == SyncTexts(p)
           f == [page |-> q, writes |-> s.writes]
<1>1. /\ Becomes([s EXCEPT !.page = SyncTexts([@ EXCEPT !.focused = FALSE])])
      /\ UNCHANGED <<wanted, typed, accounted, upsets>> /\ KeyFrame
  BY Zenon DEF Blur
<1>2. page \in Page /\ Fit(page) /\ None \notin Block
  BY EditorConstants DEF Inv, Typed, Fit
<1>3. s \in Result /\ Fit(s.page) /\ s.page.dirty = {} /\ Accounts(page, s)
  <2>1. CASE page.active = None
    <3>1. page.dirty = {} /\ s = NoWrites(page)
      BY <1>2, <2>1 DEF Fit, Page, FlushOf
    <3>2. s \in Result /\ s.page = page /\ s.writes = <<>>
      BY <1>2, <3>1, NoWritesFacts
    <3> QED BY <1>2, <3>1, <3>2 DEF Accounts
  <2>2. CASE page.active # None
    <3>1. page.active \in Block /\ s = Flush(NoWrites(page), page.active)
      BY <1>2, <2>2 DEF Page, FlushOf
    <3> QED BY <1>2, <3>1, FlushAccounts
  <2> QED BY <2>1, <2>2
<1> HIDE DEF s
<1>4. [s EXCEPT !.page = SyncTexts([@ EXCEPT !.focused = FALSE])] = f
  BY <1>3 DEF Result
<1>5. /\ p \in Page /\ p.content = s.page.content /\ p.dirty = {} /\ p.active = s.page.active
  BY <1>3 DEF Result, Page
<1>6. s.page.active # None => s.page.content[s.page.active] # Gone
  BY <1>3 DEF Fit, Together, Page
<1> HIDE DEF p
<1>7. /\ q \in Page /\ Together(q) /\ q.content = s.page.content /\ q.dirty = {}
      /\ q.active = s.page.active
  BY <1>5, SyncFacts, Zenon
<1> HIDE DEF q
<1>8. Fit(q)
  <2>1. s.page.active \in Block \cup {None}
    BY <1>3 DEF Result, Page
  <2>2. q.active # None => q.live[q.active] # Gone
    BY <1>6, <1>7, <2>1 DEF Together
  <2> QED BY <1>7, <2>2 DEF Fit
<1>9. f \in Result /\ f.page = q /\ f.writes = s.writes
  BY <1>3, <1>7 DEF Result
<1> HIDE DEF f
<1>10. Waiting(q) = {} /\ Waiting(s.page) = {}
  BY <1>3, <1>7 DEF Waiting
<1>11. Accounts(page, f)
  BY <1>3, <1>7, <1>9, <1>10 DEF Accounts
<1>12. Fine(f)
  BY <1>8, <1>9, <1>11 DEF Fine
<1> QED BY <1>1, <1>4, <1>12, FineKeeps

LEMMA CloseKeeps == ASSUME Inv, Close PROVE Inv'
<1> DEFINE unsaved == {b \in page.dirty : page.live[b] \notin {Gone, page.content[b]}
                                           /\ page.content[b] # Gone}
           strokes == (UNION {page.live[b] : b \in unsaved}) \cap Stroke
           q == [page EXCEPT !.dirty = {}]
<1>1. /\ open' = FALSE /\ queue' = <<>> /\ page' = q
      /\ UNCHANGED <<issued, reader, again, missed, wanted, committed, typed, upsets>>
      /\ saved' = [b \in Block |-> IF b \in unsaved /\ saved[b] # Gone THEN page.live[b]
                                                                     ELSE saved[b]]
      /\ accounted' = accounted \cup strokes
  BY Zenon DEF Close
<1>2. page \in Page /\ Fit(page) /\ saved \in [Block -> Text] /\ accounted \subseteq Stroke
  BY DEF Inv, Typed, Fit
<1>3. /\ q \in Page /\ q.content = page.content /\ q.live = page.live /\ q.active = page.active
      /\ q.dirty = {}
  BY <1>2 DEF Page
<1>4. AllSlow => page.dirty = {} /\ queue = <<>>
  BY SlowKeys DEF Close, Settled, Writing
<1>5. saved' \in [Block -> Text] /\ accounted' \subseteq Stroke
  BY <1>1, <1>2 DEF Page
<1>6. unsaved \subseteq page.dirty
  OBVIOUS
<1> HIDE DEF unsaved, q
<1>7. Fit(q)
  BY <1>2, <1>3 DEF Fit, Together
<1>8. DOMAIN queue' = {} /\ queue' \in Seq(Write \cup Waiter)
  BY <1>1
<1>9. Typed'
  <2>1. Fit(page)'
    BY <1>1, <1>7 DEF Fit, Together
  <2> QED BY <1>1, <1>5, <1>8, <2>1 DEF Inv, Typed
<1>10. Reads'
  BY <1>1, <1>3, <1>8 DEF Inv, Reads
<1>11. ASSUME AllSlow PROVE StrokesInv'
  <2>1. page.dirty = {} /\ queue' = queue
    BY <1>1, <1>4, <1>11
  <2>2. unsaved = {}
    BY <1>6, <2>1
  <2>3. saved' = saved /\ accounted' = accounted
    BY <1>1, <1>2, <2>2
  <2>4. page'.content = page.content /\ page'.dirty = {}
    BY <1>1, <1>3
  <2> QED BY <1>1, <1>11, <2>1, <2>3, <2>4
      DEF Inv, StrokesInv, Strokes, Waiting, Carried, Texts
<1>12. PageOwed' /\ StaleKnown'
  BY <1>1 DEF PageOwed, StaleKnown
<1> QED BY <1>9, <1>10, <1>11, <1>12 DEF Inv

-----------------------------------------------------------------------------
(* The lane and the replica *)

\* Taking the head leaves no refresh that was not waiting.
LEMMA TailReads ==
  ASSUME Typed, Reads, queue # <<>>, queue' = Tail(queue)
  PROVE  /\ \A i \in DOMAIN queue' : i + 1 \in DOMAIN queue /\ queue'[i] = queue[i + 1]
         /\ \A i, j \in DOMAIN queue' :
              queue'[i] = Idle("refresh") /\ queue'[j] = Idle("refresh")
                => i = j /\ reader["refresh"].pc = "idle" /\ Head(queue) # Idle("refresh")
<1>1. /\ DOMAIN queue = 1..Len(queue) /\ Len(queue) \in Nat /\ 1 \in DOMAIN queue
      /\ DOMAIN queue' = 1..(Len(queue) - 1) /\ Head(queue) = queue[1]
      /\ \A i \in DOMAIN queue' : queue'[i] = queue[i + 1]
  BY DEF Typed
<1>2. \A i \in DOMAIN queue' : i + 1 \in DOMAIN queue /\ i + 1 # 1 /\ i \in Nat
  BY <1>1
<1>3. ASSUME NEW i \in DOMAIN queue', NEW j \in DOMAIN queue',
             queue'[i] = Idle("refresh"), queue'[j] = Idle("refresh")
      PROVE  i = j /\ reader["refresh"].pc = "idle" /\ queue[1] # Idle("refresh")
  <2>1. queue[i + 1] = Idle("refresh") /\ queue[j + 1] = Idle("refresh")
    BY <1>1, <1>3
  <2>2. i + 1 = j + 1 /\ reader["refresh"].pc = "idle"
    BY <1>2, <2>1 DEF Reads
  <2>3. queue[1] # Idle("refresh")
    BY <1>1, <1>2, <2>1 DEF Reads
  <2> QED BY <1>2, <2>2, <2>3
<1> QED BY <1>1, <1>2, <1>3

LEMMA LandKeeps == ASSUME Inv, Land PROVE Inv'
<1> DEFINE w == Head(queue)
           s == [saved EXCEPT ![w.block] = w.text]
<1>1. /\ open /\ queue # <<>> /\ IsWrite(w) /\ queue' = Tail(queue)
      /\ accounted' = accounted \cup (w.text \cap Stroke)
      /\ UNCHANGED <<page, issued, reader, again, missed, open, typed>>
  BY DEF Land, IsWrite
<1>2. /\ upsets' = upsets \/ Upset
      /\ \/ wanted' = TRUE /\ UNCHANGED <<saved, committed>>
         \/ saved' = s /\ committed' = TRUE /\ wanted' = (wanted \/ w.kind = "task")
  BY Zenon DEF Land
<1>3. /\ queue \in Seq(Write \cup Waiter) /\ wanted \in BOOLEAN /\ saved \in [Block -> Text]
      /\ accounted \subseteq Stroke
  BY DEF Inv, Typed
<1>4. /\ w \in Write /\ queue' \in Seq(Write \cup Waiter)
      /\ Texts(queue) = w.text \cup Texts(queue')
  BY <1>1, <1>3, TailFacts
<1>5. /\ w.block \in Block /\ w.text \in Text
  BY <1>4 DEF Write
<1>6. accounted \subseteq accounted' /\ accounted' \subseteq Stroke
  BY <1>1, <1>3
<1>7. saved' \in [Block -> Text]
  BY <1>2, <1>3, <1>5
<1>8. /\ wanted' \in BOOLEAN /\ committed' \in BOOLEAN /\ upsets' \in 0..MaxUpsets
      /\ wanted => wanted'
      /\ \/ wanted' /\ UNCHANGED <<saved, committed>>
         \/ committed'
  <2>1. upsets' \in 0..MaxUpsets
    BY <1>2, EditorConstants DEF Inv, Typed, Upset
  <2>2. committed \in BOOLEAN
    BY DEF Inv, Typed
  <2> QED BY <1>2, <1>3, <2>1, <2>2, Zenon
<1> HIDE DEF w
<1>9. Typed'
  BY <1>1, <1>4, <1>6, <1>7, <1>8 DEF Inv, Typed, Fit, Together
<1>10. Reads'
  <2>1. Typed /\ Reads
    BY DEF Inv
  <2>2. \A i, j \in DOMAIN queue' :
          queue'[i] = Idle("refresh") /\ queue'[j] = Idle("refresh")
            => i = j /\ reader["refresh"].pc = "idle"
    BY <1>1, <2>1, TailReads
  <2> QED BY <1>1, <2>1, <2>2 DEF Reads, Idle
<1>11. ASSUME AllSlow PROVE StrokesInv'
  <2>1. /\ Strokes(page.content)' = Strokes(page.content) /\ Waiting(page)' = Waiting(page)
        /\ \A r \in Reader : Strokes(reader[r].seen)' = Strokes(reader[r].seen)
    BY <1>1 DEF Strokes, Waiting
  <2>2. Strokes(saved)' \subseteq accounted'
    <3>1. Strokes(saved') \subseteq Strokes(saved) \cup (w.text \cap Stroke)
      <4>1. Strokes(s) \subseteq Strokes(saved) \cup (w.text \cap Stroke)
        BY <1>3, StrokesExcept, Zenon
      <4>2. saved' = saved \/ saved' = s
        BY <1>2
      <4> QED BY <4>1, <4>2
    <3> QED BY <1>1, <3>1, <1>11 DEF Inv, StrokesInv, Strokes
  <2>3. Carried \cap Stroke \subseteq Carried'
    BY <1>1, <1>4 DEF Carried, Texts
  <2>4. Strokes(page.content) \subseteq Stroke /\ typed \subseteq Stroke
    BY DEF Inv, Typed, Strokes
  <2> QED BY <1>1, <1>6, <2>1, <2>2, <2>3, <2>4, <1>11 DEF Inv, StrokesInv
<1>12. PageOwed'
  BY <1>8 DEF PageOwed, Refreshes
<1>13. StaleKnown'
  <2>1. CASE committed'
    BY <2>1 DEF StaleKnown
  <2>2. CASE UNCHANGED <<saved, committed>>
    BY <1>1, <2>2 DEF Inv, StaleKnown
  <2> QED BY <1>8, <2>1, <2>2
<1> QED BY <1>9, <1>10, <1>11, <1>12, <1>13 DEF Inv

LEMMA RemoteKeeps == ASSUME Inv, Remote PROVE Inv'
<1>1. PICK b \in Block, text \in {{0}, Gone} : saved' = [saved EXCEPT ![b] = text]
  BY Zenon DEF Remote
<1>2. /\ Upset /\ committed' = TRUE
      /\ UNCHANGED <<page, queue, issued, reader, again, missed, wanted, open, typed, accounted>>
  BY DEF Remote
<1>3. text \in Text /\ text \cap Stroke = {}
  BY TextFacts, EditorConstants DEF Stroke
<1>4. saved \in [Block -> Text] /\ upsets \in 0..MaxUpsets /\ MaxUpsets \in Nat
  BY EditorConstants DEF Inv, Typed
<1>5. saved' \in [Block -> Text] /\ upsets' \in 0..MaxUpsets
  BY <1>1, <1>2, <1>3, <1>4 DEF Upset
<1>6. Typed'
  BY <1>2, <1>5 DEF Inv, Typed, Fit, Together
<1>7. Reads'
  BY <1>2 DEF Inv, Reads, Idle
<1>8. ASSUME AllSlow PROVE StrokesInv'
  <2>1. Strokes(saved') \subseteq Strokes(saved) \cup (text \cap Stroke)
    BY <1>1, <1>4, StrokesExcept
  <2>2. Strokes(saved)' \subseteq accounted'
    BY <1>2, <1>3, <2>1, <1>8 DEF Inv, StrokesInv, Strokes
  <2> QED BY <1>2, <2>2, <1>8 DEF Inv, StrokesInv, Strokes, Waiting, Carried, Texts
<1>9. PageOwed' /\ StaleKnown'
  BY <1>2 DEF Inv, PageOwed, StaleKnown
<1> QED BY <1>6, <1>7, <1>8, <1>9 DEF Inv

-----------------------------------------------------------------------------
(* Reading it back *)

\* What a step of a reader leaves alone.
LEMMA ReadTypes ==
  ASSUME Typed, Fit(page'), queue' \in Seq(Write \cup Waiter), issued' \in 0..MaxWrites,
         reader' \in [Reader -> ReaderState], again' \in BOOLEAN, missed' \in BOOLEAN,
         wanted' \in BOOLEAN, committed' \in BOOLEAN, ReadFrame
  PROVE  Typed'
  BY DEF Typed, ReadFrame, Fit, Together

\* A reader moves on.
LEMMA ToFacts ==
  ASSUME reader \in [Reader -> ReaderState], NEW r \in Reader, NEW pc \in ReaderPC
  PROVE  LET n == [reader EXCEPT ![r].pc = pc]
         IN  /\ n \in [Reader -> ReaderState] /\ n[r].pc = pc
             /\ \A x \in Reader : n[x].mark = reader[x].mark /\ n[x].seen = reader[x].seen
             /\ \A x \in Reader \ {r} : n[x] = reader[x]
  BY DEF ReaderState

LEMMA HearCommitKeeps == ASSUME Inv, HearCommit PROVE Inv'
<1>1. /\ committed' = FALSE /\ ReadFrame /\ UNCHANGED <<page, queue, issued, missed, wanted>>
      /\ reader \in [Reader -> ReaderState] /\ again \in BOOLEAN
  BY DEF HearCommit, Inv, Typed
<1>2. \/ /\ reader["settled"].pc = "off" /\ reader' = [reader EXCEPT !["settled"].pc = "loop"]
         /\ again' = again
      \/ reader["settled"].pc # "off" /\ again' = TRUE /\ reader' = reader
  BY DEF HearCommit, To
<1>3. /\ reader' \in [Reader -> ReaderState] /\ again' \in BOOLEAN
      /\ reader'["refresh"] = reader["refresh"]
      /\ \A r \in Reader : reader'[r].mark = reader[r].mark /\ reader'[r].seen = reader[r].seen
      /\ \/ reader["settled"].pc = "off" /\ reader'["settled"].pc = "loop"
         \/ reader["settled"].pc # "off" /\ again' = TRUE /\ reader'["settled"] = reader["settled"]
  <2>1. "settled" \in Reader /\ "refresh" \in Reader /\ "loop" \in ReaderPC
    BY DEF Reader, ReaderPC
  <2>2. CASE reader["settled"].pc # "off" /\ again' = TRUE /\ reader' = reader
    BY <1>1, <2>2
  <2>3. CASE /\ reader["settled"].pc = "off" /\ reader' = [reader EXCEPT !["settled"].pc = "loop"]
             /\ again' = again
    <3>1. /\ reader' \in [Reader -> ReaderState] /\ reader'["settled"].pc = "loop"
          /\ \A x \in Reader : reader'[x].mark = reader[x].mark /\ reader'[x].seen = reader[x].seen
          /\ \A x \in Reader \ {"settled"} : reader'[x] = reader[x]
      BY <1>1, <2>1, <2>3, ToFacts
    <3>2. "refresh" \in Reader \ {"settled"}
      BY DEF Reader
    <3> QED BY <1>1, <2>3, <3>1, <3>2, Zenon
  <2> QED BY <1>2, <2>2, <2>3
<1>4. Typed'
  <2>1. /\ Fit(page') /\ queue' \in Seq(Write \cup Waiter) /\ issued' \in 0..MaxWrites
        /\ wanted' \in BOOLEAN /\ missed' \in BOOLEAN /\ committed' \in BOOLEAN /\ Typed
    BY <1>1 DEF Inv, Typed
  <2> QED BY <1>1, <1>3, <2>1, ReadTypes
<1>5. Reads'
  BY <1>1, <1>3 DEF Inv, Reads, Idle, Answered
<1>6. ASSUME AllSlow PROVE StrokesInv'
  BY <1>1, <1>3, <1>6 DEF Inv, StrokesInv, Strokes, Waiting, Carried, Texts, ReadFrame
<1>7. PageOwed'
  BY <1>3 DEF PageOwed
<1>8. StaleKnown'
  BY <1>1, <1>3 DEF Inv, StaleKnown, ReadFrame, Reads, Typed, ReaderState, ReaderPC, Reader, Answered
<1> QED BY <1>4, <1>5, <1>6, <1>7, <1>8 DEF Inv

LEMMA WaitIdleKeeps == ASSUME Inv, WaitIdle PROVE Inv'
<1> DEFINE w == Idle("settled")
<1>1. /\ ReadFrame /\ UNCHANGED <<page, issued, missed, wanted, committed>>
      /\ reader["settled"].pc \in {"loop", "wait"} /\ queue' = Append(queue, w)
      /\ reader' = [reader EXCEPT !["settled"].pc = "idle"] /\ again' \in {FALSE, again}
  BY DEF WaitIdle, To
<1>2. /\ reader \in [Reader -> ReaderState] /\ queue \in Seq(Write \cup Waiter)
      /\ again \in BOOLEAN
  BY DEF Inv, Typed
<1>3. w \in Waiter
  BY DEF Waiter, Idle, Reader
<1>4. /\ reader' \in [Reader -> ReaderState] /\ reader'["settled"].pc = "idle"
      /\ \A x \in Reader : reader'[x].mark = reader[x].mark /\ reader'[x].seen = reader[x].seen
      /\ reader'["refresh"] = reader["refresh"]
  <2>1. "settled" \in Reader /\ "refresh" \in Reader \ {"settled"} /\ "idle" \in ReaderPC
    BY DEF Reader, ReaderPC
  <2> QED BY <1>1, <1>2, <2>1, ToFacts
<1> HIDE DEF w
<1>5. /\ queue' = queue \o <<w>> /\ queue' \in Seq(Write \cup Waiter)
      /\ Texts(queue') = Texts(queue) /\ (Working(queue') <=> Working(queue))
  <2>1. /\ <<w>> \in Seq(Write \cup Waiter) /\ Texts(<<w>>) = {} /\ ~Working(<<w>>)
    BY <1>3, SmallQueues, Zenon
  <2>2. queue' = queue \o <<w>>
    BY <1>1, <1>2, <1>3
  <2>3. /\ queue \o <<w>> \in Seq(Write \cup Waiter)
        /\ Texts(queue \o <<w>>) = Texts(queue) \cup Texts(<<w>>)
        /\ Working(queue \o <<w>>) <=> Working(queue) \/ Working(<<w>>)
    BY <1>2, <2>1, ConcatFacts, Zenon
  <2> QED BY <2>1, <2>2, <2>3
<1>6. Typed'
  <2>1. /\ Fit(page') /\ issued' \in 0..MaxWrites /\ again' \in BOOLEAN
        /\ wanted' \in BOOLEAN /\ missed' \in BOOLEAN /\ committed' \in BOOLEAN /\ Typed
    BY <1>1, <1>2 DEF Inv, Typed
  <2> QED BY <1>1, <1>4, <1>5, <2>1, ReadTypes
<1>7. Reads'
  <2>1. \A i, j \in DOMAIN queue' :
          queue'[i] = Idle("refresh") /\ queue'[j] = Idle("refresh")
            => i = j /\ reader["refresh"].pc = "idle"
    <3>1. <<w>> \in Seq(Write \cup {Idle("settled")})
      BY DEF w
    <3> QED BY <1>5, <3>1, QueueAppend DEF Inv
  <2> QED BY <1>1, <1>4, <2>1 DEF Inv, Reads, Idle, Answered
<1>8. ASSUME AllSlow PROVE StrokesInv'
  <2>1. Carried' = Carried
    BY <1>1, <1>5 DEF Carried, Texts, ReadFrame
  <2> QED BY <1>1, <1>4, <2>1, <1>8 DEF Inv, StrokesInv, Strokes, Waiting, ReadFrame
<1>9. PageOwed' /\ StaleKnown'
  BY <1>1, <1>4 DEF Inv, PageOwed, StaleKnown, ReadFrame
<1> QED BY <1>6, <1>7, <1>8, <1>9 DEF Inv

\* A save of everything is a save of the one block that can be dirty.
LEMMA FoldNone ==
  ASSUME NEW base, NEW seq, DOMAIN seq = {}
  PROVE  FoldLeft(Flush, base, seq) = base
<1> DEFINE iter == [s \in SUBSET (DOMAIN seq) |-> base]
           F(g) == [s \in SUBSET (DOMAIN seq) |->
                      IF s = {} THEN base ELSE Flush(g[s \ {Max(s)}], seq[Max(s)])]
<1>1. SUBSET (DOMAIN seq) = {{}}
  OBVIOUS
<1>2. \A g : F(g)[{}] = base
  BY <1>1
<1>3. iter = F(iter)
  BY <1>1, Zenon
<1>4. FoldLeft(Flush, base, seq) = (CHOOSE g : g = F(g))[{}]
  BY DEF FoldLeft, MapThenFoldSet
<1> HIDE DEF iter, F
<1> QED BY <1>2, <1>3, <1>4, Zenon

LEMMA FoldOne ==
  ASSUME NEW base, NEW seq, DOMAIN seq = {1}
  PROVE  FoldLeft(Flush, base, seq) = Flush(base, seq[1])
<1>1. /\ Max({1}) = 1 /\ {1} \ {1} = {} /\ {1} # {}
      /\ SUBSET {1} = {{}, {1}}
  BY DEF Max
<1> DEFINE F(g) == [s \in SUBSET {1} |->
                      IF s = {} THEN base ELSE Flush(g[s \ {Max(s)}], seq[Max(s)])]
           once == [s \in SUBSET {1} |-> IF s = {} THEN base ELSE Flush(base, seq[1])]
<1>2. once = F(once)
  <2>1. {} \in SUBSET {1} /\ {1} \in SUBSET {1}
    BY <1>1
  <2>2. once[{}] = base
    BY <2>1, Zenon
  <2>3. ASSUME NEW s \in SUBSET {1}
        PROVE  (IF s = {} THEN base ELSE Flush(base, seq[1]))
               = (IF s = {} THEN base ELSE Flush(once[s \ {Max(s)}], seq[Max(s)]))
    <3>1. s = {} \/ s = {1}
      BY <1>1
    <3> HIDE DEF once
    <3> QED BY <1>1, <2>2, <3>1, Zenon
  <2> QED BY <2>3, Zenon
<1>3. ASSUME NEW g, g = F(g) PROVE g[{1}] = Flush(base, seq[1])
  <2>1. {} \in SUBSET {1} /\ {1} \in SUBSET {1}
    BY <1>1
  <2>2. F(g)[{}] = base
    BY <2>1, Zenon
  <2>3. F(g)[{1}] = Flush(g[{1} \ {Max({1})}], seq[Max({1})])
    BY <1>1, <2>1, Zenon
  <2> HIDE DEF F
  <2> QED BY <1>1, <1>3, <2>2, <2>3, Zenon
<1>4. FoldLeft(Flush, base, seq) = (CHOOSE g : g = F(g))[{1}]
  BY DEF FoldLeft, MapThenFoldSet
<1> HIDE DEF F, once
<1> QED BY <1>2, <1>3, <1>4, Zenon

LEMMA SmallLists ==
  /\ DOMAIN SetToSeq({}) = {}
  /\ \A b : DOMAIN SetToSeq({b}) = {1} /\ SetToSeq({b})[1] = b
<1>1. Cardinality({}) = 0 /\ 1..0 = {}
  BY FS_EmptySet
<1>2. DOMAIN SetToSeq({}) = {}
  <2> DEFINE S == {f \in [{} -> {}] : IsInjective(f)}
  <2>1. [x \in {} |-> x] \in S
    BY DEF IsInjective
  <2>2. SetToSeq({}) \in S
    <3>1. SetToSeq({}) = CHOOSE f \in [{} -> {}] : IsInjective(f)
      BY <1>1, Zenon DEF SetToSeq
    <3> QED BY <2>1, <3>1, Zenon
  <2> QED BY <2>2
<1>3. ASSUME NEW b PROVE DOMAIN SetToSeq({b}) = {1} /\ SetToSeq({b})[1] = b
  <2>1. Cardinality({b}) = 1 /\ 1..1 = {1}
    BY FS_Singleton
  <2> DEFINE S == {f \in [{1} -> {b}] : IsInjective(f)}
  <2>2. [x \in {1} |-> b] \in S
    BY DEF IsInjective
  <2>3. SetToSeq({b}) \in S
    <3>1. SetToSeq({b}) = CHOOSE f \in [{1} -> {b}] : IsInjective(f)
      BY <2>1, Zenon DEF SetToSeq
    <3> QED BY <2>2, <3>1, Zenon
  <2> QED BY <2>3
<1> QED BY <1>2, <1>3

LEMMA FlushAllFacts ==
  ASSUME NEW p \in Page, Fit(p)
  PROVE  LET f == FlushAll(p)
         IN  f \in Result /\ Fit(f.page) /\ f.page.dirty = {} /\ Accounts(p, f)
<1>1. CASE p.dirty = {}
  <2>1. FlushAll(p) = NoWrites(p)
    BY <1>1, FoldNone, SmallLists, Zenon DEF FlushAll
  <2>2. NoWrites(p) \in Result /\ NoWrites(p).page = p /\ NoWrites(p).writes = <<>>
    BY NoWritesFacts
  <2>3. Accounts(p, NoWrites(p))
    BY <2>2 DEF Accounts
  <2> QED BY <1>1, <2>1, <2>2, <2>3
<1>2. CASE p.dirty # {}
  <2>1. /\ p.active \in Block /\ p.dirty = {p.active}
    BY <1>2, EditorConstants DEF Fit, Page
  <2> DEFINE b == p.active
             s == SetToSeq({b})
  <2>2. DOMAIN s = {1} /\ s[1] = b
    BY SmallLists, Zenon
  <2>3. FlushAll(p) = FoldLeft(Flush, NoWrites(p), s)
    BY <2>1, Zenon DEF FlushAll
  <2> HIDE DEF s
  <2>4. FlushAll(p) = Flush(NoWrites(p), b)
    BY <2>2, <2>3, FoldOne, Zenon
  <2> QED BY <2>1, <2>4, FlushAccounts
<1> QED BY <1>1, <1>2

LEMMA RefreshKeeps == ASSUME Inv, Refresh PROVE Inv'
<1> DEFINE f == FlushAll(page)
           w == f.writes
           i == Idle("refresh")
           q == queue \o w
<1>1. /\ open /\ reader["refresh"].pc = "off" /\ wanted' = FALSE /\ page' = f.page
      /\ issued + Len(w) <= MaxWrites /\ issued' = issued + Len(w)
      /\ queue' = Append(q, i) /\ reader' = [reader EXCEPT !["refresh"].pc = "idle"]
      /\ UNCHANGED <<again, missed, committed, saved, open, typed, accounted, upsets>>
  BY DEF Refresh, To, ReadFrame
<1>2. /\ page \in Page /\ Fit(page) /\ queue \in Seq(Write \cup Waiter)
      /\ issued \in Nat /\ MaxWrites \in Nat /\ reader \in [Reader -> ReaderState]
  BY EditorConstants DEF Inv, Typed, Fit
<1>3. f \in Result /\ Fit(f.page) /\ f.page.dirty = {} /\ Accounts(page, f)
  BY <1>2, FlushAllFacts
<1>4. w \in Seq(Write) /\ w \in Seq(Write \cup Waiter) /\ Len(w) \in Nat
  BY <1>3 DEF Result
<1>5. i \in Waiter
  BY DEF Waiter, Idle, Reader
<1>6. \A n \in DOMAIN q : q[n] # i
  <2>1. \A n \in DOMAIN queue : queue[n] # i
    BY <1>1 DEF Inv, Reads
  <2>2. \A x \in Write : x # i
    BY DEF Write, Idle
  <2>3. \A n \in DOMAIN w : w[n] # i
    BY <1>4, <2>2
  <2> HIDE DEF i, w
  <2>4. DOMAIN q = 1..(Len(queue) + Len(w))
    BY <1>2, <1>4
  <2>5. \A n \in DOMAIN q : \/ n \in DOMAIN queue /\ q[n] = queue[n]
                            \/ n - Len(queue) \in DOMAIN w /\ q[n] = w[n - Len(queue)]
    BY <1>2, <1>4, <2>4
  <2> QED BY <2>1, <2>3, <2>5
<1> HIDE DEF w, i
<1>7. /\ q \in Seq(Write \cup Waiter) /\ Texts(q) = Texts(queue) \cup Texts(w)
      /\ Working(q) <=> Working(queue) \/ Working(w)
  BY <1>2, <1>4, ConcatFacts, Zenon
<1> HIDE DEF q, f
<1>8. /\ queue' \in Seq(Write \cup Waiter) /\ Texts(queue') = Texts(q)
  <2>1. /\ <<i>> \in Seq(Write \cup Waiter) /\ Texts(<<i>>) = {} /\ ~Working(<<i>>)
    BY <1>5, SmallQueues, Zenon
  <2>2. queue' = q \o <<i>>
    BY <1>1, <1>5, <1>7
  <2>3. /\ q \o <<i>> \in Seq(Write \cup Waiter)
        /\ Texts(q \o <<i>>) = Texts(q) \cup Texts(<<i>>)
    BY <1>7, <2>1, ConcatFacts, Zenon
  <2> QED BY <2>1, <2>2, <2>3
<1>9. /\ reader' \in [Reader -> ReaderState] /\ reader'["refresh"].pc = "idle"
      /\ \A x \in Reader : reader'[x].mark = reader[x].mark /\ reader'[x].seen = reader[x].seen
      /\ reader'["settled"] = reader["settled"]
  <2>1. "refresh" \in Reader /\ "settled" \in Reader \ {"refresh"} /\ "idle" \in ReaderPC
    BY DEF Reader, ReaderPC
  <2> QED BY <1>1, <1>2, <2>1, ToFacts
<1>10. issued' \in 0..MaxWrites /\ issued <= issued' /\ issued' \in Nat
  BY <1>1, <1>2, <1>4
<1>11. Typed'
  <2>1. /\ Fit(page') /\ again' \in BOOLEAN /\ wanted' \in BOOLEAN /\ committed' \in BOOLEAN
        /\ missed' \in BOOLEAN
        /\ Typed /\ ReadFrame
    BY <1>1, <1>3 DEF Inv, Typed, ReadFrame
  <2> QED BY <1>8, <1>9, <1>10, <2>1, ReadTypes
<1>12. Reads'
  <2>1. \A m, n \in DOMAIN queue' : queue'[m] = i /\ queue'[n] = i => m = n
    <3>1. \A n \in DOMAIN queue' : queue'[n] = i => n = Len(q) + 1
      BY <1>1, <1>6, <1>7
    <3> QED BY <3>1
  <2>2. \A x \in Reader : reader'[x].mark <= issued'
    <3>1. \A x \in Reader : reader[x].mark \in Nat /\ reader[x].mark <= issued
      BY <1>2 DEF Inv, Reads, ReaderState
    <3> QED BY <1>2, <1>9, <1>10, <3>1
  <2>3. page'.dirty = {}
    BY <1>1, <1>3
  <2> QED BY <1>9, <2>1, <2>2, <2>3 DEF Reads, Idle, Answered, i
<1>13. ASSUME AllSlow PROVE StrokesInv'
  <2>1. Carried' = Carried \cup Texts(w)
    BY <1>1, <1>7, <1>8 DEF Carried, Texts
  <2>2. Strokes(page.content)' \subseteq Strokes(page.content) \cup Texts(w)
    BY <1>1, <1>3 DEF Accounts, Strokes, w
  <2>3. Waiting(page) \subseteq Strokes(page.content) \cup Texts(w) \cup Waiting(page)'
    BY <1>13, <1>1, <1>3 DEF Accounts, Waiting, w
  <2>4. /\ Strokes(saved)' = Strokes(saved) /\ typed' = typed /\ accounted' = accounted
        /\ \A x \in Reader : Strokes(reader[x].seen)' = Strokes(reader[x].seen)
    BY <1>1, <1>9 DEF Strokes
  <2> QED BY <2>1, <2>2, <2>3, <2>4, <1>13 DEF Inv, StrokesInv
<1>14. PageOwed' /\ StaleKnown'
  BY <1>1, <1>9 DEF Inv, PageOwed, Refreshes, StaleKnown
<1> QED BY <1>11, <1>12, <1>13, <1>14 DEF Inv

LEMMA StartReadKeeps == ASSUME Inv, StartRead PROVE Inv'
<1> DEFINE r == Head(queue).reader
<1>1. /\ queue # <<>> /\ Head(queue).kind = "idle" /\ queue' = Tail(queue) /\ ReadFrame
      /\ UNCHANGED <<page, issued, again, missed, wanted, committed>>
      /\ reader \in [Reader -> ReaderState] /\ queue \in Seq(Write \cup Waiter)
      /\ issued \in 0..MaxWrites /\ MaxWrites \in Nat
  BY EditorConstants DEF StartRead, Inv, Typed
<1>2. /\ r = "settled" \/ r = "refresh"
      /\ Head(queue) = Idle(r)
  <2>1. Head(queue) \in Waiter
    BY <1>1, TailFacts DEF IsWrite, Write
  <2> QED BY <2>1 DEF Waiter, Reader, Idle
<1>3. \/ /\ r = "settled" /\ page.dirty # {} /\ reader' = [reader EXCEPT !["settled"].pc = "wait"]
      \/ /\ ~(r = "settled" /\ page.dirty # {})
         /\ reader' = [reader EXCEPT ![r].pc = "asked", ![r].mark = WriteMark]
  BY Zenon DEF StartRead, To
<1>4. r = "refresh" => reader["refresh"].pc = "idle"
  <2>1. 1 \in DOMAIN queue /\ queue[1] = Head(queue)
    BY <1>1
  <2> QED BY <1>2, <2>1 DEF Inv, Reads
<1> HIDE DEF r
<1>5. /\ queue' \in Seq(Write \cup Waiter) /\ Texts(queue') = Texts(queue)
      /\ Working(queue') <=> Working(queue)
  BY <1>1, TailFacts DEF IsWrite
<1>6. WriteMark \in Nat /\ (page.dirty = {} => WriteMark = issued) /\ WriteMark' = WriteMark
  BY <1>1 DEF WriteMark
<1>7. /\ reader' \in [Reader -> ReaderState]
      /\ \A x \in Reader : reader'[x].seen = reader[x].seen /\ (reader'[x].mark <= issued)
      /\ reader'["settled"].pc \notin Answered \/ reader'["settled"] = reader["settled"]
      /\ reader'["refresh"].pc \notin Answered \/ reader'["refresh"] = reader["refresh"]
      /\ \/ /\ reader'["settled"].pc \in {"wait", "asked"} /\ r = "settled"
            /\ reader'["refresh"] = reader["refresh"]
         \/ /\ reader'["settled"] = reader["settled"] /\ r = "refresh"
            /\ reader["refresh"].pc = "idle"
            /\ reader'["refresh"].pc = "asked" /\ reader'["refresh"].mark = WriteMark
  <2>1. \A x \in Reader : reader[x].mark <= issued
    BY DEF Inv, Reads
  <2>2. "settled" \in Reader /\ "refresh" \in Reader /\ {"wait", "asked"} \subseteq ReaderPC
        /\ \A x \in Reader : x = "settled" \/ x = "refresh"
    BY DEF Reader, ReaderPC
  <2>3. CASE /\ r = "settled" /\ reader' = [reader EXCEPT !["settled"].pc = "wait"]
    BY <1>1, <2>1, <2>2, <2>3 DEF ReaderState, Answered
  <2>4. CASE /\ r = "settled" /\ page.dirty = {}
             /\ reader' = [reader EXCEPT !["settled"].pc = "asked", !["settled"].mark = WriteMark]
    <3> HIDE DEF WriteMark
    <3>1. WriteMark <= issued
      BY <1>1, <1>6, <2>4
    <3> QED BY <1>1, <1>6, <2>1, <2>2, <2>4, <3>1 DEF ReaderState, Answered
  <2>5. CASE /\ r = "refresh"
             /\ reader' = [reader EXCEPT !["refresh"].pc = "asked", !["refresh"].mark = WriteMark]
    <3>1. page.dirty = {}
      BY <1>4, <2>5 DEF Inv, Reads
    <3>2. WriteMark <= issued
      BY <1>1, <1>6, <3>1
    <3> QED BY <1>1, <1>4, <1>6, <2>1, <2>2, <2>5, <3>2 DEF ReaderState, Answered
  <2> QED BY <1>2, <1>3, <2>3, <2>4, <2>5
<1>8. Typed'
  <2>1. /\ Fit(page') /\ issued' \in 0..MaxWrites /\ again' \in BOOLEAN
        /\ wanted' \in BOOLEAN /\ missed' \in BOOLEAN /\ committed' \in BOOLEAN /\ Typed
    BY <1>1 DEF Inv, Typed
  <2> QED BY <1>1, <1>5, <1>7, <2>1, ReadTypes
<1>9. Reads'
  <2>1. \A i, j \in DOMAIN queue' :
          queue'[i] = Idle("refresh") /\ queue'[j] = Idle("refresh")
            => i = j /\ reader["refresh"].pc = "idle" /\ Head(queue) # Idle("refresh")
    BY <1>1, TailReads DEF Inv
  <2>2. \A i, j \in DOMAIN queue' :
          queue'[i] = Idle("refresh") /\ queue'[j] = Idle("refresh")
            => i = j /\ reader'["refresh"].pc = "idle"
    BY <1>2, <1>7, <2>1
  <2>3. reader'["refresh"].pc # "off" => page'.dirty = {}
    BY <1>1, <1>7 DEF Inv, Reads
  <2>4. ~(reader'["settled"].pc \in Answered /\ reader'["refresh"].pc \in Answered)
    BY <1>7 DEF Inv, Reads, Answered
  <2>5. \A x \in Reader : reader'[x].mark <= issued'
    BY <1>1, <1>7
  <2> QED BY <2>2, <2>3, <2>4, <2>5 DEF Reads, Idle
<1>10. ASSUME AllSlow PROVE StrokesInv'
  <2>1. Carried' = Carried
    BY <1>1, <1>5 DEF Carried, Texts, ReadFrame
  <2> QED BY <1>1, <1>7, <2>1, <1>10 DEF Inv, StrokesInv, Strokes, Waiting, ReadFrame
<1>11. PageOwed'
  <2>1. Working(queue) => Working(queue)'
    BY <1>5 DEF Working
  <2> QED BY <1>1, <1>6, <1>7, <2>1 DEF Inv, PageOwed, Refreshes, ReadFrame
<1>12. StaleKnown'
  BY <1>1, <1>7 DEF Inv, StaleKnown, ReadFrame, Answered
<1> QED BY <1>8, <1>9, <1>10, <1>11, <1>12 DEF Inv

\* One reader has an answer, or hears that there is none.
LEMMA ServeKeeps == ASSUME Inv, NEW r \in Reader, Serve(r) PROVE Inv'
<1>1. /\ reader[r].pc = "asked" /\ \A x \in Reader : reader[x].pc \notin Answered
      /\ \/ reader' = [reader EXCEPT ![r].pc = "served", ![r].seen = saved]
         \/ reader' = [reader EXCEPT ![r].pc = "failed"]
      /\ ReadFrame /\ UNCHANGED <<page, queue, issued, again, missed, wanted, committed>>
      /\ reader \in [Reader -> ReaderState] /\ saved \in [Block -> Text]
  BY DEF Serve, To, Inv, Typed
<1>2. "settled" \in Reader /\ "refresh" \in Reader /\ \A x \in Reader : x \in {"settled", "refresh"}
  BY DEF Reader
<1>3. /\ reader' \in [Reader -> ReaderState] /\ reader'[r].mark = reader[r].mark
      /\ \/ reader'[r].pc = "served" /\ reader'[r].seen = saved
         \/ reader'[r].pc = "failed" /\ reader'[r].seen = reader[r].seen
      /\ \A x \in Reader \ {r} : reader'[x] = reader[x]
  <2>1. CASE reader' = [reader EXCEPT ![r].pc = "served", ![r].seen = saved]
    BY <1>1, <2>1 DEF ReaderState, ReaderPC
  <2>2. CASE reader' = [reader EXCEPT ![r].pc = "failed"]
    BY <1>1, <2>2 DEF ReaderState, ReaderPC
  <2> QED BY <1>1, <2>1, <2>2
<1>4. Typed'
  <2>1. /\ Fit(page') /\ queue' \in Seq(Write \cup Waiter) /\ issued' \in 0..MaxWrites
        /\ again' \in BOOLEAN /\ wanted' \in BOOLEAN /\ missed' \in BOOLEAN
        /\ committed' \in BOOLEAN /\ Typed
    BY <1>1 DEF Inv, Typed
  <2> QED BY <1>1, <1>3, <2>1, ReadTypes
<1>5. Reads'
  <2>1. reader'["refresh"].pc = "idle" <=> reader["refresh"].pc = "idle"
    BY <1>1, <1>2, <1>3
  <2>2. reader'["refresh"].pc # "off" <=> reader["refresh"].pc # "off"
    BY <1>1, <1>2, <1>3
  <2>3. ~(reader'["settled"].pc \in Answered /\ reader'["refresh"].pc \in Answered)
    BY <1>1, <1>2, <1>3 DEF Answered
  <2>4. \A x \in Reader : reader'[x].mark = reader[x].mark
    BY <1>3
  <2> QED BY <1>1, <2>1, <2>2, <2>3, <2>4 DEF Inv, Reads, Idle
<1>6. ASSUME AllSlow PROVE StrokesInv'
  <2>1. \A x \in Reader : reader'[x].seen = reader[x].seen \/ reader'[x].seen = saved
    BY <1>3
  <2>2. \A x \in Reader : Strokes(reader'[x].seen) \subseteq accounted
    BY <2>1, <1>6 DEF Inv, StrokesInv
  <2> QED BY <1>1, <2>2, <1>6 DEF Inv, StrokesInv, Strokes, Waiting, Carried, Texts, ReadFrame
<1>7. PageOwed' /\ StaleKnown'
  <2>1. CASE r = "settled"
    <3>1. reader'["refresh"] = reader["refresh"]
      BY <1>2, <1>3, <2>1
    <3> QED BY <1>1, <1>2, <1>3, <2>1, <3>1
        DEF Inv, PageOwed, StaleKnown, Refreshes, WriteMark, ReadFrame, Working, Answered
  <2>2. CASE r = "refresh"
    <3>1. reader'["settled"] = reader["settled"]
      BY <1>2, <1>3, <2>2
    <3> QED BY <1>1, <1>2, <1>3, <2>2, <3>1
        DEF Inv, PageOwed, StaleKnown, Refreshes, WriteMark, ReadFrame, Working, Answered
  <2> QED BY <1>2, <2>1, <2>2
<1> QED BY <1>4, <1>5, <1>6, <1>7 DEF Inv

\* The replica's page replaces a page at rest.
LEMMA AdoptFacts ==
  ASSUME NEW p \in Page, p.dirty = {}, NEW seen \in [Block -> Text]
  PROVE  Fit(Adopt(p, seen)) /\ Adopt(p, seen).content = seen /\ Adopt(p, seen).dirty = {}
<1> DEFINE s == [p EXCEPT !.content = seen]
           q == SyncTexts(s)
           a == IF q.active # None /\ q.live[q.active] = Gone THEN None ELSE q.active
           z == [q EXCEPT !.active = a]
<1>1. Adopt(p, seen) = z
  BY Zenon DEF Adopt
<1>2. s \in Page /\ s.content = seen /\ s.dirty = {}
  BY DEF Page
<1> HIDE DEF s
<1>3. q \in Page /\ Together(q) /\ q.content = seen /\ q.dirty = {}
  BY <1>2, SyncFacts, Zenon
<1> HIDE DEF q
<1>4. a \in Block \cup {None} /\ (a # None => q.content[a] # Gone)
  BY <1>3 DEF Page, Together
<1> HIDE DEF a
<1>5. Fit(z) /\ z.content = q.content /\ z.dirty = {}
  BY <1>3, <1>4, MoveCaret
<1> QED BY <1>1, <1>3, <1>5

LEMMA FinishReadKeeps == ASSUME Inv, NEW r \in Reader, FinishRead(r) PROVE Inv'
<1> DEFINE blank == [b \in Block |-> Gone]
           failed == reader[r].pc = "failed"
           raced == ~failed /\ ~Unraced(reader[r].mark)
           more == r = "settled" /\ (again \/ raced)
           new == [pc |-> IF more THEN "loop" ELSE "off", mark |-> 0, seen |-> blank]
<1>1. /\ open /\ reader[r].pc \in {"served", "failed"} /\ ReadFrame
      /\ page' = IF failed \/ raced THEN page ELSE Adopt(page, reader[r].seen)
      /\ missed' = (failed \/ (raced /\ missed))
      /\ reader' = [reader EXCEPT ![r] = new]
      /\ UNCHANGED <<queue, issued, again, wanted, committed>>
  BY Zenon DEF FinishRead, Answered
<1>2. /\ reader \in [Reader -> ReaderState] /\ page \in Page /\ Fit(page)
      /\ issued \in Nat /\ MaxWrites \in Nat
  BY EditorConstants DEF Inv, Typed, Fit
<1>3. /\ "settled" \in Reader /\ "refresh" \in Reader
      /\ \A x \in Reader : x \in {"settled", "refresh"}
  BY DEF Reader
<1>4. new \in ReaderState /\ new.pc \in {"loop", "off"} /\ new.mark = 0 /\ new.seen = blank
  <2>1. blank \in [Block -> Text]
    BY TextFacts
  <2> QED BY <2>1 DEF ReaderState, ReaderPC
<1>5. /\ r = "settled" /\ (again \/ raced) => new.pc = "loop"
      /\ r = "refresh" => new.pc = "off"
  OBVIOUS
<1>6. Strokes(blank) = {}
  BY TextFacts DEF Strokes
<1> HIDE DEF new, blank
<1>7. /\ reader' \in [Reader -> ReaderState] /\ reader'[r] = new
      /\ \A x \in Reader \ {r} : reader'[x] = reader[x]
  BY <1>1, <1>2, <1>4
<1>8. Unraced(reader[r].mark) => page.dirty = {}
  <2>1. reader[r].mark \in Nat /\ reader[r].mark <= issued
    BY <1>2 DEF Inv, Reads, ReaderState
  <2> QED BY <1>2, <2>1 DEF Unraced, WriteMark
<1>9. \/ /\ reader[r].pc = "served" /\ Fit(page') /\ page'.content = reader[r].seen
         /\ page'.dirty = {} /\ page.dirty = {}
      \/ page' = page /\ missed'
      \/ page' = page /\ missed' = missed /\ raced
  <2>1. CASE ~failed /\ ~raced
    <3>1. reader[r].seen \in [Block -> Text]
      BY <1>2 DEF ReaderState
    <3> QED BY <1>1, <1>2, <1>8, <2>1, <3>1, AdoptFacts
  <2>2. CASE failed
    BY <1>1, <2>2
  <2>3. CASE ~failed /\ raced
    <3>1. missed \in BOOLEAN
      BY DEF Inv, Typed
    <3> QED BY <1>1, <2>3, <3>1
  <2> QED BY <2>1, <2>2, <2>3
<1>10. Fit(page') /\ (page.dirty = {} => page'.dirty = {}) /\ (page'.dirty = {} <=> page.dirty = {})
  BY <1>2, <1>9
<1>11. Typed'
  <2>1. /\ queue' \in Seq(Write \cup Waiter) /\ issued' \in 0..MaxWrites
        /\ again' \in BOOLEAN /\ wanted' \in BOOLEAN /\ missed' \in BOOLEAN
        /\ committed' \in BOOLEAN /\ Typed
    BY <1>1 DEF Inv, Typed
  <2> QED BY <1>1, <1>7, <1>10, <2>1, ReadTypes
<1>12. Reads'
  <2>1. reader'["refresh"].pc = "idle" <=> reader["refresh"].pc = "idle"
    BY <1>1, <1>3, <1>5, <1>7
  <2>2. \A i, j \in DOMAIN queue' :
          queue'[i] = Idle("refresh") /\ queue'[j] = Idle("refresh")
            => i = j /\ reader'["refresh"].pc = "idle"
    BY <1>1, <2>1 DEF Inv, Reads
  <2>3. reader'["refresh"].pc # "off" => page'.dirty = {}
    BY <1>3, <1>5, <1>7, <1>10 DEF Inv, Reads
  <2>4. ~(reader'["settled"].pc \in Answered /\ reader'["refresh"].pc \in Answered)
    BY <1>3, <1>4, <1>7 DEF Inv, Reads, Answered
  <2>5. \A x \in Reader : reader'[x].mark <= issued'
    BY <1>1, <1>2, <1>4, <1>7 DEF Inv, Reads
  <2> QED BY <2>2, <2>3, <2>4, <2>5 DEF Reads, Idle
<1>13. ASSUME AllSlow PROVE StrokesInv'
  <2>1. \A x \in Reader : Strokes(reader'[x].seen) \subseteq accounted
    BY <1>4, <1>6, <1>7, <1>13 DEF Inv, StrokesInv
  <2>2. Carried' = Carried /\ Strokes(saved)' = Strokes(saved)
    BY <1>1 DEF Carried, Texts, Strokes, ReadFrame
  <2>3. Strokes(page.content)' \subseteq Carried
    <3>1. Strokes(page'.content) \subseteq Carried
      BY <1>9, <1>13 DEF Inv, StrokesInv, Carried
    <3> QED BY <3>1 DEF Strokes
  <2>4. Waiting(page)' = Waiting(page)
    BY <1>9 DEF Waiting
  <2> QED BY <1>1, <2>1, <2>2, <2>3, <2>4, <1>13 DEF Inv, StrokesInv, ReadFrame, Strokes
<1>14. WriteMark' = WriteMark
  BY <1>1, <1>10 DEF WriteMark
<1>15. PageOwed'
  <2>1. saved' = saved /\ open' = open /\ Working(queue)' = Working(queue)
    BY <1>1 DEF ReadFrame, Working
  <2>2. CASE reader[r].pc = "served" /\ page'.content = reader[r].seen
    <3>1. CASE r = "settled"
      BY <1>1, <1>3, <1>5, <1>7, <2>1, <2>2, <3>1 DEF Inv, PageOwed, StaleKnown
    <3>2. CASE r = "refresh"
      BY <1>1, <1>3, <1>5, <1>7, <2>1, <2>2, <3>2 DEF Inv, PageOwed, StaleKnown
    <3> QED BY <1>3, <3>1, <3>2
  <2>3. CASE missed'
    BY <2>3 DEF PageOwed
  <2>4. CASE page' = page /\ missed' = missed /\ raced
    <3>1. CASE r = "settled"
      BY <1>1, <1>3, <1>5, <1>7, <2>4, <3>1 DEF PageOwed
    <3>2. CASE r = "refresh"
      <4>1. reader'["settled"] = reader["settled"]
        BY <1>3, <1>7, <3>2
      <4>2. Refreshes => wanted
        BY <1>1, <2>4, <3>2 DEF Refreshes, Unraced
      <4> QED BY <1>1, <2>1, <2>4, <4>1, <4>2 DEF Inv, PageOwed, Refreshes
    <3> QED BY <1>3, <3>1, <3>2
  <2> QED BY <1>9, <2>2, <2>3, <2>4
<1>16. StaleKnown'
  <2>1. saved' = saved
    BY <1>1 DEF ReadFrame
  <2>2. CASE r = "settled"
    <3>1. reader'["refresh"] = reader["refresh"] /\ reader'["settled"].pc # "served"
      BY <1>3, <1>4, <1>7, <2>2
    <3> QED BY <1>1, <2>1, <2>2, <3>1 DEF Inv, StaleKnown
  <2>3. CASE r = "refresh"
    <3>1. reader'["settled"] = reader["settled"] /\ reader'["refresh"].pc # "served"
      BY <1>3, <1>4, <1>7, <2>3
    <3> QED BY <1>1, <2>1, <3>1 DEF Inv, StaleKnown
  <2> QED BY <1>3, <2>2, <2>3
<1> QED BY <1>11, <1>12, <1>13, <1>15, <1>16 DEF Inv

-----------------------------------------------------------------------------
(* The theorems *)

LEMMA InitInv == Init => Inv
<1> SUFFICES ASSUME Init PROVE Inv
  OBVIOUS
<1> DEFINE s == [b \in Block |-> IF b \in Start THEN {} ELSE Gone]
           blank == [b \in Block |-> Gone]
<1>1. /\ saved = s /\ queue = <<>> /\ issued = 0 /\ ~again /\ ~missed /\ ~wanted /\ ~committed
      /\ again \in BOOLEAN /\ missed \in BOOLEAN /\ wanted \in BOOLEAN
      /\ committed \in BOOLEAN /\ open \in BOOLEAN
      /\ page = [content |-> s, live |-> s, dirty |-> {}, active |-> None, focused |-> FALSE]
      /\ reader = [r \in Reader |-> [pc |-> "off", mark |-> 0, seen |-> blank]]
      /\ typed = {} /\ accounted = {} /\ upsets = 0
  BY DEF Init, Opens
<1>2. /\ s \in [Block -> Text] /\ blank \in [Block -> Text]
      /\ \A b \in Block : s[b] \cap Stroke = {} /\ blank[b] \cap Stroke = {}
  BY TextFacts
<1> HIDE DEF s, blank
<1>3. Strokes(s) = {} /\ Strokes(blank) = {}
  BY <1>2 DEF Strokes
<1>4. /\ page.content = s /\ page.live = s /\ page.dirty = {} /\ page.active = None
      /\ page \in Page
  BY <1>1, <1>2 DEF Page
<1>5. Fit(page)
  BY <1>4 DEF Fit, Together
<1>6. /\ reader \in [Reader -> ReaderState]
      /\ \A r \in Reader : reader[r].pc = "off" /\ reader[r].mark = 0 /\ reader[r].seen = blank
  BY <1>1, <1>2 DEF ReaderState, ReaderPC
<1>7. reader["refresh"].pc = "off" /\ reader["settled"].pc = "off"
  BY <1>6 DEF Reader
<1>8. DOMAIN queue = {} /\ queue \in Seq(Write \cup Waiter) /\ Texts(queue) = {}
  BY <1>1, SmallQueues
<1>9. Typed
  BY <1>1, <1>2, <1>5, <1>6, <1>8, EditorConstants DEF Typed
<1>10. Reads
  BY <1>1, <1>6, <1>7, <1>8 DEF Reads, Answered
<1>11. StrokesInv
  BY <1>1, <1>3, <1>4, <1>6 DEF StrokesInv
<1>12. PageOwed /\ StaleKnown
  BY <1>1, <1>4, <1>7 DEF PageOwed, StaleKnown
<1> QED BY <1>9, <1>10, <1>11, <1>12 DEF Inv

LEMMA StutterKeeps == ASSUME Inv, UNCHANGED vars PROVE Inv'
<1> USE DEF vars
<1>1. Typed'
  BY DEF Inv, Typed, Fit, Together
<1>2. Reads'
  BY DEF Inv, Reads, Idle
<1>3. ASSUME AllSlow PROVE StrokesInv'
  BY <1>3 DEF Inv, StrokesInv, Strokes, Waiting, Carried, Texts
<1>4. PageOwed' /\ StaleKnown'
  BY DEF Inv, PageOwed, StaleKnown, Refreshes, WriteMark, Working
<1> QED BY <1>1, <1>2, <1>3, <1>4 DEF Inv

LEMMA InvStep == ASSUME CaretSlow, Inv, [Next]_vars PROVE Inv'
<1>1. CASE UNCHANGED vars
  BY <1>1, StutterKeeps
<1>2. ASSUME NEW b \in Block, Key(b) PROVE Inv'
  BY <1>2, TypeKeeps, SaveDueKeeps, ReshapeKeeps, SplitKeeps, MergeKeeps, AddSiblingKeeps,
     CheckKeeps, DeleteSelectedKeeps, FocusKeeps DEF Key
<1>3. CASE Select \/ Blur \/ Close
  BY <1>3, SelectKeeps, BlurKeeps, CloseKeeps
<1>4. CASE Land \/ Remote
  BY <1>4, LandKeeps, RemoteKeeps
<1>5. CASE HearCommit \/ WaitIdle \/ Refresh \/ StartRead
  BY <1>5, HearCommitKeeps, WaitIdleKeeps, RefreshKeeps, StartReadKeeps
<1>6. ASSUME NEW r \in Reader, Serve(r) \/ FinishRead(r) PROVE Inv'
  BY <1>6, ServeKeeps, FinishReadKeeps
<1> QED BY <1>1, <1>2, <1>3, <1>4, <1>5, <1>6, Zenon DEF Next

LEMMA AlwaysInv == ASSUME CaretSlow PROVE Spec => []Inv
<1>1. Inv /\ [Next]_vars => Inv'
  BY InvStep
<1> QED BY InitInv, <1>1, PTL DEF Spec

\* Each variable of the editor holds a value of its type, and the caret is
\* always in a block that is shown.
THEOREM EditorTypes == ASSUME CaretSlow PROVE Spec => []TypeOK
<1>1. Inv => TypeOK
  BY DEF Inv, Typed, Fit, Page, TypeOK
<1> QED BY <1>1, AlwaysInv, PTL

\* No typing is lost between the screen, the page, the lane and the replica,
\* whatever key, answer or other device comes first (flush_save, commit, adopt).
THEOREM StrokesKept == ASSUME AllSlow PROVE Spec => []NoStrokeLost
<1>1. Inv => NoStrokeLost
  <2> SUFFICES ASSUME Inv, NEW s \in typed,
                      s \notin accounted
               PROVE  \/ \E b \in page.dirty : s \in page.live[b]
                      \/ \E i \in DOMAIN queue : queue[i].kind # "idle" /\ s \in queue[i].text
    BY DEF NoStrokeLost
  <2>1. s \in Texts(queue) \/ s \in Waiting(page)
    BY DEF Inv, StrokesInv, Carried
  <2> QED BY <2>1 DEF Texts, Waiting, IsWrite
<1>2. CaretSlow
  BY SlowKeys
<1> QED BY <1>1, <1>2, AlwaysInv, PTL

\* Whatever raced, a page with nothing left to save, to write or to read is the
\* replica's, unless its last re-read failed (refresh_when_settled,
\* read_unless_raced, adopt).
THEOREM SettledIsSaved == ASSUME CaretSlow PROVE Spec => []SettledPageIsSaved
<1>1. Inv => SettledPageIsSaved
  <2> SUFFICES ASSUME Inv, open, Settled, ~committed, reader["settled"].pc = "off"
               PROVE  page.content = saved \/ missed
    BY DEF SettledPageIsSaved
  <2>1. queue = <<>> /\ reader["refresh"].pc = "off" /\ ~wanted
    BY DEF Settled, Writing
  <2>2. ~Working(queue)
    BY <2>1, SmallQueues
  <2>3. ~Refreshes
    BY <2>1 DEF Refreshes
  <2> QED BY <2>2, <2>3 DEF Inv, PageOwed
<1> QED BY <1>1, AlwaysInv, PTL

=============================================================================
