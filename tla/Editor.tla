--------------------------------- MODULE Editor ---------------------------------
(***************************************************************************)
(* How typing reaches the replica (roostr-editor: editor.rs, the keys and  *)
(* operations that write text, write_queue.rs).  A block's text is on      *)
(* screen (live) before it is in the editor's page (content), and there    *)
(* before a queued write has put it in the replica (saved).  A save waits  *)
(* 600 ms after typing; every write goes through one lane; a read of the   *)
(* replica replaces the page unless an edit raced it.                      *)
(*                                                                         *)
(* A text is the set of strokes in it; 0 is what another device wrote.     *)
(* The tree and undo are in PageHistory.  Slow names what the reader does  *)
(* only when no typing waits to be saved; everything else may happen at    *)
(* any moment of the 600 ms.                                               *)
(***************************************************************************)
EXTENDS Naturals, Sequences, FiniteSets, FiniteSetsExt, SequencesExt

CONSTANTS
  Block, Start,     \* the blocks, and those on the page at first
  None,
  Slow,             \* keys pressed only when nothing is dirty, queued or read
  MaxStrokes, MaxWrites,
  MaxUpsets         \* changes by other devices, and writes the replica refuses

ASSUME EditorConstants ==
  /\ Start \subseteq Block /\ None \notin Block
  /\ Slow \subseteq {"sibling", "select", "close", "refresh"}
  /\ {MaxStrokes, MaxWrites, MaxUpsets} \subseteq Nat

Stroke == 1..MaxStrokes
Gone == {MaxStrokes + 1}      \* the text of a block that is not there
Text == (SUBSET (Stroke \cup {0})) \cup {Gone}
Reader == {"settled", "refresh"}

VARIABLES
  page,        \* content, live, dirty, active and focused of the editor
  queue,       \* WriteQueue: writes, and the idle() calls between them
  issued,
  reader,      \* the two re-reads: refresh_when_settled and refresh
  again,       \* refresh_again
  missed,      \* the last re-read that was not raced failed
  wanted,      \* refresh() is to be called
  saved,       \* the replica's page
  committed,   \* a Committed event is on its way
  open,        \* the editor is
  typed, accounted,   \* strokes made, and those saved, deleted or refused
  upsets

vars == <<page, queue, issued, reader, again, missed, wanted, saved, committed, open,
          typed, accounted, upsets>>

Upset == upsets < MaxUpsets /\ upsets' = upsets + 1

------------------------------------------------------------------------------
(* The page *)

\* sync_live_texts: every text shows its content, but the one being edited
\* keeps what is on screen.
SyncTexts(p) ==
  [p EXCEPT !.live = [b \in Block |->
     IF p.content[b] # Gone /\ p.focused /\ p.active = b /\ p.live[b] # Gone
     THEN p.live[b] ELSE p.content[b]]]

Save(b, text, new) == [kind |-> "save", block |-> b, text |-> text, new |-> new]
Task(b, text) == [kind |-> "task", block |-> b, text |-> text, new |-> FALSE]
Idle(r) == [kind |-> "idle", reader |-> r]

\* Mistaken: a pending save is forgotten once it is due.
FlushForgets(r, b) ==
  LET p == r.page
      q == [p EXCEPT !.dirty = @ \ {b}]
  IN  IF b \notin p.dirty \/ p.content[b] = Gone \/ p.live[b] = Gone THEN r
      ELSE [page |-> q, writes |-> r.writes]

\* flush_save: the typing of b becomes content and a write.  A dirty block that
\* is gone stays dirty.
Flush(r, b) ==
  LET p == r.page
      q == [p EXCEPT !.dirty = @ \ {b}]
  IN  IF b \notin p.dirty \/ p.content[b] = Gone \/ p.live[b] = Gone THEN r
      ELSE IF p.live[b] = p.content[b] THEN [page |-> q, writes |-> r.writes]
      ELSE [page |-> SyncTexts([q EXCEPT !.content[b] = p.live[b]]),
            writes |-> Append(r.writes, Save(b, p.live[b], FALSE))]

NoWrites(p) == [page |-> p, writes |-> <<>>]
FlushOf(p, b) == IF b = None THEN NoWrites(p) ELSE Flush(NoWrites(p), b)
FlushAll(p) == FoldLeft(Flush, NoWrites(p), SetToSeq(p.dirty))

\* commit: the page takes the texts (Gone removes a block) and each is written.
\* The live text of a block being edited is set by its key.
Commit(p, texts, order) ==
  [page |-> SyncTexts([p EXCEPT
              !.content = [b \in Block |-> IF b \in DOMAIN texts THEN texts[b] ELSE @[b]],
              !.live = [b \in Block |-> IF b \in DOMAIN texts THEN texts[b] ELSE @[b]],
              !.dirty = @ \ DOMAIN texts]),
   writes |-> [i \in DOMAIN order |-> Save(order[i], texts[order[i]], p.content[order[i]] = Gone)]]

\* focus_block saves the block the caret leaves.
FocusOn(r, b) ==
  LET s == IF r.page.active \in {None, b} THEN r ELSE Flush(r, r.page.active)
  IN  [s EXCEPT !.page.active = b]

Issue(writes) ==
  /\ issued + Len(writes) <= MaxWrites
  /\ issued' = issued + Len(writes)
  /\ queue' = queue \o writes

\* A key's outcome.
Becomes(r) == page' = r.page /\ Issue(r.writes)

Writing == queue # <<>> \/ reader["refresh"].pc # "off" \/ wanted
Settled == page.dirty = {} /\ ~Writing
Allowed(key) == key \in Slow => Settled

KeyFrame == UNCHANGED <<reader, again, missed, saved, committed, open>>

------------------------------------------------------------------------------
(* Keys: each on the block with the caret *)

Caret(b) == open /\ page.focused /\ page.active = b /\ page.live[b] # Gone

\* edit and on_input: the screen changes, a save is due.
Type(b) ==
  /\ Caret(b) /\ Cardinality(typed) < MaxStrokes
  /\ "refresh" \in Slow => reader["refresh"].pc = "off" /\ ~wanted
  /\ LET s == Cardinality(typed) + 1
     IN  /\ typed' = typed \cup {s}
         /\ page' = [page EXCEPT !.live[b] = @ \cup {s}, !.dirty = @ \cup {b}]
  /\ UNCHANGED <<queue, issued, wanted, accounted, upsets>> /\ KeyFrame

\* The 600 ms timer.
SaveDue(b) ==
  /\ open /\ b \in page.dirty /\ page.content[b] # Gone /\ page.live[b] # Gone
  /\ Becomes(FlushOf(page, b))
  /\ UNCHANGED <<wanted, typed, accounted, upsets>> /\ KeyFrame

\* Tab, outdent and a demoted style write the live text with the change.
Reshape(b) ==
  /\ Caret(b) /\ page.content[b] # Gone
  /\ Becomes(Commit(page, [x \in {b} |-> page.live[b]], <<b>>))
  /\ UNCHANGED <<wanted, typed, accounted, upsets>> /\ KeyFrame

\* enter: the text is parted between the block and a new one.
Split(b) ==
  /\ Caret(b) /\ page.content[b] # Gone
  /\ \E c \in Block, tail \in SUBSET page.live[b] :
       /\ page.content[c] = Gone /\ saved[c] = Gone
       /\ Becomes(FocusOn(Commit(page,
             [x \in {b, c} |-> IF x = c THEN tail ELSE page.live[b] \ tail], <<b, c>>), c))
  /\ UNCHANGED <<wanted, typed, accounted, upsets>> /\ KeyFrame

\* backspace_at_start: the text joins the block before, and its block goes.
Merge(b) ==
  /\ Caret(b) /\ page.content[b] # Gone
  /\ \E c \in Block \ {b} :
       /\ page.content[c] # Gone
       /\ Becomes(FocusOn(Commit(page,
             [x \in {b, c} |-> IF x = b THEN Gone ELSE page.live[c] \cup page.live[b]],
             <<c, b>>), c))
  /\ UNCHANGED <<wanted, typed, accounted, upsets>> /\ KeyFrame

\* add_sibling (Enter at the end of a callout or a closed toggle): the pending
\* save is cancelled, nothing writes the text.
AddSibling(b) ==
  /\ Caret(b) /\ Allowed("sibling")
  /\ \E c \in Block :
       /\ page.content[c] = Gone /\ saved[c] = Gone
       /\ Becomes(FocusOn(Commit([page EXCEPT !.dirty = @ \ {b}], [x \in {c} |-> {}], <<c>>), c))
  /\ UNCHANGED <<wanted, typed, accounted, upsets>> /\ KeyFrame

\* toggle_checked writes the live text through the queue; the page learns of it
\* by the refresh that follows.
Check(b) ==
  /\ open /\ page.content[b] # Gone /\ page.live[b] # Gone
  /\ page' = [page EXCEPT !.dirty = @ \ {b}]
  /\ Issue(<<Task(b, page.live[b])>>)
  /\ UNCHANGED <<wanted, typed, accounted, upsets>> /\ KeyFrame

\* Selecting blocks takes the caret away and saves nothing.
Select ==
  /\ open /\ page.active # None /\ Allowed("select")
  /\ page' = [page EXCEPT !.active = None]
  /\ UNCHANGED <<queue, issued, wanted, typed, accounted, upsets>> /\ KeyFrame

\* delete_selection_blocks; the strokes that go were the reader's to delete.
DeleteSelected(b) ==
  /\ open /\ page.active = None /\ page.content[b] # Gone
  /\ Becomes(Commit(page, [x \in {b} |-> Gone], <<b>>))
  /\ accounted' = accounted \cup (page.live[b] \cap Stroke)
  /\ UNCHANGED <<wanted, typed, upsets>> /\ KeyFrame

\* focus_block, by a click or an arrow.
Focus(b) ==
  /\ open /\ page.active # b /\ page.live[b] # Gone
  /\ Becomes(FocusOn(NoWrites([page EXCEPT !.focused = TRUE]), b))
  /\ UNCHANGED <<wanted, typed, accounted, upsets>> /\ KeyFrame

\* on_blur: save the block with the caret, then show every block's content.
Blur ==
  /\ open /\ page.focused
  /\ LET r == FlushOf(page, page.active)
     IN  Becomes([r EXCEPT !.page = SyncTexts([@ EXCEPT !.focused = FALSE])])
  /\ UNCHANGED <<wanted, typed, accounted, upsets>> /\ KeyFrame

\* on_release: what is dirty is written at once, past the queue; the queue goes
\* with the editor.
Close ==
  /\ open /\ Allowed("close")
  /\ LET unsaved == {b \in page.dirty : page.live[b] \notin {Gone, page.content[b]}
                                          /\ page.content[b] # Gone}
     IN  /\ saved' = [b \in Block |-> IF b \in unsaved /\ saved[b] # Gone THEN page.live[b]
                                      ELSE saved[b]]
         /\ accounted' = accounted \cup ((UNION {page.live[b] : b \in unsaved}) \cap Stroke)
  /\ open' = FALSE /\ queue' = <<>>
  /\ page' = [page EXCEPT !.dirty = {}]
  /\ UNCHANGED <<issued, reader, again, missed, wanted, committed, typed, accounted, upsets>>

Key(b) ==
  \/ Type(b) \/ SaveDue(b) \/ Reshape(b) \/ Split(b) \/ Merge(b) \/ AddSibling(b)
  \/ Check(b) \/ DeleteSelected(b) \/ Focus(b)

------------------------------------------------------------------------------
(* The lane and the replica *)

\* The next write settles.  The replica refuses a change to a block another
\* device removed.  After a write that failed, or one a task waits for, refresh.
Land ==
  /\ open /\ queue # <<>> /\ Head(queue).kind # "idle"
  /\ queue' = Tail(queue)
  /\ accounted' = accounted \cup (Head(queue).text \cap Stroke)
  /\ LET w == Head(queue)
         refuse == /\ wanted' = TRUE
                   /\ UNCHANGED <<saved, committed>>
     IN  IF saved[w.block] = Gone /\ ~w.new
         THEN refuse /\ UNCHANGED upsets
         ELSE \/ refuse /\ Upset
              \/ /\ saved' = [saved EXCEPT ![w.block] = w.text]
                 /\ committed' = TRUE
                 /\ wanted' = (wanted \/ w.kind = "task")
                 /\ UNCHANGED upsets
  /\ UNCHANGED <<page, issued, reader, again, missed, open, typed>>

\* Another device rewrites a block, or removes it.
Remote ==
  /\ open /\ Upset
  /\ \E b \in Block, text \in {{0}, Gone} :
       /\ saved[b] # Gone
       /\ saved' = [saved EXCEPT ![b] = text]
  /\ committed' = TRUE
  /\ UNCHANGED <<page, queue, issued, reader, again, missed, wanted, open, typed, accounted>>

------------------------------------------------------------------------------
(* Reading it back *)

ReadFrame == UNCHANGED <<saved, open, typed, accounted, upsets>>
To(r, pc) == reader' = [reader EXCEPT ![r].pc = pc]
WriteMark == issued + (IF page.dirty = {} THEN 0 ELSE 1)

Unraced(mark) == mark = WriteMark

\* Mistaken: a commit heard while a re-read runs is taken to be in it.
HearCommitOnce ==
  /\ open /\ committed /\ committed' = FALSE
  /\ IF reader["settled"].pc = "off" THEN To("settled", "loop") ELSE UNCHANGED reader
  /\ UNCHANGED <<page, queue, issued, again, missed, wanted>> /\ ReadFrame

\* Committed: refresh_when_settled, whose bursts collapse.
HearCommit ==
  /\ open /\ committed /\ committed' = FALSE
  /\ IF reader["settled"].pc = "off" THEN To("settled", "loop") /\ UNCHANGED again
     ELSE again' = TRUE /\ UNCHANGED reader
  /\ UNCHANGED <<page, queue, issued, missed, wanted>> /\ ReadFrame

WaitIdle ==
  /\ open /\ reader["settled"].pc \in {"loop", "wait"}
  /\ again' = IF reader["settled"].pc = "loop" THEN FALSE ELSE again
  /\ queue' = Append(queue, Idle("settled"))
  /\ To("settled", "idle")
  /\ UNCHANGED <<page, issued, missed, wanted, committed>> /\ ReadFrame

\* refresh: save everything, then wait for the lane.
Refresh ==
  /\ open /\ wanted /\ reader["refresh"].pc = "off" /\ wanted' = FALSE
  /\ LET r == FlushAll(page)
     IN  /\ page' = r.page
         /\ issued + Len(r.writes) <= MaxWrites
         /\ issued' = issued + Len(r.writes)
         /\ queue' = Append(queue \o r.writes, Idle("refresh"))
  /\ To("refresh", "idle")
  /\ UNCHANGED <<again, missed, committed>> /\ ReadFrame

\* The lane is idle: read, but refresh_when_settled first waits out typing.
StartRead ==
  /\ open /\ queue # <<>> /\ Head(queue).kind = "idle"
  /\ queue' = Tail(queue)
  /\ LET r == Head(queue).reader
     IN  IF r = "settled" /\ page.dirty # {} THEN To(r, "wait")
         ELSE reader' = [reader EXCEPT ![r].pc = "asked", ![r].mark = WriteMark]
  /\ UNCHANGED <<page, issued, again, missed, wanted, committed>> /\ ReadFrame

Answered == {"served", "failed"}

\* The replica answers fetch_object, or it fails; the executor hands answers over
\* in order.
Serve(r) ==
  /\ open /\ reader[r].pc = "asked" /\ \A x \in Reader : reader[x].pc \notin Answered
  /\ \/ reader' = [reader EXCEPT ![r].pc = "served", ![r].seen = saved]
     \/ To(r, "failed")
  /\ UNCHANGED <<page, queue, issued, again, missed, wanted, committed>> /\ ReadFrame

\* Mistaken: the caret stays where the block was.
AdoptKeepsCaret(p, seen) == SyncTexts([p EXCEPT !.content = seen])

\* adopt: the page is the replica's; a caret in a block that is gone is lost.
Adopt(p, seen) ==
  LET q == SyncTexts([p EXCEPT !.content = seen])
  IN  [q EXCEPT !.active = IF @ # None /\ q.live[@] = Gone THEN None ELSE @]

\* read_unless_raced ends: the answer is adopted unless an edit raced it, and one
\* that failed counts as a read that is done.  refresh_when_settled goes again if
\* it was raced, or another commit came.
FinishRead(r) ==
  /\ open /\ reader[r].pc \in Answered
  /\ LET failed == reader[r].pc = "failed"
         raced == ~failed /\ ~Unraced(reader[r].mark)
         more == r = "settled" /\ (again \/ raced)
     IN  /\ page' = IF failed \/ raced THEN page ELSE Adopt(page, reader[r].seen)
         /\ missed' = (failed \/ (raced /\ missed))
         /\ reader' = [reader EXCEPT ![r] = [pc |-> IF more THEN "loop" ELSE "off", mark |-> 0,
                                             seen |-> [b \in Block |-> Gone]]]
  /\ UNCHANGED <<queue, issued, again, wanted, committed>> /\ ReadFrame

------------------------------------------------------------------------------
Opens(now) ==
  /\ saved = [b \in Block |-> IF b \in Start THEN {} ELSE Gone]
  /\ page = [content |-> saved, live |-> saved, dirty |-> {}, active |-> None,
             focused |-> FALSE]
  /\ queue = <<>> /\ issued = 0 /\ again = FALSE /\ missed = FALSE /\ wanted = FALSE
  /\ reader = [r \in Reader |-> [pc |-> "off", mark |-> 0, seen |-> [b \in Block |-> Gone]]]
  /\ committed = FALSE /\ open = now
  /\ typed = {} /\ accounted = {}
  /\ upsets = 0

Init == Opens(TRUE)

Next ==
  \/ \E b \in Block : Key(b)
  \/ Select \/ Blur \/ Close \/ Land \/ Remote
  \/ HearCommit \/ WaitIdle \/ Refresh \/ StartRead
  \/ \E r \in Reader : Serve(r) \/ FinishRead(r)

Spec == Init /\ [][Next]_vars

------------------------------------------------------------------------------
\* Each variable holds a value of its type, and the caret is in a block that is
\* shown (adopt, and the keys that remove blocks).
TypeOK ==
  /\ page.active = None \/ page.live[page.active] # Gone
  /\ page.content \in [Block -> Text] /\ page.live \in [Block -> Text]
  /\ page.dirty \subseteq Block /\ page.active \in Block \cup {None}
  /\ page.focused \in BOOLEAN
  /\ issued \in 0..MaxWrites
  /\ saved \in [Block -> Text]
  /\ typed \subseteq Stroke /\ accounted \subseteq Stroke

\* No typing is lost: a stroke that was made has been in a write that landed, or
\* is in one that is queued, or is on screen in a block that waits to be saved;
\* else the reader deleted it or the replica refused it.
NoStrokeLost ==
  \A s \in typed :
    \/ s \in accounted
    \/ \E b \in page.dirty : s \in page.live[b]
    \/ \E i \in DOMAIN queue : queue[i].kind # "idle" /\ s \in queue[i].text

\* Once nothing is queued, read or waiting to be saved, the page is the
\* replica's, whatever raced: only a re-read that failed leaves it stale, for
\* read_unless_raced takes that one for done.
SettledPageIsSaved ==
  open /\ Settled /\ ~committed /\ reader["settled"].pc = "off" =>
    page.content = saved \/ missed
=============================================================================
