------------------------------ MODULE PageHistory ------------------------------
(***************************************************************************)
(* The page as a tree of blocks and its undo history (roostr-editor:       *)
(* doc.rs, and the keys of keys.rs that reshape the tree).  A key commits  *)
(* a list of ops; each op names its inverse; a stack of inverses is the    *)
(* history.  What is saved and when is in Editor.                          *)
(*                                                                         *)
(* A page is its block list in order, each block's list of children and    *)
(* its text.  Styles are left out: where a style decides between two       *)
(* shapes of a key, either may happen.  Columns and tables are left out.   *)
(***************************************************************************)
EXTENDS Naturals, Sequences, FiniteSets, SequencesExt

CONSTANTS
  Pages,       \* pages to start from
  MaxBlocks,   \* block ids ever made
  MaxSteps,    \* keys pressed, undo and redo aside
  UndoPastDrop,  \* the reader may undo what was done before a drag
  MaxText      \* strokes in a block

PageConstants ==
  {MaxBlocks, MaxSteps, MaxText} \subseteq Nat /\ UndoPastDrop \in BOOLEAN

Id == 1..MaxBlocks
Root == 0                     \* the target ""
At(target, pos) == [target |-> target, pos |-> pos]

VARIABLES page, undo, redo,
  past, future,   \* the trees each entry of undo and redo goes back to
  born, steps

vars == <<page, undo, redo, past, future, born, steps>>

------------------------------------------------------------------------------
(* Reading a page *)

Holds(p, x) == x \in ToSet(p.order)
Listed(p) == UNION {ToSet(p.kids[b]) : b \in ToSet(p.order)}
ParentOf(p, x) ==
  IF x \notin Listed(p) THEN Root
  ELSE SelectSeq(p.order, LAMBDA b : x \in ToSet(p.kids[b]))[1]
RootOrder(p) == SelectSeq(p.order, LAMBDA b : b \notin Listed(p))
Siblings(p, x) == LET up == ParentOf(p, x) IN IF up = Root THEN RootOrder(p) ELSE p.kids[up]
Index(s, x) == CHOOSE i \in DOMAIN s : s[i] = x

\* subtree: x and all below it, parent before children.
RECURSIVE Subtree(_, _), Below(_, _)
Below(p, xs) == IF xs = <<>> THEN <<>> ELSE Subtree(p, Head(xs)) \o Below(p, Tail(xs))
Subtree(p, x) == IF Holds(p, x) THEN <<x>> \o Below(p, p.kids[x]) ELSE <<>>

FlatIds(p) == Below(p, RootOrder(p))

\* place_of: where inserting puts the block back exactly.
PlaceOf(p, x) ==
  LET s == Siblings(p, x)  i == Index(s, x)  up == ParentOf(p, x)
  IN  CASE i > 1 -> At(s[i - 1], "bottom")
        [] i = 1 /\ up # Root -> At(up, "first")
        [] i = 1 /\ up = Root /\ Len(s) > 1 -> At(s[2], "top")
        [] OTHER -> At(Root, "bottom")

\* What the reader sees: the tree, and the text of its blocks.
Tree(p) == [roots |-> RootOrder(p), kids |-> [x \in ToSet(p.order) |-> p.kids[x]],
            text |-> [x \in ToSet(p.order) |-> p.text[x]]]

------------------------------------------------------------------------------
(* Ops *)

OpContent(x, text) == [op |-> "content", id |-> x, text |-> text]
OpInsert(x, text, at) == [op |-> "insert", id |-> x, text |-> text, at |-> at]
OpRemove(x) == [op |-> "remove", id |-> x]
OpMove(x, at) == [op |-> "move", id |-> x, at |-> at]

\* Mistaken: only the children of the roots lose it.
DetachFromRoots(p, x) ==
  [p EXCEPT !.kids = [b \in Id |-> IF b \in ToSet(RootOrder(p)) THEN Remove(@[b], x) ELSE @[b]]]

Detach(p, x) == [p EXCEPT !.kids = [b \in Id |-> Remove(@[b], x)]]

\* place: x enters the list beside its target, and the list of children the
\* target is in, unless that is x's own.
PlaceAt(p0, x, at) ==
  LET p == [p0 EXCEPT !.order = Remove(@, x)]
      i == Index(p.order, at.target)
      up == ParentOf(p, at.target)
      after == IF at.pos = "top" THEN 0 ELSE 1
  IN  CASE at.target = Root \/ ~Holds(p, at.target) -> [p EXCEPT !.order = Append(@, x)]
        [] Holds(p, at.target) /\ at.pos = "inner" ->
             [p EXCEPT !.order = InsertAt(@, i + 1, x), !.kids[at.target] = Append(@, x)]
        [] Holds(p, at.target) /\ at.pos = "first" ->
             [p EXCEPT !.order = InsertAt(@, i + 1, x), !.kids[at.target] = <<x>> \o @]
        [] OTHER ->
             LET q == [p EXCEPT !.order = InsertAt(@, i + after, x)]
             IN  IF up = Root \/ up = x THEN q
                 ELSE [q EXCEPT !.kids[up] = InsertAt(@, Index(@, at.target) + after, x)]

\* The undo of a removal: the block at its place, then, parent before children,
\* each child at the end of its parent.
Rebuild(p, x) ==
  LET gone == Subtree(p, x)
      under(b) == [j \in DOMAIN p.kids[b] |->
                     OpInsert(p.kids[b][j], p.text[p.kids[b][j]], At(b, "inner"))]
  IN  <<OpInsert(x, p.text[x], PlaceOf(p, x))>>
        \o FlattenSeq([i \in DOMAIN gone |-> under(gone[i])])

\* apply_op: the page after op, and the ops that undo it.  An op that names a
\* block that is not there (or is there already) does nothing.
ApplyOp(p, op) ==
  LET x == op.id
  IN  CASE op.op = "content" /\ Holds(p, x) ->
             [page |-> [p EXCEPT !.text[x] = op.text], inverse |-> <<OpContent(x, p.text[x])>>]
        [] op.op = "insert" /\ ~Holds(p, x) ->
             [page |-> PlaceAt([p EXCEPT !.text[x] = op.text, !.kids[x] = <<>>], x, op.at),
              inverse |-> <<OpRemove(x)>>]
        [] op.op = "remove" /\ Holds(p, x) ->
             LET gone == ToSet(Subtree(p, x))
                 q == Detach(p, x)
             IN  [page |-> [order |-> SelectSeq(q.order, LAMBDA b : b \notin gone),
                            kids |-> [b \in Id |-> IF b \in gone THEN <<>> ELSE q.kids[b]],
                            text |-> [b \in Id |-> IF b \in gone THEN <<>> ELSE q.text[b]]],
                  inverse |-> Rebuild(p, x)]
        [] op.op = "move" /\ Holds(p, x) /\ op.at.target # x ->
             [page |-> PlaceAt(Detach(p, x), x, op.at), inverse |-> <<OpMove(x, PlaceOf(p, x))>>]
        [] OTHER -> [page |-> p, inverse |-> <<>>]

\* Mistaken: the inverses in the order of the ops.
ApplyInOrder(p, ops) ==
  FoldLeft(LAMBDA r, op : LET s == ApplyOp(r.page, op)
                          IN  [page |-> s.page, inverse |-> r.inverse \o s.inverse],
           [page |-> p, inverse |-> <<>>], ops)

\* apply_all: a transaction; its inverse undoes the last op first.
ApplyAll(p, ops) ==
  FoldLeft(LAMBDA r, op : LET s == ApplyOp(r.page, op)
                          IN  [page |-> s.page, inverse |-> s.inverse \o r.inverse],
           [page |-> p, inverse |-> <<>>], ops)

------------------------------------------------------------------------------
(* History *)

Shown == Tree(page)

\* A drag is not recorded: no entry older than it goes back to a known tree.
Unknown == [roots |-> <<>>]

\* commit with History::record: a new action clears redo.
Commit(ops) ==
  LET r == ApplyAll(page, ops)
  IN  /\ steps < MaxSteps /\ steps' = steps + 1
      /\ page' = r.page
      /\ IF r.inverse = <<>> THEN UNCHANGED <<undo, redo, past, future>>
         ELSE /\ undo' = Append(undo, r.inverse) /\ redo' = <<>>
              /\ past' = Append(past, Shown) /\ future' = <<>>

\* undo_redo(false): what undid it is what redo replays.
Undo ==
  /\ undo # <<>> /\ (UndoPastDrop \/ Last(past) # Unknown)
  /\ LET r == ApplyAll(page, Last(undo))
     IN  /\ page' = r.page
         /\ undo' = Front(undo) /\ past' = Front(past)
         /\ IF r.inverse = <<>> THEN UNCHANGED <<redo, future>>
            ELSE redo' = Append(redo, r.inverse) /\ future' = Append(future, Shown)
  /\ UNCHANGED <<born, steps>>

Redo ==
  /\ redo # <<>> /\ (UndoPastDrop \/ Last(future) # Unknown)
  /\ LET r == ApplyAll(page, Last(redo))
     IN  /\ page' = r.page
         /\ redo' = Front(redo) /\ future' = Front(future)
         /\ IF r.inverse = <<>> THEN UNCHANGED <<undo, past>>
            ELSE undo' = Append(undo, r.inverse) /\ past' = Append(past, Shown)
  /\ UNCHANGED <<born, steps>>

------------------------------------------------------------------------------
(* Keys, on a block of the page *)

\* flush_save: the typing since the last save.
Type(x) ==
  /\ Len(page.text[x]) < MaxText
  /\ Commit(<<OpContent(x, Append(page.text[x], x))>>)
  /\ UNCHANGED born

\* enter: the head stays and the tail is born below or inside; a block with
\* children (no toggle), or a caret at 0, gives the head to a block above.
Enter(x) ==
  \E i \in 0..Len(page.text[x]) :
    LET head == SubSeq(page.text[x], 1, i)
        tail == SubSeq(page.text[x], i + 1, Len(page.text[x]))
    IN  /\ born < MaxBlocks /\ born' = born + 1
        /\ \/ Commit(<<OpInsert(born', head, At(x, "top")), OpContent(x, tail)>>)
           \/ \E pos \in {"bottom", "first"} :
                Commit(<<OpContent(x, head), OpInsert(born', tail, At(x, pos))>>)

\* tab: under the previous sibling, with the live text.
Tab(x) ==
  LET s == Siblings(page, x)  i == Index(s, x)
  IN  /\ i > 1
      /\ Commit(<<OpContent(x, page.text[x]), OpMove(x, At(s[i - 1], "inner"))>>)
      /\ UNCHANGED born

\* outdent_block: the sibling right below its parent.
Outdent(x) ==
  /\ ParentOf(page, x) # Root
  /\ Commit(<<OpContent(x, page.text[x]), OpMove(x, At(ParentOf(page, x), "bottom"))>>)
  /\ UNCHANGED born

\* backspace_at_start: merge into the text before; the block goes, with what is
\* below it.
Backspace(x) ==
  LET flat == FlatIds(page)  i == Index(flat, x)
  IN  /\ i > 1 /\ Len(page.text[x]) + Len(page.text[flat[i - 1]]) <= MaxText
      /\ Commit(<<OpContent(flat[i - 1], page.text[flat[i - 1]] \o page.text[x]), OpRemove(x)>>)
      /\ UNCHANGED born

\* topmost_selected, in page order.
Topmost(chosen) ==
  SelectSeq(FlatIds(page), LAMBDA x :
    x \in chosen /\ \A y \in chosen \ {x} : x \notin ToSet(Subtree(page, y)))

\* delete_selection_blocks.
DeleteSelection ==
  \E chosen \in SUBSET ToSet(page.order) \ {{}} :
    /\ Commit([i \in DOMAIN Topmost(chosen) |-> OpRemove(Topmost(chosen)[i])])
    /\ UNCHANGED born

\* paste_blocks of a block and its first child, in place of an empty line.
Paste(x) ==
  LET empty == page.kids[x] = <<>> /\ page.text[x] = <<>>
  IN  /\ born + 1 < MaxBlocks /\ born' = born + 2
      /\ Commit(<<OpInsert(born + 1, <<>>, At(x, "bottom")),
                  OpInsert(born + 2, <<>>, At(born + 1, "inner"))>>
                \o (IF empty THEN <<OpRemove(x)>> ELSE <<>>))

\* on_drop of the dragged blocks, never beside or inside what is below them:
\* the first takes the place, the rest follow it.  Nothing is recorded.
Drop ==
  \E chosen \in SUBSET ToSet(page.order) \ {{}}, target \in ToSet(page.order),
     pos \in {"top", "bottom", "first"} :
    /\ steps < MaxSteps /\ steps' = steps + 1
    /\ \A x \in chosen : target \notin ToSet(Subtree(page, x))
    /\ LET group == Topmost(chosen)
       IN  page' = ApplyAll(page, [i \in DOMAIN group |->
                     OpMove(group[i], IF i = 1 THEN At(target, pos)
                                      ELSE At(group[i - 1], "bottom"))]).page
    /\ past' = [i \in DOMAIN past |-> Unknown]
    /\ future' = [i \in DOMAIN future |-> Unknown]
    /\ UNCHANGED <<undo, redo, born>>

Key(x) == Type(x) \/ Enter(x) \/ Tab(x) \/ Outdent(x) \/ Backspace(x) \/ Paste(x)

Init ==
  /\ page \in Pages /\ born = Len(page.order) /\ steps = 0
  /\ undo = <<>> /\ redo = <<>> /\ past = <<>> /\ future = <<>>

Next == (\E x \in ToSet(page.order) : Key(x)) \/ DeleteSelection \/ Drop \/ Undo \/ Redo

Spec == Init /\ [][Next]_vars

------------------------------------------------------------------------------
\* Each variable holds a value of its type.
TypeOK ==
  /\ page.order \in Seq(Id) /\ page.kids \in [Id -> Seq(Id)] /\ page.text \in [Id -> Seq(Id)]
  /\ \A x \in Id : Len(page.text[x]) <= MaxText
  /\ born \in Id /\ steps \in 0..MaxSteps
  /\ Len(undo) = Len(past) /\ Len(redo) = Len(future)

\* However keys, undo and redo alternate, the page stays one tree: every block
\* is listed once, reached once from the roots, and no list names a block that
\* is not there.
OneTree ==
  /\ Len(FlatIds(page)) = Cardinality(ToSet(page.order))
  /\ Len(page.order) = Cardinality(ToSet(page.order))
  /\ ToSet(FlatIds(page)) = ToSet(page.order)
  /\ Listed(page) \subseteq ToSet(page.order)

\* Undo gives back exactly the tree before the action, and redo the one after,
\* whatever ops the action was made of and however often it was undone.
UndoExact ==
  /\ undo # <<>> /\ Last(past) # Unknown =>
       Tree(ApplyAll(page, Last(undo)).page) = Last(past)
  /\ redo # <<>> /\ Last(future) # Unknown =>
       Tree(ApplyAll(page, Last(redo)).page) = Last(future)

==============================================================================
