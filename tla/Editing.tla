-------------------------------- MODULE Editing --------------------------------
(* The editor's two machines: Editor, where typing becomes saved text, and     *)
(* PageHistory, the tree of blocks with its undo and redo. Neither reads the   *)
(* other's state, so a behaviour is one of either: beside an empty tree, or    *)
(* beside a closed editor.                                                     *)
EXTENDS Editor

CONSTANTS Pages, MaxBlocks, MaxSteps, MaxText, UndoPastDrop   \* PageHistory's

VARIABLES tree, undo, redo, past, future, born, steps

Blocks == INSTANCE PageHistory WITH page <- tree

ASSUME EditingConstants == Blocks!PageConstants

treeVars == <<tree, undo, redo, past, future, born, steps>>

Empty == [order |-> <<>>, kids |-> [x \in Blocks!Id |-> <<>>], text |-> [x \in Blocks!Id |-> <<>>]]

EditingInit ==
  \/ /\ Init
     /\ tree = Empty /\ undo = <<>> /\ redo = <<>> /\ past = <<>> /\ future = <<>>
     /\ born = MaxBlocks /\ steps = MaxSteps
  \/ /\ Blocks!Init
     /\ Opens(FALSE)

EditingNext ==
  \/ Next /\ UNCHANGED treeVars
  \/ Blocks!Next /\ UNCHANGED vars

EditingSpec == EditingInit /\ [][EditingNext]_<<vars, treeVars>>

------------------------------------------------------------------------------
\* However keys, undo and redo alternate, the page stays one tree: every block
\* is listed once, reached once from the roots, and no list names a block that
\* is not there (place, detach and apply_op of doc.rs).
OneTree == tree.order # <<>> => Blocks!TypeOK /\ Blocks!OneTree

\* Undo gives back exactly the tree before the action, and redo the one after,
\* whatever ops the action was made of (apply_op, apply_all, History).
UndoExact == Blocks!UndoExact
==============================================================================
