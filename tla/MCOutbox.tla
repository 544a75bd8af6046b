------------------------------ MODULE MCOutbox ------------------------------
(* Outbox on small instances; the .cfg files choose which tasks exist.     *)
EXTENDS OutboxInv, TLC

\* outbox_rebased: two of three changes may be compacted, so only those two
\* are alike.
ChangesAlike == Permutations(Compacted)

\* The slots of queue tasks are alike.
TasksAlike == Permutations(Task)

\* outbox_shared: another replica compacts a change once its commit returned.
CompactedAfterCommit == relayBase # {} => pub["commit"].pc = "idle"
=============================================================================
