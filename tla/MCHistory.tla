------------------------------ MODULE MCHistory ------------------------------
(* The events of the History runs and their created_at.                    *)
EXTENDS History, TLC

CONSTANTS e1, e2, e3, e4

\* Two events share a second; the last is the youngest.
MCAt == [e \in Event |-> CASE e = e1 -> 1 [] e = e2 -> 2 [] e = e3 -> 2 [] OTHER -> 3]
=============================================================================
