------------------------------- MODULE MCEditing -------------------------------
EXTENDS Editing
CONSTANTS a, b

Texts == [x \in 1..MaxBlocks |-> IF x = 1 THEN <<1>> ELSE <<>>]
Childless == [x \in 1..MaxBlocks |-> <<>>]
Flat == [order |-> <<1, 2>>, kids |-> Childless, text |-> Texts]
Nested == [order |-> <<1, 2, 3>>, kids |-> [Childless EXCEPT ![1] = <<2, 3>>], text |-> Texts]
StartPages == {Flat, Nested}
==============================================================================
