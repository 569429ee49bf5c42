--------------------------- MODULE MCMessageQueue ---------------------------
(* Instances of MessageQueue for TLC. *)
EXTENDS MessageQueue

CONSTANTS t1, t2, h1, h2, r1

Message(h, r, arg, asynchronous) ==
    [target |-> h, what |-> 0, callback |-> r, obj |-> None, arg1 |-> arg,
     async |-> asynchronous]

\* A task of an asynchronous Handler, and one of another Handler to wait for.
\* Their arg1 is no token.
Async == Message(h2, r1, 9, TRUE)
Task == Message(h1, Scissors, 9, FALSE)
AsyncAndTask == {Async, Task}

\* Messages as obtained: arg1 is 0, which is also the first token.
PlainPayloads == {Message(h1, None, 0, FALSE)}
=============================================================================
