----------------------------- MODULE MCConsumers -----------------------------
(***************************************************************************)
(* Two consumers and a queue that carries an operation together with one   *)
(* other message: the same again, or under another key, or one that says   *)
(* something else under its identifier or its key, or a message that       *)
(* nothing can be done about.                                              *)
(***************************************************************************)
EXTENDS WagerConsumer, TLC

CONSTANTS w1, w2, c1, c2

Bet == [valid |-> TRUE, id |-> "a", wallet |-> w1, key |-> "k1", content |-> "bet"]

MCEnvelope ==
  <<Bet,
    [Bet EXCEPT !.key = "k2"],
    [Bet EXCEPT !.content = "win"],
    [Bet EXCEPT !.content = "win", !.id = "b"],
    [Bet EXCEPT !.id = "c", !.valid = FALSE],
    [Bet EXCEPT !.id = "d", !.wallet = w2, !.key = "k3"],
    Bet>>

MCQueues == {{1, 2}, {1, 3}, {1, 4}, {1, 7}, {5, 6}}
=============================================================================
