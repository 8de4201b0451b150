------------------------------ MODULE MCWagerApi ------------------------------
(* Two providers that use the same key and the same name, variants of an         *)
(* operation, one of them for a wallet that does not exist, and each way a       *)
(* request is refused.                                                           *)
EXTENDS WagerApi, TLC

Token(roles, provider) == [accepted |-> TRUE, roles |-> roles, provider |-> provider]
A == Token({"game-provider"}, "A")
B == Token({"game-provider"}, "B")
Operator == Token({"wallet-operator"}, "")

X == [name |-> "n1", wallet |-> "w", rest |-> "x"]
Y == [name |-> "n1", wallet |-> "w", rest |-> "y"]
Z == [name |-> "n1", wallet |-> "none", rest |-> "x"]

Request(route, token, provider, key, payload, defect) ==
  [route |-> route, token |-> token, provider |-> provider, key |-> key,
   payload |-> payload, defect |-> defect]

MCMessages == {[provider |-> "A", key |-> "k1", payload |-> X],
               [provider |-> "A", key |-> "k2", payload |-> Y]}

MCRequests ==
  {Request("process", A, "A", "k1", X, "none"),
   Request("process", A, "A", "k1", Y, "none"),
   Request("process", A, "A", "k2", X, "none"),
   Request("process", A, "A", "k1", Z, "none"),
   Request("process", B, "B", "k1", X, "none"),
   Request("process", A, "B", "k1", X, "none"),
   Request("process", Operator, "A", "k1", X, "none"),
   Request("process", A, "A", NoKey, X, "fields"),
   Request("byId", A, "A", NoKey, X, "none"),
   Request("byId", B, "A", NoKey, X, "none"),
   Request("byName", A, "A", NoKey, X, "none"),
   Request("byName", B, "A", NoKey, X, "none"),
   Request("open", Operator, "", NoKey, X, "none"),
   Request("open", A, "", NoKey, X, "none"),
   Request("wallet", Operator, "", NoKey, X, "none"),
   Request("wallet", [Operator EXCEPT !.accepted = FALSE], "", NoKey, X, "none"),
   Request("process", Token({"game-provider"}, ""), "", "k1", X, "none")}

Symmetry == Permutations(Calls)
=============================================================================
