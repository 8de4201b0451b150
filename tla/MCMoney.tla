-------------------------------- MODULE MCMoney --------------------------------
(* Integers of five bits and digits in base three: the largest integer is the  *)
(* text 1.20, and with each digit that may come last a text just past it.      *)
EXTENDS Money
MCCodes == {"BRL", "USD", "usd"}
MCWellFormed == {"BRL", "USD"}
Digits(max) == UNION {[1..n -> 0..Base] : n \in 0..max}
TooFine == {<<0, 0, 0>>, <<1, 2, 0>>}
MCTexts ==
  [negative : BOOLEAN,
   parts : {<<w>> : w \in Digits(2)} \cup {<<w, f>> : w \in Digits(2), f \in Digits(2) \cup TooFine}
           \cup {<<w, <<0>>, <<1>>>> : w \in Digits(1)}]
MCOperands == [units : Units, currency : {"BRL"}] \cup {[units |-> 1, currency |-> "USD"], Uninitialised}
=============================================================================
