------------------------------ MODULE MCMoney -------------------------------
(* A small instance of Money: naira, dollars and yen at easy and at hard rates. *)
EXTENDS Money

CONSTANTS NGN, USD, JPY

MCDigits == [c \in Currencies |-> IF c = JPY THEN 0 ELSE 1]

\* The base is NGN. A rate of zero is garbage.
Table(usd, jpy) ==
  [c \in Currencies |-> CASE c = NGN -> Dec(1, 0) [] c = USD -> usd [] c = JPY -> jpy]
MCRateTables ==
  { Table(usd, jpy) : usd \in {Dec(3, 0), Dec(7, 1), Dec(0, 0)},
                      jpy \in {Dec(7, 0), Dec(11, 0)} }

MCWallets == {[c \in Currencies |-> IF c = d THEN 7 ELSE 0] : d \in Currencies}

\* Four digits are enough for these amounts at these rates.
ASSUME FourDigitsFit == AmountsFit
=============================================================================
