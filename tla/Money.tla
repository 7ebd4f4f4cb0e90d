------------------------------- MODULE Money --------------------------------
(***************************************************************************)
(* The arithmetic of money.ts and a user who uses it: balances in integer  *)
(* subunits, rates as Decimals of a fixed number of significant digits     *)
(* rounded half-even, conversions at the mid rate and trades at the bid of *)
(* a quote, both floored to whole subunits.                                *)
(***************************************************************************)
EXTENDS Integers

CONSTANTS
  Currencies,
  Digits,      \* decimal places of a currency: its subunit factor is 10^Digits[c]
  RateTables,  \* what the provider may send: how many of each currency to one of its base
  SpreadBps,   \* FX_SPREAD_BPS
  Precision,   \* significant digits of a Decimal: 40 in money.ts
  MaxAmount,   \* the most one request may move: the @Max of the DTOs
  Wallets      \* what the user may start with

\* A Decimal: num / 10^scale.
Dec(num, scale) == [num |-> num, scale |-> scale]

\* 10^n, as a function whose equation a proof can use.
Pow10[n \in Nat] == IF n = 0 THEN 1 ELSE 10 * Pow10[n - 1]

\* Amounts and the provider's numbers fit in a Decimal: JSON numbers have at most 17
\* significant digits.
ASSUME MoneyAssumption ==
  /\ Digits \in [Currencies -> Nat]
  /\ SpreadBps \in 0..19999 /\ Precision \in Nat /\ Precision >= 3
  /\ MaxAmount \in Nat /\ MaxAmount < Pow10[Precision]
  /\ Wallets \subseteq [Currencies -> Nat]
  /\ \A r \in RateTables, c \in Currencies :
       r[c] = Dec(r[c].num, r[c].scale) /\ r[c].num \in Nat /\ r[c].scale \in Nat
         /\ r[c].num < Pow10[Precision]

\* The digits of a Decimal leave room for the largest amount at any rate: amount, rate and
\* powers of ten multiply to less than the weight of the last digit.
RoomForDigits ==
  \A r \in RateTables : \A f, t \in Currencies :
    f # t => 5 * (MaxAmount * r[t].num * Pow10[r[f].scale + Digits[t]])
               < 2 * Pow10[Precision - 1]

\* At the least, no amount is worth so many subunits that the digits do not reach its last.
AmountsFit ==
  \A r \in RateTables : \A f, t \in Currencies :
    f # t /\ r[f].num > 0 =>
      5 * (MaxAmount * r[t].num * Pow10[r[f].scale + Digits[t]])
        <= 2 * Pow10[Precision - 1] * (r[f].num * Pow10[r[t].scale + Digits[f]])

----------------------------------------------------------------------------
(* Decimal arithmetic. *)

\* The integer nearest n / d, an exact half going to the even neighbour.
HalfEven(n, d) ==
  LET q == n \div d IN
  IF 2 * (n % d) > d \/ (2 * (n % d) = d /\ q % 2 = 1) THEN q + 1 ELSE q

Least(S) == CHOOSE x \in S : \A y \in S : x <= y

\* A result is kept to Precision digits.
Rounded(x) ==
  LET k == Least({i \in 0..(Precision + 1) : x.num \div Pow10[i] < Pow10[Precision]})
  IN Dec(HalfEven(x.num, Pow10[k]), x.scale - k)

Times(x, y) == Rounded(Dec(x.num * y.num, x.scale + y.scale))

\* The quotient to Precision digits: the dividend is given the zeros it takes.
Div(x, y) ==
  LET k == Least({i \in 0..(2 * Precision) :
                    (x.num * Pow10[i]) \div y.num >= Pow10[Precision - 1]})
  IN Rounded(Dec(HalfEven(x.num * Pow10[k], y.num), k + x.scale - y.scale))

\* x times 10^n.
Shift(x, n) == [x EXCEPT !.scale = @ - n]

\* Seeded bug: Math.round for floor.
Nearest(x) ==
  IF x.scale > 0 THEN (2 * x.num + Pow10[x.scale]) \div (2 * Pow10[x.scale])
  ELSE x.num * Pow10[-x.scale]

Floor(x) == IF x.scale > 0 THEN x.num \div Pow10[x.scale] ELSE x.num * Pow10[-x.scale]

----------------------------------------------------------------------------
(* money.ts. *)

ToSubunits(major, c) == Floor(Shift(major, Digits[c]))
FromSubunits(sub, c) == Rounded(Dec(sub, Digits[c]))

CrossRate(fromRate, toRate) == Div(toRate, fromRate)

\* Seeded bug: the amount is computed from the rate as it is shown, to one place.
ConvertAtShownRate(n, f, t, rate) ==
  ToSubunits(Times(FromSubunits(n, f), Dec(Floor(Shift(rate, 1)), 1)), t)

ConvertSubunits(n, f, t, rate) == ToSubunits(Times(FromSubunits(n, f), rate), t)

\* Seeded bug: bid and ask change places.
SpreadSwapped(mid) ==
  [bid |-> Times(mid, Rounded(Dec((20000 + SpreadBps) * 5, 5))),
   ask |-> Times(mid, Rounded(Dec((20000 - SpreadBps) * 5, 5)))]

\* mid times 1 - half and 1 + half, where half is SpreadBps / 10000 / 2.
ApplySpread(mid) ==
  [bid |-> Times(mid, Rounded(Dec((20000 - SpreadBps) * 5, 5))),
   ask |-> Times(mid, Rounded(Dec((20000 + SpreadBps) * 5, 5)))]

\* parseRate throws on what is not a positive number.
ParseRate(x) == x.num > 0

----------------------------------------------------------------------------
(* A user who converts and trades while the rates stand. *)

VARIABLES
  rates,  \* the table in force
  held,   \* the user's balances
  last    \* the operation just booked

vars == <<rates, held, last>>

Nothing == [by |-> "nobody", in |-> 0, out |-> 0]

Init ==
  /\ rates \in RateTables
  /\ held \in Wallets
  /\ last = Nothing

Mid(f, t) == CrossRate(rates[f], rates[t])
Quotable(f, t) == f # t /\ ParseRate(rates[f]) /\ ParseRate(rates[t])

\* Seeded bug: an amount that rounds to nothing is booked.
BookNothing(by, f, t, n, m) ==
  /\ held' = [held EXCEPT ![f] = @ - n, ![t] = @ + m]
  /\ last' = [by |-> by, from |-> f, to |-> t, in |-> n, out |-> m]
  /\ UNCHANGED rates

\* n subunits of f for m of t, unless m is too small to book.
Book(by, f, t, n, m) ==
  /\ m > 0
  /\ held' = [held EXCEPT ![f] = @ - n, ![t] = @ + m]
  /\ last' = [by |-> by, from |-> f, to |-> t, in |-> n, out |-> m]
  /\ UNCHANGED rates

\* convertFunds.
ConvertFunds(f, t, n) ==
  /\ Quotable(f, t)
  /\ Book("convert", f, t, n, ConvertSubunits(n, f, t, Mid(f, t)))

\* createQuote, redeemed before the rates change: the user sells at the bid.
CreateQuote(f, t, n) ==
  /\ Quotable(f, t)
  /\ Book("quote", f, t, n, ConvertSubunits(n, f, t, ApplySpread(Mid(f, t)).bid))

Next ==
  \E f, t \in Currencies : \E n \in 1..held[f] :
    n <= MaxAmount /\ (ConvertFunds(f, t, n) \/ CreateQuote(f, t, n))

Spec == Init /\ [][Next]_vars

----------------------------------------------------------------------------
(* Properties. *)

\* Balances, rates and the last operation have the types of their columns; no leg of
\* an operation is zero.
TypeOK ==
  /\ rates \in RateTables
  /\ held \in [Currencies -> Nat]
  /\ last = Nothing \/ (last.in \in Nat \ {0} /\ last.out \in Nat \ {0})

\* What n subunits of f are worth in t is Exact(n, f, t)[1] / Exact(n, f, t)[2].
Exact(n, f, t) ==
  << n * rates[t].num * Pow10[rates[f].scale + Digits[t]],
     rates[f].num * Pow10[rates[t].scale + Digits[f]] >>

\* The operation pays out no more than what it takes in is worth.
PaysAtMostItsWorth ==
  LET x == Exact(last'.in, last'.from, last'.to) IN last'.out * x[2] <= x[1]

\* Over any number of conversions and trades, there and back and through a third
\* currency, what the user holds is worth no more than before: rounding, the cross
\* rates of both directions included, never makes money.
NoMoneyMade == [][PaysAtMostItsWorth]_vars

\* A conversion costs the user less than two subunits in all, one for the floor and one
\* for the digits lost before it, however small the amount and the rate.
CostsAtMostTwoSubunits ==
  last.by = "convert" =>
    LET x == Exact(last.in, last.from, last.to) IN (last.out + 2) * x[2] > x[1]

\* A quote never pays more than a conversion would: the user sells at the bid.
QuotePaysNoMore ==
  last.by = "quote" =>
    last.out <= ConvertSubunits(last.in, last.from, last.to, Mid(last.from, last.to))

\* What is paid is within two subunits of what a conversion is worth, and a quote stays
\* on the house's side of it.
PaymentsAreBounded == CostsAtMostTwoSubunits /\ QuotePaysNoMore
=============================================================================
