------------------------------ MODULE MCWallet ------------------------------
(* Small instances of WalletService: two or three users, two currencies. *)
EXTENDS WalletProperties, TLC

CONSTANTS u1, u2, u3, A, B, k1, k2, q1, q2, p1, p2, p3

Ask(op, u, k, f, t, n, q) ==
  [op |-> op, user |-> u, key |-> k, from |-> f, to |-> t, amount |-> n, quote |-> q]

Get(u) == Ask("get", u, None, None, None, 0, None)
Fund(u, k, c, n) == Ask("fund", u, k, None, c, n, None)
Convert(u, k, f, t, n) == Ask("convert", u, k, f, t, n, None)
Trade(u, k, q) == Ask("trade", u, k, None, None, 0, q)

\* Enough for some operations, and not for all of them.
MCOpening == [a \in Accounts |-> CASE a = <<u1, A>> -> 2 [] a = <<u1, B>> -> 0
                                   [] a = <<House, A>> -> 1 [] a = <<House, B>> -> 2
                                   [] a[1] = u2 -> 1 [] OTHER -> 0]

RichOpening == [a \in Accounts |-> 2]

\* Each request on an instance of its own, or all of them on one.
Apart == [p \in Procs |-> p]
Together == [p \in Procs |-> House]

MCQuoteBook == q1 :> [user |-> u1, terms |-> [from |-> A, to |-> B, in |-> 1, out |-> 1]]
LiveQuoteBook ==
  MCQuoteBook @@ q2 :> [user |-> u2, terms |-> [from |-> A, to |-> B, in |-> 2, out |-> 1]]
MCConverted == 0..1

\* One user retries and mixes operations while another is served.
MixedRequests ==
  { Get(u1), Fund(u1, k1, A, 1), Fund(u2, k1, A, 1), Fund(u1, k1, A, 0),
    Convert(u1, k2, A, B, 2), Convert(u2, k2, B, A, 1), Convert(u1, k2, A, A, 1),
    Trade(u1, k1, q1), Trade(u1, k2, q1), Trade(u2, k2, q1) }

\* One user's operations, a key shared by two of them, read while they happen.
OneUserRequests ==
  { Get(u1), Fund(u1, k1, B, 1), Fund(u1, k1, A, 0), Convert(u1, k1, A, B, 1),
    Trade(u1, k2, q1), Trade(u2, k2, q1) }

\* Two users in each other's way, and one whose first requests create the wallet.
LiveRequests ==
  { Get(u3), Fund(u3, k1, B, 1), Convert(u2, k1, B, A, 1), Trade(u1, k2, q1),
    Trade(u2, k2, q2) }

\* Retries with one key.
ConvertRequests == { Convert(u1, k1, A, B, 1) }
TradeRequests == { Trade(u1, k1, q1) }
QuoteRequests == { Trade(u1, k1, q1), Trade(u1, k2, q1) }
OppositeRequests == { Convert(u1, k1, A, B, 1), Convert(u2, k1, B, A, 1) }

Symmetry == Permutations(Procs)
=============================================================================
