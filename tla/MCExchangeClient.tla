--------------------------- MODULE MCExchangeClient ---------------------------
(* A small exchange: three markets in books of two at most, and as many tokens *)
(* as the session, the call and the keep-alive can hold apart, and a new one.  *)
EXTENDS ExchangeClient
CONSTANTS t1, t2, t3, m1, m2, m3

AllOrOne == {Market, {m1}}
=============================================================================
