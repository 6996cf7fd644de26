----------------------------- MODULE MCAccount ------------------------------
(* Small instances of Account.  One share costs a few cents, a lot is two   *)
(* shares, rates are tenths and a price drop is counted in quarters.        *)
EXTENDS Account

MCMarket == [s \in Securities |-> IF s = 1 THEN "SH" ELSE "SZ"]
MCBoard  == [s \in Securities |-> "main"]
=============================================================================
