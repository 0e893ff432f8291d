----------------------------- MODULE MCQuotaStore -----------------------------
(* Small instances of QuotaStore: hours of two buckets, days of two.       *)
EXTENDS QuotaStore, TLC

CONSTANTS m1, m2, m3

Sym == Permutations(Messages)
MCSpan == [hour |-> 2, day |-> 4]
MCSize == [hour |-> 1, day |-> 2]
Lim(h, d) == [hour |-> h, day |-> d]

\* A sender on the local cap, and a relay that is not.
TwoKeys == {[text |-> "ann", limit |-> Lim(1, 2), local |-> TRUE],
            [text |-> "relay", limit |-> Lim(2, 2), local |-> FALSE]}
\* The same login under two multipliers, and a sender on the local cap.
SharedText == {[text |-> "login", limit |-> Lim(1, 2), local |-> FALSE],
               [text |-> "login", limit |-> Lim(2, 3), local |-> FALSE],
               [text |-> "ann", limit |-> Lim(2, 2), local |-> TRUE]}
\* The local cap binds before a sender's own limit, for the hour or for the day.
HourCap == Lim(1, 2)
DayCap == Lim(1, 1)
=============================================================================
