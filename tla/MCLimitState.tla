----------------------------- MODULE MCLimitState -----------------------------
(* Small instances of LimitState.                                          *)
EXTENDS LimitState, TLC

CONSTANTS m1, m2, m3, m4

Sym == Permutations(Messages)
MCSpan == [hour |-> 1, day |-> 4]
MCSize == [hour |-> 1, day |-> 2]
Lim(h, d) == [hour |-> h, day |-> d]
\* A sender on the local cap, and a login that no limit reaches.
Senders == {[text |-> "ann", limit |-> Lim(1, 2), local |-> TRUE],
            [text |-> "login", limit |-> Lim(3, 3), local |-> FALSE]}
\* A local sender Postfix accepts and no mailbox parser does, of any length.
Unparsed == {[text |-> "raw", limit |-> Lim(2, 2), local |-> TRUE]}
MCLocal == Lim(1, 2)
=============================================================================
