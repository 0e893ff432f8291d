---------------------------- MODULE MCMilterSession ----------------------------
(* Small instances of MilterSession.                                       *)
EXTENDS MilterSession, TLC

CONSTANTS s1, s2

Sym == Permutations(Sessions)

\* The five sections in the modes of M, a stock policy otherwise.
Stock(mode) ==
  [mode |-> mode, identity |-> "envelope_or_header_from", allow_senders |-> {},
   ss_mynetworks |-> TRUE, sa_local |-> TRUE, sa_mynetworks |-> TRUE,
   require |-> "both", null_sender |-> "dkim_aligned", diagnostics |-> FALSE,
   max_recipients |-> 1, max_open_messages |-> 1, max_concurrent_messages |-> 1]

Active == {"observe", "enforce"}
\* Every mix of modes, and every mix of the two active ones under other policies.
AllModes ==
  {Stock(mode) : mode \in [Sections -> Modes]} \cup
  UNION {{[Stock(mode) EXCEPT !.identity = "header_from", !.ss_mynetworks = FALSE],
          [Stock(mode) EXCEPT !.identity = "envelope", !.sa_mynetworks = FALSE],
          [Stock(mode) EXCEPT !.sa_local = FALSE, !.require = "either"],
          [Stock(mode) EXCEPT !.allow_senders = {"ann"}, !.null_sender = "both"],
          [Stock(mode) EXCEPT !.require = "either", !.diagnostics = TRUE]} :
           mode \in [Sections -> Active]}
\* Limits count, with the bounds in any mode, recipients that no parser takes refused
\* or not, and a section that reads the message enforced, or both, or none.
Counting ==
  {Stock([protection |-> p, self_sender |-> ss,
          sender_authentication |-> sa, limits |-> l, sending_limits |-> sl]) :
     p \in Active, ss \in Active, sa \in Active, l \in Modes, sl \in Active}
\* The same with an open slot for each of two messages, which share one check.
Verifying ==
  {[c EXCEPT !.max_open_messages = 2] :
     c \in {k \in Counting : /\ k.mode["limits"] # "off"
                            /\ k.mode["protection"] = "enforce"
                            /\ k.mode["self_sender"] = "observe"
                            /\ k.mode["sending_limits"] = "enforce"}}
Sharing == {c \in Counting : c.mode["limits"] = "enforce" => c.mode["self_sender"] = "enforce"}
             \cup Verifying

From(ingress, port, peer) ==
  [ingress |-> ingress, port |-> port, peer |-> peer,
   authenticated |-> FALSE, tls |-> FALSE, owner |-> FALSE]
Pickup == From("LOCAL_PICKUP", 0, "this_host")
Host == From("SMTP25", 25, "this_host")
Relay == From("SMTP25", 25, "mynetworks")
World == From("SMTP25", 25, "other")
Unmarked == From("UNCLASSIFIED", 25, "mynetworks")
Login == [From("SUBMISSION587", 587, "other") EXCEPT !.authenticated = TRUE, !.tls = TRUE]
Owner == [Login EXCEPT !.owner = TRUE]
WrongPort == [Owner EXCEPT !.port = 25]
Everyone == {Pickup, Host, Relay, World, Unmarked, Login, Owner, WrongPort}
Few == {Pickup, Relay, World}

Rec(ok, who, guarded) == [ok |-> ok, who |-> who, guarded |-> guarded]
Plain == Rec(TRUE, "ann", FALSE)
Unparsed == Rec(FALSE, "-", FALSE)
AllRecipients == {Plain, Rec(TRUE, "bob", TRUE), Unparsed}
PlainOnly == {Plain}
PlainOrNot == {Plain, Unparsed}

Auth(spf, dkim) == [spf |-> spf, dkim |-> dkim, incomplete |-> FALSE]
Good == Auth("aligned", {"aligned"})
Con(from, big, auth) == [from |-> from, big |-> big, auth |-> auth]
AllContents ==
  {Con(from, big, auth) : from \in {"ann", "eve", "invalid"},
                          big \in {"none", "max_headers", "message_bytes"},
                          auth \in {Good, Auth("temperror", {"aligned"}), Auth("fail", {"aligned"}),
                     Auth("aligned", {"temperror"})}}
FewContents ==
  {Con("eve", "none", Good), Con("eve", "none", Auth("fail", {})), Con("ann", "none", Good)}
AllSenders == {"ann", "null"}
FewSenders == {"eve"}
=============================================================================
