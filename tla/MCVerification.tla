---------------------------- MODULE MCVerification ----------------------------
(* A small instance of Verification.                                       *)
EXTENDS Verification

CONSTANTS s1, s2

\* Both mechanisms or either, limits in force or lifted; one slot of each kind.
Settings(require, limits, slots) ==
  [mode |-> [x \in Sections |-> IF x = "limits" THEN limits ELSE "enforce"],
   require |-> require, null_sender |-> "dkim_aligned", diagnostics |-> FALSE,
   max_concurrent_messages |-> slots, dkim_workers |-> 1, max_signatures |-> 2,
   authentication_deadline |-> 2, dns_timeout |-> 1]
ThreeSettings ==
  {Settings("both", "enforce", 2), Settings("either", "enforce", 1), Settings("both", "off", 1)}

Mail(sender, spf, signatures, spooled) ==
  [sender |-> sender, spf |-> spf, signatures |-> signatures, spooled |-> spooled]
FewMails ==
  {Mail("eve", "aligned", <<"fail", "fail", "aligned">>, FALSE),
   Mail("null", "fail", <<"aligned">>, TRUE),
   Mail("eve", "fail", <<"fail">>, TRUE)}
=============================================================================
