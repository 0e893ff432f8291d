-------------------------------- MODULE Policy --------------------------------
(***************************************************************************)
(* policy.py: the rules for a recipient and a message, and how decisions   *)
(* of sections in different modes are composed.  Nothing here has state;   *)
(* cfg is the configuration, o the ConnectionFacts of a message with what  *)
(* the rules compare of its addresses and login, a rule that does not      *)
(* apply is the empty set and one that does a set of one decision.         *)
(*                                                                         *)
(* Lists of decisions are sets: of two decisions with one action, the      *)
(* first in a list only gives the reply its wording.                       *)
(***************************************************************************)
EXTENDS Naturals

Sections ==
  {"protection", "self_sender", "sender_authentication", "limits", "sending_limits"}
Modes == {"off", "observe", "enforce"}

Decision(action, rule, forced) == [action |-> action, rule |-> rule, forced |-> forced]
Allow(rule) == Decision("allow", rule, FALSE)
Reject(rule) == Decision("reject", rule, FALSE)
Defer(rule) == Decision("defer", rule, FALSE)

Section ==
  [protected_recipient |-> "protection", invalid_recipient |-> "protection",
   self_sender |-> "self_sender", authentication |-> "sender_authentication",
   limits |-> "limits", sending_limit |-> "sending_limits"]

\* invalid_from takes the stronger of its two sections.
RuleMode(cfg, rule) ==
  IF rule = "invalid_from"
  THEN LET modes == {cfg.mode["self_sender"], cfg.mode["sender_authentication"]}
       IN  IF "enforce" \in modes THEN "enforce"
           ELSE IF "observe" \in modes THEN "observe" ELSE "off"
  ELSE cfg.mode[Section[rule]]

ModeOf(cfg, d) == IF d.forced THEN "enforce" ELSE RuleMode(cfg, d.rule)

Enforced(cfg, d) == d.action # "allow" /\ ModeOf(cfg, d) = "enforce"

\* Rejection outranks deferral outranks allowance.
Combine(ds) ==
  LET worst == CHOOSE a \in {"reject", "defer", "allow"} :
                 /\ ds # {} => \E d \in ds : d.action = a
                 /\ a = "defer" => \A d \in ds : d.action # "reject"
                 /\ a = "allow" => \A d \in ds : d.action = "allow"
  IN  IF ds = {} THEN Allow("none") ELSE CHOOSE d \in ds : d.action = worst

\* Mutant of Effective: the worst decision counts, whatever its section's mode.
EffectiveWorst(cfg, ds) == Combine(ds)

\* An enforced refusal outranks an observed one.
Effective(cfg, ds) ==
  LET present  == {d \in ds : d.action = "allow" \/ ModeOf(cfg, d) # "off"}
      refusals == {d \in present : Enforced(cfg, d)}
  IN  Combine(IF refusals # {} THEN refusals ELSE present)
-----------------------------------------------------------------------------
(* Where mail comes from: ingress is the marker Postfix gives, port the    *)
(* one the client connected to, peer where it is; authenticated, tls, and  *)
(* owner: the login is its sender and one the protected address lists.     *)

Submissions == {"SUBMISSION587", "SUBMISSION465"}

MatchesPort(o) ==
  CASE o.ingress = "SMTP25" -> o.port = 25
    [] o.ingress = "SUBMISSION587" -> o.port = 587
    [] o.ingress = "SUBMISSION465" -> o.port = 465
    [] OTHER -> FALSE

\* classify_trust: the first that fits.
Trust(o) ==
  IF o.ingress = "LOCAL_PICKUP" THEN "local_pickup"
  ELSE IF o.ingress \in Submissions /\ o.authenticated /\ MatchesPort(o)
  THEN "authenticated_submission"
  ELSE IF o.ingress = "SMTP25" /\ o.peer = "this_host" THEN "local_smtp"
  ELSE IF o.ingress \in Submissions \cup {"SMTP25"} /\ o.peer = "mynetworks" THEN "mynetworks"
  ELSE "untrusted"

Authorized(o) ==
  o.ingress \in Submissions /\ MatchesPort(o) /\ o.tls /\ o.authenticated /\ o.owner
-----------------------------------------------------------------------------
(* Recipients: r.ok is FALSE for an address that cannot be parsed, r.who   *)
(* is the address, r.guarded says whether it is protected.                 *)

ProtectedRecipient(o, r) ==
  IF ~r.guarded THEN {}
  ELSE {IF o.ingress = "UNCLASSIFIED" THEN Defer("protected_recipient")
        ELSE IF Authorized(o) THEN Allow("protected_recipient")
        ELSE Reject("protected_recipient")}

SelfSenderApplies(cfg, o) ==
  /\ cfg.mode["self_sender"] # "off"
  /\ Trust(o) # "local_pickup" /\ o.port = 25
  /\ ~(cfg.ss_mynetworks /\ Trust(o) \in {"mynetworks", "local_smtp"})

Listed(cfg, who) ==
  {IF who \in cfg.allow_senders THEN Allow("self_sender") ELSE Reject("self_sender")}

\* Mutant of SelfSenderEnvelope: the identity the rule compares is not looked at.
SelfSenderAnyIdentity(cfg, o, sender, r) ==
  IF sender = r.who /\ SelfSenderApplies(cfg, o) THEN Listed(cfg, sender) ELSE {}

\* sender is an address, "null", or "unparsed".
SelfSenderEnvelope(cfg, o, sender, r) ==
  IF sender = r.who /\ SelfSenderApplies(cfg, o) /\ cfg.identity # "header_from"
  THEN Listed(cfg, sender) ELSE {}

SelfSenderHeader(cfg, o, from, accepted) ==
  IF from \in accepted /\ SelfSenderApplies(cfg, o) /\ cfg.identity # "envelope"
  THEN Listed(cfg, from) ELSE {}

RecipientRules(cfg, o, sender, r) ==
  IF r.ok
  THEN Effective(cfg, ProtectedRecipient(o, r) \cup SelfSenderEnvelope(cfg, o, sender, r))
  ELSE Reject("invalid_recipient")

\* Mutant of RecipientDecision: the bound is looked at first.
BoundedFirst(cfg, o, sender, r, kept) ==
  IF cfg.mode["limits"] # "off" /\ kept >= cfg.max_recipients
  THEN [decision |-> Defer("limits"), kept |-> cfg.mode["limits"] # "enforce"]
  ELSE [decision |-> RecipientRules(cfg, o, sender, r), kept |-> TRUE]

\* The decision on one more recipient after `kept', and whether it is kept.
RecipientDecision(cfg, o, sender, r, kept) ==
  LET rules    == RecipientRules(cfg, o, sender, r)
      overflow == cfg.mode["limits"] # "off" /\ kept >= cfg.max_recipients
      final    == IF overflow /\ ~Enforced(cfg, rules) THEN Defer("limits") ELSE rules
  IN  [decision |-> final, kept |-> ~(overflow /\ Enforced(cfg, final))]
-----------------------------------------------------------------------------
(* Sender authentication.  auth is what SPF and DKIM say of the From       *)
(* domain: spf is "aligned", "unaligned", "fail" or "temperror"; dkim is   *)
(* the set of results its signatures have, "aligned" for an aligned pass   *)
(* over the whole body; incomplete says that evaluation was cut short.     *)

RequiresAuthentication(cfg, trust) ==
  /\ cfg.mode["sender_authentication"] # "off"
  /\ CASE trust \in {"local_pickup", "local_smtp"} -> ~cfg.sa_local
       [] trust = "mynetworks" -> ~cfg.sa_mynetworks
       [] OTHER -> trust = "untrusted"

NullDkim(cfg, sender) == sender = "null" /\ cfg.null_sender = "dkim_aligned"

\* SPF alone settles the outcome, and diagnostics do not ask for DKIM after a pass.
SpfDecides(cfg, sender, spf) ==
  IF cfg.require = "either" THEN spf = "aligned"
  ELSE ~NullDkim(cfg, sender) /\ spf \in {"fail", "unaligned"}

SkipDkim(cfg, sender, spf) ==
  /\ ~(cfg.diagnostics /\ spf \in {"aligned", "unaligned"})
  /\ SpfDecides(cfg, sender, spf)

\* What authenticate() finds out of what is there to be found.
Found(cfg, sender, auth) ==
  IF SkipDkim(cfg, sender, auth.spf)
  THEN [spf |-> auth.spf, dkim |-> {}, incomplete |-> FALSE]
  ELSE auth

AuthenticationAction(cfg, sender, auth) ==
  LET dkim_pass == "aligned" \in auth.dkim
      dkim_temp == "temperror" \in auth.dkim
  IN  IF cfg.require = "either"
      THEN IF auth.spf = "aligned" \/ dkim_pass THEN "allow"
           ELSE IF auth.spf = "temperror" \/ dkim_temp \/ auth.incomplete THEN "defer"
           ELSE "reject"
      ELSE IF ~NullDkim(cfg, sender) /\ auth.spf \in {"fail", "unaligned"} THEN "reject"
      ELSE IF auth.incomplete /\ ~dkim_pass THEN "defer"
      ELSE IF NullDkim(cfg, sender)
      THEN IF dkim_pass THEN "allow" ELSE IF dkim_temp THEN "defer" ELSE "reject"
      ELSE IF ~dkim_pass /\ ~dkim_temp THEN "reject"
      ELSE IF auth.spf = "temperror" \/ ~dkim_pass THEN "defer"
      ELSE "allow"

\* Mutant of Authentication: an aligned pass of either mechanism rescues the other's error.
AuthenticationRescued(cfg, sender, auth) ==
  IF auth.spf = "aligned" \/ "aligned" \in auth.dkim THEN Allow("authentication")
  ELSE Reject("authentication")

Authentication(cfg, sender, auth) ==
  Decision(AuthenticationAction(cfg, sender, auth), "authentication", FALSE)
-----------------------------------------------------------------------------
(* The message.  from is its one valid From address, or "invalid"; over is *)
(* the bound that cut the capture, or "none".                              *)

ComparesFrom(cfg, o) == SelfSenderApplies(cfg, o) /\ cfg.identity # "envelope"

\* Mutants of NeedsMessage: the comparison of the From is forgotten; every
\* check asks for the message, also one that is only observed.
NeedsMessageAuthentication(cfg, o) ==
  cfg.mode["sender_authentication"] = "enforce" /\ RequiresAuthentication(cfg, Trust(o))
NeedsMessageObserved(cfg, o) == RequiresAuthentication(cfg, Trust(o)) \/ ComparesFrom(cfg, o)

\* An enforced check of the From, or of the sender, needs the message.
NeedsMessage(cfg, o) ==
  \/ cfg.mode["sender_authentication"] = "enforce" /\ RequiresAuthentication(cfg, Trust(o))
  \/ cfg.mode["self_sender"] = "enforce" /\ ComparesFrom(cfg, o)

\* Mutant of VisibleFrom: also mail that no rule asks for its From needs one.
VisibleFromAlways(cfg, o, from) == IF from = "invalid" THEN {Reject("invalid_from")} ELSE {}

VisibleFrom(cfg, o, from) ==
  IF from = "invalid" /\ (RequiresAuthentication(cfg, Trust(o)) \/ ComparesFrom(cfg, o))
  THEN {Reject("invalid_from")} ELSE {}

HeadersCut(over) == over \in {"max_headers", "max_header_bytes"}

\* Mutant of BoundDecision: a cut message is deferred only when limits enforce.
BoundObserved(cfg, o, over) == IF over = "none" THEN {} ELSE {Defer("limits")}

\* A bound that cut the input of an enforced check enforces, whatever [limits] says.
BoundDecision(cfg, o, over) ==
  IF over = "none" THEN {}
  ELSE {Decision("defer", "limits",
          IF HeadersCut(over) THEN NeedsMessage(cfg, o)
          ELSE /\ cfg.mode["sender_authentication"] = "enforce"
               /\ RequiresAuthentication(cfg, Trust(o)))}

\* The decisions on a message before sender authentication.
MessageRules(cfg, o, deferred, accepted, from, over) ==
  deferred \cup BoundDecision(cfg, o, over)
    \cup IF HeadersCut(over) THEN {}
         ELSE VisibleFrom(cfg, o, from)
                \cup (IF from = "invalid" THEN {} ELSE SelfSenderHeader(cfg, o, from, accepted))

\* Mutant of Authenticates: any rejection stops the check, also an observed one.
AuthenticatesUnless(cfg, o, rules, from, over) ==
  /\ over = "none" /\ from # "invalid" /\ RequiresAuthentication(cfg, Trust(o))
  /\ \A d \in rules : d.action # "reject"

Authenticates(cfg, o, rules, from, over) ==
  /\ over = "none" /\ from # "invalid" /\ RequiresAuthentication(cfg, Trust(o))
  /\ ~\E d \in rules : Enforced(cfg, d) /\ d.action = "reject"
=============================================================================
