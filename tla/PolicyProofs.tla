------------------------------ MODULE PolicyProofs ------------------------------
(***************************************************************************)
(* The policy of MilterSession, for any number of sessions, messages and   *)
(* configurations: a delivered message breaks no rule whose section        *)
(* enforces, only a rule that enforces refuses a message or one of its     *)
(* recipients, and the sending limit holds of what is delivered.           *)
(***************************************************************************)
EXTENDS MilterSessionProofs
-----------------------------------------------------------------------------
(* The modes of the rules, and when a single rule refuses.                 *)
LEMMA RuleModes ==
  ASSUME NEW c
  PROVE  /\ RuleMode(c, "protected_recipient") = c.mode["protection"]
         /\ RuleMode(c, "invalid_recipient") = c.mode["protection"]
         /\ RuleMode(c, "self_sender") = c.mode["self_sender"]
         /\ RuleMode(c, "authentication") = c.mode["sender_authentication"]
         /\ RuleMode(c, "limits") = c.mode["limits"]
         /\ RuleMode(c, "sending_limit") = c.mode["sending_limits"]
         /\ c.mode["self_sender"] = "enforce" => RuleMode(c, "invalid_from") = "enforce"
         /\ c.mode["sender_authentication"] = "enforce" => RuleMode(c, "invalid_from") = "enforce"
BY DEF RuleMode, Section

LEMMA RefusalModes ==
  ASSUME NEW c, NEW rule
  PROVE  /\ Enforced(c, Reject(rule)) <=> RuleMode(c, rule) = "enforce"
         /\ Enforced(c, Defer(rule)) <=> RuleMode(c, rule) = "enforce"
         /\ ~Enforced(c, Allow(rule))
         /\ Enforced(c, Decision("defer", rule, TRUE))
         /\ RuleMode(c, rule) = "enforce" => \A f : Enforced(c, Decision("defer", rule, f))
BY DEF Enforced, ModeOf, Reject, Defer, Allow, Decision

\* A recipient no enforced rule refuses breaks none.
LEMMA RecipientHolds ==
  ASSUME NEW c, NEW o, NEW sender, NEW r, ~Enforced(c, RecipientRules(c, o, sender, r))
  PROVE  /\ c.mode["protection"] = "enforce" => ~Unprotected(o, r)
         /\ c.mode["self_sender"] = "enforce" =>
              ~(/\ SelfSenderApplies(c, o) /\ c.identity # "header_from"
                /\ r.ok /\ r.who = sender /\ sender \notin c.allow_senders)
<1>1. CASE ~r.ok
  <2>1. ~Enforced(c, Reject("invalid_recipient"))
    BY <1>1 DEF RecipientRules
  <2>2. c.mode["protection"] # "enforce"
    BY <2>1, RuleModes, RefusalModes
  <2> QED  BY <1>1, <2>2
<1>2. CASE r.ok
  <2> DEFINE ds == ProtectedRecipient(o, r) \cup SelfSenderEnvelope(c, o, sender, r)
  <2>1. Refusals(ds)
    BY DecisionActions DEF Refusals, ProtectedRecipient, SelfSenderEnvelope, Listed
  <2>2. ~Enforced(c, Effective(c, ds))
    BY <1>2 DEF RecipientRules
  <2>3. \A d \in ds : ~Enforced(c, d)
    <3> HIDE DEF ds
    <3> QED  BY <2>1, <2>2, EffectiveEnforces
  <2>4. ASSUME c.mode["protection"] = "enforce", r.guarded, ~Authorized(o)
        PROVE  FALSE
    <3>1. Enforced(c, Defer("protected_recipient")) /\ Enforced(c, Reject("protected_recipient"))
      BY <2>4, RuleModes, RefusalModes
    <3>2. \/ Defer("protected_recipient") \in ds
          \/ Reject("protected_recipient") \in ds
      BY <2>4 DEF ProtectedRecipient
    <3> QED  BY <2>3, <3>1, <3>2
  <2>5. ASSUME c.mode["self_sender"] = "enforce", SelfSenderApplies(c, o),
               c.identity # "header_from", r.who = sender, sender \notin c.allow_senders
        PROVE  FALSE
    <3>1. Enforced(c, Reject("self_sender"))
      BY <2>5, RuleModes, RefusalModes
    <3>2. Reject("self_sender") \in ds
      BY <2>5 DEF SelfSenderEnvelope, Listed
    <3> QED  BY <2>3, <3>1, <3>2
  <2> QED  BY <1>2, <2>4, <2>5 DEF Unprotected
<1> QED  BY <1>1, <1>2

\* A message no enforced rule refuses, before sender authentication.
LEMMA MessageHolds ==
  ASSUME NEW c, NEW o, NEW deferred, NEW accepted, NEW from, NEW over,
         \A d \in MessageRules(c, o, deferred, accepted, from, over) : ~Enforced(c, d)
  PROVE  /\ c.mode["limits"] = "enforce" => over = "none"
         /\ c.mode["sender_authentication"] = "enforce" /\ RequiresAuthentication(c, Trust(o))
              => over = "none" /\ from # "invalid"
         /\ c.mode["self_sender"] = "enforce" /\ ComparesFrom(c, o)
              => /\ from # "invalid"
                 /\ from \in accepted => from \in c.allow_senders
<1> DEFINE ds == MessageRules(c, o, deferred, accepted, from, over)
<1>1. /\ BoundDecision(c, o, over) \subseteq ds
      /\ ~HeadersCut(over) => VisibleFrom(c, o, from) \subseteq ds
      /\ ~HeadersCut(over) /\ from # "invalid"
           => SelfSenderHeader(c, o, from, accepted) \subseteq ds
  BY DEF MessageRules
<1>2. \A d \in ds : ~Enforced(c, d)
  OBVIOUS
<1> HIDE DEF ds
<1>3. c.mode["limits"] = "enforce" => over = "none"
  <2> SUFFICES ASSUME c.mode["limits"] = "enforce", over # "none" PROVE FALSE
    OBVIOUS
  <2>1. PICK f : Decision("defer", "limits", f) \in BoundDecision(c, o, over)
    BY DEF BoundDecision
  <2> QED  BY <1>1, <1>2, <2>1, RuleModes, RefusalModes
<1>4. ASSUME \/ c.mode["sender_authentication"] = "enforce" /\ RequiresAuthentication(c, Trust(o))
             \/ c.mode["self_sender"] = "enforce" /\ ComparesFrom(c, o)
      PROVE  ~HeadersCut(over) /\ from # "invalid"
  <2>1. NeedsMessage(c, o)
    BY <1>4 DEF NeedsMessage
  <2>2. ~HeadersCut(over)
    <3> SUFFICES ASSUME HeadersCut(over) PROVE FALSE
      OBVIOUS
    <3>1. Decision("defer", "limits", TRUE) \in BoundDecision(c, o, over)
      BY <2>1 DEF BoundDecision, HeadersCut
    <3> QED  BY <1>1, <1>2, <3>1, RefusalModes
  <2>3. from # "invalid"
    <3> SUFFICES ASSUME from = "invalid" PROVE FALSE
      OBVIOUS
    <3>1. Reject("invalid_from") \in VisibleFrom(c, o, from)
      BY <1>4 DEF VisibleFrom
    <3>2. Enforced(c, Reject("invalid_from"))
      BY <1>4, RuleModes, RefusalModes
    <3> QED  BY <1>1, <1>2, <2>2, <3>1, <3>2
  <2> QED  BY <2>2, <2>3
<1>5. ASSUME c.mode["sender_authentication"] = "enforce", RequiresAuthentication(c, Trust(o))
      PROVE  over = "none"
  <2> SUFFICES ASSUME over # "none" PROVE FALSE
    OBVIOUS
  <2>1. Decision("defer", "limits", TRUE) \in BoundDecision(c, o, over)
    BY <1>4, <1>5 DEF BoundDecision
  <2> QED  BY <1>1, <1>2, <2>1, RefusalModes
<1>6. ASSUME c.mode["self_sender"] = "enforce", ComparesFrom(c, o), from \in accepted
      PROVE  from \in c.allow_senders
  <2> SUFFICES ASSUME from \notin c.allow_senders PROVE FALSE
    OBVIOUS
  <2>1. Reject("self_sender") \in SelfSenderHeader(c, o, from, accepted)
    BY <1>6 DEF SelfSenderHeader, Listed, ComparesFrom
  <2>2. Enforced(c, Reject("self_sender"))
    BY <1>6, RuleModes, RefusalModes
  <2> QED  BY <1>1, <1>2, <1>4, <1>6, <2>1, <2>2
<1> QED  BY <1>3, <1>4, <1>5, <1>6

\* Authentication that does not refuse found what the section requires.
LEMMA AuthenticationHolds ==
  ASSUME NEW c, NEW sender, NEW auth,
         auth.spf \in {"aligned", "unaligned", "fail", "temperror"},
         c.mode["sender_authentication"] = "enforce",
         ~Enforced(c, Authentication(c, sender, Found(c, sender, auth)))
  PROVE  IF c.require = "either" THEN auth.spf = "aligned" \/ "aligned" \in auth.dkim
         ELSE /\ "aligned" \in auth.dkim
              /\ auth.spf = "aligned" \/ NullDkim(c, sender)
<1> DEFINE found == Found(c, sender, auth)
<1>1. AuthenticationAction(c, sender, found) = "allow"
  BY RuleModes DEF Authentication, Enforced, ModeOf, Decision
<1>2. found.spf = auth.spf /\ ("aligned" \in found.dkim => "aligned" \in auth.dkim)
  BY DEF Found
<1> HIDE DEF found
<1> QED  BY <1>1, <1>2 DEF AuthenticationAction
-----------------------------------------------------------------------------
(* The steps, by what they do to a session: a message begins, gets a       *)
(* recipient, moves on, or is over.                                        *)
Moves(s) ==
  \/ Connect(s) \/ MailReset(s)
  \/ \E o \in Origins, f \in Senders : Mail(s, o, f)
  \/ \E r \in Recipients : Rcpt(s, r)
  \/ \E c \in Contents : Data(s, c)
  \/ SpoolFails(s) \/ EndOfMessage(s)
  \/ AcquireSlot(s) \/ SlotTimeout(s) \/ Verified(s) \/ VerifyRaises(s)
  \/ Abort(s) \/ Close(s)

GoesOn(s) ==
  /\ UNCHANGED <<cfg, tx>> /\ post'[s].envelope = post[s].envelope
  /\ \/ /\ post[s].stage = "rcpt" /\ post'[s].stage = "data" /\ post'[s].content \in Contents
     \/ post[s].stage = "data" /\ post'[s].stage = "broken"
     \/ /\ post[s].stage = "data" /\ post'[s].stage = "wait" /\ MustAuthenticate(s)
        /\ post'[s].content = post[s].content
     \/ /\ post[s].stage = "wait" /\ post'[s].stage = "verify"
        /\ post'[s].content = post[s].content

IsOver(s) == UNCHANGED cfg /\ (tx'[s] = Blank \/ tx' = tx) /\ post'[s].stage \notin Open

\* The three ways to answer the end of a message.
Answers(s) ==
  \/ post[s].stage = "data" /\ ~MustAuthenticate(s) /\ Finish(s, Rules(s))
  \/ SlotTimeout(s)
  \/ Verified(s)

\* A step is one of a single session, and leaves the others as they are.
LEMMA NextMoves ==
  ASSUME CountInv, Next
  PROVE  \E s \in Sessions :
           /\ Moves(s) /\ cfg' = cfg
           /\ \A u \in Sessions \ {s} : tx'[u] = tx[u] /\ post'[u] = post[u]
<1>1. PICK s \in Sessions : Moves(s)
  BY DEF Next, Moves
<1>2. cfg' = cfg /\ \A u \in Sessions \ {s} : tx'[u] = tx[u] /\ post'[u] = post[u]
  BY <1>1, Facts DEF Moves, Connect, MailReset, Mail, Rcpt, Data, SpoolFails, EndOfMessage,
     AcquireSlot, SlotTimeout, Verified, VerifyRaises, Abort, Close, Finish, Reset
<1> QED  BY <1>1, <1>2

\* An answer to the end of a message ends it, accepted or refused.
LEMMA AnswersEnd ==
  ASSUME NEW s \in Sessions, CountInv, Answers(s)
  PROVE  IsOver(s) /\ post'[s].stage \in {"sent", "failed"}
<1>1. PICK ds : Finish(s, ds)
  BY DEF Answers, SlotTimeout, Verified
<1>2. /\ tx'[s] = Blank /\ cfg' = cfg
      /\ \E stage \in {"sent", "failed"} : post' = [post EXCEPT ![s] = At(stage)]
  BY <1>1, Facts DEF Finish, Reset
<1>3. post'[s].stage \in {"sent", "failed"}
  BY <1>2, Facts, BlankRecord
<1> QED  BY <1>2, <1>3 DEF IsOver, Open

\* Every step of a session is of one of these kinds.
LEMMA MoveKinds ==
  ASSUME NEW s \in Sessions, CountInv, Moves(s)
  PROVE  \/ post[s].stage = "mail" /\ \E o \in Origins, f \in Senders : Mail(s, o, f)
         \/ \E r \in Recipients : Rcpt(s, r)
         \/ GoesOn(s)
         \/ Answers(s)
         \/ IsOver(s) /\ post[s].stage # "mail" /\ post'[s].stage \notin {"sent", "failed"}
<1>1. CASE \/ \E o \in Origins, f \in Senders : Mail(s, o, f)
           \/ \E r \in Recipients : Rcpt(s, r)
  BY <1>1 DEF Mail
<1>2. CASE \E c \in Contents : Data(s, c)
  <2>1. PICK c \in Contents : Data(s, c)
    BY <1>2
  <2> QED  BY <2>1, Facts DEF Data, GoesOn
<1>3. CASE SpoolFails(s)
  BY <1>3, Facts DEF SpoolFails, GoesOn
<1>4. CASE AcquireSlot(s)
  BY <1>4, Facts DEF AcquireSlot, GoesOn
<1>5. CASE EndOfMessage(s) /\ MustAuthenticate(s)
  BY <1>5, Facts DEF EndOfMessage, GoesOn
<1>6. CASE (EndOfMessage(s) /\ ~MustAuthenticate(s)) \/ SlotTimeout(s) \/ Verified(s)
  BY <1>6 DEF EndOfMessage, Answers
<1>7. CASE MailReset(s) \/ VerifyRaises(s) \/ Abort(s) \/ Close(s) \/ Connect(s)
  <2>1. /\ post[s].stage # "mail" /\ UNCHANGED cfg
        /\ tx' = [tx EXCEPT ![s] = Blank] \/ tx' = tx
        /\ \E stage \in {"mail", "idle", "closed"} : post' = [post EXCEPT ![s] = At(stage)]
    BY <1>7 DEF MailReset, VerifyRaises, Abort, Close, Connect, Reset, Calm
  <2>2. (tx'[s] = Blank \/ tx' = tx) /\ post'[s].stage \in {"mail", "idle", "closed"}
    BY <2>1, Facts, BlankRecord
  <2> QED  BY <2>1, <2>2 DEF IsOver, Open
<1> QED  BY <1>1, <1>2, <1>3, <1>4, <1>5, <1>6, <1>7 DEF Moves

\* A message is accepted when no decision on it is enforced.
LEMMA FinishEnds ==
  ASSUME NEW s \in Sessions, NEW ds, CountInv, Finish(s, ds), Refusals(ds)
  PROVE  /\ post'[s].stage = "sent" => \A d \in ds : ~Enforced(cfg, d)
         /\ post'[s].stage = "failed" => \E d \in ds : Enforced(cfg, d)
<1>1. post'[s].stage = IF ~Enforced(cfg, Effective(cfg, ds)) THEN "sent" ELSE "failed"
  BY Facts, BlankRecord DEF Finish
<1> QED  BY <1>1, EffectiveEnforces

\* Only an answer to its end accepts or refuses a whole message.
LEMMA EndsByAnswer ==
  ASSUME NEW s \in Sessions, CountInv, Next, NEW how \in {"sent", "failed"}, Ended(s, how)
  PROVE  Answers(s)
<1>1. Moves(s)
  BY NextMoves DEF Ended
<1>2. ASSUME GoesOn(s) \/ (\E r \in Recipients : Rcpt(s, r)) PROVE FALSE
  <2>1. CASE GoesOn(s)
    BY <2>1 DEF GoesOn, Ended
  <2>2. CASE \E r \in Recipients : Rcpt(s, r)
    BY <2>2, Facts DEF Rcpt, Ended
  <2> QED  BY <1>2, <2>1, <2>2
<1>3. ASSUME NEW o, NEW sender, Mail(s, o, sender) PROVE FALSE
  <2>1. \E stage \in {"idle", "rcpt"} : post' = [post EXCEPT ![s] = At(stage)]
    BY <1>3 DEF Mail
  <2> QED  BY <2>1, Facts, BlankRecord DEF Ended
<1> QED  BY <1>1, <1>2, <1>3, MoveKinds DEF Ended
-----------------------------------------------------------------------------
(* What is true of a message in progress: an enforced refusal waits for    *)
(* its end, or each recipient accepted breaks no enforced rule, is among   *)
(* those its From is compared with, and there are not too many.            *)
Waiting(s) == \E d \in tx[s].deferred : Enforced(cfg, d)

Admissible(s, r) ==
  /\ Enforces("protection") => ~Unprotected(tx[s].origin, r)
  /\ Enforces("self_sender") => ~EnvelopeSelfSent(s, r)
  /\ r.ok => r.who \in Accepted(s)

AllAdmissible(s) ==
  /\ \A r \in Envelope(s) : Admissible(s, r)
  /\ Enforces("limits") => Len(post[s].envelope) <= Len(tx[s].recipients)

\* A message that was withheld from the start waits for its deferral.
Captured(s) ==
  \/ tx[s].capture
  \/ /\ Bounded
     /\ Decision("defer", "limits", NeedsMessage(cfg, tx[s].origin)) \in tx[s].deferred

RulesOk(s) ==
  /\ \E T : tx[s].recipients \in Seq(T)
  /\ Enforces("limits") => Len(tx[s].recipients) <= cfg.max_recipients
  /\ post[s].stage \in Open => Captured(s) /\ (Waiting(s) \/ AllAdmissible(s))
  /\ post[s].stage \in {"data", "wait", "verify"} => post[s].content \in Contents

RuleInv == CountInv /\ \A s \in Sessions : RulesOk(s)

\* What is true of a session stays true while it takes no step.
LEMMA SameOk ==
  ASSUME NEW u \in Sessions, tx'[u] = tx[u], post'[u] = post[u], cfg' = cfg, RulesOk(u)
  PROVE  RulesOk(u)'
<1>1. Captured(u)' <=> Captured(u)
  BY DEF Captured, Bounded
<1>2. Waiting(u)' <=> Waiting(u)
  BY DEF Waiting
<1>3. Accepted(u)' = Accepted(u) /\ Envelope(u)' = Envelope(u)
  BY DEF Accepted, Envelope
<1>4. \A section : Enforces(section)' <=> Enforces(section)
  BY DEF Enforces
<1>5. \A r : Admissible(u, r)' <=> Admissible(u, r)
  BY <1>3, <1>4 DEF Admissible, EnvelopeSelfSent, SelfSent
<1>6. AllAdmissible(u)' <=> AllAdmissible(u)
  BY <1>3, <1>4, <1>5 DEF AllAdmissible
<1> QED  BY <1>1, <1>2, <1>4, <1>6 DEF RulesOk

\* A step of one session leaves the others as they are.
LEMMA OthersOk ==
  ASSUME RuleInv, CountInv', UNCHANGED cfg, NEW s \in Sessions, RulesOk(s)',
         \A u \in Sessions \ {s} : tx'[u] = tx[u] /\ post'[u] = post[u]
  PROVE  RuleInv'
<1>1. ASSUME NEW u \in Sessions, u # s PROVE RulesOk(u)'
  <2>1. tx'[u] = tx[u] /\ post'[u] = post[u] /\ cfg' = cfg /\ RulesOk(u)
    BY <1>1 DEF RuleInv
  <2> QED  BY <2>1, SameOk
<1> QED  BY <1>1 DEF RuleInv

\* A message that is over leaves nothing to decide.
LEMMA OverOk ==
  ASSUME NEW s \in Sessions, RuleInv, IsOver(s)
  PROVE  RulesOk(s)'
<1>1. Blank.recipients = <<>> /\ <<>> \in Seq({}) /\ Len(<<>>) = 0
  BY DEF Blank
<1>2. cfg.max_recipients \in Nat
  BY SessionAssumption DEF RuleInv, CountInv, Shape
<1>3. (\E T : tx'[s].recipients \in Seq(T)) /\ cfg' = cfg
      /\ (Enforces("limits") => Len(tx'[s].recipients) <= cfg.max_recipients)
  <2>1. CASE tx'[s] = Blank
    <3>1. tx'[s].recipients = <<>>
      BY <1>1, <2>1
    <3>2. (\E T : tx'[s].recipients \in Seq(T)) /\ Len(tx'[s].recipients) = 0
      BY <1>1, <3>1, Zenon
    <3> QED  BY <1>2, <3>2 DEF IsOver
  <2>2. CASE tx' = tx
    BY <2>2 DEF RuleInv, RulesOk, IsOver
  <2> QED  BY <2>1, <2>2 DEF IsOver
<1> QED  BY <1>3 DEF RulesOk, IsOver, Open, Enforces

\* A sequence with one more element.
LEMMA AppendOne ==
  ASSUME NEW T, NEW q \in Seq(T), NEW e
  PROVE  /\ \E U : Append(q, e) \in Seq(U)
         /\ Len(q) \in Nat /\ Len(Append(q, e)) = Len(q) + 1 /\ DOMAIN q = 1 .. Len(q)
         /\ DOMAIN Append(q, e) = 1 .. Len(q) + 1
         /\ \A i \in DOMAIN q : i \in DOMAIN Append(q, e) /\ Append(q, e)[i] = q[i]
         /\ Append(q, e)[Len(q) + 1] = e
<1>1. q \in Seq(T \cup {e}) /\ e \in T \cup {e}
  OBVIOUS
<1>2. Append(q, e) \in Seq(T \cup {e})
  BY <1>1
<1> QED  BY <1>1, <1>2

\* What the bound on recipients keeps, and that it refuses no fewer than the rules.
LEMMA BoundKeeps ==
  ASSUME NEW c, NEW o, NEW sender, NEW r, NEW n \in Nat, c.max_recipients \in Nat,
         NEW rules, rules = RecipientDecision(c, o, sender, r, n)
  PROVE  /\ c.mode["limits"] = "enforce" /\ rules.kept => n < c.max_recipients
         /\ ~Enforced(c, rules.decision) =>
              rules.kept /\ ~Enforced(c, RecipientRules(c, o, sender, r))
<1> DEFINE plain    == RecipientRules(c, o, sender, r)
           overflow == c.mode["limits"] # "off" /\ n >= c.max_recipients
           final    == IF overflow /\ ~Enforced(c, plain) THEN Defer("limits") ELSE plain
<1>1. rules.decision = final /\ (rules.kept <=> ~(overflow /\ Enforced(c, final)))
  BY DEF RecipientDecision
<1>2. c.mode["limits"] = "enforce" => Enforced(c, Defer("limits"))
  BY RefusalModes, RuleModes
<1>3. ~Enforced(c, final) => ~Enforced(c, plain)
  OBVIOUS
<1>4. overflow /\ c.mode["limits"] = "enforce" => Enforced(c, final)
  BY <1>2
<1>5. c.mode["limits"] = "enforce" /\ n >= c.max_recipients => overflow
  OBVIOUS
<1> HIDE DEF plain, overflow, final
<1>6. n < c.max_recipients \/ n >= c.max_recipients
  OBVIOUS
<1> QED  BY <1>1, <1>3, <1>4, <1>5, <1>6 DEF plain

\* The limit refuses no fewer than the rules.
LEMMA LimitRefuses ==
  ASSUME NEW s \in Sessions, NEW r, NEW rules, rules.action \in Actions,
         ~Enforced(cfg, Limiting(s, r, rules))
  PROVE  ~Enforced(cfg, rules)
<1> DEFINE both == {rules, Defer("sending_limit")}
<1>1. Refusals(both)
  BY DecisionActions DEF Refusals
<1>2. Enforced(cfg, Effective(cfg, both)) <=> \E d \in both : Enforced(cfg, d)
  BY <1>1, EffectiveEnforces
<1> QED  BY <1>2 DEF Limiting

\* One more recipient: refused, waiting for the end, or breaking nothing.
LEMMA RcptRules ==
  ASSUME NEW s \in Sessions, NEW r \in Recipients, RuleInv, Rcpt(s, r)
  PROVE  RulesOk(s)'
<1> DEFINE t        == tx[s]
           rules    == RecipientDecision(cfg, t.origin, t.sender, r, Len(t.recipients))
           decision == Limiting(s, r, rules.decision)
           waits    == decision.action # "allow" /\ IsPickup(s)
           entry    == [of |-> r, decision |-> decision]
           kept     == IF rules.kept THEN Append(t.recipients, entry) ELSE t.recipients
           waiting  == IF waits THEN t.deferred \cup {decision} ELSE t.deferred
           refused  == Enforced(cfg, decision) /\ ~waits
           envelope == IF refused THEN post[s].envelope ELSE Append(post[s].envelope, r)
<1>1. PICK place :
        /\ tx' = [tx EXCEPT ![s] = [t EXCEPT !.recipients = kept, !.deferred = waiting,
                                             !.reservation = t.reservation + place]]
        /\ post' = IF refused THEN post ELSE [post EXCEPT ![s].envelope = envelope]
        /\ UNCHANGED cfg /\ post[s].stage = "rcpt"
  BY DEF Rcpt
<1>2. CountInv /\ RulesOk(s)
  BY DEF RuleInv
<1>3. cfg.max_recipients \in Nat
  BY <1>2, SessionAssumption DEF CountInv, Shape
<1>4. PICK T : t.recipients \in Seq(T)
  BY <1>2 DEF RulesOk
<1>5. Len(t.recipients) \in Nat
  BY <1>4
<1>6. /\ cfg.mode["limits"] = "enforce" /\ rules.kept => Len(t.recipients) < cfg.max_recipients
      /\ ~Enforced(cfg, rules.decision) =>
           rules.kept /\ ~Enforced(cfg, RecipientRules(cfg, t.origin, t.sender, r))
  BY <1>3, <1>5, BoundKeeps
<1>7. ~Enforced(cfg, decision) =>
        rules.kept /\ ~Enforced(cfg, RecipientRules(cfg, t.origin, t.sender, r))
  BY <1>6, LimitRefuses, RecipientActions
<1>8. Enforced(cfg, decision) /\ waits => decision \in waiting
  OBVIOUS
<1>9. t.deferred \subseteq waiting
  OBVIOUS
<1>10. entry.of = r /\ entry.decision = decision
  OBVIOUS
<1>11. kept = IF rules.kept THEN Append(t.recipients, entry) ELSE t.recipients
  OBVIOUS
<1>12. refused <=> Enforced(cfg, decision) /\ ~waits
  OBVIOUS
<1>13. envelope = IF refused THEN post[s].envelope ELSE Append(post[s].envelope, r)
  OBVIOUS
<1> HIDE DEF rules, decision, waits, entry, kept, waiting, refused, envelope
<1>14. /\ tx'[s].recipients = kept /\ tx'[s].deferred = waiting /\ tx'[s].origin = t.origin
       /\ tx'[s].sender = t.sender /\ tx'[s].capture = t.capture /\ cfg' = cfg
  BY <1>1, <1>2, Facts DEF Blank
<1>15. post'[s].stage = "rcpt" /\ post'[s].envelope = envelope /\ post'[s].content = post[s].content
  BY <1>1, <1>2, <1>13, Facts
<1>16. /\ \E U : kept \in Seq(U)
       /\ Len(kept) \in Nat /\ Len(t.recipients) <= Len(kept)
       /\ rules.kept => Len(kept) = Len(t.recipients) + 1
       /\ \A i \in DOMAIN t.recipients : i \in DOMAIN kept /\ kept[i] = t.recipients[i]
       /\ rules.kept => /\ Len(t.recipients) + 1 \in DOMAIN kept
                        /\ kept[Len(t.recipients) + 1] = entry
  <2>1. CASE rules.kept
    <3>1. kept = Append(t.recipients, entry)
      BY <1>11, <2>1
    <3> DEFINE grown == Append(t.recipients, entry)
    <3>2. /\ \E U : grown \in Seq(U)
          /\ Len(t.recipients) \in Nat /\ Len(grown) = Len(t.recipients) + 1
          /\ DOMAIN grown = 1 .. Len(t.recipients) + 1
          /\ \A i \in DOMAIN t.recipients : i \in DOMAIN grown /\ grown[i] = t.recipients[i]
          /\ grown[Len(t.recipients) + 1] = entry
      <4>1. PICK q : q = t.recipients
        OBVIOUS
      <4>2. q \in Seq(T)
        BY <1>4, <4>1
      <4>3. Append(q, entry) \in Seq(T \cup {entry})
        <5>1. q \in Seq(T \cup {entry}) /\ entry \in T \cup {entry}
          BY <4>2
        <5> QED  BY <5>1
      <4>4. /\ Len(q) \in Nat /\ Len(Append(q, entry)) = Len(q) + 1
            /\ DOMAIN Append(q, entry) = 1 .. Len(q) + 1 /\ DOMAIN q = 1 .. Len(q)
            /\ \A i \in DOMAIN q : i \in DOMAIN Append(q, entry) /\ Append(q, entry)[i] = q[i]
            /\ Append(q, entry)[Len(q) + 1] = entry
        BY <4>2
      <4> QED  BY <4>1, <4>3, <4>4, Zenon
    <3>3. kept = grown
      BY <3>1
    <3> HIDE DEF grown
    <3> QED  BY <3>2, <3>3
  <2>2. CASE ~rules.kept
    BY <1>4, <1>5, <1>11, <2>2
  <2> QED  BY <2>1, <2>2
<1>17. Enforces("limits") => Len(kept) <= cfg.max_recipients
  <2> SUFFICES ASSUME Enforces("limits") PROVE Len(kept) <= cfg.max_recipients
    OBVIOUS
  <2>1. CASE rules.kept
    BY <1>3, <1>5, <1>6, <1>16, <2>1 DEF Enforces
  <2>2. CASE ~rules.kept
    BY <1>2, <1>11, <2>2 DEF RulesOk
  <2> QED  BY <2>1, <2>2
<1>18. Captured(s)'
  <2>1. Captured(s)
    BY <1>1, <1>2 DEF RulesOk, Open
  <2> QED  BY <1>9, <1>14, <2>1 DEF Captured, Bounded
<1>19. Accepted(s) \subseteq Accepted(s)'
  BY <1>14, <1>16 DEF Accepted
<1>20. rules.kept /\ r.ok /\ ~Enforced(cfg, decision) => r.who \in Accepted(s)'
  BY <1>10, <1>14, <1>16 DEF Accepted
<1>21. \A x : Admissible(s, x) => Admissible(s, x)'
  BY <1>14, <1>19 DEF Admissible, EnvelopeSelfSent, SelfSent, Enforces
<1>22. Waiting(s)' \/ AllAdmissible(s)'
  <2>1. CASE Waiting(s)
    BY <1>9, <1>14, <2>1 DEF Waiting
  <2>2. CASE Enforced(cfg, decision) /\ waits
    BY <1>8, <1>14, <2>2 DEF Waiting
  <2>3. CASE refused /\ AllAdmissible(s)
    <3>1. Envelope(s)' = Envelope(s)
      BY <1>13, <1>15, <2>3 DEF Envelope
    <3>2. Enforces("limits") => Len(post'[s].envelope) <= Len(kept)
      <4>1. Len(post[s].envelope) \in Nat
        BY <1>2, Facts
      <4> QED  BY <1>5, <1>13, <1>15, <1>16, <2>3, <4>1 DEF AllAdmissible
    <3> QED  BY <1>14, <1>21, <2>3, <3>1, <3>2 DEF AllAdmissible, Enforces
  <2>4. CASE ~Enforced(cfg, decision) /\ AllAdmissible(s)
    <3>1. post[s].envelope \in Seq(Recipients) /\ envelope = Append(post[s].envelope, r)
      BY <1>2, <1>12, <1>13, <2>4, Facts
    <3>2. /\ Len(post[s].envelope) \in Nat /\ Len(envelope) = Len(post[s].envelope) + 1
          /\ DOMAIN envelope = 1 .. Len(post[s].envelope) + 1
          /\ DOMAIN post[s].envelope = 1 .. Len(post[s].envelope)
          /\ \A i \in DOMAIN post[s].envelope : envelope[i] = post[s].envelope[i]
          /\ envelope[Len(post[s].envelope) + 1] = r
      BY <3>1, AppendOne
    <3>3. Envelope(s)' \subseteq Envelope(s) \cup {r}
      BY <1>15, <3>2 DEF Envelope
    <3>4. /\ cfg.mode["protection"] = "enforce" => ~Unprotected(t.origin, r)
          /\ cfg.mode["self_sender"] = "enforce" =>
               ~(/\ SelfSenderApplies(cfg, t.origin) /\ cfg.identity # "header_from"
                 /\ r.ok /\ r.who = t.sender /\ t.sender \notin cfg.allow_senders)
      BY <1>7, <2>4, RecipientHolds
    <3>5. Admissible(s, r)'
      <4>1. Enforces("self_sender") => ~EnvelopeSelfSent(s, r)
        BY <3>4 DEF EnvelopeSelfSent, SelfSent, Enforces
      <4>2. Enforces("self_sender")' => ~EnvelopeSelfSent(s, r)'
        BY <1>14, <4>1 DEF EnvelopeSelfSent, SelfSent, Enforces
      <4>3. Enforces("protection")' => ~Unprotected(tx'[s].origin, r)
        BY <1>14, <3>4 DEF Enforces
      <4> QED  BY <1>7, <1>20, <2>4, <4>2, <4>3 DEF Admissible
    <3>6. Enforces("limits") => Len(envelope) <= Len(kept)
      BY <1>5, <1>7, <1>16, <2>4, <3>2 DEF AllAdmissible
    <3>7. \A x \in Envelope(s)' : Admissible(s, x)'
      BY <1>21, <2>4, <3>3, <3>5 DEF AllAdmissible
    <3> QED  BY <1>14, <1>15, <3>6, <3>7 DEF AllAdmissible, Enforces
  <2> QED  BY <1>1, <1>2, <1>12, <2>1, <2>2, <2>3, <2>4 DEF RulesOk, Open
<1> QED  BY <1>14, <1>15, <1>16, <1>17, <1>18, <1>22 DEF RulesOk, Enforces

\* A message begins with no recipient.
LEMMA MailRules ==
  ASSUME NEW s \in Sessions, NEW o, NEW sender, RuleInv, Mail(s, o, sender)
  PROVE  RulesOk(s)'
<1> DEFINE decision == Decision("defer", "limits", NeedsMessage(cfg, o))
           noSlot   == Bounded /\ openFree = 0
           refused  == noSlot /\ Trust(o) # "local_pickup" /\ Enforced(cfg, decision)
           waiting  == IF noSlot /\ ~refused THEN {decision} ELSE {}
           next     == [Blank EXCEPT !.origin = o, !.sender = sender, !.capture = ~noSlot,
                                     !.holds_slot = Bounded /\ ~noSlot, !.deferred = waiting]
           stage    == IF refused THEN "idle" ELSE "rcpt"
<1>1. /\ tx' = [tx EXCEPT ![s] = next] /\ post' = [post EXCEPT ![s] = At(stage)]
      /\ UNCHANGED cfg
  BY DEF Mail
<1>2. /\ next.recipients = <<>> /\ next.deferred = waiting
      /\ next.origin = o /\ next.capture = ~noSlot
  BY DEF Blank
<1>3. /\ stage = "rcpt" => ~refused
      /\ stage \notin {"data", "wait", "verify"} /\ (stage \in Open => stage = "rcpt")
  BY DEF Open
<1>4. noSlot => Bounded
  OBVIOUS
<1>5. noSlot /\ ~refused => decision \in waiting
  OBVIOUS
<1> HIDE DEF decision, noSlot, refused, waiting, next, stage
<1>6. tx'[s] = next /\ post'[s] = At(stage) /\ cfg' = cfg
  BY <1>1, Facts DEF RuleInv
<1>7. <<>> \in Seq({}) /\ Len(<<>>) = 0 /\ DOMAIN <<>> = {}
  OBVIOUS
<1>8. cfg.max_recipients \in Nat
  BY SessionAssumption DEF RuleInv, CountInv, Shape
<1>9. post'[s].stage = stage /\ post'[s].envelope = <<>>
  BY <1>6, BlankRecord
<1>10. AllAdmissible(s)'
  <2>1. Envelope(s)' = {}
    BY <1>7, <1>9, Zenon DEF Envelope
  <2>2. Len(post'[s].envelope) = 0 /\ Len(tx'[s].recipients) = 0
    BY <1>2, <1>6, <1>7, <1>9, Zenon
  <2> QED  BY <2>1, <2>2 DEF AllAdmissible
<1>11. stage \in Open => Captured(s)'
  BY <1>2, <1>3, <1>4, <1>5, <1>6 DEF Captured, Bounded, decision
<1>12. (\E T : tx'[s].recipients \in Seq(T)) /\ Len(tx'[s].recipients) = 0
  BY <1>2, <1>6, <1>7, Zenon
<1> QED  BY <1>3, <1>6, <1>8, <1>9, <1>10, <1>11, <1>12 DEF RulesOk

\* A message that goes on keeps its recipients.
LEMMA StageRules ==
  ASSUME NEW s \in Sessions, RuleInv, GoesOn(s)
  PROVE  RulesOk(s)'
<1>1. /\ RulesOk(s) /\ cfg' = cfg /\ tx'[s] = tx[s]
      /\ post'[s].envelope = post[s].envelope /\ post[s].stage \in Open
      /\ post'[s].stage \in {"data", "wait", "verify"} => post'[s].content \in Contents
  BY DEF RuleInv, RulesOk, GoesOn, Open
<1>2. Captured(s)' <=> Captured(s)
  BY <1>1 DEF Captured, Bounded
<1>3. Waiting(s)' <=> Waiting(s)
  BY <1>1 DEF Waiting
<1>4. Accepted(s)' = Accepted(s) /\ Envelope(s)' = Envelope(s)
  BY <1>1 DEF Accepted, Envelope
<1>5. \A section : Enforces(section)' <=> Enforces(section)
  BY <1>1 DEF Enforces
<1>6. \A r : Admissible(s, r)' <=> Admissible(s, r)
  BY <1>1, <1>4, <1>5 DEF Admissible, EnvelopeSelfSent, SelfSent
<1>7. AllAdmissible(s)' <=> AllAdmissible(s)
  BY <1>1, <1>4, <1>5, <1>6 DEF AllAdmissible
<1> QED  BY <1>1, <1>2, <1>3, <1>5, <1>7 DEF RulesOk

\* The invariant holds at the start, and every step keeps it.
LEMMA InitRules == Init => RuleInv
<1> SUFFICES ASSUME Init PROVE RuleInv
  OBVIOUS
<1>1. CountInv
  BY InitCount
<1>2. <<>> \in Seq({}) /\ Len(<<>>) = 0
  OBVIOUS
<1>3. Blank.recipients = <<>>
  BY DEF Blank
<1>4. cfg.max_recipients \in Nat
  BY <1>1, SessionAssumption DEF CountInv, Shape
<1> SUFFICES ASSUME NEW s \in Sessions PROVE RulesOk(s)
  BY <1>1 DEF RuleInv
<1>5. tx[s] = Blank /\ post[s] = At("closed")
  BY DEF Init
<1>6. (\E T : tx[s].recipients \in Seq(T)) /\ Len(tx[s].recipients) = 0
  BY <1>2, <1>3, <1>5, Zenon
<1>7. post[s].stage = "closed"
  BY <1>5, BlankRecord
<1> QED  BY <1>4, <1>6, <1>7 DEF RulesOk, Open

LEMMA NextRules == RuleInv /\ [Next]_vars => RuleInv'
<1> SUFFICES ASSUME RuleInv, [Next]_vars PROVE RuleInv'
  OBVIOUS
<1>1. CountInv /\ CountInv'
  BY NextCount DEF RuleInv
<1>2. CASE Next
  <2>1. PICK s \in Sessions :
          /\ Moves(s) /\ cfg' = cfg
          /\ \A u \in Sessions \ {s} : tx'[u] = tx[u] /\ post'[u] = post[u]
    BY <1>1, <1>2, NextMoves
  <2>2. RulesOk(s)'
    BY <1>1, <2>1, MoveKinds, AnswersEnd, MailRules, RcptRules, StageRules, OverOk
  <2> QED  BY <1>1, <2>1, <2>2, OthersOk
<1>3. CASE UNCHANGED vars
  <2>1. \A u \in Sessions : tx'[u] = tx[u] /\ post'[u] = post[u] /\ cfg' = cfg /\ RulesOk(u)
    BY <1>3 DEF vars, RuleInv
  <2> QED  BY <1>1, <2>1, SameOk DEF RuleInv
<1> QED  BY <1>2, <1>3
-----------------------------------------------------------------------------
\* What EnforcedRulesHold says of a message that is delivered.
Lawful(s) ==
  LET o == tx[s].origin
  IN  /\ Enforces("protection") => \A r \in Envelope(s) : ~Unprotected(o, r)
      /\ Enforces("self_sender") =>
           /\ \A r \in Envelope(s) : ~EnvelopeSelfSent(s, r)
           /\ ~HeaderSelfSent(s)
           /\ ComparesFrom(cfg, o) => ~NoFrom(s)
      /\ Enforces("sender_authentication") =>
           ~Unproven(s) /\ (RequiresAuthentication(cfg, Trust(o)) => ~NoFrom(s))
      /\ Enforces("limits") => ~TooMany(s) /\ ~Withheld(s)

\* A message none of whose decisions is enforced is lawful, once those that had
\* to be authenticated were and no slot was missing for it.
LEMMA AcceptedLawful ==
  ASSUME NEW s \in Sessions, RuleInv, post[s].stage \in {"data", "wait", "verify"},
         \A d \in Rules(s) : ~Enforced(cfg, d),
         Enforces("sender_authentication") /\ MustAuthenticate(s) => ~Unproven(s),
         Enforces("limits") => ~(post[s].stage = "wait" /\ verifyFree = 0 /\ Bounded)
  PROVE  Lawful(s)
<1> DEFINE o    == tx[s].origin
           from == post[s].content.from
<1>1. CountInv /\ RulesOk(s)
  BY DEF RuleInv
<1>2. cfg.max_recipients \in Nat /\ Len(post[s].envelope) \in Nat
  BY <1>1, SessionAssumption, Facts DEF CountInv, Shape
<1>3. Captured(s) /\ (Waiting(s) \/ AllAdmissible(s))
  BY <1>1 DEF RulesOk, Open
<1>4. AllAdmissible(s)
  BY <1>1, <1>3, RulesWait DEF Waiting
<1>5. /\ Len(tx[s].recipients) \in Nat
      /\ Enforces("limits") => Len(tx[s].recipients) <= cfg.max_recipients
  BY <1>1 DEF RulesOk
<1>6. ASSUME ~tx[s].capture PROVE ~NeedsMessage(cfg, o) /\ ~Enforces("limits")
  <2>1. Decision("defer", "limits", NeedsMessage(cfg, o)) \in Rules(s)
    BY <1>3, <1>6 DEF Captured, Rules
  <2>2. ~Enforced(cfg, Decision("defer", "limits", NeedsMessage(cfg, o)))
    BY <2>1
  <2>3. ~NeedsMessage(cfg, o)
    BY <2>2, RefusalModes
  <2>4. ~Enforces("limits")
    BY <2>2, RefusalModes, RuleModes DEF Enforces
  <2> QED  BY <2>3, <2>4
<1>7. ASSUME tx[s].capture
      PROVE  /\ Enforces("limits") => Over(s) = "none"
             /\ Enforces("sender_authentication") /\ RequiresAuthentication(cfg, Trust(o))
                  => Over(s) = "none" /\ from # "invalid"
             /\ Enforces("self_sender") /\ ComparesFrom(cfg, o)
                  => /\ from # "invalid"
                     /\ from \in Accepted(s) => from \in cfg.allow_senders
  <2>1. Rules(s) = MessageRules(cfg, o, tx[s].deferred, Accepted(s), from, Over(s))
    BY <1>7 DEF Rules
  <2>2. \A d \in MessageRules(cfg, o, tx[s].deferred, Accepted(s), from, Over(s)) :
          ~Enforced(cfg, d)
    BY <2>1
  <2> HIDE DEF o, from
  <2> QED  BY <2>2, MessageHolds DEF Enforces
<1>8. Enforces("protection") => \A r \in Envelope(s) : ~Unprotected(o, r)
  BY <1>4 DEF AllAdmissible, Admissible
<1>9. ASSUME Enforces("self_sender")
      PROVE  /\ \A r \in Envelope(s) : ~EnvelopeSelfSent(s, r)
             /\ ~HeaderSelfSent(s)
             /\ ComparesFrom(cfg, o) => ~NoFrom(s)
  <2>1. \A r \in Envelope(s) : ~EnvelopeSelfSent(s, r)
    BY <1>4, <1>9 DEF AllAdmissible, Admissible
  <2>2. ComparesFrom(cfg, o) => tx[s].capture
    BY <1>6, <1>9 DEF NeedsMessage, Enforces
  <2>3. \A r \in Envelope(s) : r.ok => r.who \in Accepted(s)
    BY <1>4 DEF AllAdmissible, Admissible
  <2>4. ~HeaderSelfSent(s)
    BY <1>7, <1>9, <2>2, <2>3 DEF HeaderSelfSent, SelfSent
  <2>5. ComparesFrom(cfg, o) => ~NoFrom(s)
    BY <1>7, <1>9, <2>2 DEF NoFrom
  <2> QED  BY <2>1, <2>4, <2>5
<1>10. ASSUME Enforces("sender_authentication"), RequiresAuthentication(cfg, Trust(o))
       PROVE  ~Unproven(s) /\ ~NoFrom(s)
  <2>1. tx[s].capture
    BY <1>6, <1>10 DEF NeedsMessage, Enforces
  <2>2. Over(s) = "none" /\ from # "invalid"
    BY <1>7, <1>10, <2>1
  <2>3. MustAuthenticate(s)
    BY <1>10, <2>1, <2>2 DEF MustAuthenticate, Authenticates
  <2> QED  BY <1>10, <2>2, <2>3 DEF NoFrom
<1>11. Enforces("sender_authentication") /\ ~RequiresAuthentication(cfg, Trust(o)) => ~Unproven(s)
  BY DEF Unproven
<1>12. ASSUME Enforces("limits") PROVE ~TooMany(s) /\ ~Withheld(s)
  <2>1. ~TooMany(s)
    BY <1>2, <1>4, <1>5, <1>12 DEF AllAdmissible, TooMany
  <2>2. tx[s].capture /\ Over(s) = "none"
    BY <1>6, <1>7, <1>12
  <2> QED  BY <1>12, <2>1, <2>2 DEF Withheld, Over
<1> QED  BY <1>8, <1>9, <1>10, <1>11, <1>12 DEF Lawful

\* Every way to accept a message makes the same demands.
LEMMA SentLawful ==
  ASSUME NEW s \in Sessions, RuleInv, Next, Ended(s, "sent")
  PROVE  Lawful(s)
<1>1. CountInv /\ RulesOk(s) /\ Refusals(Rules(s)) /\ Answers(s)
  BY RulesWait, EndsByAnswer DEF RuleInv
<1>2. CASE post[s].stage = "data" /\ ~MustAuthenticate(s) /\ Finish(s, Rules(s))
  BY <1>1, <1>2, FinishEnds, AcceptedLawful DEF Ended
<1>3. CASE SlotTimeout(s)
  <2>1. Finish(s, Rules(s) \cup {NoSlot(s)}) /\ post[s].stage = "wait"
    BY <1>3 DEF SlotTimeout
  <2>2. Refusals(Rules(s) \cup {NoSlot(s)})
    BY <1>1, DecisionActions DEF Refusals, NoSlot
  <2>3. \A d \in Rules(s) \cup {NoSlot(s)} : ~Enforced(cfg, d)
    BY <1>1, <2>1, <2>2, FinishEnds DEF Ended
  <2>4. ~Enforces("sender_authentication") /\ ~Enforces("limits")
    BY <2>3, RefusalModes, RuleModes DEF NoSlot, Enforces
  <2> QED  BY <2>1, <2>3, <2>4, AcceptedLawful
<1>4. CASE Verified(s)
  <2> DEFINE auth == post[s].content.auth
             last == Authentication(cfg, tx[s].sender, Found(cfg, tx[s].sender, auth))
  <2>1. Finish(s, Rules(s) \cup {last}) /\ post[s].stage = "verify"
    BY <1>4 DEF Verified
  <2>2. Refusals(Rules(s) \cup {last})
    BY <1>1, AuthenticationActions DEF Refusals
  <2>3. \A d \in Rules(s) \cup {last} : ~Enforced(cfg, d)
    <3> HIDE DEF last
    <3> QED  BY <1>1, <2>1, <2>2, FinishEnds DEF Ended
  <2>4. auth.spf \in {"aligned", "unaligned", "fail", "temperror"}
    BY <1>1, <2>1, SessionAssumption DEF RulesOk
  <2>5. Enforces("sender_authentication") => ~Unproven(s)
    <3>1. ~Enforced(cfg, Authentication(cfg, tx[s].sender, Found(cfg, tx[s].sender, auth)))
      BY <2>3
    <3> HIDE DEF auth
    <3>2. Enforces("sender_authentication") =>
            IF cfg.require = "either" THEN auth.spf = "aligned" \/ "aligned" \in auth.dkim
            ELSE /\ "aligned" \in auth.dkim
                 /\ auth.spf = "aligned" \/ NullDkim(cfg, tx[s].sender)
      BY <2>4, <3>1, AuthenticationHolds DEF Enforces
    <3> QED  BY <3>2 DEF Unproven, auth
  <2> QED  BY <2>1, <2>3, <2>5, AcceptedLawful
<1> QED  BY <1>1, <1>2, <1>3, <1>4 DEF Answers

(* A delivered message breaks no rule whose section enforces, for any      *)
(* number of sessions and any mix of modes: no bound, no observed refusal  *)
(* and no missing slot lets it past a check (ADR-0027;                     *)
(* evaluate_recipient, evaluate_message, effective).                       *)
THEOREM EnforcedRulesBind == Spec => EnforcedRulesHold
<1>1. RuleInv /\ [Next]_vars => [\A s \in Sessions : Ended(s, "sent") => Lawful(s)]_vars
  BY SentLawful
<1>2. (\A s \in Sessions : Ended(s, "sent") => Lawful(s)) <=>
        \A s \in Sessions : Ended(s, "sent") =>
          LET o == tx[s].origin
          IN  /\ Enforces("protection") => \A r \in Envelope(s) : ~Unprotected(o, r)
              /\ Enforces("self_sender") =>
                   /\ \A r \in Envelope(s) : ~EnvelopeSelfSent(s, r)
                   /\ ~HeaderSelfSent(s)
                   /\ ComparesFrom(cfg, o) => ~NoFrom(s)
              /\ Enforces("sender_authentication") =>
                   ~Unproven(s) /\ (RequiresAuthentication(cfg, Trust(o)) => ~NoFrom(s))
              /\ Enforces("limits") => ~TooMany(s) /\ ~Withheld(s)
  BY DEF Lawful
<1> QED  BY <1>1, <1>2, InitRules, NextRules, PTL DEF Spec, EnforcedRulesHold
-----------------------------------------------------------------------------
\* With an enforced [protection], no recipient that no parser takes is delivered.
LimitInv == RuleInv /\ (Enforces("protection") => unparsed = 0)

LEMMA AllParsed ==
  ASSUME NEW s \in Sessions, CountInv, \A r \in Envelope(s) : r.ok
  PROVE  Parsed(s) = Len(post[s].envelope)
<1>1. post[s].envelope \in Seq(Recipients) /\ Len(post[s].envelope) \in Nat
  BY Facts
<1>2. OkAt(post[s].envelope) = 1 .. Len(post[s].envelope)
  BY <1>1 DEF OkAt, Envelope
<1>3. Parsed(s) = Cardinality(OkAt(post[s].envelope))
  BY DEF Parsed, OkAt
<1> QED  BY <1>1, <1>2, <1>3, UpTo

\* What a step adds to them comes with a message that is delivered.
LEMMA UnparsedGrows ==
  ASSUME CountInv, Next
  PROVE  \/ unparsed' = unparsed
         \/ \E s \in Sessions :
              /\ Ended(s, "sent")
              /\ unparsed' = unparsed + (Len(post[s].envelope) - Parsed(s))
<1>1. PICK s \in Sessions : Moves(s)
  BY NextMoves
<1>2. CASE Answers(s)
  <2>1. /\ post[s].stage \in {"data", "wait", "verify"}
        /\ \E ds : Finish(s, ds)
    BY <1>2 DEF Answers, SlotTimeout, Verified
  <2>2. PICK ds : Finish(s, ds)
    BY <2>1
  <2>3. CASE ~Enforced(cfg, Effective(cfg, ds)) /\ Limited(tx[s].origin)
    <3>1. /\ post' = [post EXCEPT ![s] = At("sent")]
          /\ unparsed' = unparsed + (Len(post[s].envelope) - Parsed(s))
      BY <2>2, <2>3 DEF Finish, Delivers
    <3>2. post'[s].stage = "sent"
      BY <3>1, Facts, BlankRecord
    <3> QED  BY <2>1, <3>1, <3>2 DEF Ended
  <2>4. CASE ~(~Enforced(cfg, Effective(cfg, ds)) /\ Limited(tx[s].origin))
    BY <2>2, <2>4 DEF Finish, Delivers
  <2> QED  BY <2>3, <2>4
<1>3. CASE ~Answers(s)
  <2>1. \/ Connect(s) \/ MailReset(s) \/ (\E o \in Origins, f \in Senders : Mail(s, o, f))
        \/ (\E r \in Recipients : Rcpt(s, r)) \/ (\E c \in Contents : Data(s, c))
        \/ SpoolFails(s) \/ AcquireSlot(s) \/ (EndOfMessage(s) /\ MustAuthenticate(s))
        \/ VerifyRaises(s) \/ Abort(s) \/ Close(s)
    BY <1>1, <1>3 DEF Moves, Answers, EndOfMessage
  <2>2. UNCHANGED unparsed
    BY <2>1 DEF Connect, MailReset, Mail, Rcpt, Data, SpoolFails, AcquireSlot, EndOfMessage,
                VerifyRaises, Abort, Close, history
  <2> QED  BY <2>2
<1> QED  BY <1>2, <1>3

LEMMA InitLimit == Init => LimitInv
BY InitRules DEF LimitInv, Init

LEMMA NextLimit == LimitInv /\ [Next]_vars => LimitInv'
<1> SUFFICES ASSUME LimitInv, [Next]_vars PROVE LimitInv'
  OBVIOUS
<1>1. RuleInv /\ RuleInv' /\ CountInv
  BY NextRules DEF LimitInv, RuleInv
<1>2. CASE Next
  <2> SUFFICES ASSUME Enforces("protection")' PROVE unparsed' = 0
    BY <1>1 DEF LimitInv
  <2>1. cfg' = cfg
    BY <1>1, <1>2, NextMoves
  <2>2. Enforces("protection") /\ unparsed = 0
    BY <2>1 DEF Enforces, LimitInv
  <2>3. ASSUME NEW s \in Sessions, Ended(s, "sent"),
               unparsed' = unparsed + (Len(post[s].envelope) - Parsed(s))
        PROVE  unparsed' = 0
    <3>1. \A r \in Envelope(s) : r.ok
      BY <1>1, <1>2, <2>2, <2>3, SentLawful DEF Lawful, Unprotected
    <3>2. Parsed(s) = Len(post[s].envelope) /\ Len(post[s].envelope) \in Nat
      BY <1>1, <3>1, AllParsed, Facts
    <3> QED  BY <2>2, <2>3, <3>2
  <2> QED  BY <1>1, <1>2, <2>2, <2>3, UnparsedGrows
<1>3. CASE UNCHANGED vars
  BY <1>1, <1>3 DEF vars, LimitInv, Enforces
<1> QED  BY <1>2, <1>3

(* The limits count what is delivered, under any mix of modes, but for the *)
(* recipients that cannot be parsed; once [protection] enforces, nothing   *)
(* that is delivered is left out (eom, _reserve, envrcpt).                 *)
THEOREM DeliveriesCounted == Spec => []CountsDelivered
<1>1. LimitInv => CountsDelivered
  BY DEF LimitInv, RuleInv, CountInv, Counted, CountsDelivered
<1> QED  BY <1>1, InitLimit, NextLimit, PTL DEF Spec

(* An enforced limit binds what is delivered, however many sessions        *)
(* reserve at once and whatever the other sections do, but for the         *)
(* recipients that cannot be parsed, which an enforced [protection] keeps  *)
(* from being delivered (_reserve, eom, envrcpt).                          *)
THEOREM LimitBinds == Spec => []DeliveredWithinLimit
<1>1. LimitInv => DeliveredWithinLimit
  <2> SUFFICES ASSUME LimitInv, Enforces("sending_limits")
               PROVE  /\ delivered - unparsed <= Limit
                      /\ Enforces("protection") => delivered <= Limit
    BY DEF DeliveredWithinLimit
  <2>1. Cardinality(PlacesOf(Reservations)) \in Nat
    BY PlacesFinite
  <2>2. /\ delivered \in Int /\ unparsed \in Int /\ delivered - unparsed <= Limit
        /\ Enforces("protection") => unparsed = 0
    BY <2>1, SessionAssumption DEF LimitInv, RuleInv, CountInv, Shape, Counted
  <2> QED  BY <2>2, SessionAssumption
<1> QED  BY <1>1, InitLimit, NextLimit, PTL DEF Spec
-----------------------------------------------------------------------------
(* Why an enforced refusal waits for the end of a message: what breaks a   *)
(* rule is among its recipients, it is withheld, or one has no place.      *)
Cause(s) ==
  \/ Enforces("protection") /\ \E r \in Envelope(s) : Unprotected(tx[s].origin, r)
  \/ Enforces("self_sender") /\ \E r \in Envelope(s) : EnvelopeSelfSent(s, r)
  \/ Enforces("limits") /\ TooMany(s)
  \/ (Enforces("limits") \/ MustRead(tx[s].origin)) /\ Bounded /\ ~tx[s].capture
  \/ Enforces("sending_limits") /\ Limited(tx[s].origin) /\ tx[s].reservation < Parsed(s)

CauseOk(s) ==
  post[s].stage \in Open =>
    /\ Waiting(s) => Cause(s)
    /\ \A who \in Accepted(s) : \E r \in Envelope(s) : r.ok /\ r.who = who
    /\ IsPickup(s) => Len(tx[s].recipients) <= Len(post[s].envelope)
    /\ post[s].stage \in {"wait", "verify"} => MustAuthenticate(s)

CauseInv == RuleInv /\ \A s \in Sessions : CauseOk(s)

\* A recipient an enforced rule refuses breaks one.
LEMMA RecipientBreaks ==
  ASSUME NEW c, NEW o, NEW sender, NEW r, Enforced(c, RecipientRules(c, o, sender, r))
  PROVE  \/ c.mode["protection"] = "enforce" /\ Unprotected(o, r)
         \/ /\ c.mode["self_sender"] = "enforce"
            /\ SelfSenderApplies(c, o) /\ c.identity # "header_from"
            /\ r.ok /\ r.who = sender /\ sender \notin c.allow_senders
<1>1. CASE ~r.ok
  <2>1. Enforced(c, Reject("invalid_recipient"))
    BY <1>1 DEF RecipientRules
  <2> QED  BY <1>1, <2>1, RefusalModes, RuleModes DEF Unprotected
<1>2. CASE r.ok
  <2> DEFINE ds == ProtectedRecipient(o, r) \cup SelfSenderEnvelope(c, o, sender, r)
  <2>1. Refusals(ds)
    BY DecisionActions DEF Refusals, ProtectedRecipient, SelfSenderEnvelope, Listed
  <2>2. Enforced(c, Effective(c, ds))
    BY <1>2 DEF RecipientRules
  <2>3. PICK d \in ds : Enforced(c, d)
    <3> HIDE DEF ds
    <3> QED  BY <2>1, <2>2, EffectiveEnforces
  <2>4. CASE d \in ProtectedRecipient(o, r)
    <3>1. ~Enforced(c, Allow("protected_recipient"))
      BY RefusalModes
    <3>2. /\ r.guarded
          /\ d \in {Defer("protected_recipient"), Reject("protected_recipient")}
          /\ o.ingress = "UNCLASSIFIED" \/ ~Authorized(o)
      BY <2>3, <2>4, <3>1 DEF ProtectedRecipient
    <3>3. ~Authorized(o)
      BY <3>2 DEF Authorized, Submissions
    <3>4. c.mode["protection"] = "enforce"
      BY <2>3, <3>2, RefusalModes, RuleModes
    <3> QED  BY <3>2, <3>3, <3>4 DEF Unprotected
  <2>5. CASE d \in SelfSenderEnvelope(c, o, sender, r)
    <3>1. ~Enforced(c, Allow("self_sender"))
      BY RefusalModes
    <3>2. /\ SelfSenderApplies(c, o) /\ c.identity # "header_from" /\ r.who = sender
          /\ sender \notin c.allow_senders /\ d = Reject("self_sender")
      BY <2>3, <2>5, <3>1 DEF SelfSenderEnvelope, Listed
    <3>3. c.mode["self_sender"] = "enforce"
      BY <2>3, <3>2, RefusalModes, RuleModes
    <3> QED  BY <1>2, <3>2, <3>3
  <2> QED  BY <2>3, <2>4, <2>5
<1> QED  BY <1>1, <1>2

\* Whatever refuses a recipient: a rule, the bound, or the limit.
LEMMA RecipientRefused ==
  ASSUME NEW s \in Sessions, NEW r, NEW n \in Nat, cfg.max_recipients \in Nat, NEW rules,
         rules = RecipientDecision(cfg, tx[s].origin, tx[s].sender, r, n),
         Enforced(cfg, Limiting(s, r, rules.decision))
  PROVE  \/ Enforces("protection") /\ Unprotected(tx[s].origin, r)
         \/ Enforces("self_sender") /\ EnvelopeSelfSent(s, r)
         \/ Enforces("limits") /\ n >= cfg.max_recipients
         \/ /\ Enforces("sending_limits") /\ AtLimit
            /\ r.ok /\ Limited(tx[s].origin)
<1> DEFINE plain == RecipientRules(cfg, tx[s].origin, tx[s].sender, r)
           both  == {rules.decision, Defer("sending_limit")}
<1>1. rules.decision.action \in Actions
  BY RecipientActions
<1>2. \/ Enforced(cfg, rules.decision)
      \/ /\ Reserves(s, r, rules.decision) /\ AtLimit
         /\ Enforced(cfg, Defer("sending_limit"))
  <2>1. Refusals(both)
    BY <1>1, DecisionActions DEF Refusals
  <2>2. Enforced(cfg, Effective(cfg, both)) <=> \E d \in both : Enforced(cfg, d)
    BY <2>1, EffectiveEnforces
  <2> QED  BY <2>2 DEF Limiting
<1>3. CASE /\ Reserves(s, r, rules.decision) /\ AtLimit
           /\ Enforced(cfg, Defer("sending_limit"))
  BY <1>3, RefusalModes, RuleModes DEF Reserves, Enforces
<1>4. CASE Enforced(cfg, rules.decision)
  <2>1. \/ Enforced(cfg, plain)
        \/ n >= cfg.max_recipients /\ Enforced(cfg, Defer("limits"))
    BY <1>4 DEF RecipientDecision
  <2>2. CASE Enforced(cfg, plain)
    <3>1. \/ cfg.mode["protection"] = "enforce" /\ Unprotected(tx[s].origin, r)
          \/ /\ cfg.mode["self_sender"] = "enforce"
             /\ SelfSenderApplies(cfg, tx[s].origin) /\ cfg.identity # "header_from"
             /\ r.ok /\ r.who = tx[s].sender /\ tx[s].sender \notin cfg.allow_senders
      BY <2>2, RecipientBreaks
    <3> QED  BY <3>1 DEF Enforces, EnvelopeSelfSent, SelfSent
  <2>3. CASE n >= cfg.max_recipients /\ Enforced(cfg, Defer("limits"))
    BY <2>3, RefusalModes, RuleModes DEF Enforces
  <2> QED  BY <2>1, <2>2, <2>3
<1> QED  BY <1>2, <1>3, <1>4

\* Authentication that refuses did not find what the section requires.
LEMMA AuthenticationFails ==
  ASSUME NEW c, NEW sender, NEW auth,
         auth.spf \in {"aligned", "unaligned", "fail", "temperror"},
         Enforced(c, Authentication(c, sender, Found(c, sender, auth)))
  PROVE  /\ c.mode["sender_authentication"] = "enforce"
         /\ ~(IF c.require = "either" THEN auth.spf = "aligned" \/ "aligned" \in auth.dkim
              ELSE /\ "aligned" \in auth.dkim
                   /\ auth.spf = "aligned" \/ NullDkim(c, sender))
<1> DEFINE found == Found(c, sender, auth)
<1>1. /\ AuthenticationAction(c, sender, found) # "allow"
      /\ c.mode["sender_authentication"] = "enforce"
  BY RuleModes DEF Authentication, Enforced, ModeOf, Decision
<1>2. /\ found.spf = auth.spf
      /\ found.dkim = auth.dkim \/ SpfDecides(c, sender, auth.spf)
  BY DEF Found, SkipDkim
<1> HIDE DEF found
<1> QED  BY <1>1, <1>2 DEF AuthenticationAction, SpfDecides

\* A message an enforced rule refuses, before sender authentication.
LEMMA MessageBreaks ==
  ASSUME NEW c, NEW o, NEW deferred, NEW accepted, NEW from, NEW over,
         NEW d \in MessageRules(c, o, deferred, accepted, from, over), Enforced(c, d)
  PROVE  \/ d \in deferred
         \/ over # "none" /\ (c.mode["limits"] = "enforce" \/ NeedsMessage(c, o))
         \/ /\ from = "invalid"
            /\ RequiresAuthentication(c, Trust(o)) \/ ComparesFrom(c, o)
            /\ \/ c.mode["self_sender"] = "enforce"
               \/ c.mode["sender_authentication"] = "enforce"
         \/ /\ c.mode["self_sender"] = "enforce" /\ ComparesFrom(c, o)
            /\ from \in accepted /\ from \notin c.allow_senders
<1>1. \/ d \in deferred \/ d \in BoundDecision(c, o, over) \/ d \in VisibleFrom(c, o, from)
      \/ d \in SelfSenderHeader(c, o, from, accepted)
  BY DEF MessageRules
<1>2. CASE d \in BoundDecision(c, o, over)
  <2>1. over # "none"
    BY <1>2 DEF BoundDecision
  <2>2. PICK forced : d = Decision("defer", "limits", forced) /\ (forced => NeedsMessage(c, o))
    BY <1>2 DEF BoundDecision, NeedsMessage
  <2>3. d.rule = "limits" /\ d.forced = forced
    BY <2>2 DEF Decision
  <2> QED  BY <2>1, <2>2, <2>3, RuleModes DEF Enforced, ModeOf
<1>3. CASE d \in VisibleFrom(c, o, from)
  <2>1. d = Reject("invalid_from") /\ from = "invalid"
        /\ (RequiresAuthentication(c, Trust(o)) \/ ComparesFrom(c, o))
    BY <1>3 DEF VisibleFrom
  <2>2. RuleMode(c, "invalid_from") = "enforce"
    BY <2>1, RefusalModes
  <2> QED  BY <2>1, <2>2 DEF RuleMode
<1>4. CASE d \in SelfSenderHeader(c, o, from, accepted)
  <2>1. ~Enforced(c, Allow("self_sender"))
    BY RefusalModes
  <2>2. /\ d = Reject("self_sender") /\ ComparesFrom(c, o)
        /\ from \in accepted /\ from \notin c.allow_senders
    BY <1>4, <2>1 DEF SelfSenderHeader, Listed, ComparesFrom
  <2> QED  BY <2>2, RefusalModes, RuleModes
<1> QED  BY <1>1, <1>2, <1>3, <1>4
-----------------------------------------------------------------------------
\* What CauseOk says of a session stays true while it takes no step.
LEMMA SameCause ==
  ASSUME NEW u \in Sessions, tx'[u] = tx[u], post'[u] = post[u], cfg' = cfg, CauseOk(u)
  PROVE  CauseOk(u)'
<1>1. Waiting(u)' <=> Waiting(u)
  BY DEF Waiting
<1>2. Accepted(u)' = Accepted(u) /\ Envelope(u)' = Envelope(u) /\ Parsed(u)' = Parsed(u)
  BY DEF Accepted, Envelope, Parsed
<1>3. \A section : Enforces(section)' <=> Enforces(section)
  BY DEF Enforces
<1>4. \A r : EnvelopeSelfSent(u, r)' <=> EnvelopeSelfSent(u, r)
  BY DEF EnvelopeSelfSent, SelfSent
<1>5. /\ MustRead(tx[u].origin)' <=> MustRead(tx[u].origin)
      /\ Limited(tx[u].origin)' <=> Limited(tx[u].origin)
      /\ TooMany(u)' <=> TooMany(u)
  BY <1>3 DEF MustRead, Limited, TooMany, Bounded
<1>6. Cause(u)' <=> Cause(u)
  BY <1>2, <1>3, <1>4, <1>5 DEF Cause, Bounded
<1>7. MustAuthenticate(u)' <=> MustAuthenticate(u)
  BY <1>2 DEF MustAuthenticate, Rules, Over, Bounded
<1>8. IsPickup(u)' <=> IsPickup(u)
  BY DEF IsPickup
<1> QED  BY <1>1, <1>2, <1>6, <1>7, <1>8 DEF CauseOk

\* A message that goes on keeps its reasons.
LEMMA StageCause ==
  ASSUME NEW s \in Sessions, CauseOk(s), GoesOn(s)
  PROVE  CauseOk(s)'
<1>1. /\ tx'[s] = tx[s] /\ cfg' = cfg /\ post[s].stage \in Open
      /\ post'[s].envelope = post[s].envelope
      /\ post'[s].stage \in {"wait", "verify"} =>
           MustAuthenticate(s) /\ post'[s].content = post[s].content
  BY DEF GoesOn, CauseOk, Open
<1>2. Waiting(s)' <=> Waiting(s)
  BY <1>1 DEF Waiting
<1>3. Accepted(s)' = Accepted(s) /\ Envelope(s)' = Envelope(s) /\ Parsed(s)' = Parsed(s)
  BY <1>1 DEF Accepted, Envelope, Parsed
<1>4. \A section : Enforces(section)' <=> Enforces(section)
  BY <1>1 DEF Enforces
<1>5. \A r : EnvelopeSelfSent(s, r)' <=> EnvelopeSelfSent(s, r)
  BY <1>1 DEF EnvelopeSelfSent, SelfSent
<1>6. /\ MustRead(tx[s].origin)' <=> MustRead(tx[s].origin)
      /\ Limited(tx[s].origin)' <=> Limited(tx[s].origin)
      /\ TooMany(s)' <=> TooMany(s)
  BY <1>1, <1>4 DEF MustRead, Limited, TooMany, Bounded
<1>7. Cause(s)' <=> Cause(s)
  BY <1>1, <1>3, <1>4, <1>5, <1>6 DEF Cause, Bounded
<1>8. post'[s].stage \in {"wait", "verify"} => MustAuthenticate(s)'
  BY <1>1, <1>3 DEF MustAuthenticate, Rules, Over, Bounded
<1>9. IsPickup(s)' <=> IsPickup(s)
  BY <1>1 DEF IsPickup
<1> QED  BY <1>1, <1>2, <1>3, <1>7, <1>8, <1>9 DEF CauseOk

\* A deferral from the start of a message waits for want of a slot.
LEMMA MailCause ==
  ASSUME NEW s \in Sessions, NEW o, NEW sender, RuleInv, Mail(s, o, sender)
  PROVE  CauseOk(s)'
<1> DEFINE decision == Decision("defer", "limits", NeedsMessage(cfg, o))
           noSlot   == Bounded /\ openFree = 0
           refused  == noSlot /\ Trust(o) # "local_pickup" /\ Enforced(cfg, decision)
           waiting  == IF noSlot /\ ~refused THEN {decision} ELSE {}
           next     == [Blank EXCEPT !.origin = o, !.sender = sender, !.capture = ~noSlot,
                                     !.holds_slot = Bounded /\ ~noSlot, !.deferred = waiting]
           stage    == IF refused THEN "idle" ELSE "rcpt"
<1>1. /\ tx' = [tx EXCEPT ![s] = next] /\ post' = [post EXCEPT ![s] = At(stage)]
      /\ UNCHANGED cfg
  BY DEF Mail
<1>2. /\ next.recipients = <<>> /\ next.deferred = waiting
      /\ next.origin = o /\ next.capture = ~noSlot
  BY DEF Blank
<1>3. stage \in {"idle", "rcpt"}
  OBVIOUS
<1>4. \A d \in waiting : d = decision /\ noSlot /\ Bounded
  OBVIOUS
<1> HIDE DEF decision, noSlot, refused, waiting, next, stage
<1>5. tx'[s] = next /\ post'[s] = At(stage) /\ cfg' = cfg
  BY <1>1, Facts DEF RuleInv
<1>6. post'[s].stage = stage /\ post'[s].envelope = <<>>
  BY <1>5, BlankRecord
<1>7. Len(<<>>) = 0 /\ DOMAIN <<>> = {}
  OBVIOUS
<1>8. Accepted(s)' = {}
  BY <1>2, <1>5, <1>7, Zenon DEF Accepted
<1>9. ASSUME Waiting(s)' PROVE Cause(s)'
  <2>1. Enforced(cfg, decision) /\ noSlot /\ Bounded
    BY <1>2, <1>4, <1>5, <1>9 DEF Waiting
  <2>2. NeedsMessage(cfg, o) \/ Enforces("limits")
    BY <2>1, RuleModes DEF decision, Enforced, ModeOf, Decision, Enforces
  <2>3. NeedsMessage(cfg, o) => MustRead(o)
    BY DEF NeedsMessage, MustRead, Enforces
  <2>4. (MustRead(o) \/ Enforces("limits")) /\ Bounded /\ ~tx'[s].capture
    BY <1>2, <1>5, <2>1, <2>2, <2>3
  <2>5. (MustRead(tx[s].origin)' <=> MustRead(o)) /\ (Enforces("limits")' <=> Enforces("limits"))
        /\ (Bounded' <=> Bounded)
    BY <1>2, <1>5 DEF MustRead, Enforces, Bounded
  <2>6. (Enforces("limits")' \/ MustRead(tx[s].origin)') /\ Bounded' /\ ~tx'[s].capture
    BY <2>4, <2>5
  <2> QED  BY <2>6 DEF Cause
<1>10. Len(tx'[s].recipients) = 0 /\ Len(post'[s].envelope) = 0
  BY <1>2, <1>5, <1>6, <1>7, Zenon
<1> QED  BY <1>3, <1>6, <1>8, <1>9, <1>10 DEF CauseOk

\* A refusal that waits is for this recipient, or for an earlier one.
LEMMA RcptCause ==
  ASSUME NEW s \in Sessions, NEW r \in Recipients, RuleInv, CauseOk(s), Rcpt(s, r)
  PROVE  CauseOk(s)'
<1> DEFINE t        == tx[s]
           rules    == RecipientDecision(cfg, t.origin, t.sender, r, Len(t.recipients))
           decision == Limiting(s, r, rules.decision)
           place    == IF /\ Reserves(s, r, rules.decision)
                          /\ AtLimit => cfg.mode["sending_limits"] = "observe"
                       THEN 1 ELSE 0
           waits    == decision.action # "allow" /\ IsPickup(s)
           entry    == [of |-> r, decision |-> decision]
           kept     == IF rules.kept THEN Append(t.recipients, entry) ELSE t.recipients
           waiting  == IF waits THEN t.deferred \cup {decision} ELSE t.deferred
           refused  == Enforced(cfg, decision) /\ ~waits
           envelope == IF refused THEN post[s].envelope ELSE Append(post[s].envelope, r)
<1>1. /\ tx' = [tx EXCEPT ![s] = [t EXCEPT !.recipients = kept, !.deferred = waiting,
                                           !.reservation = t.reservation + place]]
      /\ post' = IF refused THEN post ELSE [post EXCEPT ![s].envelope = envelope]
      /\ UNCHANGED cfg /\ post[s].stage = "rcpt"
  BY DEF Rcpt
<1>2. CountInv /\ RulesOk(s)
  BY DEF RuleInv
<1>3. cfg.max_recipients \in Nat /\ cfg.mode["sending_limits"] \in Modes
  BY <1>2, SessionAssumption, Facts DEF CountInv, Shape
<1>4. PICK T : t.recipients \in Seq(T)
  BY <1>2 DEF RulesOk
<1>5. Len(t.recipients) \in Nat
  BY <1>4
<1>6. Enforced(cfg, decision) =>
        \/ Enforces("protection") /\ Unprotected(t.origin, r)
        \/ Enforces("self_sender") /\ EnvelopeSelfSent(s, r)
        \/ Enforces("limits") /\ Len(t.recipients) >= cfg.max_recipients
        \/ Enforces("sending_limits") /\ AtLimit /\ r.ok /\ Limited(t.origin)
  BY <1>3, <1>5, RecipientRefused
<1>7. rules.decision.action \in Actions
  BY RecipientActions
<1>8. /\ place \in {0, 1}
      /\ place = 1 => r.ok /\ Limited(t.origin) /\ ~Enforced(cfg, decision)
      /\ place = 1 /\ Enforces("sending_limits") => ~AtLimit
  BY <1>3, <1>7, RecipientPlace
<1>9. \A d \in waiting : d \in t.deferred \/ (d = decision /\ waits)
  OBVIOUS
<1>10. entry.of = r /\ entry.decision = decision
  OBVIOUS
<1>11. Enforced(cfg, decision) /\ IsPickup(s) => waits
  BY DEF Enforced
<1>12. refused <=> Enforced(cfg, decision) /\ ~waits
  OBVIOUS
<1>13. envelope = IF refused THEN post[s].envelope ELSE Append(post[s].envelope, r)
  OBVIOUS
<1>14. kept = IF rules.kept THEN Append(t.recipients, entry) ELSE t.recipients
  OBVIOUS
<1>15. waits => IsPickup(s)
  OBVIOUS
<1> HIDE DEF rules, decision, place, waits, entry, kept, waiting, refused, envelope
<1>16. /\ tx'[s].recipients = kept /\ tx'[s].deferred = waiting /\ tx'[s].origin = t.origin
       /\ tx'[s].sender = t.sender /\ tx'[s].capture = t.capture /\ cfg' = cfg
       /\ tx'[s].reservation = t.reservation + place
  BY <1>1, <1>2, Facts DEF Blank
<1>17. post'[s].stage = "rcpt" /\ post'[s].envelope = envelope
  BY <1>1, <1>2, <1>13, Facts
<1>18. /\ Len(kept) <= Len(t.recipients) + 1 /\ Len(kept) \in Nat
       /\ \A i \in DOMAIN kept : \/ i \in DOMAIN t.recipients /\ kept[i] = t.recipients[i]
                                 \/ kept[i] = entry
  <2>1. CASE rules.kept
    <3> DEFINE grown == Append(t.recipients, entry)
    <3>1. /\ Len(grown) = Len(t.recipients) + 1 /\ DOMAIN grown = 1 .. Len(t.recipients) + 1
          /\ \A i \in DOMAIN t.recipients : grown[i] = t.recipients[i]
          /\ DOMAIN t.recipients = 1 .. Len(t.recipients)
          /\ grown[Len(t.recipients) + 1] = entry
      <4>1. PICK q : q = t.recipients
        OBVIOUS
      <4>2. q \in Seq(T)
        BY <1>4, <4>1
      <4>3. /\ Len(Append(q, entry)) = Len(q) + 1 /\ DOMAIN Append(q, entry) = 1 .. Len(q) + 1
            /\ \A i \in DOMAIN q : Append(q, entry)[i] = q[i]
            /\ DOMAIN q = 1 .. Len(q)
            /\ Append(q, entry)[Len(q) + 1] = entry
        BY <4>2
      <4> QED  BY <4>1, <4>3, Zenon
    <3>2. kept = grown
      BY <1>14, <2>1
    <3> HIDE DEF grown
    <3> QED  BY <1>5, <3>1, <3>2
  <2>2. CASE ~rules.kept
    BY <1>5, <1>14, <2>2
  <2> QED  BY <2>1, <2>2
<1>19. /\ post[s].envelope \in Seq(Recipients) /\ Len(post[s].envelope) \in Nat
       /\ tx[s].reservation \in Nat
  BY <1>2, Facts
<1>20. /\ Len(envelope) = IF refused THEN Len(post[s].envelope) ELSE Len(post[s].envelope) + 1
       /\ Envelope(s) \subseteq Envelope(s)' /\ (~refused => r \in Envelope(s)')
       /\ Parsed(s) \in Nat
       /\ Parsed(s)' = IF ~refused /\ r.ok THEN Parsed(s) + 1 ELSE Parsed(s)
  <2>1. /\ Parsed(s) = Cardinality(OkAt(post[s].envelope))
        /\ Parsed(s)' = Cardinality(OkAt(envelope))
    BY <1>17 DEF Parsed, OkAt
  <2>2. /\ Parsed(s) \in Nat
        /\ Parsed(s)' = IF ~refused /\ r.ok THEN Parsed(s) + 1 ELSE Parsed(s)
    BY <1>13, <1>19, <2>1, ParsedCounts
  <2>3. /\ Envelope(s) = {post[s].envelope[i] : i \in DOMAIN post[s].envelope}
        /\ Envelope(s)' = {envelope[i] : i \in DOMAIN envelope}
    BY <1>17 DEF Envelope
  <2>4. CASE refused
    BY <1>13, <2>2, <2>3, <2>4
  <2>5. CASE ~refused
    <3>1. envelope = Append(post[s].envelope, r)
      BY <1>13, <2>5
    <3>2. /\ Len(envelope) = Len(post[s].envelope) + 1
          /\ DOMAIN envelope = 1 .. Len(post[s].envelope) + 1
          /\ DOMAIN post[s].envelope = 1 .. Len(post[s].envelope)
          /\ \A i \in DOMAIN post[s].envelope : envelope[i] = post[s].envelope[i]
          /\ envelope[Len(post[s].envelope) + 1] = r
      BY <1>19, <3>1, AppendOne
    <3>3. Len(post[s].envelope) + 1 \in DOMAIN envelope
      BY <1>19, <3>2
    <3>4. r \in Envelope(s)'
      BY <2>3, <3>2, <3>3
    <3>5. DOMAIN post[s].envelope \subseteq DOMAIN envelope
      BY <1>19, <3>2
    <3>6. Envelope(s) \subseteq Envelope(s)'
      BY <2>3, <3>2, <3>5
    <3> QED  BY <2>2, <2>5, <3>2, <3>4, <3>6
  <2> QED  BY <2>4, <2>5
<1>21. /\ \A section : Enforces(section)' <=> Enforces(section)
       /\ \A x : EnvelopeSelfSent(s, x)' <=> EnvelopeSelfSent(s, x)
       /\ IsPickup(s)' <=> IsPickup(s)
       /\ Limited(tx[s].origin)' <=> Limited(tx[s].origin)
       /\ Bounded' <=> Bounded
       /\ MustRead(tx[s].origin)' <=> MustRead(tx[s].origin)
  BY <1>16 DEF Enforces, EnvelopeSelfSent, SelfSent, IsPickup, Limited, Bounded, MustRead
<1>22. Len(envelope) \in Nat /\ Len(post[s].envelope) <= Len(envelope)
  BY <1>19, <1>20
<1>23. TooMany(s)' <=> Bounded /\ Len(envelope) > cfg.max_recipients
  BY <1>16, <1>17, <1>21 DEF TooMany
<1>24. Enforces("limits") => Bounded
  BY DEF Enforces, Bounded
<1>25. CauseOk(s) /\ post[s].stage \in Open
  BY <1>1 DEF Open
<1>26. place = 1 => ~refused /\ r.ok
  BY <1>8, <1>12
<1>27. ASSUME Cause(s) PROVE Cause(s)'
  <2>1. CASE Enforces("protection") /\ \E x \in Envelope(s) : Unprotected(t.origin, x)
    BY <1>16, <1>20, <1>21, <2>1 DEF Cause
  <2>2. CASE Enforces("self_sender") /\ \E x \in Envelope(s) : EnvelopeSelfSent(s, x)
    BY <1>20, <1>21, <2>2 DEF Cause
  <2>3. CASE Enforces("limits") /\ TooMany(s)
    <3>1. TooMany(s)'
      BY <1>3, <1>19, <1>22, <1>23, <2>3 DEF TooMany
    <3> QED  BY <1>21, <2>3, <3>1 DEF Cause
  <2>4. CASE (Enforces("limits") \/ MustRead(t.origin)) /\ Bounded /\ ~t.capture
    BY <1>16, <1>21, <2>4 DEF Cause
  <2>5. CASE /\ Enforces("sending_limits") /\ Limited(t.origin)
             /\ t.reservation < Parsed(s)
    <3>1. tx'[s].reservation < Parsed(s)'
      BY <1>8, <1>16, <1>19, <1>20, <1>26, <2>5
    <3> QED  BY <1>21, <2>5, <3>1 DEF Cause
  <2> QED  BY <1>27, <2>1, <2>2, <2>3, <2>4, <2>5 DEF Cause
<1>28. ASSUME Waiting(s)' PROVE Cause(s)'
  <2>1. PICK d \in waiting : Enforced(cfg, d)
    BY <1>16, <1>28 DEF Waiting
  <2>2. CASE d \in t.deferred
    BY <1>25, <1>27, <2>1, <2>2 DEF CauseOk, Waiting
  <2>3. CASE d = decision /\ waits
    <3>1. Enforced(cfg, decision) /\ ~refused /\ IsPickup(s)
      BY <1>12, <1>15, <2>1, <2>3
    <3>2. r \in Envelope(s)'
      BY <1>20, <3>1
    <3>3. CASE Enforces("protection") /\ Unprotected(t.origin, r)
      BY <1>16, <1>21, <3>2, <3>3 DEF Cause
    <3>4. CASE Enforces("self_sender") /\ EnvelopeSelfSent(s, r)
      BY <1>21, <3>2, <3>4 DEF Cause
    <3>5. CASE Enforces("limits") /\ Len(t.recipients) >= cfg.max_recipients
      <4>1. Len(t.recipients) <= Len(post[s].envelope)
        BY <1>25, <3>1 DEF CauseOk
      <4>2. TooMany(s)'
        BY <1>3, <1>5, <1>19, <1>20, <1>23, <1>24, <3>1, <3>5, <4>1
      <4> QED  BY <1>21, <3>5, <4>2 DEF Cause
    <3>6. CASE Enforces("sending_limits") /\ AtLimit /\ r.ok /\ Limited(t.origin)
      <4>1. t.reservation <= Parsed(s)
        BY <1>2, <1>19, <1>20, <1>25, <3>6, Facts DEF PlaceOk
      <4>2. place = 0
        BY <1>8, <3>6
      <4>3. tx'[s].reservation < Parsed(s)'
        BY <1>16, <1>19, <1>20, <3>1, <3>6, <4>1, <4>2
      <4> QED  BY <1>21, <3>6, <4>3 DEF Cause
    <3> QED  BY <1>6, <3>1, <3>3, <3>4, <3>5, <3>6
  <2> QED  BY <1>9, <2>2, <2>3
<1>29. \A who \in Accepted(s)' : \E x \in Envelope(s)' : x.ok /\ x.who = who
  <2> SUFFICES ASSUME NEW who \in Accepted(s)'
               PROVE  \E x \in Envelope(s)' : x.ok /\ x.who = who
    OBVIOUS
  <2>1. PICK i \in DOMAIN kept : /\ kept[i].of.ok /\ kept[i].of.who = who
                                 /\ ~Enforced(cfg, kept[i].decision)
    BY <1>16 DEF Accepted
  <2>2. CASE i \in DOMAIN t.recipients /\ kept[i] = t.recipients[i]
    <3>1. who \in Accepted(s)
      BY <2>1, <2>2 DEF Accepted
    <3> QED  BY <1>20, <1>25, <3>1 DEF CauseOk
  <2>3. CASE kept[i] = entry
    BY <1>10, <1>12, <1>20, <2>1, <2>3
  <2> QED  BY <1>18, <2>2, <2>3
<1>30. IsPickup(s)' => Len(tx'[s].recipients) <= Len(post'[s].envelope)
  <2> SUFFICES ASSUME IsPickup(s) PROVE Len(kept) <= Len(envelope)
    BY <1>16, <1>17, <1>21
  <2>1. ~refused /\ Len(t.recipients) <= Len(post[s].envelope)
    BY <1>11, <1>12, <1>25 DEF CauseOk
  <2> QED  BY <1>5, <1>18, <1>19, <1>20, <2>1
<1> QED  BY <1>17, <1>28, <1>29, <1>30 DEF CauseOk

\* The invariant holds at the start, and every step keeps it.
LEMMA InitCause == Init => CauseInv
<1> SUFFICES ASSUME Init PROVE CauseInv
  OBVIOUS
<1>1. \A s \in Sessions : post[s].stage = "closed"
  BY BlankRecord DEF Init
<1> QED  BY <1>1, InitRules DEF CauseInv, CauseOk, Open

LEMMA NextCause == CauseInv /\ [Next]_vars => CauseInv'
<1> SUFFICES ASSUME CauseInv, [Next]_vars PROVE CauseInv'
  OBVIOUS
<1>1. RuleInv /\ RuleInv' /\ CountInv
  BY NextRules DEF CauseInv, RuleInv
<1>2. CASE Next
  <2>1. PICK s \in Sessions :
          /\ Moves(s) /\ cfg' = cfg
          /\ \A u \in Sessions \ {s} : tx'[u] = tx[u] /\ post'[u] = post[u]
    BY <1>1, <1>2, NextMoves
  <2>2. CauseOk(s)
    BY DEF CauseInv
  <2>3. IsOver(s) => CauseOk(s)'
    BY DEF IsOver, CauseOk
  <2>4. CauseOk(s)'
    BY <1>1, <2>1, <2>2, <2>3, MoveKinds, AnswersEnd, MailCause, RcptCause, StageCause
  <2>5. \A u \in Sessions \ {s} : CauseOk(u)'
    BY <2>1, SameCause DEF CauseInv
  <2> QED  BY <1>1, <2>4, <2>5 DEF CauseInv
<1>3. CASE UNCHANGED vars
  <2>1. \A u \in Sessions : tx'[u] = tx[u] /\ post'[u] = post[u] /\ cfg' = cfg /\ CauseOk(u)
    BY <1>3 DEF vars, CauseInv
  <2> QED  BY <1>1, <2>1, SameCause DEF CauseInv
<1> QED  BY <1>2, <1>3
-----------------------------------------------------------------------------
\* What OnlyEnforcedRefuses asks of a message that fails.
Deserved(s) ==
  LET o == tx[s].origin
  IN  \/ Enforces("protection") /\ \E r \in Envelope(s) : Unprotected(o, r)
      \/ /\ Enforces("self_sender")
         /\ HeaderSelfSent(s) \/ \E r \in Envelope(s) : EnvelopeSelfSent(s, r)
      \/ Enforces("sender_authentication") /\ Unproven(s)
      \/ NoFrom(s) /\ (Enforces("self_sender") \/ Enforces("sender_authentication"))
      \/ Enforces("limits") /\ (TooMany(s) \/ Withheld(s))
      \/ MustRead(o) /\ Withheld(s)
      \/ /\ Enforces("sending_limits") /\ Limited(o)
         /\ tx[s].reservation < Parsed(s)

\* An enforced decision of the rules on a message is deserved.
LEMMA RefusedDeserved ==
  ASSUME NEW s \in Sessions, CauseInv, post[s].stage \in Open,
         NEW d \in Rules(s), Enforced(cfg, d)
  PROVE  Deserved(s)
<1> DEFINE o    == tx[s].origin
           from == post[s].content.from
<1>1. CauseOk(s)
  BY DEF CauseInv
<1>2. Cause(s) => Deserved(s)
  BY DEF Cause, Deserved, Withheld
<1>3. CASE d \in tx[s].deferred
  BY <1>1, <1>2, <1>3 DEF CauseOk, Waiting
<1>4. CASE d \notin tx[s].deferred
  <2>1. tx[s].capture /\ d \in MessageRules(cfg, o, tx[s].deferred, Accepted(s), from, Over(s))
    BY <1>4 DEF Rules
  <2>2. \/ Over(s) # "none" /\ (cfg.mode["limits"] = "enforce" \/ NeedsMessage(cfg, o))
        \/ /\ from = "invalid"
           /\ RequiresAuthentication(cfg, Trust(o)) \/ ComparesFrom(cfg, o)
           /\ \/ cfg.mode["self_sender"] = "enforce"
              \/ cfg.mode["sender_authentication"] = "enforce"
        \/ /\ cfg.mode["self_sender"] = "enforce" /\ ComparesFrom(cfg, o)
           /\ from \in Accepted(s) /\ from \notin cfg.allow_senders
    <3> HIDE DEF o, from
    <3> QED  BY <1>4, <2>1, MessageBreaks
  <2>3. CASE Over(s) # "none" /\ (cfg.mode["limits"] = "enforce" \/ NeedsMessage(cfg, o))
    <3>1. Withheld(s)
      BY <2>3 DEF Over, Withheld
    <3>2. Enforces("limits") \/ MustRead(o)
      BY <2>3 DEF NeedsMessage, MustRead, Enforces
    <3> QED  BY <3>1, <3>2 DEF Deserved
  <2>4. CASE /\ from = "invalid"
             /\ RequiresAuthentication(cfg, Trust(o)) \/ ComparesFrom(cfg, o)
             /\ \/ cfg.mode["self_sender"] = "enforce"
                \/ cfg.mode["sender_authentication"] = "enforce"
    BY <2>4 DEF Deserved, NoFrom, Enforces
  <2>5. CASE /\ cfg.mode["self_sender"] = "enforce" /\ ComparesFrom(cfg, o)
             /\ from \in Accepted(s) /\ from \notin cfg.allow_senders
    <3>1. PICK r \in Envelope(s) : r.ok /\ r.who = from
      BY <1>1, <2>5 DEF CauseOk
    <3>2. HeaderSelfSent(s)
      BY <2>5, <3>1 DEF HeaderSelfSent, SelfSent
    <3> QED  BY <2>5, <3>2 DEF Deserved, Enforces
  <2> QED  BY <2>2, <2>3, <2>4, <2>5
<1> QED  BY <1>3, <1>4

\* Every way to refuse a message has its reason.
LEMMA FailedDeserved ==
  ASSUME NEW s \in Sessions, CauseInv, Next, Ended(s, "failed")
  PROVE  Deserved(s)
<1>1. CountInv /\ RulesOk(s) /\ CauseOk(s) /\ Refusals(Rules(s)) /\ Answers(s)
  BY RulesWait, EndsByAnswer DEF CauseInv, RuleInv
<1>2. CASE post[s].stage = "data" /\ ~MustAuthenticate(s) /\ Finish(s, Rules(s))
  <2>1. PICK d \in Rules(s) : Enforced(cfg, d)
    BY <1>1, <1>2, FinishEnds DEF Ended
  <2> QED  BY <1>2, <2>1, RefusedDeserved DEF Open
<1>3. CASE SlotTimeout(s)
  <2>1. /\ Finish(s, Rules(s) \cup {NoSlot(s)}) /\ post[s].stage \in Open
        /\ post[s].stage = "wait" /\ Bounded /\ verifyFree = 0
    BY <1>3 DEF SlotTimeout, Open
  <2>2. Refusals(Rules(s) \cup {NoSlot(s)})
    BY <1>1, DecisionActions DEF Refusals, NoSlot
  <2>3. PICK d \in Rules(s) \cup {NoSlot(s)} : Enforced(cfg, d)
    BY <1>1, <2>1, <2>2, FinishEnds DEF Ended
  <2>4. CASE d \in Rules(s)
    BY <2>1, <2>3, <2>4, RefusedDeserved
  <2>5. CASE d = NoSlot(s)
    <3>1. Enforces("sender_authentication") \/ Enforces("limits")
      BY <2>3, <2>5, RuleModes DEF NoSlot, Enforces, Enforced, ModeOf, Decision
    <3>2. Withheld(s)
      BY <2>1 DEF Withheld
    <3>3. RequiresAuthentication(cfg, Trust(tx[s].origin))
      BY <1>1, <2>1 DEF CauseOk, MustAuthenticate, Authenticates
    <3> QED  BY <3>1, <3>2, <3>3 DEF Deserved, MustRead
  <2> QED  BY <2>3, <2>4, <2>5
<1>4. CASE Verified(s)
  <2> DEFINE auth == post[s].content.auth
             last == Authentication(cfg, tx[s].sender, Found(cfg, tx[s].sender, auth))
  <2>1. Finish(s, Rules(s) \cup {last}) /\ post[s].stage = "verify" /\ post[s].stage \in Open
    BY <1>4 DEF Verified, Open
  <2>2. Refusals(Rules(s) \cup {last})
    BY <1>1, AuthenticationActions DEF Refusals
  <2>3. PICK d \in Rules(s) \cup {last} : Enforced(cfg, d)
    <3> HIDE DEF last
    <3> QED  BY <1>1, <2>1, <2>2, FinishEnds DEF Ended
  <2>4. CASE d \in Rules(s)
    <3> HIDE DEF last
    <3> QED  BY <2>1, <2>3, <2>4, RefusedDeserved
  <2>5. CASE d = last
    <3>1. auth.spf \in {"aligned", "unaligned", "fail", "temperror"}
      BY <1>1, <2>1, SessionAssumption DEF RulesOk
    <3>2. Enforced(cfg, Authentication(cfg, tx[s].sender, Found(cfg, tx[s].sender, auth)))
      BY <2>3, <2>5
    <3> HIDE DEF auth
    <3>3. /\ cfg.mode["sender_authentication"] = "enforce"
          /\ ~(IF cfg.require = "either" THEN auth.spf = "aligned" \/ "aligned" \in auth.dkim
               ELSE /\ "aligned" \in auth.dkim
                    /\ auth.spf = "aligned" \/ NullDkim(cfg, tx[s].sender))
      BY <3>1, <3>2, AuthenticationFails
    <3>4. RequiresAuthentication(cfg, Trust(tx[s].origin))
      BY <1>1, <2>1 DEF CauseOk, MustAuthenticate, Authenticates
    <3>5. Unproven(s)
      BY <3>3, <3>4 DEF Unproven, auth
    <3> QED  BY <3>3, <3>5 DEF Deserved, Enforces
  <2> HIDE DEF last
  <2> QED  BY <2>3, <2>4, <2>5
<1> QED  BY <1>1, <1>2, <1>3, <1>4 DEF Answers

\* A message refused at MAIL found no slot, and an enforced rule needs it.
LEMMA MailRefused ==
  ASSUME NEW s \in Sessions, CauseInv, Next, post[s].stage = "mail", post'[s].stage = "idle"
  PROVE  Bounded /\ openFree = 0 /\ (Enforces("limits") \/ MustRead(tx'[s].origin))
<1>1. CountInv
  BY DEF CauseInv, RuleInv
<1>2. PICK o, sender : Mail(s, o, sender)
  <2>1. Moves(s) /\ ~\E r \in Recipients : Rcpt(s, r)
    BY <1>1, NextMoves DEF Rcpt
  <2>2. ~GoesOn(s) /\ ~Answers(s)
    BY DEF GoesOn, Answers, SlotTimeout, Verified
  <2> QED  BY <1>1, <2>1, <2>2, MoveKinds
<1>3. /\ Bounded /\ openFree = 0
      /\ Enforced(cfg, Decision("defer", "limits", NeedsMessage(cfg, o)))
  <2>1. ~(/\ Bounded /\ openFree = 0
          /\ Enforced(cfg, Decision("defer", "limits", NeedsMessage(cfg, o))))
        => post' = [post EXCEPT ![s] = At("rcpt")]
    BY <1>2 DEF Mail
  <2>2. post' = [post EXCEPT ![s] = At("rcpt")] => post'[s].stage = "rcpt"
    BY <1>1, Facts, BlankRecord
  <2> QED  BY <2>1, <2>2
<1>4. tx'[s].origin = o
  BY <1>1, <1>2, Facts DEF Mail, Blank
<1>5. Enforces("limits") \/ NeedsMessage(cfg, o)
  BY <1>3, RuleModes DEF Enforced, ModeOf, Decision, Enforces
<1> QED  BY <1>3, <1>4, <1>5 DEF NeedsMessage, MustRead, Enforces

(* A message is refused, at its end or at MAIL, only for a rule it breaks  *)
(* in a section that enforces, or for a bound that enforces or keeps an    *)
(* enforced check from it, for any number of sessions and any mix of modes *)
(* (effective, mode_of, needs_message, envfrom).                           *)
THEOREM RefusalsDeserved == Spec => OnlyEnforcedRefuses
<1> DEFINE Step == \A s \in Sessions :
                     /\ Ended(s, "failed") => Deserved(s)
                     /\ post[s].stage = "mail" /\ post'[s].stage = "idle" =>
                          /\ Bounded /\ openFree = 0
                          /\ Enforces("limits") \/ MustRead(tx'[s].origin)
<1>1. CauseInv /\ [Next]_vars => [Step]_vars
  BY FailedDeserved, MailRefused
<1>2. Step =>
       \A s \in Sessions :
       /\ Ended(s, "failed") =>
            LET o == tx[s].origin
            IN  \/ Enforces("protection") /\ \E r \in Envelope(s) : Unprotected(o, r)
                \/ /\ Enforces("self_sender")
                   /\ HeaderSelfSent(s) \/ \E r \in Envelope(s) : EnvelopeSelfSent(s, r)
                \/ Enforces("sender_authentication") /\ Unproven(s)
                \/ NoFrom(s) /\ (Enforces("self_sender") \/ Enforces("sender_authentication"))
                \/ Enforces("limits") /\ (TooMany(s) \/ Withheld(s))
                \/ MustRead(o) /\ Withheld(s)
                \/ /\ Enforces("sending_limits") /\ Limited(o)
                   /\ tx[s].reservation < Parsed(s)
       /\ post[s].stage = "mail" /\ post'[s].stage = "idle" =>
            Bounded /\ openFree = 0 /\ (Enforces("limits") \/ MustRead(tx'[s].origin))
  BY DEF Deserved
<1> HIDE DEF Step
<1> QED  BY <1>1, <1>2, InitCause, NextCause, PTL DEF Spec, OnlyEnforcedRefuses

(* The same for one recipient, which pickup never refuses at RCPT          *)
(* (evaluate_recipient, _reserve, envrcpt).                                *)
THEOREM RecipientRefusalsDeserved == Spec => OnlyEnforcedRefusesRecipient
<1> DEFINE Why(s, r) ==
             /\ ~IsPickup(s)
             /\ \/ Enforces("protection") /\ Unprotected(tx[s].origin, r)
                \/ Enforces("self_sender") /\ EnvelopeSelfSent(s, r)
                \/ Enforces("limits") /\ Len(tx[s].recipients) >= cfg.max_recipients
                \/ /\ Enforces("sending_limits") /\ Limited(tx[s].origin)
                   /\ AtLimit
<1>1. ASSUME CauseInv, NEW s \in Sessions, NEW r \in Recipients, post' = post, Rcpt(s, r)
      PROVE  Why(s, r)
  <2> DEFINE rules    == RecipientDecision(cfg, tx[s].origin, tx[s].sender, r,
                                           Len(tx[s].recipients))
             decision == Limiting(s, r, rules.decision)
             waits    == decision.action # "allow" /\ IsPickup(s)
             grown    == Append(post[s].envelope, r)
  <2>1. CountInv /\ RulesOk(s)
    BY <1>1 DEF CauseInv, RuleInv
  <2>2. Enforced(cfg, decision) /\ ~waits
    <3>1. ~(Enforced(cfg, decision) /\ ~waits) =>
            post' = [post EXCEPT ![s].envelope = grown]
      BY <1>1 DEF Rcpt
    <3>2. post' = [post EXCEPT ![s].envelope = grown] => post'[s].envelope = grown
      BY <2>1, Facts
    <3>3. Len(grown) = Len(post[s].envelope) + 1 /\ Len(post[s].envelope) \in Nat
      BY <2>1, Facts
    <3> HIDE DEF grown, decision, waits
    <3> QED  BY <1>1, <3>1, <3>2, <3>3
  <2>3. ~IsPickup(s)
    BY <2>2 DEF Enforced
  <2>4. Len(tx[s].recipients) \in Nat /\ cfg.max_recipients \in Nat
    BY <2>1, SessionAssumption DEF RulesOk, CountInv, Shape
  <2>5. \/ Enforces("protection") /\ Unprotected(tx[s].origin, r)
        \/ Enforces("self_sender") /\ EnvelopeSelfSent(s, r)
        \/ Enforces("limits") /\ Len(tx[s].recipients) >= cfg.max_recipients
        \/ /\ Enforces("sending_limits") /\ AtLimit
           /\ r.ok /\ Limited(tx[s].origin)
    BY <2>2, <2>4, RecipientRefused
  <2> QED  BY <2>3, <2>5
<1>2. CauseInv =>
        \A s \in Sessions, r \in Recipients : post' = post /\ Rcpt(s, r) =>
          /\ ~IsPickup(s)
          /\ \/ Enforces("protection") /\ Unprotected(tx[s].origin, r)
             \/ Enforces("self_sender") /\ EnvelopeSelfSent(s, r)
             \/ Enforces("limits") /\ Len(tx[s].recipients) >= cfg.max_recipients
             \/ /\ Enforces("sending_limits") /\ Limited(tx[s].origin)
                /\ AtLimit
  BY <1>1
<1> QED  BY <1>2, InitCause, NextCause, PTL DEF Spec, OnlyEnforcedRefusesRecipient
=============================================================================
