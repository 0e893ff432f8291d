----------------------------- MODULE MilterSession -----------------------------
(***************************************************************************)
(* The milter callbacks of milter.py: concurrent sessions of Postfix, one  *)
(* thread each, that share the open-message slots, the verification slots  *)
(* and the sending-limit store.  tx[s] is what PolicyMilter keeps of a     *)
(* session; post[s] is Postfix's side of it: how far the message is, the   *)
(* recipients it accepted, and what the message is.                        *)
(*                                                                         *)
(* The store is one window in which nothing expires (QuotaStore models it  *)
(* in full): `counted' recipients and those the sessions reserve.          *)
(***************************************************************************)
EXTENDS Policy, Integers, FiniteSets, Sequences

CONSTANTS
  Sessions,    \* connections, each served by a thread of libmilter
  Configs,     \* configurations the daemon may run: those of Policy with the slots
  Origins,     \* [ingress, port, peer, authenticated, tls, owner]
  Senders,     \* envelope senders: addresses, "null", "unparsed"
  Recipients,  \* [ok, who, guarded]
  Contents,    \* [from, big, auth]: From, the bound its size hits, SPF and DKIM
  Limit,       \* the sending limit
  MaxGiven,    \* bound: recipients Postfix gives for one message
  MaxMail      \* bound: messages begun

ASSUME SessionAssumption ==
  /\ IsFiniteSet(Sessions)
  /\ \A c \in Configs :
       /\ c.mode \in [Sections -> Modes]
       /\ {c.max_recipients, c.max_open_messages, c.max_concurrent_messages} \subseteq Nat \ {0}
  /\ \A c \in Contents : c.auth.spf \in {"aligned", "unaligned", "fail", "temperror"}
  /\ {Limit, MaxGiven, MaxMail} \subseteq Nat

VARIABLES
  cfg,         \* _settings
  tx,          \* PolicyMilter objects, by session
  post,        \* Postfix's side of the sessions: [stage, envelope, content]
  openFree,    \* _open_slots
  verifyFree,  \* _verify_slots
  quota,       \* _quota: [counted, reserved] recipients
  delivered,   \* history: the recipients of limited messages that Postfix delivers
  unparsed,    \* history: those of them that no parser takes
  mails        \* history: messages begun

vars == <<cfg, tx, post, openFree, verifyFree, quota, delivered, unparsed, mails>>
history == <<delivered, unparsed, mails>>
-----------------------------------------------------------------------------
NoOrigin ==
  [ingress |-> "none", port |-> 0, peer |-> "none",
   authenticated |-> FALSE, tls |-> FALSE, owner |-> FALSE]
NoContent ==
  [from |-> "none", big |-> "none",
   auth |-> [spf |-> "none", dkim |-> {}, incomplete |-> FALSE]]

\* A PolicyMilter with no message: trust and facts are set anew by MAIL, and a
\* message that is not limited has no reservation, here one of 0 recipients.
Blank ==
  [origin |-> NoOrigin, sender |-> "none", recipients |-> <<>>, deferred |-> {},
   capture |-> FALSE, holds_slot |-> FALSE, reservation |-> 0]

At(stage) == [stage |-> stage, envelope |-> <<>>, content |-> NoContent]

\* The stages without a message; the last two say how the last one ended.
Calm == {"idle", "sent", "failed"}

Bounded == cfg.mode["limits"] # "off"
MaxOpen == cfg.max_open_messages
MaxVerify == cfg.max_concurrent_messages
Limited(o) == Trust(o) # "untrusted" /\ cfg.mode["sending_limits"] # "off"
IsPickup(s) == Trust(tx[s].origin) = "local_pickup"

\* Mutants of Reset: the slot is kept; a slot is given back that is not held.
ResetKeepsSlot(s, q) ==
  /\ tx' = [tx EXCEPT ![s] = Blank]
  /\ quota' = [q EXCEPT !.reserved = @ - tx[s].reservation]
  /\ UNCHANGED openFree

ResetAnySlot(s, q) ==
  /\ tx' = [tx EXCEPT ![s] = Blank]
  /\ openFree' = IF Bounded THEN openFree + 1 ELSE openFree
  /\ quota' = [q EXCEPT !.reserved = @ - tx[s].reservation]

\* _reset_message: everything the message held is given back.
Reset(s, q) ==
  /\ tx' = [tx EXCEPT ![s] = Blank]
  /\ openFree' = IF tx[s].holds_slot THEN openFree + 1 ELSE openFree
  /\ quota' = [q EXCEPT !.reserved = @ - tx[s].reservation]
-----------------------------------------------------------------------------
Init ==
  /\ cfg \in Configs
  /\ tx = [s \in Sessions |-> Blank]
  /\ post = [s \in Sessions |-> At("closed")]
  /\ openFree = MaxOpen /\ verifyFree = MaxVerify
  /\ quota = [counted |-> 0, reserved |-> 0]
  /\ delivered = 0 /\ unparsed = 0
  /\ mails = 0

Connect(s) ==
  /\ post[s].stage = "closed"
  /\ post' = [post EXCEPT ![s] = At("idle")]
  /\ UNCHANGED <<cfg, tx, openFree, verifyFree, quota, history>>

\* envfrom, up to its reset of the message before.
MailReset(s) ==
  /\ post[s].stage \in Calm \cup {"rcpt", "data", "broken"} /\ mails < MaxMail
  /\ Reset(s, quota)
  /\ post' = [post EXCEPT ![s] = At("mail")]
  /\ mails' = mails + 1
  /\ UNCHANGED <<cfg, verifyFree, delivered, unparsed>>

\* The rest of envfrom: a reservation is begun and, where bounded, a slot taken.
\* Without one, pickup is deferred at end of message and others here, if enforced.
Mail(s, o, sender) ==
  /\ post[s].stage = "mail"
  /\ LET decision == Decision("defer", "limits", NeedsMessage(cfg, o))
         noSlot   == Bounded /\ openFree = 0
         refused  == noSlot /\ Trust(o) # "local_pickup" /\ Enforced(cfg, decision)
     IN  /\ tx' = [tx EXCEPT ![s] =
                     [Blank EXCEPT !.origin = o, !.sender = sender,
                                   !.capture = ~noSlot, !.holds_slot = Bounded /\ ~noSlot,
                                   !.deferred = IF noSlot /\ ~refused THEN {decision} ELSE {}]]
         /\ openFree' = IF Bounded /\ ~noSlot THEN openFree - 1 ELSE openFree
         /\ post' = [post EXCEPT ![s] = At(IF refused THEN "idle" ELSE "rcpt")]
  /\ UNCHANGED <<cfg, verifyFree, quota, history>>

\* Mutants of Reserves: a refused recipient takes a place; one that another
\* rule would have refused takes none.
ReservesAll(s, r, decision) == r.ok /\ Limited(tx[s].origin)
ReservesAllowed(s, r, decision) ==
  r.ok /\ Limited(tx[s].origin) /\ decision.action = "allow"

Reserves(s, r, decision) ==
  r.ok /\ Limited(tx[s].origin) /\ ~Enforced(cfg, decision)

\* _reserve: a place for a recipient Postfix accepts; an enforced limit refuses
\* it when the window is full, an observed one only says so.
AtLimit == quota.counted + quota.reserved >= Limit

Limiting(s, r, decision) ==
  IF Reserves(s, r, decision) /\ AtLimit
  THEN Effective(cfg, {decision, Defer("sending_limit")})
  ELSE decision

\* envrcpt: pickup cannot refuse a recipient, so its refusals wait for the end.
Rcpt(s, r) ==
  /\ post[s].stage = "rcpt"
  /\ Len(post[s].envelope) < MaxGiven /\ Len(tx[s].recipients) < MaxGiven
  /\ LET t        == tx[s]
         rules    == RecipientDecision(cfg, t.origin, t.sender, r, Len(t.recipients))
         decision == Limiting(s, r, rules.decision)
         place    == IF /\ Reserves(s, r, rules.decision)
                        /\ AtLimit => cfg.mode["sending_limits"] = "observe"
                     THEN 1 ELSE 0
         waits    == decision.action # "allow" /\ IsPickup(s)
     IN  /\ tx' = [tx EXCEPT ![s] =
                     [t EXCEPT !.recipients =
                                 IF rules.kept
                                 THEN Append(t.recipients, [of |-> r, decision |-> decision])
                                 ELSE t.recipients,
                               !.deferred = IF waits THEN @ \cup {decision} ELSE @,
                               !.reservation = @ + place]]
         /\ quota' = [quota EXCEPT !.reserved = @ + place]
         /\ post' = IF Enforced(cfg, decision) /\ ~waits
                    THEN post
                    ELSE [post EXCEPT ![s].envelope = Append(@, r)]
  /\ UNCHANGED <<cfg, openFree, verifyFree, history>>

\* header and body: Postfix sends a message some recipient was accepted for.
Data(s, c) ==
  /\ post[s].stage = "rcpt" /\ post[s].envelope # <<>>
  /\ post' = [post EXCEPT ![s].stage = "data", ![s].content = c]
  /\ UNCHANGED <<cfg, tx, openFree, verifyFree, quota, history>>

\* The spool cannot be written: body raises, and Postfix fails the message.
SpoolFails(s) ==
  /\ post[s].stage = "data" /\ tx[s].capture
  /\ post' = [post EXCEPT ![s].stage = "broken"]
  /\ UNCHANGED <<cfg, tx, openFree, verifyFree, quota, history>>
-----------------------------------------------------------------------------
(* eom.  Without a capture only the deferred decisions are left to decide. *)

Over(s) == IF Bounded THEN post[s].content.big ELSE "none"

\* The parsed recipients no enforced rule refused.
Accepted(s) ==
  LET kept == tx[s].recipients
  IN  {kept[i].of.who : i \in {j \in DOMAIN kept :
                                 kept[j].of.ok /\ ~Enforced(cfg, kept[j].decision)}}

Rules(s) ==
  IF tx[s].capture
  THEN MessageRules(cfg, tx[s].origin, tx[s].deferred, Accepted(s),
                    post[s].content.from, Over(s))
  ELSE tx[s].deferred

MustAuthenticate(s) ==
  tx[s].capture
    /\ Authenticates(cfg, tx[s].origin, Rules(s), post[s].content.from, Over(s))

\* How many parsed recipients Postfix has accepted.
Parsed(s) == Cardinality({i \in DOMAIN post[s].envelope : post[s].envelope[i].ok})

\* History: Postfix delivers the message to every recipient it accepted.
Delivers(s) ==
  IF Limited(tx[s].origin)
  THEN /\ delivered' = delivered + Len(post[s].envelope)
       /\ unparsed' = unparsed + (Len(post[s].envelope) - Parsed(s))
  ELSE UNCHANGED <<delivered, unparsed>>

\* Mutant of Finish: a message is counted although it is refused.
FinishCounts(s, decisions) ==
  LET accepts == ~Enforced(cfg, Effective(cfg, decisions))
  IN  /\ Reset(s, [quota EXCEPT !.counted = @ + tx[s].reservation])
      /\ IF accepts THEN Delivers(s) ELSE UNCHANGED <<delivered, unparsed>>
      /\ post' = [post EXCEPT ![s] = At(IF accepts THEN "sent" ELSE "failed")]
      /\ UNCHANGED <<cfg, mails>>

\* The answer to the end of the message: a delivered message is counted, and
\* the message is reset in any case.
Finish(s, decisions) ==
  LET accepts == ~Enforced(cfg, Effective(cfg, decisions))
  IN  /\ Reset(s, IF accepts THEN [quota EXCEPT !.counted = @ + tx[s].reservation] ELSE quota)
      /\ IF accepts THEN Delivers(s) ELSE UNCHANGED <<delivered, unparsed>>
      /\ post' = [post EXCEPT ![s] = At(IF accepts THEN "sent" ELSE "failed")]
      /\ UNCHANGED <<cfg, mails>>

EndOfMessage(s) ==
  /\ post[s].stage = "data"
  /\ IF MustAuthenticate(s)
     THEN /\ post' = [post EXCEPT ![s].stage = "wait"]
          /\ UNCHANGED <<cfg, tx, openFree, verifyFree, quota, history>>
     ELSE Finish(s, Rules(s)) /\ UNCHANGED verifyFree

\* _authenticate: a verification slot, where bounded, or a timeout without one.
AcquireSlot(s) ==
  /\ post[s].stage = "wait"
  /\ Bounded => verifyFree > 0
  /\ verifyFree' = IF Bounded THEN verifyFree - 1 ELSE verifyFree
  /\ post' = [post EXCEPT ![s].stage = "verify"]
  /\ UNCHANGED <<cfg, tx, openFree, quota, history>>

\* Mutants of NoSlot: the deferral follows [limits], or always enforces.
NoSlotObserved(s) == Defer("limits")
NoSlotForced(s) == Decision("defer", "limits", TRUE)

NoSlot(s) ==
  Decision("defer", "limits", cfg.mode["sender_authentication"] = "enforce")

SlotTimeout(s) ==
  /\ post[s].stage = "wait" /\ Bounded /\ verifyFree = 0
  /\ Finish(s, Rules(s) \cup {NoSlot(s)})
  /\ UNCHANGED verifyFree

\* Mutant of ReleaseSlot: the slot is not given back.
ReleaseNothing == UNCHANGED verifyFree

ReleaseSlot == verifyFree' = IF Bounded THEN verifyFree + 1 ELSE verifyFree

Verified(s) ==
  /\ post[s].stage = "verify"
  /\ ReleaseSlot
  /\ LET auth == Found(cfg, tx[s].sender, post[s].content.auth)
     IN  Finish(s, Rules(s) \cup {Authentication(cfg, tx[s].sender, auth)})

\* The authenticator raises: a temporary failure, and finally the slot and reset.
VerifyRaises(s) ==
  /\ post[s].stage = "verify"
  /\ ReleaseSlot
  /\ Reset(s, quota)
  /\ post' = [post EXCEPT ![s] = At("idle")]
  /\ UNCHANGED <<cfg, history>>

\* abort: RSET, or the failure of a message the milter did not end.
Abort(s) ==
  /\ post[s].stage \in Calm \cup {"rcpt", "data", "broken"}
  /\ Reset(s, quota)
  /\ post' = [post EXCEPT ![s] = At("idle")]
  /\ UNCHANGED <<cfg, verifyFree, history>>

\* close: Postfix or the client is gone; a callback that runs ends first.
Close(s) ==
  /\ post[s].stage \in Calm \cup {"rcpt", "data", "broken"}
  /\ Reset(s, quota)
  /\ post' = [post EXCEPT ![s] = At("closed")]
  /\ UNCHANGED <<cfg, verifyFree, history>>

Next ==
  \E s \in Sessions :
    \/ Connect(s) \/ MailReset(s)
    \/ \E o \in Origins, f \in Senders : Mail(s, o, f)
    \/ \E r \in Recipients : Rcpt(s, r)
    \/ \E c \in Contents : Data(s, c)
    \/ SpoolFails(s) \/ EndOfMessage(s)
    \/ AcquireSlot(s) \/ SlotTimeout(s) \/ Verified(s) \/ VerifyRaises(s)
    \/ Abort(s) \/ Close(s)

Spec == Init /\ [][Next]_vars
-----------------------------------------------------------------------------
(* What the daemon owes Postfix, from the message as it is and not from    *)
(* what the code made of it.                                               *)

Envelope(s) == {post[s].envelope[i] : i \in DOMAIN post[s].envelope}
Enforces(section) == cfg.mode[section] = "enforce"

\* The rules of a section are broken by a recipient, or by the message.
Unprotected(o, r) == ~r.ok \/ (r.guarded /\ ~Authorized(o))

SelfSent(s, who, r) == r.ok /\ r.who = who /\ who \notin cfg.allow_senders

EnvelopeSelfSent(s, r) ==
  /\ SelfSenderApplies(cfg, tx[s].origin) /\ cfg.identity # "header_from"
  /\ SelfSent(s, tx[s].sender, r)

HeaderSelfSent(s) ==
  /\ ComparesFrom(cfg, tx[s].origin)
  /\ \E r \in Envelope(s) : SelfSent(s, post[s].content.from, r)

Unproven(s) ==
  LET auth == post[s].content.auth
      spf  == auth.spf = "aligned"
      dkim == "aligned" \in auth.dkim
  IN  /\ RequiresAuthentication(cfg, Trust(tx[s].origin))
      /\ ~(IF cfg.require = "either" THEN spf \/ dkim
           ELSE dkim /\ (spf \/ NullDkim(cfg, tx[s].sender)))

NoFrom(s) ==
  /\ post[s].content.from = "invalid"
  /\ RequiresAuthentication(cfg, Trust(tx[s].origin)) \/ ComparesFrom(cfg, tx[s].origin)

\* An enforced check reads the message.
MustRead(o) ==
  \/ Enforces("sender_authentication") /\ RequiresAuthentication(cfg, Trust(o))
  \/ Enforces("self_sender") /\ ComparesFrom(cfg, o)

\* A bound kept the message, or part of it, from the checks.
Withheld(s) ==
  /\ Bounded
  /\ \/ ~tx[s].capture \/ post[s].content.big # "none"
     \/ verifyFree = 0 /\ post[s].stage = "wait"

TooMany(s) == Bounded /\ Len(post[s].envelope) > cfg.max_recipients

Ended(s, how) == post[s].stage # how /\ post'[s].stage = how

(* The shape of the state (PolicyMilter, TransactionState, configure).     *)
MilterTypeOK ==
  /\ cfg.mode \in [Sections -> Modes]
  /\ \A s \in Sessions :
       /\ post[s].stage \in Calm \cup {"closed", "mail", "rcpt", "data", "wait", "verify", "broken"}
       /\ post[s].envelope \in Seq(Recipients)
       /\ tx[s].reservation \in 0 .. MaxGiven
       /\ tx[s].capture \in BOOLEAN /\ tx[s].holds_slot \in BOOLEAN
  /\ openFree \in 0 .. MaxOpen /\ verifyFree \in 0 .. MaxVerify
  /\ quota \in [counted : Nat, reserved : Nat]

(* Every slot is free or held by one message in progress, whichever way    *)
(* messages end: answered, aborted, closed, replaced, failed or raised in  *)
(* (_reset_message, _authenticate).                                        *)
SlotsConserved ==
  /\ openFree + Cardinality({s \in Sessions : tx[s].holds_slot}) = MaxOpen
  /\ verifyFree + Cardinality({s \in Sessions : Bounded /\ post[s].stage = "verify"}) = MaxVerify
  /\ \A s \in Sessions :
       tx[s].holds_slot => post[s].stage \in {"rcpt", "data", "wait", "verify", "broken"}

(* The store reserves one place for each parsed recipient of a limited     *)
(* message Postfix still has, but for those pickup could not refuse.       *)
PlacesAreRecipients ==
  /\ \A s \in Sessions :
       post[s].stage \in {"rcpt", "data", "wait", "verify", "broken"} =>
         IF ~Limited(tx[s].origin) THEN tx[s].reservation = 0
         ELSE /\ tx[s].reservation <= Parsed(s)
              /\ ~IsPickup(s) => tx[s].reservation = Parsed(s)
  /\ quota.reserved =
       Cardinality({u \in Sessions \X (1 .. MaxGiven) : u[2] <= tx[u[1]].reservation})

(* The limits count what is delivered, under any mix of modes, and         *)
(* refusals, aborts and errors count nothing.  The exception is in the     *)
(* code and not in ADR-0027: a recipient that cannot be parsed is not      *)
(* counted (milter.py:207), which Postfix delivers unless [protection]     *)
(* enforces: then the counts are exact (eom, _reserve, envrcpt).           *)
CountsDelivered ==
  /\ quota.counted = delivered - unparsed
  /\ Enforces("protection") => quota.counted = delivered

(* An enforced limit binds whatever [self_sender], [sender_authentication] *)
(* and [limits] do: none of their modes opens a path around it.  An        *)
(* observed [protection] does, for recipients that cannot be parsed, where *)
(* ADR-0027 says that no observed section can (_reserve, envrcpt, eom).    *)
DeliveredWithinLimit ==
  Enforces("sending_limits") =>
    /\ delivered - unparsed <= Limit
    /\ Enforces("protection") => delivered <= Limit

(* A delivered message breaks no rule whose section enforces: no bound,    *)
(* no observed refusal and no missing slot lets it past a check            *)
(* (ADR-0027; evaluate_recipient, evaluate_message, effective).            *)
EnforcedRulesHold ==
  [][\A s \in Sessions : Ended(s, "sent") =>
       LET o == tx[s].origin
       IN  /\ Enforces("protection") => \A r \in Envelope(s) : ~Unprotected(o, r)
           /\ Enforces("self_sender") =>
                /\ \A r \in Envelope(s) : ~EnvelopeSelfSent(s, r)
                /\ ~HeaderSelfSent(s)
                /\ ComparesFrom(cfg, o) => ~NoFrom(s)
           /\ Enforces("sender_authentication") =>
                ~Unproven(s) /\ (RequiresAuthentication(cfg, Trust(o)) => ~NoFrom(s))
           /\ Enforces("limits") => ~TooMany(s) /\ ~Withheld(s)]_vars

(* A message is refused, at its end or at MAIL, only for a rule it breaks  *)
(* in a section that enforces, or for a bound that enforces or keeps an    *)
(* enforced check from it: what is only observed refuses nothing           *)
(* (effective, mode_of, needs_message, envfrom).                           *)
OnlyEnforcedRefuses ==
  [][\A s \in Sessions :
       /\ Ended(s, "failed") =>
            LET o == tx[s].origin
            IN  \/ Enforces("protection") /\ \E r \in Envelope(s) : Unprotected(o, r)
                \/ /\ Enforces("self_sender")
                   /\ HeaderSelfSent(s) \/ \E r \in Envelope(s) : EnvelopeSelfSent(s, r)
                \/ Enforces("sender_authentication") /\ Unproven(s)
                \/ NoFrom(s) /\ (Enforces("self_sender") \/ Enforces("sender_authentication"))
                \/ Enforces("limits") /\ (TooMany(s) \/ Withheld(s))
                \/ MustRead(o) /\ Withheld(s)
                \/ /\ Enforces("sending_limits") /\ Limited(o)
                   /\ tx[s].reservation < Parsed(s)
       /\ post[s].stage = "mail" /\ post'[s].stage = "idle" =>
            Bounded /\ openFree = 0 /\ (Enforces("limits") \/ MustRead(tx'[s].origin))]_vars

(* The same for one recipient, which pickup never refuses at RCPT.         *)
OnlyEnforcedRefusesRecipient ==
  [][\A s \in Sessions, r \in Recipients : post' = post /\ Rcpt(s, r) =>
       /\ ~IsPickup(s)
       /\ \/ Enforces("protection") /\ Unprotected(tx[s].origin, r)
          \/ Enforces("self_sender") /\ EnvelopeSelfSent(s, r)
          \/ Enforces("limits") /\ Len(tx[s].recipients) >= cfg.max_recipients
          \/ /\ Enforces("sending_limits") /\ Limited(tx[s].origin)
             /\ AtLimit]_vars
=============================================================================
