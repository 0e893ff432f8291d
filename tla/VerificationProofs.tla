--------------------------- MODULE VerificationProofs ---------------------------
(***************************************************************************)
(* Verification for any number of sessions and slots, any deadlines, mails *)
(* and settings: a check ends in time, no slot is lost or overdrawn, and a *)
(* check that was cut short decides as the full one or defers.             *)
(***************************************************************************)
EXTENDS Verification, FiniteSetTheorems, SequenceTheorems, TLAPS

Stages == Checking \cup {"idle", "wait"}
Checks ==
  [stage : Stages, left : Int, due : Int, age : Int, mail : Mails \cup {NoMail},
   spf : Results, decision : {"none", "allow", "defer", "reject"}]
Verifiers ==
  [at : {"none", "thread", "spawned", "child", "memory", "crashed"}, left : Int,
   outcomes : Seq(Results), incomplete : {"none", "deadline"}]

Shape ==
  /\ cfg \in Configs
  /\ check \in [Sessions -> Checks]
  /\ verifier \in [Sessions -> Verifiers]

(* The bounds of a configuration are numbers.                              *)
LEMMA Numbers ==
  ASSUME Shape
  PROVE  /\ Slack \in Nat
         /\ cfg.authentication_deadline \in Nat /\ cfg.dns_timeout \in Nat
         /\ cfg.max_signatures \in Nat
         /\ cfg.max_concurrent_messages \in Nat /\ cfg.dkim_workers \in Nat
<1> QED  BY CheckAssumption DEF Shape

(* A message has a number of signatures.                                   *)
LEMMA Signatures ==
  ASSUME Shape, NEW s \in Sessions
  PROVE  /\ check[s].mail.signatures \in Seq(Results) /\ Count(s) \in Nat
         /\ check[s].mail.spf \in Results
<1>1. check[s].mail \in Mails \cup {NoMail}
  BY DEF Shape, Checks
<1>2. NoMail.signatures \in Seq(Results) /\ NoMail.spf \in Results
  <2>1. <<>> \in Seq(Results)
    OBVIOUS
  <2> QED  BY <2>1 DEF NoMail, Results
<1>3. check[s].mail.signatures \in Seq(Results) /\ check[s].mail.spf \in Results
  BY <1>1, <1>2, CheckAssumption
<1> QED  BY <1>3 DEF Count

(* What evaluate_authentication decides, without the record around it.     *)
LEMMA Verdict ==
  ASSUME NEW c, NEW sender, NEW found
  PROVE  /\ Authentication(c, sender, found).action = AuthenticationAction(c, sender, found)
         /\ AuthenticationAction(c, sender, found) \in {"allow", "defer", "reject"}
<1>1. Authentication(c, sender, found).action = AuthenticationAction(c, sender, found)
  BY DEF Authentication, Decision
<1>2. AuthenticationAction(c, sender, found) \in {"allow", "defer", "reject"}
  BY Zenon DEF AuthenticationAction
<1> QED  BY <1>1, <1>2
-----------------------------------------------------------------------------
(* The inductive invariant, by session.                                    *)

\* The deadline is what a check has left and what it took, and whatever it waits for
\* returns within that and one overrun.
TimeOk(s) ==
  check[s].stage # "idle" =>
    /\ check[s].left + check[s].age = cfg.authentication_deadline
    /\ 0 <= check[s].age /\ 0 <= check[s].due
    /\ check[s].due + check[s].age <= cfg.authentication_deadline + Slack

\* A verification in the thread of its check works against the check's own deadline.
ThreadOk(s) ==
  /\ verifier[s].at # "none" => check[s].stage \in {"dkim", "worker"}
  /\ verifier[s].at = "thread" <=> check[s].stage = "dkim"
  /\ verifier[s].at = "thread" => verifier[s].left = check[s].left

\* Every outcome so far is the signature's own, or an error, or says it came too late.
Outcomes(v, signatures) ==
  /\ Len(v.outcomes) <= Len(signatures)
  /\ \A i \in 1 .. Len(v.outcomes) :
       \/ v.outcomes[i] \in {signatures[i], "temperror"}
       \/ v.outcomes[i] = "neutral" /\ v.incomplete # "none"
FoundOk(s) ==
  /\ check[s].stage \in {"dkim", "queue", "worker"} =>
       check[s].spf \in {check[s].mail.spf, "temperror"}
  /\ verifier[s].at # "none" => Outcomes(verifier[s], check[s].mail.signatures)

SessionInv(s) == TimeOk(s) /\ ThreadOk(s) /\ FoundOk(s)
CheckInv == Shape /\ \A s \in Sessions : SessionInv(s)

(* A step of one session leaves the others as they are.                    *)
LEMMA OneSession ==
  ASSUME CheckInv, NEW s \in Sessions, UNCHANGED cfg,
         check' \in [Sessions -> Checks], verifier' \in [Sessions -> Verifiers],
         \A u \in Sessions \ {s} : check'[u] = check[u] /\ verifier'[u] = verifier[u],
         SessionInv(s)'
  PROVE  CheckInv'
<1>1. Shape'
  BY DEF CheckInv, Shape
<1>2. ASSUME NEW u \in Sessions, u # s
      PROVE  SessionInv(u)'
  BY <1>2 DEF CheckInv, SessionInv, TimeOk, ThreadOk, FoundOk
<1> QED  BY <1>1, <1>2 DEF CheckInv

(* A check that ends leaves nothing behind.                                *)
LEMMA EndStep ==
  ASSUME CheckInv, NEW s \in Sessions, UNCHANGED cfg,
         NEW decision \in {"allow", "defer", "reject"},
         check' = [check EXCEPT ![s] = Idle(decision)],
         verifier' = [verifier EXCEPT ![s] = NoVerifier]
  PROVE  CheckInv'
<1>1. Idle(decision) \in Checks
  BY DEF Idle, Checks, Stages, Results
<1>2. NoVerifier \in Verifiers
  <2>1. <<>> \in Seq(Results)
    OBVIOUS
  <2> QED  BY <2>1 DEF NoVerifier, Verifiers
<1>3. check'[s] = Idle(decision) /\ verifier'[s] = NoVerifier
  BY DEF CheckInv, Shape
<1>4. SessionInv(s)'
  BY <1>3 DEF SessionInv, TimeOk, ThreadOk, FoundOk, Idle, NoVerifier
<1>5. /\ check' \in [Sessions -> Checks] /\ verifier' \in [Sessions -> Verifiers]
      /\ \A u \in Sessions \ {s} : check'[u] = check[u] /\ verifier'[u] = verifier[u]
  BY <1>1, <1>2 DEF CheckInv, Shape
<1> QED  BY <1>4, <1>5, OneSession

LEMMA ConcludeStep ==
  ASSUME CheckInv, NEW s \in Sessions, NEW spf, NEW outcomes, NEW incomplete,
         Conclude(s, spf, outcomes, incomplete)
  PROVE  CheckInv'
<1> DEFINE found == [spf |-> spf, dkim |-> {outcomes[i] : i \in DOMAIN outcomes},
                     incomplete |-> incomplete # "none"]
           decision == Authentication(cfg, check[s].mail.sender, found).action
<1>1. /\ check' = [check EXCEPT ![s] = Idle(decision)]
      /\ verifier' = [verifier EXCEPT ![s] = NoVerifier]
      /\ UNCHANGED cfg
  BY DEF Conclude
<1>2. decision \in {"allow", "defer", "reject"}
  BY Verdict
<1> HIDE DEF decision
<1> QED  BY <1>1, <1>2, EndStep

(* A call never takes longer than what is left, and one overrun.           *)
LEMMA CallTimes ==
  ASSUME Shape, NEW v \in Verifiers, NEW n \in Nat
  PROVE  /\ CallTime(v, n) \in Int /\ 0 <= CallTime(v, n)
         /\ CallTime(v, n) = 0 \/ CallTime(v, n) <= v.left + Slack
<1>1. v.left \in Int
  BY DEF Verifiers
<1>2. CASE GoesOn(v, n)
  <2>1. v.left > 0
    BY <1>2 DEF GoesOn
  <2> QED  BY <1>1, <1>2, <2>1, Numbers DEF CallTime, Least, Remaining
<1>3. CASE ~GoesOn(v, n)
  BY <1>3 DEF CallTime
<1> QED  BY <1>2, <1>3

(* After SPF a check ends, waits for a worker or verifies in its thread.   *)
LEMMA AfterSpfStep ==
  ASSUME CheckInv, NEW s \in Sessions, NEW r \in {check[s].mail.spf, "temperror"},
         check[s].stage \in {"admitted", "spf"}, AfterSpf(s, r)
  PROVE  CheckInv'
<1> DEFINE c == [check[s] EXCEPT !.spf = r]
<1>types. /\ check[s] \in Checks /\ verifier[s] \in Verifiers /\ verifier[s].at = "none"
          /\ TimeOk(s) /\ r \in Results
          /\ check[s].left \in Int /\ check[s].due \in Int /\ check[s].age \in Int
          /\ check[s].stage # "idle"
  BY Signatures DEF CheckInv, Shape, SessionInv, ThreadOk, Results, Checks
<1>numbers. Slack \in Nat /\ cfg.authentication_deadline \in Nat
  BY Numbers DEF CheckInv
<1>c. /\ c \in Checks /\ c.spf = r /\ c.mail = check[s].mail
      /\ c.left = check[s].left /\ c.age = check[s].age
  BY <1>types DEF Checks
<1>1. CASE SkipDkim(cfg, c.mail.sender, r) \/ c.mail.signatures = <<>>
  <2>1. Conclude(s, r, <<>>, "none")
    BY <1>1 DEF AfterSpf
  <2> QED  BY <2>1, ConcludeStep
<1>2. CASE ~(SkipDkim(cfg, c.mail.sender, r) \/ c.mail.signatures = <<>>) /\ c.mail.spooled
  <2> DEFINE next == [c EXCEPT !.stage = "queue", !.due = Remaining(c.left)]
  <2>1. check' = [check EXCEPT ![s] = next] /\ UNCHANGED <<verifier, cfg>>
    BY <1>2 DEF AfterSpf
  <2> HIDE DEF c
  <2>r. Remaining(c.left) \in Int
    BY <1>types, <1>c DEF Remaining
  <2>2. /\ next \in Checks /\ next.stage = "queue" /\ next.spf = r /\ next.mail = check[s].mail
        /\ next.left = check[s].left /\ next.age = check[s].age
        /\ next.due = Remaining(check[s].left)
    BY <1>c, <2>r DEF Checks, Stages, Checking
  <2> HIDE DEF next
  <2>3. check'[s] = next /\ verifier'[s] = verifier[s] /\ check' \in [Sessions -> Checks]
    BY <2>1, <2>2 DEF CheckInv, Shape
  <2>4. TimeOk(s)'
    <3>1. cfg' = cfg
      BY <2>1
    <3>2. 0 <= Remaining(check[s].left)
            /\ Remaining(check[s].left) + check[s].age <= cfg.authentication_deadline + Slack
      BY <1>types, <1>numbers DEF TimeOk, Remaining
    <3> QED  BY <1>types, <2>2, <2>3, <3>1, <3>2 DEF TimeOk
  <2>5. ThreadOk(s)' /\ FoundOk(s)'
    BY <1>types, <2>2, <2>3 DEF ThreadOk, FoundOk
  <2> QED  BY <2>1, <2>3, <2>4, <2>5, OneSession DEF SessionInv, CheckInv, Shape
<1>3. CASE ~(SkipDkim(cfg, c.mail.sender, r) \/ c.mail.signatures = <<>>) /\ ~c.mail.spooled
  <2> DEFINE v == [NoVerifier EXCEPT !.at = "thread", !.left = c.left]
             due == CallTime(v, Count(s))
             next == [c EXCEPT !.stage = "dkim", !.due = due]
  <2>1. /\ check' = [check EXCEPT ![s] = next] /\ verifier' = [verifier EXCEPT ![s] = v]
        /\ UNCHANGED cfg
    BY <1>3 DEF AfterSpf
  <2>2. /\ v \in Verifiers /\ v.at = "thread" /\ v.left = check[s].left
        /\ v.outcomes = <<>>
    <3>1. <<>> \in Seq(Results)
      OBVIOUS
    <3> QED  BY <3>1, <1>types DEF NoVerifier, Verifiers, Checks
  <2>3. /\ due \in Int /\ 0 <= due
        /\ due = 0 \/ due <= check[s].left + Slack
    <3> HIDE DEF v
    <3> QED  BY <2>2, CallTimes, Signatures DEF CheckInv
  <2> HIDE DEF v, due
  <2>4. /\ next \in Checks /\ next.stage = "dkim" /\ next.spf = r /\ next.mail = check[s].mail
        /\ next.left = check[s].left /\ next.age = check[s].age /\ next.due = due
    BY <1>types, <2>3 DEF Checks, Stages, Checking
  <2> HIDE DEF next
  <2>5. /\ check'[s] = next /\ verifier'[s] = v
        /\ check' \in [Sessions -> Checks] /\ verifier' \in [Sessions -> Verifiers]
    BY <2>1, <2>2, <2>4 DEF CheckInv, Shape
  <2>6. TimeOk(s)'
    <3>1. cfg' = cfg
      BY <2>1
    <3>2. due + check[s].age <= cfg.authentication_deadline + Slack
      BY <1>types, <1>numbers, <2>3 DEF TimeOk
    <3> QED  BY <1>types, <2>3, <2>4, <2>5, <3>1, <3>2 DEF TimeOk
  <2>7. ThreadOk(s)'
    BY <2>2, <2>4, <2>5 DEF ThreadOk
  <2>8. FoundOk(s)'
    <3>1. Len(v.outcomes) = 0 /\ Len(check[s].mail.signatures) \in Nat
      BY <2>2, Signatures DEF CheckInv
    <3> QED  BY <2>2, <2>4, <2>5, <3>1 DEF FoundOk, Outcomes
  <2> QED  BY <2>1, <2>5, <2>6, <2>7, <2>8, OneSession DEF SessionInv, CheckInv, Shape
<1> QED  BY <1>1, <1>2, <1>3

\* A check that moves to another stage.
To(c, stage, due) == [c EXCEPT !.stage = stage, !.due = due]
LEMMA Moved ==
  ASSUME NEW c \in Checks, NEW stage \in Stages, NEW due \in Int
  PROVE  /\ To(c, stage, due) \in Checks
         /\ To(c, stage, due).stage = stage /\ To(c, stage, due).due = due
         /\ To(c, stage, due).left = c.left /\ To(c, stage, due).age = c.age
         /\ To(c, stage, due).spf = c.spf /\ To(c, stage, due).mail = c.mail
<1> QED  BY DEF To, Checks

(* The steps of a check that has no verification under way.                *)
LEMMA WaitStep ==
  ASSUME CheckInv, NEW s \in Sessions, NEW next \in Checks, UNCHANGED <<cfg, verifier>>,
         check' = [check EXCEPT ![s] = next], verifier[s].at = "none",
         next.stage \in {"idle", "wait", "admitted", "spf"},
         next.stage # "idle" =>
           /\ next.left + next.age = cfg.authentication_deadline
           /\ 0 <= next.age /\ 0 <= next.due
           /\ next.due + next.age <= cfg.authentication_deadline + Slack
  PROVE  CheckInv'
<1>1. /\ check'[s] = next /\ verifier'[s] = verifier[s] /\ check' \in [Sessions -> Checks]
      /\ \A u \in Sessions \ {s} : check'[u] = check[u] /\ verifier'[u] = verifier[u]
      /\ verifier' \in [Sessions -> Verifiers] /\ cfg' = cfg
  BY DEF CheckInv, Shape
<1>2. TimeOk(s)' /\ ThreadOk(s)' /\ FoundOk(s)'
  BY <1>1 DEF TimeOk, ThreadOk, FoundOk
<1> QED  BY <1>1, <1>2, OneSession DEF SessionInv

LEMMA BeginStep ==
  ASSUME CheckInv, NEW s \in Sessions, NEW m \in Mails, Begin(s, m)
  PROVE  CheckInv'
<1> DEFINE next == [stage |-> "wait", left |-> cfg.authentication_deadline,
                    due |-> cfg.authentication_deadline, age |-> 0, mail |-> m,
                    spf |-> "none", decision |-> "none"]
<1>1. cfg.authentication_deadline \in Nat /\ Slack \in Nat
  BY Numbers DEF CheckInv
<1>2. next \in Checks
  BY <1>1 DEF Checks, Stages, Results
<1>3. check[s].stage = "idle" /\ check' = [check EXCEPT ![s] = next] /\ UNCHANGED <<cfg, verifier>>
  BY DEF Begin
<1>4. verifier[s].at = "none"
  BY <1>3 DEF CheckInv, SessionInv, ThreadOk
<1>5. /\ next.stage = "wait" /\ next.left + next.age = cfg.authentication_deadline
      /\ 0 <= next.age /\ 0 <= next.due
      /\ next.due + next.age <= cfg.authentication_deadline + Slack
  BY <1>1
<1> HIDE DEF next
<1> QED  BY <1>2, <1>3, <1>4, <1>5, WaitStep

LEMMA SlotStep ==
  ASSUME CheckInv, NEW s \in Sessions, Admit(s) \/ NotAdmitted(s) \/ SpfBegins(s)
  PROVE  CheckInv'
<1>1. /\ Slack \in Nat /\ cfg.authentication_deadline \in Nat
      /\ check[s] \in Checks /\ check[s].left \in Int /\ check[s].due \in Int /\ check[s].age \in Int
      /\ TimeOk(s)
  BY Numbers DEF CheckInv, Shape, SessionInv, Checks
<1>2. check[s].stage \in {"wait", "admitted"} /\ UNCHANGED <<cfg, verifier>>
  BY DEF Admit, NotAdmitted, SpfBegins
<1>3. verifier[s].at = "none"
  BY <1>2 DEF CheckInv, SessionInv, ThreadOk
<1>4. /\ check[s].left + check[s].age = cfg.authentication_deadline
      /\ 0 <= check[s].age /\ 0 <= check[s].due
      /\ check[s].due + check[s].age <= cfg.authentication_deadline + Slack
  BY <1>1, <1>2 DEF TimeOk
<1>stages. {"admitted", "spf"} \subseteq Stages
  BY DEF Stages, Checking
<1>5. CASE Admit(s)
  <2> DEFINE next == To(check[s], "admitted", 0)
  <2>1. check' = [check EXCEPT ![s] = next]
    BY <1>5 DEF Admit, CheckInv, Shape, To
  <2>2. /\ next \in Checks /\ next.stage = "admitted" /\ next.due = 0
        /\ next.left = check[s].left /\ next.age = check[s].age
    <3>1. "admitted" \in Stages /\ 0 \in Int /\ check[s] \in Checks
      BY <1>1, <1>stages
    <3> QED  BY <3>1, Moved
  <2>3. /\ 0 <= next.age /\ 0 <= next.due
        /\ next.due + next.age <= cfg.authentication_deadline + Slack
    BY <1>1, <1>4, <2>1, <2>2
  <2> HIDE DEF next
  <2> QED  BY <1>2, <1>3, <1>4, <2>1, <2>2, <2>3, WaitStep
<1>6. CASE SpfBegins(s)
  <2> DEFINE next == To(check[s], "spf", check[s].left + Slack)
  <2>1. check' = [check EXCEPT ![s] = next] /\ check[s].left > 0
    BY <1>6 DEF SpfBegins, CheckInv, Shape, To
  <2>2. /\ next \in Checks /\ next.stage = "spf" /\ next.due = check[s].left + Slack
        /\ next.left = check[s].left /\ next.age = check[s].age
    <3>1. "spf" \in Stages /\ check[s].left + Slack \in Int /\ check[s] \in Checks
      BY <1>1, <1>stages
    <3> QED  BY <3>1, Moved
  <2>3. /\ 0 <= next.age /\ 0 <= next.due
        /\ next.due + next.age <= cfg.authentication_deadline + Slack
    BY <1>1, <1>4, <2>1, <2>2
  <2> HIDE DEF next
  <2> QED  BY <1>2, <1>3, <1>4, <2>1, <2>2, <2>3, WaitStep
<1>7. CASE NotAdmitted(s)
  <2>1. check' = [check EXCEPT ![s] = Idle("defer")]
    BY <1>7 DEF NotAdmitted
  <2>2. Idle("defer") \in Checks /\ Idle("defer").stage = "idle"
    BY DEF Idle, Checks, Stages, Results
  <2> QED  BY <1>2, <1>3, <2>1, <2>2, WaitStep
<1> QED  BY <1>5, <1>6, <1>7

LEMMA SpfStep ==
  ASSUME CheckInv, NEW s \in Sessions, SpfNoTime(s) \/ SpfAnswers(s)
  PROVE  CheckInv'
<1>1. CASE SpfNoTime(s)
  BY <1>1, AfterSpfStep DEF SpfNoTime
<1>2. CASE SpfAnswers(s)
  <2>1. PICK r \in {check[s].mail.spf, "temperror"} :
          AfterSpf(s, IF check[s].left < 0 THEN "temperror" ELSE r)
    BY <1>2 DEF SpfAnswers
  <2>2. PICK q \in {check[s].mail.spf, "temperror"} : AfterSpf(s, q)
    BY <2>1
  <2> QED  BY <1>2, <2>2, AfterSpfStep DEF SpfAnswers
<1> QED  BY <1>1, <1>2

(* One more outcome: the signature's own, an error, or neutral if late.    *)
LEMMA OutcomeStep ==
  ASSUME CheckInv, NEW s \in Sessions, verifier[s].at \in {"thread", "child"},
         GoesOn(verifier[s], Count(s)),
         NEW r \in {check[s].mail.signatures[Len(verifier[s].outcomes) + 1], "temperror"}
  PROVE  /\ Outcome(s, r) \in Verifiers /\ Outcome(s, r).at = verifier[s].at
         /\ Outcome(s, r).left = verifier[s].left
         /\ Outcomes(Outcome(s, r), check[s].mail.signatures)
<1> DEFINE v == verifier[s]
           sigs == check[s].mail.signatures
           k == Len(v.outcomes)
<1>1. /\ v \in Verifiers /\ v.outcomes \in Seq(Results) /\ k \in Nat
      /\ sigs \in Seq(Results) /\ Len(sigs) \in Nat
      /\ Outcomes(v, sigs)
  BY Signatures DEF CheckInv, Shape, SessionInv, FoundOk, Verifiers
<1>2. v.incomplete = "none" /\ k < Len(sigs)
  BY <1>1, Numbers DEF GoesOn, Least, Count, CheckInv
<1>3. r \in Results
  BY <1>1, <1>2 DEF Results
<1>4. ASSUME NEW o \in Results, NEW inc \in {"none", "deadline"},
             o \in {sigs[k + 1], "temperror"} \/ (o = "neutral" /\ inc # "none"),
             NEW w, w = [v EXCEPT !.outcomes = Append(v.outcomes, o), !.incomplete = inc]
      PROVE  w \in Verifiers /\ w.at = v.at /\ w.left = v.left /\ Outcomes(w, sigs)
  <2> DEFINE os == Append(v.outcomes, o)
  <2>1. /\ os \in Seq(Results) /\ Len(os) = k + 1 /\ os[k + 1] = o
        /\ \A i \in 1 .. k : os[i] = v.outcomes[i]
    BY <1>1
  <2> HIDE DEF os
  <2>2. w = [v EXCEPT !.outcomes = os, !.incomplete = inc]
    BY <1>4 DEF os
  <2>3. /\ w \in Verifiers /\ w.at = v.at /\ w.left = v.left
        /\ w.outcomes = os /\ w.incomplete = inc
    BY <1>1, <2>1, <2>2 DEF Verifiers
  <2>4. \A i \in 1 .. k : os[i] \in {sigs[i], "temperror"}
    BY <1>1, <1>2, <2>1 DEF Outcomes
  <2>5. Outcomes(w, sigs)
    BY <1>1, <1>2, <1>4, <2>1, <2>3, <2>4 DEF Outcomes
  <2> QED  BY <2>3, <2>5
<1>5. CASE v.left < 0
  <2>1. Outcome(s, r) = [v EXCEPT !.outcomes = Append(v.outcomes, "neutral"),
                                  !.incomplete = "deadline"]
    BY <1>5 DEF Outcome
  <2>2. "neutral" \in Results
    BY DEF Results
  <2> QED  BY <1>4, <2>1, <2>2
<1>6. CASE ~(v.left < 0)
  <2>1. Outcome(s, r) = [v EXCEPT !.outcomes = Append(v.outcomes, r), !.incomplete = "none"]
    BY <1>1, <1>2, <1>6 DEF Outcome, Verifiers
  <2> QED  BY <1>3, <1>4, <2>1
<1> QED  BY <1>5, <1>6

LEMMA SignatureStep ==
  ASSUME CheckInv, NEW s \in Sessions, SignatureAnswers(s)
  PROVE  CheckInv'
<1>1. PICK r \in {check[s].mail.signatures[Len(verifier[s].outcomes) + 1], "temperror"} :
        /\ verifier' = [verifier EXCEPT ![s] = Outcome(s, r)]
        /\ check' = IF Outcome(s, r).at = "thread"
                    THEN [check EXCEPT ![s].due = CallTime(Outcome(s, r), Count(s))] ELSE check
  BY DEF SignatureAnswers
<1> DEFINE v == Outcome(s, r)
           due == CallTime(v, Count(s))
<1>2. /\ v \in Verifiers /\ v.at = verifier[s].at /\ v.left = verifier[s].left
      /\ Outcomes(v, check[s].mail.signatures)
      /\ verifier[s].at \in {"thread", "child"}
  BY OutcomeStep DEF SignatureAnswers
<1>3. due \in Int /\ 0 <= due /\ (due = 0 \/ due <= verifier[s].left + Slack)
  <2> HIDE DEF v
  <2> QED  BY <1>2, CallTimes, Signatures DEF CheckInv
<1> HIDE DEF v, due
<1>4. /\ check[s] \in Checks /\ check[s].left \in Int /\ check[s].due \in Int
      /\ check[s].age \in Int /\ check[s].stage \in Stages
      /\ TimeOk(s) /\ ThreadOk(s) /\ FoundOk(s)
      /\ Slack \in Nat /\ cfg.authentication_deadline \in Nat /\ cfg' = cfg
  BY Numbers DEF CheckInv, Shape, SessionInv, Checks, SignatureAnswers
<1>5. /\ verifier' = [verifier EXCEPT ![s] = v] /\ verifier'[s] = v
      /\ verifier' \in [Sessions -> Verifiers]
  BY <1>1, <1>2 DEF v, CheckInv, Shape
<1>6. CASE v.at = "thread"
  <2> DEFINE next == To(check[s], check[s].stage, due)
  <2>1. /\ next \in Checks /\ next.stage = check[s].stage /\ next.due = due
        /\ next.left = check[s].left /\ next.age = check[s].age
        /\ next.spf = check[s].spf /\ next.mail = check[s].mail
    BY <1>3, <1>4, Moved
  <2>2. check' = [check EXCEPT ![s] = next]
    <3>1. check' = [check EXCEPT ![s].due = due]
      BY <1>1, <1>6 DEF v, due
    <3>2. [check[s] EXCEPT !.due = due] = next
      BY <1>4 DEF To, Checks
    <3> QED  BY <3>1, <3>2 DEF CheckInv, Shape
  <2> HIDE DEF next
  <2>3. check'[s] = next /\ check' \in [Sessions -> Checks]
    BY <2>1, <2>2 DEF CheckInv, Shape
  <2>4. check[s].stage = "dkim" /\ v.left = check[s].left
    BY <1>2, <1>4, <1>6 DEF ThreadOk
  <2>5. TimeOk(s)'
    <3>1. due + check[s].age <= cfg.authentication_deadline + Slack
      BY <1>2, <1>3, <1>4, <2>4 DEF TimeOk
    <3> QED  BY <1>3, <1>4, <2>1, <2>3, <2>4, <3>1 DEF TimeOk
  <2>6. ThreadOk(s)' /\ FoundOk(s)'
    BY <1>2, <1>4, <1>5, <1>6, <2>1, <2>3, <2>4 DEF ThreadOk, FoundOk
  <2> QED  BY <1>4, <1>5, <2>2, <2>3, <2>5, <2>6, OneSession DEF SessionInv, CheckInv, Shape
<1>7. CASE v.at # "thread"
  <2>1. check' = check
    BY <1>1, <1>7 DEF v
  <2>2. TimeOk(s)' /\ ThreadOk(s)' /\ FoundOk(s)'
    BY <1>2, <1>4, <1>5, <1>7, <2>1 DEF TimeOk, ThreadOk, FoundOk
  <2> QED  BY <1>4, <1>5, <2>1, <2>2, OneSession DEF SessionInv, CheckInv, Shape
<1> QED  BY <1>6, <1>7

(* A child verifies the signatures, or ends without an answer.             *)
LEMMA WorkerStep ==
  ASSUME CheckInv, NEW s \in Sessions, WorkerFree(s)
  PROVE  CheckInv'
<1> DEFINE due == Remaining(check[s].left)
           next == To(check[s], "worker", due)
           v == [NoVerifier EXCEPT !.at = "spawned", !.left = due]
<1>1. /\ check[s] \in Checks /\ check[s].left \in Int /\ check[s].age \in Int
      /\ TimeOk(s) /\ FoundOk(s) /\ check[s].stage = "queue"
      /\ Slack \in Nat /\ cfg.authentication_deadline \in Nat /\ cfg' = cfg
  BY Numbers DEF CheckInv, Shape, SessionInv, Checks, WorkerFree
<1>numbers. /\ check[s].left + check[s].age = cfg.authentication_deadline
            /\ 0 <= check[s].age /\ 0 <= check[s].due
            /\ check[s].due + check[s].age <= cfg.authentication_deadline + Slack
  BY <1>1 DEF TimeOk
<1>ints. /\ check[s].left \in Int /\ check[s].age \in Int /\ check[s].due \in Int
         /\ Slack \in Nat /\ cfg.authentication_deadline \in Nat
  BY <1>1 DEF Checks
<1>2. due \in Int /\ "worker" \in Stages
  BY <1>1 DEF Remaining, Stages, Checking
<1>3. /\ 0 <= due /\ due + check[s].age <= cfg.authentication_deadline + Slack
  <2>1. CASE check[s].left > 0
    <3>1. due = check[s].left
      BY <2>1 DEF Remaining
    <3> HIDE DEF due
    <3> QED  BY <1>ints, <1>numbers, <2>1, <3>1
  <2>2. CASE ~(check[s].left > 0)
    <3>1. due = 0
      BY <2>2 DEF Remaining
    <3> HIDE DEF due
    <3>2. check[s].age <= cfg.authentication_deadline + Slack
      BY <1>ints, <1>numbers
    <3> QED  BY <1>ints, <1>numbers, <3>1, <3>2
  <2> QED  BY <2>1, <2>2
<1>4. v \in Verifiers /\ v.at = "spawned" /\ v.outcomes = <<>>
  <2>1. <<>> \in Seq(Results)
    OBVIOUS
  <2> HIDE DEF due
  <2> QED  BY <1>2, <2>1 DEF NoVerifier, Verifiers
<1>5. check' = [check EXCEPT ![s] = next] /\ verifier' = [verifier EXCEPT ![s] = v]
  BY DEF WorkerFree, CheckInv, Shape, To
<1> HIDE DEF due, v
<1>6. /\ next \in Checks /\ next.stage = "worker" /\ next.due = due
      /\ next.left = check[s].left /\ next.age = check[s].age
      /\ next.spf = check[s].spf /\ next.mail = check[s].mail
  BY <1>1, <1>2, Moved
<1> HIDE DEF next
<1>7. /\ check'[s] = next /\ verifier'[s] = v
      /\ check' \in [Sessions -> Checks] /\ verifier' \in [Sessions -> Verifiers]
  BY <1>4, <1>5, <1>6 DEF CheckInv, Shape
<1>8. TimeOk(s)' /\ ThreadOk(s)'
  BY <1>1, <1>3, <1>4, <1>6, <1>7 DEF TimeOk, ThreadOk
<1>9. FoundOk(s)'
  <2>1. Len(v.outcomes) = 0 /\ Len(check[s].mail.signatures) \in Nat
    BY <1>4, Signatures DEF CheckInv
  <2> QED  BY <1>1, <1>6, <1>7, <2>1 DEF FoundOk, Outcomes
<1> QED  BY <1>1, <1>5, <1>7, <1>8, <1>9, OneSession DEF SessionInv, CheckInv, Shape

LEMMA ChildStep ==
  ASSUME CheckInv, NEW s \in Sessions, ChildStarts(s) \/ ChildFails(s)
  PROVE  CheckInv'
<1>1. PICK at \in {"child", "memory", "crashed"} :
        verifier' = [verifier EXCEPT ![s].at = at]
  BY DEF ChildStarts, ChildFails
<1>2. verifier[s].at \in {"spawned", "child"} /\ check' = check /\ cfg' = cfg
  BY DEF ChildStarts, ChildFails
<1> DEFINE v == [verifier[s] EXCEPT !.at = at]
<1>3. /\ v \in Verifiers /\ v.at = at /\ v.outcomes = verifier[s].outcomes
      /\ v.incomplete = verifier[s].incomplete /\ verifier[s] \in Verifiers
  BY DEF CheckInv, Shape, Verifiers
<1>4. verifier' = [verifier EXCEPT ![s] = v]
  BY <1>1 DEF CheckInv, Shape
<1> HIDE DEF v
<1>5. verifier'[s] = v /\ verifier' \in [Sessions -> Verifiers]
  BY <1>3, <1>4 DEF CheckInv, Shape
<1>6. TimeOk(s) /\ ThreadOk(s) /\ FoundOk(s)
  BY DEF CheckInv, SessionInv
<1>7. TimeOk(s)' /\ ThreadOk(s)' /\ FoundOk(s)'
  BY <1>2, <1>3, <1>5, <1>6 DEF TimeOk, ThreadOk, FoundOk, Outcomes
<1> QED  BY <1>2, <1>4, <1>5, <1>7, OneSession DEF SessionInv, CheckInv, Shape

(* The ends of a check.                                                    *)
LEMMA LastStep ==
  ASSUME CheckInv, NEW s \in Sessions,
         ThreadDone(s) \/ ThreadMemory(s) \/ QueueTimeout(s) \/ ChildDone(s)
           \/ ChildTimeout(s) \/ Raises(s)
  PROVE  CheckInv'
<1>1. CASE Raises(s)
  BY <1>1, EndStep DEF Raises
<1>2. CASE ~Raises(s)
  <2>1. PICK spf, os, inc : Conclude(s, spf, os, inc)
    BY <1>2 DEF ThreadDone, ThreadMemory, QueueTimeout, ChildDone, ChildTimeout
  <2> QED  BY <2>1, ConcludeStep
<1> QED  BY <1>1, <1>2

(* Time takes from what is left as much as it adds to the age.             *)
Later(c) == [c EXCEPT !.left = c.left - 1, !.due = c.due - 1, !.age = c.age + 1]
LaterVerifier(v) == [v EXCEPT !.left = v.left - 1]

LEMMA Aged ==
  ASSUME NEW c \in Checks
  PROVE  /\ Later(c) \in Checks /\ Later(c).stage = c.stage
         /\ Later(c).left = c.left - 1 /\ Later(c).due = c.due - 1
         /\ Later(c).age = c.age + 1
         /\ Later(c).spf = c.spf /\ Later(c).mail = c.mail
         /\ c.left \in Int /\ c.due \in Int /\ c.age \in Int
<1>1. c.left \in Int /\ c.due \in Int /\ c.age \in Int
  BY DEF Checks
<1>2. c.left - 1 \in Int /\ c.due - 1 \in Int /\ c.age + 1 \in Int
  BY <1>1
<1>3. Later(c) \in Checks /\ Later(c).stage = c.stage
  BY <1>2 DEF Later, Checks
<1>4. /\ Later(c).left = c.left - 1 /\ Later(c).due = c.due - 1
      /\ Later(c).age = c.age + 1
      /\ Later(c).spf = c.spf /\ Later(c).mail = c.mail
  BY DEF Later, Checks
<1> QED  BY <1>1, <1>3, <1>4

LEMMA AgedVerifier ==
  ASSUME NEW v \in Verifiers
  PROVE  /\ LaterVerifier(v) \in Verifiers
         /\ LaterVerifier(v).at = v.at /\ LaterVerifier(v).left = v.left - 1
         /\ LaterVerifier(v).outcomes = v.outcomes
         /\ LaterVerifier(v).incomplete = v.incomplete
<1>1. v.left - 1 \in Int
  BY DEF Verifiers
<1>2. LaterVerifier(v) \in Verifiers
  BY <1>1 DEF LaterVerifier, Verifiers
<1> QED  BY <1>2 DEF LaterVerifier, Verifiers

LEMMA TickStep ==
  ASSUME CheckInv, Tick
  PROVE  CheckInv'
<1>1. /\ check' = [s \in Sessions |-> IF check[s].stage = "idle" THEN check[s]
                                       ELSE Later(check[s])]
      /\ verifier' = [s \in Sessions |-> IF verifier[s].at \in {"thread", "child"}
                                         THEN LaterVerifier(verifier[s]) ELSE verifier[s]]
      /\ cfg' = cfg
      /\ \A s \in Sessions : check[s].stage # "idle" => check[s].due > 0
  BY DEF Tick, Later, LaterVerifier
<1>typed. ASSUME NEW s \in Sessions
          PROVE  check[s] \in Checks /\ verifier[s] \in Verifiers
  BY DEF CheckInv, Shape
<1>2. ASSUME NEW s \in Sessions
      PROVE  /\ check[s] \in Checks /\ Later(check[s]) \in Checks
             /\ Later(check[s]).stage = check[s].stage
             /\ Later(check[s]).left = check[s].left - 1
             /\ Later(check[s]).due = check[s].due - 1
             /\ Later(check[s]).age = check[s].age + 1
             /\ Later(check[s]).spf = check[s].spf /\ Later(check[s]).mail = check[s].mail
             /\ check[s].left \in Int /\ check[s].due \in Int /\ check[s].age \in Int
  BY <1>typed, Aged
<1>3. ASSUME NEW s \in Sessions
      PROVE  /\ verifier[s] \in Verifiers /\ LaterVerifier(verifier[s]) \in Verifiers
             /\ LaterVerifier(verifier[s]).at = verifier[s].at
             /\ LaterVerifier(verifier[s]).left = verifier[s].left - 1
             /\ LaterVerifier(verifier[s]).outcomes = verifier[s].outcomes
             /\ LaterVerifier(verifier[s]).incomplete = verifier[s].incomplete
  BY <1>typed, AgedVerifier
<1>4. check' \in [Sessions -> Checks] /\ verifier' \in [Sessions -> Verifiers]
  BY <1>1, <1>2, <1>3
<1>5. ASSUME NEW s \in Sessions
      PROVE  SessionInv(s)'
  <2>1. TimeOk(s) /\ ThreadOk(s) /\ FoundOk(s)
    BY DEF CheckInv, SessionInv
  <2>2. Slack \in Nat /\ cfg.authentication_deadline \in Nat
    BY Numbers DEF CheckInv
  <2>3. /\ check'[s] = IF check[s].stage = "idle" THEN check[s] ELSE Later(check[s])
        /\ verifier'[s] = IF verifier[s].at \in {"thread", "child"} THEN LaterVerifier(verifier[s])
                                             ELSE verifier[s]
    BY <1>1
  <2>4. /\ check'[s].stage = check[s].stage /\ check'[s].spf = check[s].spf
        /\ check'[s].mail = check[s].mail /\ verifier'[s].at = verifier[s].at
        /\ verifier'[s].outcomes = verifier[s].outcomes
        /\ verifier'[s].incomplete = verifier[s].incomplete
    BY <1>2, <1>3, <2>3
  <2>5. TimeOk(s)'
    <3>1. CASE check[s].stage = "idle"
      BY <2>4, <3>1 DEF TimeOk
    <3>2. CASE check[s].stage # "idle"
      <4>1. /\ check'[s].left = check[s].left - 1 /\ check'[s].due = check[s].due - 1
            /\ check'[s].age = check[s].age + 1
            /\ check[s].left \in Int /\ check[s].due \in Int /\ check[s].age \in Int
            /\ check[s].due > 0
        BY <1>1, <1>2, <2>3, <3>2
      <4>2. /\ check[s].left + check[s].age = cfg.authentication_deadline
            /\ 0 <= check[s].age
            /\ check[s].due + check[s].age <= cfg.authentication_deadline + Slack
        BY <2>1, <3>2 DEF TimeOk
      <4>3. /\ check'[s].left + check'[s].age = cfg.authentication_deadline
            /\ 0 <= check'[s].age /\ 0 <= check'[s].due
            /\ check'[s].due + check'[s].age <= cfg.authentication_deadline + Slack
        BY <2>2, <4>1, <4>2
      <4> QED  BY <1>1, <4>3 DEF TimeOk
    <3> QED  BY <3>1, <3>2
  <2>6. ThreadOk(s)'
    <3>1. verifier[s].at = "thread" =>
            /\ verifier'[s].left = verifier[s].left - 1
            /\ check'[s].left = check[s].left - 1
      BY <1>2, <1>3, <2>1, <2>3 DEF ThreadOk
    <3> QED  BY <2>1, <2>4, <3>1 DEF ThreadOk
  <2>7. FoundOk(s)'
    BY <2>1, <2>4 DEF FoundOk, Outcomes
  <2> QED  BY <2>5, <2>6, <2>7 DEF SessionInv
<1> QED  BY <1>1, <1>4, <1>5 DEF CheckInv, Shape

LEMMA InitCheck == Init => CheckInv
<1> SUFFICES ASSUME Init PROVE CheckInv
  OBVIOUS
<1>1. Idle("none") \in Checks
  BY DEF Idle, Checks, Stages, Results
<1>2. NoVerifier \in Verifiers
  <2>1. <<>> \in Seq(Results)
    OBVIOUS
  <2> QED  BY <2>1 DEF NoVerifier, Verifiers
<1>3. Shape
  BY <1>1, <1>2 DEF Init, Shape
<1>4. ASSUME NEW s \in Sessions PROVE SessionInv(s)
  BY DEF Init, SessionInv, TimeOk, ThreadOk, FoundOk, Idle, NoVerifier
<1> QED  BY <1>3, <1>4 DEF CheckInv

LEMMA NextCheck == CheckInv /\ [Next]_vars => CheckInv'
<1> SUFFICES ASSUME CheckInv, [Next]_vars PROVE CheckInv'
  OBVIOUS
<1>1. CASE UNCHANGED vars
  BY <1>1 DEF vars, CheckInv, Shape, SessionInv, TimeOk, ThreadOk, FoundOk, Outcomes
<1>2. CASE Tick
  BY <1>2, TickStep
<1>3. CASE Next /\ ~Tick
  <2>1. PICK s \in Sessions :
          \/ \E m \in Mails : Begin(s, m)
          \/ Returns(s) \/ ChildStarts(s) \/ ChildFails(s)
    BY <1>3 DEF Next
  <2>2. CASE \E m \in Mails : Begin(s, m)
    BY <2>2, BeginStep
  <2>3. CASE Admit(s) \/ NotAdmitted(s) \/ SpfBegins(s)
    BY <2>3, SlotStep
  <2>4. CASE SpfNoTime(s) \/ SpfAnswers(s)
    BY <2>4, SpfStep
  <2>5. CASE SignatureAnswers(s)
    BY <2>5, SignatureStep
  <2>6. CASE WorkerFree(s)
    BY <2>6, WorkerStep
  <2>7. CASE ChildStarts(s) \/ ChildFails(s)
    BY <2>7, ChildStep
  <2>8. CASE ThreadDone(s) \/ ThreadMemory(s) \/ QueueTimeout(s) \/ ChildDone(s)
               \/ ChildTimeout(s) \/ Raises(s)
    BY <2>8, LastStep
  <2> QED  BY <2>1, <2>2, <2>3, <2>4, <2>5, <2>6, <2>7, <2>8 DEF Returns
<1> QED  BY <1>1, <1>2, <1>3

(* Whatever a check waits for, Postfix has its answer within the deadline  *)
(* and one overrun (_remaining, dkim_verify, verify_in_worker).            *)
THEOREM AnswersInTime == Spec => []EndsInTime
<1>1. CheckInv => EndsInTime
  <2> SUFFICES ASSUME CheckInv, NEW s \in Sessions, check[s].stage # "idle"
               PROVE  check[s].age <= cfg.authentication_deadline + Slack
    BY DEF EndsInTime
  <2>1. /\ check[s].age \in Int /\ check[s].due \in Int /\ TimeOk(s)
        /\ Slack \in Nat /\ cfg.authentication_deadline \in Nat
    BY Numbers DEF CheckInv, Shape, Checks, SessionInv
  <2> QED  BY <2>1 DEF TimeOk
<1> QED  BY <1>1, InitCheck, NextCheck, PTL DEF Spec
-----------------------------------------------------------------------------
(* What a check found, and what there was to be found.                     *)
Sender(spf, dkim, incomplete) == [spf |-> spf, dkim |-> dkim, incomplete |-> incomplete]

(* Temporary errors in the place of results, and signatures left out where *)
(* that is said, change a decision to a deferral at most.                  *)
LEMMA Degraded ==
  ASSUME NEW c, NEW sender, NEW spf, NEW r \in {spf, "temperror"}, NEW there, NEW seen,
         NEW incomplete \in BOOLEAN,
         "aligned" \in seen => "aligned" \in there,
         ~incomplete => /\ "aligned" \in there => {"aligned", "temperror"} \cap seen # {}
                        /\ "temperror" \in there => "temperror" \in seen
  PROVE  AuthenticationAction(c, sender, Sender(r, seen, incomplete))
           \in {AuthenticationAction(c, sender, Sender(spf, there, FALSE)), "defer"}
<1> DEFINE ideal == AuthenticationAction(c, sender, Sender(spf, there, FALSE))
           found == AuthenticationAction(c, sender, Sender(r, seen, incomplete))
           null  == NullDkim(c, sender)
<1>1. CASE c.require = "either"
  <2>1. found = IF r = "aligned" \/ "aligned" \in seen THEN "allow"
                ELSE IF r = "temperror" \/ "temperror" \in seen \/ incomplete THEN "defer"
                ELSE "reject"
    BY <1>1 DEF AuthenticationAction, Sender
  <2>2. ideal = IF spf = "aligned" \/ "aligned" \in there THEN "allow"
                ELSE IF spf = "temperror" \/ "temperror" \in there THEN "defer"
                ELSE "reject"
    BY <1>1 DEF AuthenticationAction, Sender
  <2> QED  BY <2>1, <2>2
<1>2. CASE c.require # "either"
  <2>1. found = IF ~null /\ r \in {"fail", "unaligned"} THEN "reject"
                ELSE IF incomplete /\ "aligned" \notin seen THEN "defer"
                ELSE IF null
                THEN IF "aligned" \in seen THEN "allow"
                     ELSE IF "temperror" \in seen THEN "defer" ELSE "reject"
                ELSE IF "aligned" \notin seen /\ "temperror" \notin seen THEN "reject"
                ELSE IF r = "temperror" \/ "aligned" \notin seen THEN "defer"
                ELSE "allow"
    BY <1>2 DEF AuthenticationAction, Sender
  <2>2. ideal = IF ~null /\ spf \in {"fail", "unaligned"} THEN "reject"
                ELSE IF null
                THEN IF "aligned" \in there THEN "allow"
                     ELSE IF "temperror" \in there THEN "defer" ELSE "reject"
                ELSE IF "aligned" \notin there /\ "temperror" \notin there THEN "reject"
                ELSE IF spf = "temperror" \/ "aligned" \notin there THEN "defer"
                ELSE "allow"
    BY <1>2 DEF AuthenticationAction, Sender
  <2>3. null \in BOOLEAN
    BY DEF NullDkim
  <2> HIDE DEF null
  <2>4. CASE null
    BY <2>1, <2>2, <2>4
  <2>5. CASE ~null
    BY <2>1, <2>2, <2>5
  <2> QED  BY <2>3, <2>4, <2>5
<1> QED  BY <1>1, <1>2

(* Where SPF decides, DKIM would have changed nothing.                     *)
LEMMA Skipped ==
  ASSUME NEW c, NEW sender, NEW spf, NEW r \in {spf, "temperror"}, NEW there,
         SkipDkim(c, sender, r)
  PROVE  AuthenticationAction(c, sender, Sender(r, {}, FALSE))
           = AuthenticationAction(c, sender, Sender(spf, there, FALSE))
<1>1. CASE c.require = "either"
  <2>1. r = "aligned" /\ spf = "aligned"
    BY <1>1 DEF SkipDkim, SpfDecides
  <2> QED  BY <1>1, <2>1 DEF AuthenticationAction, Sender
<1>2. CASE c.require # "either"
  <2>1. ~NullDkim(c, sender) /\ r \in {"fail", "unaligned"} /\ spf = r
    BY <1>2 DEF SkipDkim, SpfDecides
  <2> QED  BY <1>2, <2>1 DEF AuthenticationAction, Sender
<1> QED  BY <1>1, <1>2

\* The results of the signatures of a mail.
There(m) == {m.signatures[i] : i \in DOMAIN m.signatures}
Among(outcomes) == {outcomes[i] : i \in DOMAIN outcomes}

Decides(s) ==
  check[s].stage # "idle" /\ check'[s].stage = "idle" =>
    check'[s].decision \in {Ideal(check[s].mail), "defer"}

(* A check that concludes with sound findings decides as the ideal one, or *)
(* defers.                                                                 *)
LEMMA Concluded ==
  ASSUME CheckInv, NEW s \in Sessions, NEW spf, NEW outcomes, NEW incomplete,
         Conclude(s, spf, outcomes, incomplete),
         AuthenticationAction(cfg, check[s].mail.sender,
                              Sender(spf, Among(outcomes), incomplete # "none"))
           \in {AuthenticationAction(cfg, check[s].mail.sender,
                                     Sender(check[s].mail.spf, There(check[s].mail), FALSE)),
                "defer"}
  PROVE  \A u \in Sessions : Decides(u)
<1> DEFINE found == [spf |-> spf, dkim |-> {outcomes[i] : i \in DOMAIN outcomes},
                     incomplete |-> incomplete # "none"]
           ideal == [spf |-> check[s].mail.spf, incomplete |-> FALSE,
                     dkim |-> {check[s].mail.signatures[i] : i \in DOMAIN check[s].mail.signatures}]
           decision == Authentication(cfg, check[s].mail.sender, found).action
<1>1. check' = [check EXCEPT ![s] = Idle(decision)]
  BY DEF Conclude
<1>2. decision = AuthenticationAction(cfg, check[s].mail.sender, found)
  BY Verdict
<1>3. Ideal(check[s].mail) = AuthenticationAction(cfg, check[s].mail.sender, ideal)
  BY Verdict DEF Ideal
<1>4. found = Sender(spf, Among(outcomes), incomplete # "none")
  BY DEF Sender, Among
<1>5. ideal = Sender(check[s].mail.spf, There(check[s].mail), FALSE)
  BY DEF Sender, There
<1> HIDE DEF found, ideal, decision
<1>6. decision \in {Ideal(check[s].mail), "defer"}
  BY <1>2, <1>3, <1>4, <1>5
<1>7. check'[s] = Idle(decision) /\ \A u \in Sessions \ {s} : check'[u] = check[u]
  BY <1>1 DEF CheckInv, Shape
<1>8. check'[s].decision = decision
  BY <1>7 DEF Idle
<1> QED  BY <1>6, <1>7, <1>8 DEF Decides

(* What the steps of a check conclude with.                                *)
LEMMA AfterSpfDecides ==
  ASSUME CheckInv, NEW s \in Sessions, NEW r \in {check[s].mail.spf, "temperror"},
         AfterSpf(s, r)
  PROVE  \A u \in Sessions : Decides(u)
<1> DEFINE c == [check[s] EXCEPT !.spf = r]
<1>1. c.mail = check[s].mail /\ check[s] \in Checks
  BY DEF CheckInv, Shape, Checks
<1> HIDE DEF c
<1>empty. Among(<<>>) = {}
  BY DEF Among
<1>2. CASE SkipDkim(cfg, check[s].mail.sender, r)
  <2>1. Conclude(s, r, <<>>, "none")
    BY <1>1, <1>2 DEF AfterSpf, c
  <2>2. AuthenticationAction(cfg, check[s].mail.sender, Sender(r, {}, FALSE))
          = AuthenticationAction(cfg, check[s].mail.sender,
                                 Sender(check[s].mail.spf, There(check[s].mail), FALSE))
    BY <1>2, Skipped
  <2> QED  BY <1>empty, <2>1, <2>2, Concluded
<1>3. CASE check[s].mail.signatures = <<>>
  <2>1. Conclude(s, r, <<>>, "none")
    BY <1>1, <1>3 DEF AfterSpf, c
  <2>2. There(check[s].mail) = {}
    BY <1>3 DEF There
  <2>3. AuthenticationAction(cfg, check[s].mail.sender, Sender(r, {}, FALSE))
          \in {AuthenticationAction(cfg, check[s].mail.sender,
                                    Sender(check[s].mail.spf, {}, FALSE)), "defer"}
    BY Degraded
  <2> QED  BY <1>empty, <2>1, <2>2, <2>3, Concluded
<1>4. CASE ~(SkipDkim(cfg, check[s].mail.sender, r) \/ check[s].mail.signatures = <<>>)
  <2>1. PICK stage \in {"queue", "dkim"} :
          \E due : check' = [check EXCEPT ![s] = [c EXCEPT !.stage = stage, !.due = due]]
    BY <1>1, <1>4 DEF AfterSpf, c
  <2>due. PICK due : check' = [check EXCEPT ![s] = [c EXCEPT !.stage = stage, !.due = due]]
    BY <2>1
  <2>2. /\ check'[s] = [c EXCEPT !.stage = stage, !.due = due]
        /\ \A u \in Sessions \ {s} : check'[u] = check[u]
    BY <2>due DEF CheckInv, Shape
  <2>3. check'[s].stage = stage
    BY <1>1, <2>2 DEF c, Checks
  <2> QED  BY <2>2, <2>3 DEF Decides
<1> QED  BY <1>2, <1>3, <1>4

\* Signatures of which none is decided are all neutral.
LEMMA Neutral ==
  ASSUME NEW n
  PROVE  "aligned" \notin Among(Unevaluated(n))
<1> QED  BY DEF Among, Unevaluated

(* Outcomes with neutral ones appended.                                    *)
LEMMA LeftOut ==
  ASSUME NEW outcomes \in Seq(Results), NEW n \in Nat, Len(outcomes) <= n
  PROVE  LET all == outcomes \o Unevaluated(n - Len(outcomes))
         IN  /\ DOMAIN all = 1 .. n
             /\ \A i \in 1 .. Len(outcomes) : all[i] = outcomes[i]
             /\ \A i \in Len(outcomes) + 1 .. n : all[i] = "neutral"
<1> DEFINE k == Len(outcomes)
           rest == Unevaluated(n - k)
<1>1. k \in Nat /\ n - k \in Nat
  OBVIOUS
<1>2. rest = [i \in 1 .. n - k |-> "neutral"]
  BY DEF Unevaluated
<1>3. "neutral" \in Results
  BY DEF Results
<1>4. rest \in Seq(Results) /\ Len(rest) = n - k
  <2> HIDE DEF rest, k
  <2>1. \A i \in 1 .. n - k : "neutral" \in Results
    BY <1>3
  <2> QED  BY <1>1, <1>2, <2>1, SMT
<1>5. \A i \in 1 .. n - k : rest[i] = "neutral"
  <2> HIDE DEF rest, k
  <2> QED  BY <1>2
<1> HIDE DEF rest
<1>6. /\ outcomes \o rest \in Seq(Results) /\ Len(outcomes \o rest) = k + Len(rest)
      /\ \A i \in 1 .. k + Len(rest) :
           (outcomes \o rest)[i] = IF i <= k THEN outcomes[i] ELSE rest[i - k]
  BY <1>4, ConcatProperties, SMT
<1>7. DOMAIN (outcomes \o rest) = 1 .. n
  <2>1. Len(outcomes \o rest) = n
    BY <1>1, <1>4, <1>6
  <2> QED  BY <1>6, <2>1
<1>8. \A i \in k + 1 .. n : i - k \in 1 .. n - k /\ ~(i <= k) /\ i \in 1 .. k + Len(rest)
  BY <1>1, <1>4
<1>9. \A i \in 1 .. k : i <= k /\ i \in 1 .. k + Len(rest)
  BY <1>1, <1>4
<1> QED  BY <1>5, <1>6, <1>7, <1>8, <1>9 DEF rest

(* What dkim_verify returns: an outcome for each signature, and for those  *)
(* it left out it says so.                                                 *)
LEMMA LoopSound ==
  ASSUME NEW v \in Verifiers, NEW m, m.signatures \in Seq(Results),
         Outcomes(v, m.signatures), ~GoesOn(v, Len(m.signatures))
  PROVE  LET seen == Among(Completed(v, Len(m.signatures)))
             incomplete == CutShort(v, Len(m.signatures)) # "none"
         IN  /\ "aligned" \in seen => "aligned" \in There(m)
             /\ ~incomplete =>
                  /\ "aligned" \in There(m) => {"aligned", "temperror"} \cap seen # {}
                  /\ "temperror" \in There(m) => "temperror" \in seen
<1> DEFINE k == Len(v.outcomes)
           n == Len(m.signatures)
           all == Completed(v, n)
<1>1. /\ k \in Nat /\ n \in Nat /\ k <= n /\ v.outcomes \in Seq(Results)
      /\ DOMAIN m.signatures = 1 .. n
  BY DEF Verifiers, Outcomes
<1>2. \A i \in 1 .. k : \/ v.outcomes[i] \in {m.signatures[i], "temperror"}
                        \/ v.outcomes[i] = "neutral" /\ v.incomplete # "none"
  BY DEF Outcomes
<1>4. /\ DOMAIN all = 1 .. n
      /\ \A i \in 1 .. k : all[i] = v.outcomes[i]
      /\ \A i \in k + 1 .. n : all[i] = "neutral"
  BY <1>1, LeftOut DEF Completed
<1>5. ASSUME "aligned" \in Among(all)
      PROVE  "aligned" \in There(m)
  <2>1. PICK i \in 1 .. n : all[i] = "aligned"
    BY <1>4, <1>5 DEF Among
  <2>2. i \in 1 .. k
    BY <1>1, <1>4, <2>1
  <2>3. m.signatures[i] = "aligned"
    BY <1>2, <1>4, <2>1, <2>2
  <2> QED  BY <1>1, <2>3 DEF There
<1>6. ASSUME CutShort(v, n) = "none"
      PROVE  /\ "aligned" \in There(m) => {"aligned", "temperror"} \cap Among(all) # {}
             /\ "temperror" \in There(m) => "temperror" \in Among(all)
  <2>1. v.incomplete = "none" /\ k = n
    BY <1>6 DEF CutShort
  <2>2. \A i \in 1 .. n : all[i] \in {m.signatures[i], "temperror"}
    BY <1>2, <1>4, <2>1
  <2>3. \A i \in 1 .. n : all[i] \in Among(all)
    BY <1>4 DEF Among
  <2>4. \A x \in There(m) : x \in Among(all) \/ "temperror" \in Among(all)
    BY <1>1, <2>2, <2>3 DEF There
  <2> QED  BY <2>4
<1> QED  BY <1>5, <1>6

(* The steps that end a check whose signatures were looked at.             *)
LEMMA EndDecides ==
  ASSUME CheckInv, NEW s \in Sessions, check[s].stage \in {"dkim", "queue", "worker"},
         NEW outcomes, NEW incomplete, Conclude(s, check[s].spf, outcomes, incomplete),
         "aligned" \in Among(outcomes) => "aligned" \in There(check[s].mail),
         incomplete = "none" =>
           /\ "aligned" \in There(check[s].mail)
                => {"aligned", "temperror"} \cap Among(outcomes) # {}
           /\ "temperror" \in There(check[s].mail) => "temperror" \in Among(outcomes)
  PROVE  \A u \in Sessions : Decides(u)
<1>1. check[s].spf \in {check[s].mail.spf, "temperror"}
  BY DEF CheckInv, SessionInv, FoundOk
<1>2. AuthenticationAction(cfg, check[s].mail.sender,
                           Sender(check[s].spf, Among(outcomes), incomplete # "none"))
        \in {AuthenticationAction(cfg, check[s].mail.sender,
                                  Sender(check[s].mail.spf, There(check[s].mail), FALSE)),
             "defer"}
  BY <1>1, Degraded
<1> QED  BY <1>2, Concluded

LEMMA LoopDecides ==
  ASSUME CheckInv, NEW s \in Sessions, check[s].stage \in {"dkim", "worker"},
         verifier[s].at # "none", ~GoesOn(verifier[s], Count(s)),
         Conclude(s, check[s].spf, Completed(verifier[s], Count(s)),
                  CutShort(verifier[s], Count(s)))
  PROVE  \A u \in Sessions : Decides(u)
<1>1. /\ check[s].mail.signatures \in Seq(Results) /\ verifier[s] \in Verifiers
      /\ Outcomes(verifier[s], check[s].mail.signatures)
  BY Signatures DEF CheckInv, Shape, SessionInv, FoundOk
<1>2. /\ "aligned" \in Among(Completed(verifier[s], Count(s)))
           => "aligned" \in There(check[s].mail)
      /\ CutShort(verifier[s], Count(s)) = "none" =>
           /\ "aligned" \in There(check[s].mail)
                => {"aligned", "temperror"} \cap Among(Completed(verifier[s], Count(s))) # {}
           /\ "temperror" \in There(check[s].mail)
                => "temperror" \in Among(Completed(verifier[s], Count(s)))
  BY <1>1, LoopSound DEF Count
<1> QED  BY <1>2, EndDecides

LEMMA UnevaluatedDecides ==
  ASSUME CheckInv, NEW s \in Sessions, check[s].stage \in {"dkim", "queue", "worker"},
         NEW incomplete \in {"deadline", "memory"},
         Conclude(s, check[s].spf, Unevaluated(Count(s)), incomplete)
  PROVE  \A u \in Sessions : Decides(u)
<1> QED  BY Neutral, EndDecides

LEMMA CrashDecides ==
  ASSUME CheckInv, NEW s \in Sessions, check[s].stage = "worker",
         Conclude(s, check[s].spf, CrashOutcome(Count(s)), "none")
  PROVE  \A u \in Sessions : Decides(u)
<1>1. Count(s) \in Nat /\ DOMAIN check[s].mail.signatures = 1 .. Count(s)
  BY Signatures DEF CheckInv, Count
<1>2. "aligned" \notin Among(CrashOutcome(Count(s)))
  BY DEF Among, CrashOutcome
<1>3. There(check[s].mail) # {} => "temperror" \in Among(CrashOutcome(Count(s)))
  BY <1>1 DEF There, Among, CrashOutcome
<1> QED  BY <1>2, <1>3, EndDecides

(* A step that ends no check.                                              *)
LEMMA NoEnd ==
  ASSUME \A u \in Sessions : check[u].stage # "idle" => check'[u].stage # "idle"
  PROVE  \A u \in Sessions : Decides(u)
<1> QED  BY DEF Decides

LEMMA NextDecides ==
  ASSUME CheckInv, Next
  PROVE  \A u \in Sessions : Decides(u)
<1>1. CASE Tick
  <2>1. \A u \in Sessions :
          check'[u] = IF check[u].stage = "idle" THEN check[u] ELSE Later(check[u])
    BY <1>1 DEF Tick, Later
  <2>2. \A u \in Sessions : Later(check[u]).stage = check[u].stage
    BY Aged DEF CheckInv, Shape
  <2> QED  BY <2>1, <2>2, NoEnd
<1>2. CASE ~Tick
  <2>1. PICK s \in Sessions :
          \/ \E m \in Mails : Begin(s, m)
          \/ Returns(s) \/ ChildStarts(s) \/ ChildFails(s)
    BY <1>2 DEF Next
  <2>typed. check \in [Sessions -> Checks]
    BY DEF CheckInv, Shape
  <2>2. CASE \E m \in Mails : Begin(s, m)
    BY <2>2, <2>typed, NoEnd DEF Begin
  <2>3. CASE ChildStarts(s) \/ ChildFails(s)
    BY <2>3, NoEnd DEF ChildStarts, ChildFails
  <2>4. CASE Admit(s) \/ SpfBegins(s) \/ WorkerFree(s)
    <3>1. PICK stage \in {"admitted", "spf", "worker"} :
            \E due : check' = [check EXCEPT ![s] = To(check[s], stage, due)]
      BY <2>4, <2>typed DEF Admit, SpfBegins, WorkerFree, To
    <3>due. PICK due : check' = [check EXCEPT ![s] = To(check[s], stage, due)]
      BY <3>1
    <3>2. To(check[s], stage, due).stage = stage
      BY <2>typed DEF To, Checks
    <3> QED  BY <2>typed, <3>due, <3>2, NoEnd
  <2>5. CASE SignatureAnswers(s)
    <3>1. check' = check \/ \E due : check' = [check EXCEPT ![s].due = due]
      BY <2>5 DEF SignatureAnswers
    <3> QED  BY <2>typed, <3>1, NoEnd DEF Checks
  <2>6. CASE NotAdmitted(s) \/ Raises(s)
    <3>1. check' = [check EXCEPT ![s] = Idle("defer")]
      BY <2>6 DEF NotAdmitted, Raises
    <3> QED  BY <2>typed, <3>1 DEF Decides, Idle
  <2>7. CASE SpfNoTime(s) \/ SpfAnswers(s)
    <3>1. PICK r \in {check[s].mail.spf, "temperror"} : AfterSpf(s, r)
      BY <2>7 DEF SpfNoTime, SpfAnswers
    <3> QED  BY <3>1, AfterSpfDecides
  <2>8. CASE ThreadDone(s)
    <3>1. verifier[s].at # "none"
      BY <2>8 DEF ThreadDone, CheckInv, SessionInv, ThreadOk
    <3> QED  BY <2>8, <3>1, LoopDecides DEF ThreadDone
  <2>9. CASE ThreadMemory(s) \/ QueueTimeout(s) \/ ChildTimeout(s)
    BY <2>9, UnevaluatedDecides DEF ThreadMemory, QueueTimeout, ChildTimeout
  <2>10. CASE ChildDone(s)
    <3>1. check[s].stage = "worker"
      BY <2>10 DEF ChildDone
    <3>2. CASE /\ verifier[s].at = "child" /\ ~GoesOn(verifier[s], Count(s))
               /\ Conclude(s, check[s].spf, Completed(verifier[s], Count(s)),
                           CutShort(verifier[s], Count(s)))
      BY <3>1, <3>2, LoopDecides
    <3>3. CASE Conclude(s, check[s].spf, Unevaluated(Count(s)), "memory")
      BY <3>1, <3>3, UnevaluatedDecides
    <3>4. CASE Conclude(s, check[s].spf, CrashOutcome(Count(s)), "none")
      BY <3>1, <3>4, CrashDecides
    <3> QED  BY <2>10, <3>2, <3>3, <3>4 DEF ChildDone
  <2> QED  BY <2>1, <2>2, <2>3, <2>4, <2>5, <2>6, <2>7, <2>8, <2>9, <2>10 DEF Returns
<1> QED  BY <1>1, <1>2

(* Lack of time, memory, slots, workers or answers defers a message; it    *)
(* refuses and accepts none the full check would not                       *)
(* (evaluate_authentication, dkim_verify, verify_in_worker).               *)
THEOREM CutShortDefers == Spec => RightOrDefers
<1>1. ASSUME CheckInv, [Next]_vars
      PROVE  [\A s \in Sessions :
                check[s].stage # "idle" /\ check'[s].stage = "idle" =>
                  check'[s].decision \in {Ideal(check[s].mail), "defer"}]_vars
  <2>1. CASE Next
    BY <1>1, <2>1, NextDecides DEF Decides
  <2> QED  BY <1>1, <2>1
<1> QED  BY <1>1, InitCheck, NextCheck, PTL DEF Spec, RightOrDefers
-----------------------------------------------------------------------------
(* The two pools: a slot is free, or held by one check.                    *)
Holding == {s \in Sessions : Bounded /\ check[s].stage \in Checking}
Working == {s \in Sessions : check[s].stage = "worker"}

PoolInv == CheckInv /\ PoolsConserved /\ verifySlots \in Int /\ workers \in Int

LEMMA CountsOne ==
  ASSUME NEW S \in SUBSET Sessions, NEW s \in Sessions
  PROVE  /\ Cardinality(S) \in Nat
         /\ s \notin S => Cardinality(S \cup {s}) = Cardinality(S) + 1
         /\ s \in S => Cardinality(S \ {s}) = Cardinality(S) - 1
<1>1. IsFiniteSet(S)
  BY CheckAssumption, FS_Subset
<1>2. Cardinality(S) \in Nat
  BY <1>1, FS_CardinalityType
<1>3. s \notin S => Cardinality(S \cup {s}) = Cardinality(S) + 1
  BY <1>1, FS_AddElement
<1>4. s \in S => Cardinality(S \ {s}) = Cardinality(S) - 1
  BY <1>1, FS_RemoveElement
<1> QED  BY <1>2, <1>3, <1>4

\* A set that one session enters or leaves, and the free places beside it.
Moves(free, before, after) ==
  free' = IF before = after THEN free ELSE IF after THEN free - 1 ELSE free + 1

(* A session that takes a slot leaves one less, one that gives it back one *)
(* more.                                                                   *)
LEMMA VerifySlot ==
  ASSUME PoolInv, NEW s \in Sessions, UNCHANGED cfg,
         \A u \in Sessions \ {s} : check'[u].stage = check[u].stage,
         Moves(verifySlots, Bounded /\ check[s].stage \in Checking,
                            Bounded /\ check'[s].stage \in Checking)
  PROVE  /\ verifySlots' \in Int
         /\ verifySlots' + Cardinality(Holding') = cfg.max_concurrent_messages
<1> DEFINE before == Bounded /\ check[s].stage \in Checking
           after  == Bounded /\ check'[s].stage \in Checking
<1>1. /\ verifySlots \in Int /\ Cardinality(Holding) \in Nat
      /\ verifySlots + Cardinality(Holding) = cfg.max_concurrent_messages
  BY CountsOne DEF PoolInv, PoolsConserved, Holding
<1>2. Bounded' = Bounded
  BY DEF Bounded
<1>3. \A u \in Sessions \ {s} : u \in Holding' <=> u \in Holding
  BY <1>2 DEF Holding
<1>4. (s \in Holding <=> before) /\ (s \in Holding' <=> after)
  BY <1>2 DEF Holding
<1>5. Holding \in SUBSET Sessions /\ Holding' \in SUBSET Sessions
  BY DEF Holding
<1>m. Moves(verifySlots, before, after) /\ before \in BOOLEAN /\ after \in BOOLEAN
  OBVIOUS
<1> HIDE DEF before, after
<1>6. CASE before = after
  <2>1. Holding' = Holding
    BY <1>3, <1>4, <1>5, <1>6
  <2> QED  BY <1>1, <1>6, <1>m, <2>1 DEF Moves
<1>7. CASE ~before /\ after
  <2>1. Holding' = Holding \cup {s} /\ s \notin Holding
    BY <1>3, <1>4, <1>5, <1>7
  <2>2. Cardinality(Holding') = Cardinality(Holding) + 1
    BY <1>5, <2>1, CountsOne
  <2>3. verifySlots' = verifySlots - 1
    BY <1>7, <1>m DEF Moves
  <2> QED  BY <1>1, <2>2, <2>3
<1>8. CASE before /\ ~after
  <2>1. Holding' = Holding \ {s} /\ s \in Holding
    BY <1>3, <1>4, <1>5, <1>8
  <2>2. Cardinality(Holding') = Cardinality(Holding) - 1
    BY <1>5, <2>1, CountsOne
  <2>3. verifySlots' = verifySlots + 1
    BY <1>8, <1>m DEF Moves
  <2> QED  BY <1>1, <2>2, <2>3
<1> QED  BY <1>6, <1>7, <1>8, <1>m

LEMMA WorkerSlot ==
  ASSUME PoolInv, NEW s \in Sessions, UNCHANGED cfg,
         \A u \in Sessions \ {s} : check'[u].stage = check[u].stage,
         Moves(workers, check[s].stage = "worker", check'[s].stage = "worker")
  PROVE  workers' \in Int /\ workers' + Cardinality(Working') = cfg.dkim_workers
<1> DEFINE before == check[s].stage = "worker"
           after  == check'[s].stage = "worker"
<1>1. /\ workers \in Int /\ Cardinality(Working) \in Nat
      /\ workers + Cardinality(Working) = cfg.dkim_workers
  BY CountsOne DEF PoolInv, PoolsConserved, Working
<1>3. \A u \in Sessions \ {s} : u \in Working' <=> u \in Working
  BY DEF Working
<1>4. (s \in Working <=> before) /\ (s \in Working' <=> after)
  BY DEF Working
<1>5. Working \in SUBSET Sessions /\ Working' \in SUBSET Sessions
  BY DEF Working
<1>m. Moves(workers, before, after) /\ before \in BOOLEAN /\ after \in BOOLEAN
  OBVIOUS
<1> HIDE DEF before, after
<1>6. CASE before = after
  <2>1. Working' = Working
    BY <1>3, <1>4, <1>5, <1>6
  <2> QED  BY <1>1, <1>6, <1>m, <2>1 DEF Moves
<1>7. CASE ~before /\ after
  <2>1. Working' = Working \cup {s} /\ s \notin Working
    BY <1>3, <1>4, <1>5, <1>7
  <2>2. Cardinality(Working') = Cardinality(Working) + 1
    BY <1>5, <2>1, CountsOne
  <2>3. workers' = workers - 1
    BY <1>7, <1>m DEF Moves
  <2> QED  BY <1>1, <2>2, <2>3
<1>8. CASE before /\ ~after
  <2>1. Working' = Working \ {s} /\ s \in Working
    BY <1>3, <1>4, <1>5, <1>8
  <2>2. Cardinality(Working') = Cardinality(Working) - 1
    BY <1>5, <2>1, CountsOne
  <2>3. workers' = workers + 1
    BY <1>8, <1>m DEF Moves
  <2> QED  BY <1>1, <2>2, <2>3
<1> QED  BY <1>6, <1>7, <1>8, <1>m

\* Both pools after a step.
Pools == PoolsConserved /\ verifySlots \in Int /\ workers \in Int

LEMMA BothPools ==
  ASSUME PoolInv, NEW s \in Sessions, UNCHANGED cfg, NEW next,
         check' = [check EXCEPT ![s] = next],
         Moves(verifySlots, Bounded /\ check[s].stage \in Checking,
                            Bounded /\ next.stage \in Checking),
         Moves(workers, check[s].stage = "worker", next.stage = "worker")
  PROVE  Pools'
<1>1. check'[s] = next /\ \A u \in Sessions \ {s} : check'[u] = check[u]
  BY DEF PoolInv, CheckInv, Shape
<1>2. /\ verifySlots' \in Int
      /\ verifySlots' + Cardinality(Holding') = cfg.max_concurrent_messages
  BY <1>1, VerifySlot
<1>3. workers' \in Int /\ workers' + Cardinality(Working') = cfg.dkim_workers
  BY <1>1, WorkerSlot
<1> QED  BY <1>2, <1>3 DEF Pools, PoolsConserved, Holding, Working

(* A check that ends gives back what it holds.                             *)
LEMMA ReleasePools ==
  ASSUME PoolInv, NEW s \in Sessions, UNCHANGED cfg, Release(s),
         check[s].stage \in Checking, NEW decision,
         check' = [check EXCEPT ![s] = Idle(decision)]
  PROVE  Pools'
<1>1. Idle(decision).stage = "idle" /\ "idle" \notin Checking
  BY DEF Idle, Checking
<1>2. Bounded \in BOOLEAN
  BY DEF Bounded
<1>3. Moves(verifySlots, Bounded /\ check[s].stage \in Checking,
                         Bounded /\ Idle(decision).stage \in Checking)
  BY <1>1, <1>2 DEF Moves, Release
<1>4. Moves(workers, check[s].stage = "worker", Idle(decision).stage = "worker")
  BY <1>1 DEF Moves, Release
<1> QED  BY <1>3, <1>4, BothPools

LEMMA ConcludePools ==
  ASSUME PoolInv, NEW s \in Sessions, NEW spf, NEW outcomes, NEW incomplete,
         check[s].stage \in Checking, Conclude(s, spf, outcomes, incomplete)
  PROVE  Pools'
<1>1. PICK decision : check' = [check EXCEPT ![s] = Idle(decision)]
  BY DEF Conclude
<1> QED  BY <1>1, ReleasePools DEF Conclude

(* A check that goes on without either slot, or keeps its own.             *)
LEMMA KeepPools ==
  ASSUME PoolInv, NEW s \in Sessions, UNCHANGED <<cfg, verifySlots, workers>>, NEW next,
         check' = [check EXCEPT ![s] = next],
         next.stage \in Checking <=> check[s].stage \in Checking,
         next.stage = "worker" <=> check[s].stage = "worker"
  PROVE  Pools'
<1>1. Moves(verifySlots, Bounded /\ check[s].stage \in Checking,
                         Bounded /\ next.stage \in Checking)
  BY DEF Moves
<1>2. Moves(workers, check[s].stage = "worker", next.stage = "worker")
  BY DEF Moves
<1> QED  BY <1>1, <1>2, BothPools

LEMMA AfterSpfPools ==
  ASSUME PoolInv, NEW s \in Sessions, NEW r, check[s].stage \in {"admitted", "spf"},
         AfterSpf(s, r)
  PROVE  Pools'
<1> DEFINE c == [check[s] EXCEPT !.spf = r]
<1>1. check[s] \in Checks /\ check[s].stage \in Checking /\ check[s].stage # "worker"
  BY DEF PoolInv, CheckInv, Shape, Checking
<1>2. CASE SkipDkim(cfg, c.mail.sender, r) \/ c.mail.signatures = <<>>
  BY <1>1, <1>2, ConcludePools DEF AfterSpf
<1>3. CASE ~(SkipDkim(cfg, c.mail.sender, r) \/ c.mail.signatures = <<>>)
  <2>1. PICK stage \in {"queue", "dkim"} :
          \E due : check' = [check EXCEPT ![s] = [c EXCEPT !.stage = stage, !.due = due]]
    BY <1>3 DEF AfterSpf
  <2>due. PICK due : check' = [check EXCEPT ![s] = [c EXCEPT !.stage = stage, !.due = due]]
    BY <2>1
  <2>2. [c EXCEPT !.stage = stage, !.due = due].stage = stage
    BY <1>1 DEF Checks
  <2>3. stage \in Checking /\ stage # "worker"
    BY DEF Checking
  <2>4. UNCHANGED <<cfg, verifySlots, workers>>
    BY <1>3 DEF AfterSpf
  <2> HIDE DEF c
  <2> QED  BY <1>1, <2>due, <2>2, <2>3, <2>4, KeepPools
<1> QED  BY <1>2, <1>3

LEMMA InitPools == Init => PoolInv
<1> SUFFICES ASSUME Init PROVE PoolInv
  OBVIOUS
<1>1. CheckInv
  BY InitCheck
<1>2. verifySlots = cfg.max_concurrent_messages /\ workers = cfg.dkim_workers
  BY DEF Init
<1>3. verifySlots \in Nat /\ workers \in Nat
  BY <1>1, <1>2, Numbers DEF CheckInv
<1>4. Holding = {} /\ Working = {}
  BY DEF Init, Holding, Working, Idle, Checking
<1>5. Cardinality({}) = 0
  BY FS_EmptySet
<1>6. PoolsConserved
  <2>1. /\ verifySlots + Cardinality(Holding) = cfg.max_concurrent_messages
        /\ workers + Cardinality(Working) = cfg.dkim_workers
    BY <1>2, <1>3, <1>4, <1>5
  <2> QED  BY <2>1 DEF PoolsConserved, Holding, Working
<1> QED  BY <1>1, <1>3, <1>6 DEF PoolInv

LEMMA NextPools == PoolInv /\ [Next]_vars => PoolInv'
<1> SUFFICES ASSUME PoolInv, [Next]_vars PROVE PoolInv'
  OBVIOUS
<1>1. CheckInv'
  BY NextCheck DEF PoolInv
<1>2. CASE UNCHANGED vars
  BY <1>1, <1>2 DEF vars, PoolInv, PoolsConserved, Bounded
<1>typed. check \in [Sessions -> Checks]
  BY DEF PoolInv, CheckInv, Shape
<1>3. CASE Tick
  <2>1. \A u \in Sessions :
          check'[u] = IF check[u].stage = "idle" THEN check[u] ELSE Later(check[u])
    BY <1>3 DEF Tick, Later
  <2>2. \A u \in Sessions : check'[u].stage = check[u].stage
    BY <1>typed, <2>1, Aged
  <2>3. UNCHANGED <<cfg, verifySlots, workers>>
    BY <1>3 DEF Tick
  <2>4. Holding' = Holding /\ Working' = Working
    BY <2>2, <2>3 DEF Holding, Working, Bounded
  <2> QED  BY <1>1, <2>3, <2>4 DEF PoolInv, PoolsConserved, Holding, Working
<1>4. CASE Next /\ ~Tick
  <2> SUFFICES Pools'
    BY <1>1 DEF Pools, PoolInv
  <2>1. PICK s \in Sessions :
          \/ \E m \in Mails : Begin(s, m)
          \/ Returns(s) \/ ChildStarts(s) \/ ChildFails(s)
    BY <1>4 DEF Next
  <2>stages. /\ {"idle", "wait"} \cap Checking = {} /\ {"admitted", "spf", "dkim", "queue", "worker"} \subseteq Checking
             /\ check[s] \in Checks
    BY <1>typed DEF Checking
  <2>2. CASE \E m \in Mails : Begin(s, m)
    <3>m. PICK m \in Mails : Begin(s, m)
      BY <2>2
    <3> DEFINE next == [stage |-> "wait", left |-> cfg.authentication_deadline,
                        due |-> cfg.authentication_deadline, age |-> 0, mail |-> m,
                        spf |-> "none", decision |-> "none"]
    <3>1. check' = [check EXCEPT ![s] = next] /\ next.stage = "wait"
      BY <3>m DEF Begin
    <3> HIDE DEF next
    <3>2. check[s].stage = "idle" /\ UNCHANGED <<cfg, verifySlots, workers>>
      BY <2>2 DEF Begin
    <3>3. /\ next.stage \in Checking <=> check[s].stage \in Checking
          /\ next.stage = "worker" <=> check[s].stage = "worker"
      BY <2>stages, <3>1, <3>2
    <3> QED  BY <3>1, <3>2, <3>3, KeepPools
  <2>3. CASE ChildStarts(s) \/ ChildFails(s)
    <3>1. UNCHANGED <<cfg, check, verifySlots, workers>>
      BY <2>3 DEF ChildStarts, ChildFails
    <3> QED  BY <3>1 DEF Pools, PoolInv, PoolsConserved, Bounded
  <2>4. CASE Admit(s)
    <3> DEFINE next == To(check[s], "admitted", 0)
    <3>1. check' = [check EXCEPT ![s] = next] /\ check[s].stage = "wait" /\ UNCHANGED <<cfg, workers>>
      BY <2>4, <1>typed DEF Admit, To
    <3>2. next.stage = "admitted"
      BY <2>stages DEF To, Checks
    <3>3. Moves(verifySlots, Bounded /\ check[s].stage \in Checking,
                             Bounded /\ next.stage \in Checking)
      BY <2>4, <2>stages, <3>1, <3>2 DEF Moves, Admit, Bounded
    <3>4. Moves(workers, check[s].stage = "worker", next.stage = "worker")
      BY <3>1, <3>2 DEF Moves
    <3> HIDE DEF next
    <3> QED  BY <3>1, <3>3, <3>4, BothPools
  <2>5. CASE SpfBegins(s)
    <3> DEFINE next == To(check[s], "spf", check[s].left + Slack)
    <3>1. /\ check' = [check EXCEPT ![s] = next] /\ check[s].stage = "admitted"
          /\ UNCHANGED <<cfg, verifySlots, workers>>
      BY <2>5, <1>typed DEF SpfBegins, To
    <3>2. next.stage = "spf"
      BY <2>stages DEF To, Checks
    <3> HIDE DEF next
    <3> QED  BY <2>stages, <3>1, <3>2, KeepPools
  <2>6. CASE WorkerFree(s)
    <3> DEFINE next == To(check[s], "worker", Remaining(check[s].left))
    <3>1. /\ check' = [check EXCEPT ![s] = next] /\ check[s].stage = "queue"
          /\ workers' = workers - 1 /\ UNCHANGED <<cfg, verifySlots>>
      BY <2>6, <1>typed DEF WorkerFree, To
    <3>2. next.stage = "worker"
      BY <2>stages DEF To, Checks
    <3>3. Moves(verifySlots, Bounded /\ check[s].stage \in Checking,
                             Bounded /\ next.stage \in Checking)
      BY <2>stages, <3>1, <3>2 DEF Moves
    <3>4. Moves(workers, check[s].stage = "worker", next.stage = "worker")
      BY <3>1, <3>2 DEF Moves
    <3> HIDE DEF next
    <3> QED  BY <3>1, <3>3, <3>4, BothPools
  <2>7. CASE SignatureAnswers(s)
    <3>1. UNCHANGED <<cfg, verifySlots, workers>>
      BY <2>7 DEF SignatureAnswers
    <3>2. check' = check \/ \E due : check' = [check EXCEPT ![s].due = due]
      BY <2>7 DEF SignatureAnswers
    <3>3. CASE check' = check
      BY <3>1, <3>3 DEF Pools, PoolInv, PoolsConserved, Bounded
    <3>4. CASE \E due : check' = [check EXCEPT ![s].due = due]
      <4>1. PICK due : check' = [check EXCEPT ![s] = [check[s] EXCEPT !.due = due]]
        BY <3>4
      <4>2. [check[s] EXCEPT !.due = due].stage = check[s].stage
        BY <2>stages DEF Checks
      <4> QED  BY <3>1, <4>1, <4>2, KeepPools
    <3> QED  BY <3>2, <3>3, <3>4
  <2>8. CASE NotAdmitted(s)
    <3>1. /\ check' = [check EXCEPT ![s] = Idle("defer")] /\ check[s].stage = "wait"
          /\ UNCHANGED <<cfg, verifySlots, workers>>
      BY <2>8 DEF NotAdmitted
    <3>2. Idle("defer").stage = "idle"
      BY DEF Idle
    <3> QED  BY <2>stages, <3>1, <3>2, KeepPools
  <2>9. CASE Raises(s)
    BY <2>9, ReleasePools DEF Raises
  <2>10. CASE SpfNoTime(s) \/ SpfAnswers(s)
    <3>1. PICK r : AfterSpf(s, r)
      BY <2>10 DEF SpfNoTime, SpfAnswers
    <3>2. check[s].stage \in {"admitted", "spf"}
      BY <2>10 DEF SpfNoTime, SpfAnswers
    <3> QED  BY <3>1, <3>2, AfterSpfPools
  <2>11. CASE ThreadDone(s) \/ ThreadMemory(s) \/ QueueTimeout(s) \/ ChildTimeout(s) \/ ChildDone(s)
    <3>1. check[s].stage \in Checking
      BY <2>11, <2>stages DEF ThreadDone, ThreadMemory, QueueTimeout, ChildTimeout, ChildDone
    <3>2. PICK spf, outcomes, incomplete : Conclude(s, spf, outcomes, incomplete)
      BY <2>11 DEF ThreadDone, ThreadMemory, QueueTimeout, ChildTimeout, ChildDone
    <3> QED  BY <3>1, <3>2, ConcludePools
  <2> QED  BY <2>1, <2>2, <2>3, <2>4, <2>5, <2>6, <2>7, <2>8, <2>9, <2>10, <2>11 DEF Returns
<1> QED  BY <1>2, <1>3, <1>4

(* No slot of either pool is lost or given back twice, however checks end  *)
(* (the finally blocks of _authenticate and authenticate).                 *)
THEOREM PoolsNeverLeak == Spec => []PoolsConserved
<1>1. PoolInv => PoolsConserved
  BY DEF PoolInv
<1> QED  BY <1>1, InitPools, NextPools, PTL DEF Spec
-----------------------------------------------------------------------------
(* The type invariant: what is left over when a check or a verification    *)
(* ends, and that no pool is overdrawn.                                    *)

\* A session between two checks counts no time; without a verification there are no
\* outcomes, and a check that holds a worker has one.
Tidy(c, v) ==
  /\ c.stage = "idle" => c.due = 0 /\ c.age = 0
  /\ v.at = "none" => v.outcomes = <<>>
  /\ c.stage = "worker" => v.at # "none"

TypeInv ==
  /\ PoolInv
  /\ \A s \in Sessions : Tidy(check[s], verifier[s])
  /\ verifySlots \in Nat /\ workers \in Nat

LEMMA InitTyped == Init => TypeInv
<1> SUFFICES ASSUME Init PROVE TypeInv
  OBVIOUS
<1>1. PoolInv
  BY InitPools
<1>2. \A s \in Sessions : check[s] = Idle("none") /\ verifier[s] = NoVerifier
  BY DEF Init
<1>3. Tidy(Idle("none"), NoVerifier)
  BY DEF Tidy, Idle, NoVerifier
<1>4. verifySlots \in Nat /\ workers \in Nat
  BY <1>1, Numbers DEF Init, PoolInv, CheckInv
<1> QED  BY <1>1, <1>2, <1>3, <1>4 DEF TypeInv

\* A step of one session, in terms of its check and its verification.
LEMMA TidyOne ==
  ASSUME CheckInv, \A u \in Sessions : Tidy(check[u], verifier[u]), NEW s \in Sessions,
         NEW c, NEW v, Tidy(c, v),
         check' = [check EXCEPT ![s] = c], verifier' = [verifier EXCEPT ![s] = v]
  PROVE  \A u \in Sessions : Tidy(check'[u], verifier'[u])
<1>1. /\ check'[s] = c /\ verifier'[s] = v
      /\ \A u \in Sessions \ {s} : check'[u] = check[u] /\ verifier'[u] = verifier[u]
  BY DEF CheckInv, Shape
<1> QED  BY <1>1

LEMMA TidyEnd ==
  ASSUME CheckInv, \A u \in Sessions : Tidy(check[u], verifier[u]), NEW s \in Sessions,
         NEW decision, check' = [check EXCEPT ![s] = Idle(decision)],
         verifier' = [verifier EXCEPT ![s] = NoVerifier]
  PROVE  \A u \in Sessions : Tidy(check'[u], verifier'[u])
<1>1. Tidy(Idle(decision), NoVerifier)
  BY DEF Tidy, Idle, NoVerifier
<1> QED  BY <1>1, TidyOne

\* The verification is left alone.
LEMMA TidyCheck ==
  ASSUME CheckInv, \A u \in Sessions : Tidy(check[u], verifier[u]), NEW s \in Sessions,
         NEW c, check' = [check EXCEPT ![s] = c], verifier' = verifier,
         c.stage = "idle" => c.due = 0 /\ c.age = 0,
         c.stage # "worker"
  PROVE  \A u \in Sessions : Tidy(check'[u], verifier'[u])
<1>1. verifier' = [verifier EXCEPT ![s] = verifier[s]]
  BY DEF CheckInv, Shape
<1>2. Tidy(c, verifier[s])
  BY DEF Tidy
<1> QED  BY <1>1, <1>2, TidyOne

LEMMA AfterSpfTidy ==
  ASSUME CheckInv, \A u \in Sessions : Tidy(check[u], verifier[u]), NEW s \in Sessions,
         NEW r, AfterSpf(s, r)
  PROVE  \A u \in Sessions : Tidy(check'[u], verifier'[u])
<1> DEFINE c == [check[s] EXCEPT !.spf = r]
<1>t. check[s] \in Checks
  BY DEF CheckInv, Shape
<1>1. CASE SkipDkim(cfg, c.mail.sender, r) \/ c.mail.signatures = <<>>
  <2>1. Conclude(s, r, <<>>, "none")
    BY <1>1 DEF AfterSpf
  <2> QED  BY <2>1, TidyEnd DEF Conclude
<1>2. CASE ~(SkipDkim(cfg, c.mail.sender, r) \/ c.mail.signatures = <<>>) /\ c.mail.spooled
  <2> DEFINE d == [c EXCEPT !.stage = "queue", !.due = Remaining(c.left)]
  <2>1. check' = [check EXCEPT ![s] = d] /\ verifier' = verifier
    BY <1>2 DEF AfterSpf
  <2>2. d.stage = "queue"
    BY <1>t DEF Checks
  <2> HIDE DEF d
  <2> QED  BY <2>1, <2>2, TidyCheck
<1>3. CASE ~(SkipDkim(cfg, c.mail.sender, r) \/ c.mail.signatures = <<>>) /\ ~c.mail.spooled
  <2> DEFINE v == [NoVerifier EXCEPT !.at = "thread", !.left = c.left]
             d == [c EXCEPT !.stage = "dkim", !.due = CallTime(v, Count(s))]
  <2>1. check' = [check EXCEPT ![s] = d] /\ verifier' = [verifier EXCEPT ![s] = v]
    BY <1>3 DEF AfterSpf
  <2>2. d.stage = "dkim" /\ v.at = "thread"
    BY <1>t DEF Checks, NoVerifier
  <2>3. Tidy(d, v)
    BY <2>2 DEF Tidy
  <2> HIDE DEF d, v
  <2> QED  BY <2>1, <2>3, TidyOne
<1> QED  BY <1>1, <1>2, <1>3

LEMMA ReturnTidy ==
  ASSUME CheckInv, \A u \in Sessions : Tidy(check[u], verifier[u]), NEW s \in Sessions,
         Returns(s) \/ ChildStarts(s) \/ ChildFails(s) \/ \E m \in Mails : Begin(s, m)
  PROVE  \A u \in Sessions : Tidy(check'[u], verifier'[u])
<1>t. check[s] \in Checks /\ verifier[s] \in Verifiers /\ Tidy(check[s], verifier[s]) /\ ThreadOk(s)
  BY DEF CheckInv, Shape, SessionInv
<1>1. CASE \E m \in Mails : Begin(s, m)
  <2>1. PICK m \in Mails : Begin(s, m)
    BY <1>1
  <2> DEFINE c == [stage |-> "wait", left |-> cfg.authentication_deadline,
                   due |-> cfg.authentication_deadline, age |-> 0, mail |-> m,
                   spf |-> "none", decision |-> "none"]
  <2>2. check' = [check EXCEPT ![s] = c] /\ verifier' = verifier /\ c.stage = "wait"
    BY <2>1 DEF Begin
  <2> HIDE DEF c
  <2> QED  BY <2>2, TidyCheck
<1>2. CASE Admit(s)
  <2> DEFINE c == [check[s] EXCEPT !.stage = "admitted", !.due = 0]
  <2>1. check' = [check EXCEPT ![s] = c] /\ verifier' = verifier
    BY <1>2 DEF Admit, CheckInv, Shape
  <2>2. c.stage = "admitted"
    BY <1>t DEF Checks
  <2> HIDE DEF c
  <2> QED  BY <2>1, <2>2, TidyCheck
<1>3. CASE SpfBegins(s)
  <2> DEFINE c == [check[s] EXCEPT !.stage = "spf", !.due = check[s].left + Slack]
  <2>1. check' = [check EXCEPT ![s] = c] /\ verifier' = verifier
    BY <1>3 DEF SpfBegins, CheckInv, Shape
  <2>2. c.stage = "spf"
    BY <1>t DEF Checks
  <2> HIDE DEF c
  <2> QED  BY <2>1, <2>2, TidyCheck
<1>4. CASE NotAdmitted(s)
  <2>1. /\ Idle("defer").due = 0 /\ Idle("defer").age = 0 /\ Idle("defer").stage = "idle"
        /\ check' = [check EXCEPT ![s] = Idle("defer")] /\ verifier' = verifier
    BY <1>4 DEF NotAdmitted, Idle
  <2> QED  BY <2>1, TidyCheck
<1>5. CASE SpfNoTime(s) \/ SpfAnswers(s)
  <2>1. PICK r : AfterSpf(s, r)
    BY <1>5 DEF SpfNoTime, SpfAnswers
  <2> QED  BY <2>1, AfterSpfTidy
<1>6. CASE SignatureAnswers(s)
  <2>1. PICK r : LET v == Outcome(s, r)
                 IN  /\ verifier' = [verifier EXCEPT ![s] = v]
                     /\ check' = IF v.at = "thread"
                                 THEN [check EXCEPT ![s].due = CallTime(v, Count(s))] ELSE check
    BY <1>6 DEF SignatureAnswers
  <2> DEFINE v == Outcome(s, r)
             c == IF v.at = "thread" THEN [check[s] EXCEPT !.due = CallTime(v, Count(s))]
                  ELSE check[s]
  <2>2. v.at = verifier[s].at /\ verifier[s].at \in {"thread", "child"}
    BY <1>6, <1>t DEF SignatureAnswers, Outcome, Verifiers
  <2>3. check' = [check EXCEPT ![s] = c] /\ verifier' = [verifier EXCEPT ![s] = v]
    BY <2>1 DEF CheckInv, Shape
  <2>4. c.stage = check[s].stage /\ c.stage # "idle"
    BY <1>t, <2>2 DEF Checks, ThreadOk
  <2> HIDE DEF c, v
  <2>5. Tidy(c, v)
    BY <2>2, <2>4 DEF Tidy
  <2> QED  BY <2>3, <2>5, TidyOne
<1>7. CASE ThreadDone(s) \/ ThreadMemory(s) \/ QueueTimeout(s) \/ ChildTimeout(s) \/ ChildDone(s)
  <2>1. PICK spf, outcomes, incomplete : Conclude(s, spf, outcomes, incomplete)
    BY <1>7 DEF ThreadDone, ThreadMemory, QueueTimeout, ChildTimeout, ChildDone
  <2> QED  BY <2>1, TidyEnd DEF Conclude
<1>8. CASE Raises(s)
  BY <1>8, TidyEnd DEF Raises
<1>9. CASE WorkerFree(s)
  <2> DEFINE c == [check[s] EXCEPT !.stage = "worker", !.due = Remaining(check[s].left)]
             v == [NoVerifier EXCEPT !.at = "spawned", !.left = Remaining(check[s].left)]
  <2>1. check' = [check EXCEPT ![s] = c] /\ verifier' = [verifier EXCEPT ![s] = v]
    BY <1>9 DEF WorkerFree, CheckInv, Shape
  <2>2. c.stage = "worker" /\ v.at = "spawned"
    BY <1>t DEF Checks, NoVerifier
  <2> HIDE DEF c, v
  <2>3. Tidy(c, v)
    BY <2>2 DEF Tidy
  <2> QED  BY <2>1, <2>3, TidyOne
<1>10. CASE ChildStarts(s) \/ ChildFails(s)
  <2>1. PICK at \in {"child", "memory", "crashed"} : verifier' = [verifier EXCEPT ![s].at = at]
    BY <1>10 DEF ChildStarts, ChildFails
  <2> DEFINE v == [verifier[s] EXCEPT !.at = at]
  <2>2. /\ check' = [check EXCEPT ![s] = check[s]] /\ verifier' = [verifier EXCEPT ![s] = v]
        /\ v.at # "none"
    BY <1>10, <1>t, <2>1 DEF ChildStarts, ChildFails, CheckInv, Shape, Verifiers
  <2> HIDE DEF v
  <2>3. check[s].stage # "idle"
    BY <1>10, <1>t DEF ChildStarts, ChildFails, ThreadOk
  <2>4. Tidy(check[s], v)
    BY <2>2, <2>3 DEF Tidy
  <2> QED  BY <2>2, <2>4, TidyOne
<1> QED  BY <1>1, <1>2, <1>3, <1>4, <1>5, <1>6, <1>7, <1>8, <1>9, <1>10 DEF Returns

LEMMA TickTidy ==
  ASSUME CheckInv, \A u \in Sessions : Tidy(check[u], verifier[u]), Tick
  PROVE  \A u \in Sessions : Tidy(check'[u], verifier'[u])
<1> SUFFICES ASSUME NEW s \in Sessions PROVE Tidy(check'[s], verifier'[s])
  OBVIOUS
<1>1. /\ check'[s] = IF check[s].stage = "idle" THEN check[s] ELSE Later(check[s])
      /\ verifier'[s] = IF verifier[s].at \in {"thread", "child"} THEN LaterVerifier(verifier[s])
                        ELSE verifier[s]
  BY DEF Tick, Later, LaterVerifier
<1>2. check[s] \in Checks /\ verifier[s] \in Verifiers /\ Tidy(check[s], verifier[s])
  BY DEF CheckInv, Shape
<1>3. /\ check'[s].stage = check[s].stage
      /\ check[s].stage = "idle" => check'[s] = check[s]
      /\ verifier'[s].at = verifier[s].at /\ verifier'[s].outcomes = verifier[s].outcomes
  BY <1>1, <1>2, Aged, AgedVerifier
<1> QED  BY <1>2, <1>3 DEF Tidy

\* A slot is taken only where there is one.
LEMMA SlotsLeft ==
  ASSUME verifySlots \in Nat, workers \in Nat, Next
  PROVE  verifySlots' \in Nat /\ workers' \in Nat
<1>1. \A s \in Sessions : Release(s) => verifySlots' \in Nat /\ workers' \in Nat
  BY DEF Release
<1>2. ASSUME NEW s \in Sessions, NEW r, AfterSpf(s, r)
      PROVE  verifySlots' \in Nat /\ workers' \in Nat
  BY <1>1, <1>2 DEF AfterSpf, Conclude
<1>3. ASSUME NEW s \in Sessions, Returns(s)
      PROVE  verifySlots' \in Nat /\ workers' \in Nat
  BY <1>1, <1>2, <1>3 DEF Returns, Admit, NotAdmitted, SpfNoTime, SpfBegins, SpfAnswers,
     SignatureAnswers, ThreadDone, ThreadMemory, WorkerFree, QueueTimeout, ChildDone,
     ChildTimeout, Raises, Conclude
<1> QED  BY <1>3 DEF Next, Tick, Begin, ChildStarts, ChildFails

LEMMA NextTyped == TypeInv /\ [Next]_vars => TypeInv'
<1> SUFFICES ASSUME TypeInv, [Next]_vars PROVE TypeInv'
  OBVIOUS
<1>1. PoolInv' /\ CheckInv
  BY NextPools DEF TypeInv, PoolInv
<1>2. CASE UNCHANGED vars
  BY <1>1, <1>2 DEF TypeInv, vars
<1>3. CASE Next
  <2>1. verifySlots' \in Nat /\ workers' \in Nat
    BY <1>3, SlotsLeft DEF TypeInv
  <2>2. \A u \in Sessions : Tidy(check'[u], verifier'[u])
    BY <1>1, <1>3, ReturnTidy, TickTidy DEF TypeInv, Next
  <2> QED  BY <1>1, <2>1, <2>2 DEF TypeInv
<1> QED  BY <1>2, <1>3

(* There is never more than one outcome per signature, a verification is   *)
(* under way exactly for the checks that wait for it, in the thread or in  *)
(* a child, and neither pool is ever overdrawn or fuller than it was made: *)
(* for any number of sessions, slots, signatures and any deadlines.        *)
THEOREM VerificationTyped == Spec => []VTypeOK
<1>1. TypeInv => VTypeOK
  <2> SUFFICES ASSUME TypeInv PROVE VTypeOK
    OBVIOUS
  <2>1. CheckInv /\ PoolsConserved
    BY DEF TypeInv, PoolInv
  <2>2. ASSUME NEW s \in Sessions
        PROVE  /\ check[s].stage \in Checking \cup {"idle", "wait"}
               /\ check[s].due \in Nat /\ check[s].age \in Nat
               /\ check[s].left \in Int /\ verifier[s].left \in Int
               /\ Len(verifier[s].outcomes) <= Count(s)
               /\ verifier[s].at = "thread" <=> check[s].stage = "dkim"
               /\ verifier[s].at \notin {"none", "thread"} <=> check[s].stage = "worker"
    <3>1. /\ check[s] \in Checks /\ verifier[s] \in Verifiers /\ TimeOk(s) /\ ThreadOk(s)
          /\ FoundOk(s) /\ Tidy(check[s], verifier[s])
      BY <2>1 DEF CheckInv, Shape, SessionInv, TypeInv
    <3>2. /\ check[s].stage \in Stages /\ check[s].left \in Int /\ check[s].due \in Int
          /\ check[s].age \in Int /\ verifier[s].left \in Int
      BY <3>1 DEF Checks, Verifiers
    <3>3. check[s].due \in Nat /\ check[s].age \in Nat
      BY <3>1, <3>2 DEF TimeOk, Tidy
    <3>4. Len(verifier[s].outcomes) <= Count(s)
      <4>1. Count(s) \in Nat
        BY <2>1, Signatures DEF CheckInv
      <4>2. CASE verifier[s].at = "none"
        <5>1. Len(verifier[s].outcomes) = 0
          BY <3>1, <4>2 DEF Tidy
        <5> QED  BY <4>1, <5>1
      <4>3. CASE verifier[s].at # "none"
        BY <3>1, <4>3 DEF FoundOk, Outcomes, Count
      <4> QED  BY <4>2, <4>3
    <3> QED  BY <3>1, <3>2, <3>3, <3>4 DEF Stages, ThreadOk, Tidy
  <2>3. verifySlots \in 0 .. cfg.max_concurrent_messages /\ workers \in 0 .. cfg.dkim_workers
    <3>1. Cardinality(Holding) \in Nat /\ Cardinality(Working) \in Nat
      <4>1. Holding \in SUBSET Sessions /\ Working \in SUBSET Sessions
        BY DEF Holding, Working
      <4>2. IsFiniteSet(Sessions)
        BY CheckAssumption
      <4>3. IsFiniteSet(Holding) /\ IsFiniteSet(Working)
        BY <4>1, <4>2, FS_Subset
      <4> QED  BY <4>3, FS_CardinalityType
    <3>2. /\ verifySlots + Cardinality(Holding) = cfg.max_concurrent_messages
          /\ workers + Cardinality(Working) = cfg.dkim_workers
      BY <2>1 DEF PoolsConserved, Holding, Working
    <3>3. /\ cfg.max_concurrent_messages \in Nat /\ cfg.dkim_workers \in Nat
          /\ verifySlots \in Nat /\ workers \in Nat
      BY <2>1, Numbers DEF CheckInv, TypeInv
    <3> QED  BY <3>1, <3>2, <3>3
  <2> QED  BY <2>2, <2>3 DEF VTypeOK
<1> QED  BY <1>1, InitTyped, NextTyped, PTL DEF Spec
=============================================================================
