------------------------------ MODULE Verification ------------------------------
(***************************************************************************)
(* The check of a message's sender: authentication.py, dkimworker.py and   *)
(* _authenticate of milter.py.  A check takes a verification slot, asks    *)
(* SPF, and verifies the DKIM signatures in its own thread, or, when the   *)
(* body is spooled to disk, in a child process that takes a worker slot on *)
(* top.  Every wait and every call is bounded by what is left of one       *)
(* deadline; calls may return up to Slack late, and what they say then     *)
(* counts no more.                                                         *)
(*                                                                         *)
(* Time is discrete and relative: `left' is the deadline less the clock,   *)
(* `due' the time until the call a check is in returns at the latest, and  *)
(* `age' (history) the time since the check began.                         *)
(***************************************************************************)
EXTENDS Policy, Integers, FiniteSets, Sequences

CONSTANTS
  Sessions,  \* connections, each served by a thread of libmilter
  Configs,   \* configurations: those of Policy with the bounds of [limits]
  Mails,     \* [sender, spf, signatures, spooled]: what there is to be found
  Slack      \* how far past its time a call may return

Remaining(left) == IF left > 0 THEN left ELSE 0
Least(a, b) == IF a < b THEN a ELSE b

\* What SPF, or DKIM for a signature, says of the From domain; DKIM says neutral of a
\* signature that is left out.
Results == {"aligned", "unaligned", "fail", "temperror", "neutral", "none"}

ASSUME CheckAssumption ==
  /\ IsFiniteSet(Sessions)
  /\ Slack \in Nat
  /\ \A c \in Configs :
       /\ {c.max_concurrent_messages, c.dkim_workers, c.max_signatures} \subseteq Nat \ {0}
       /\ {c.authentication_deadline, c.dns_timeout} \subseteq Nat \ {0}
  /\ \A m \in Mails : m.spf \in Results /\ m.signatures \in Seq(Results)

VARIABLES
  cfg,          \* _settings
  check,        \* _authenticate and authenticate, by session
  verifier,     \* dkim_verify of a session, in its thread or in its child
  verifySlots,  \* _verify_slots
  workers       \* _dkim_workers

vars == <<cfg, check, verifier, verifySlots, workers>>
-----------------------------------------------------------------------------
NoMail == [sender |-> "none", spf |-> "none", signatures |-> <<>>, spooled |-> FALSE]

\* A session between two checks, with the decision of the last one.
Idle(decision) ==
  [stage |-> "idle", left |-> 0, due |-> 0, age |-> 0, mail |-> NoMail,
   spf |-> "none", decision |-> decision]

NoVerifier == [at |-> "none", left |-> 0, outcomes |-> <<>>, incomplete |-> "none"]

Bounded == cfg.mode["limits"] # "off"

\* The stages in which a check holds a verification slot.
Checking == {"admitted", "spf", "dkim", "queue", "worker"}

Unevaluated(n) == [i \in 1 .. n |-> "neutral"]
Count(s) == Len(check[s].mail.signatures)
-----------------------------------------------------------------------------
(* dkim_verify: the head of its loop.                                      *)

\* Mutant of GoesOn: the deadline is not asked between two signatures.
GoesOnLate(v, n) ==
  v.incomplete = "none" /\ Len(v.outcomes) < Least(n, cfg.max_signatures)

\* One more signature is verified: nothing cut the loop short.
GoesOn(v, n) ==
  /\ v.incomplete = "none"
  /\ Len(v.outcomes) < Least(n, cfg.max_signatures)
  /\ v.left > 0

\* The longest the verification of a signature takes: one lookup, in what is left.
CallTime(v, n) ==
  IF GoesOn(v, n) THEN Least(cfg.dns_timeout, Remaining(v.left)) + Slack ELSE 0

\* Mutant of CutShort: a loop that stops at its bound does not say so.
CutShortSilent(v, n) ==
  IF v.incomplete # "none" \/ Len(v.outcomes) >= Least(n, cfg.max_signatures)
  THEN v.incomplete ELSE "deadline"

\* Why the loop leaves signatures out, if it does.
CutShort(v, n) ==
  IF v.incomplete # "none" \/ Len(v.outcomes) = n THEN v.incomplete
  ELSE IF Len(v.outcomes) >= cfg.max_signatures THEN "limit" ELSE "deadline"

\* The outcomes the loop returns: what it left out is neutral.
Completed(v, n) == v.outcomes \o Unevaluated(n - Len(v.outcomes))
-----------------------------------------------------------------------------
Init ==
  /\ cfg \in Configs
  /\ check = [s \in Sessions |-> Idle("none")]
  /\ verifier = [s \in Sessions |-> NoVerifier]
  /\ verifySlots = cfg.max_concurrent_messages
  /\ workers = cfg.dkim_workers

\* _authenticate up to its wait for a slot: the deadline begins here.
Begin(s, m) ==
  /\ check[s].stage = "idle"
  /\ check' = [check EXCEPT ![s] =
                 [stage |-> "wait", left |-> cfg.authentication_deadline,
                  due |-> cfg.authentication_deadline, age |-> 0, mail |-> m,
                  spf |-> "none", decision |-> "none"]]
  /\ UNCHANGED <<cfg, verifier, verifySlots, workers>>

\* Mutant of Admit: the deadline begins with the slot.
AdmitFresh(s) ==
  /\ check[s].stage = "wait"
  /\ Bounded => verifySlots > 0
  /\ verifySlots' = IF Bounded THEN verifySlots - 1 ELSE verifySlots
  /\ check' = [check EXCEPT ![s].stage = "admitted", ![s].due = 0,
                            ![s].left = cfg.authentication_deadline]
  /\ UNCHANGED <<cfg, verifier, workers>>

Admit(s) ==
  /\ check[s].stage = "wait"
  /\ Bounded => verifySlots > 0
  /\ verifySlots' = IF Bounded THEN verifySlots - 1 ELSE verifySlots
  /\ check' = [check EXCEPT ![s].stage = "admitted", ![s].due = 0]
  /\ UNCHANGED <<cfg, verifier, workers>>

\* Mutants of NotAdmitted: a message that found no slot is accepted, is checked
\* all the same, or waits again.
NotAdmittedAllows(s) ==
  /\ check[s].stage = "wait" /\ check[s].due = 0 /\ Bounded /\ verifySlots = 0
  /\ check' = [check EXCEPT ![s] = Idle("allow")]
  /\ UNCHANGED <<cfg, verifier, verifySlots, workers>>
NotAdmittedGoesOn(s) ==
  /\ check[s].stage = "wait" /\ check[s].due = 0 /\ Bounded /\ verifySlots = 0
  /\ check' = [check EXCEPT ![s].stage = "admitted"]
  /\ UNCHANGED <<cfg, verifier, verifySlots, workers>>
NotAdmittedAgain(s) ==
  /\ check[s].stage = "wait" /\ check[s].due = 0 /\ Bounded /\ verifySlots = 0
  /\ check' = [check EXCEPT ![s].left = cfg.authentication_deadline, ![s].age = 0,
                            ![s].due = cfg.authentication_deadline]
  /\ UNCHANGED <<cfg, verifier, verifySlots, workers>>

\* The wait for a slot ends at the deadline: the message is deferred.
NotAdmitted(s) ==
  /\ check[s].stage = "wait" /\ check[s].due = 0 /\ Bounded /\ verifySlots = 0
  /\ check' = [check EXCEPT ![s] = Idle("defer")]
  /\ UNCHANGED <<cfg, verifier, verifySlots, workers>>

\* Mutant of Release: a worker that a check gave up on is not given back.
ReleaseButWorker(s) ==
  /\ verifySlots' = IF Bounded THEN verifySlots + 1 ELSE verifySlots
  /\ workers' = IF check[s].stage = "worker" /\ check[s].due > 0 THEN workers + 1 ELSE workers

\* finally: the slots of a check are given back.
Release(s) ==
  /\ verifySlots' = IF Bounded THEN verifySlots + 1 ELSE verifySlots
  /\ workers' = IF check[s].stage = "worker" THEN workers + 1 ELSE workers

\* The check ends with what it found, and evaluate_authentication decides.
Conclude(s, spf, outcomes, incomplete) ==
  LET found == [spf |-> spf, dkim |-> {outcomes[i] : i \in DOMAIN outcomes},
                incomplete |-> incomplete # "none"]
  IN  /\ check' = [check EXCEPT ![s] = Idle(Authentication(cfg, check[s].mail.sender, found).action)]
      /\ verifier' = [verifier EXCEPT ![s] = NoVerifier]
      /\ Release(s)
      /\ UNCHANGED cfg

\* authenticate after SPF: without DKIM, in this thread, or to the workers.
AfterSpf(s, r) ==
  LET c == [check[s] EXCEPT !.spf = r]
  IN  IF SkipDkim(cfg, c.mail.sender, r) \/ c.mail.signatures = <<>>
      THEN Conclude(s, r, <<>>, "none")
      ELSE /\ IF c.mail.spooled
              THEN /\ check' = [check EXCEPT ![s] =
                                  [c EXCEPT !.stage = "queue", !.due = Remaining(c.left)]]
                   /\ UNCHANGED verifier
              ELSE LET v == [NoVerifier EXCEPT !.at = "thread", !.left = c.left]
                   IN  /\ check' = [check EXCEPT ![s] =
                                      [c EXCEPT !.stage = "dkim", !.due = CallTime(v, Count(s))]]
                       /\ verifier' = [verifier EXCEPT ![s] = v]
           /\ UNCHANGED <<cfg, verifySlots, workers>>

\* spf_check: nothing is left of the deadline, or the query begins.
SpfNoTime(s) ==
  /\ check[s].stage = "admitted" /\ check[s].left <= 0
  /\ AfterSpf(s, "temperror")

SpfBegins(s) ==
  /\ check[s].stage = "admitted" /\ check[s].left > 0
  /\ check' = [check EXCEPT ![s].stage = "spf", ![s].due = check[s].left + Slack]
  /\ UNCHANGED <<cfg, verifier, verifySlots, workers>>

\* SPF says what it found, or that the DNS failed; late, it is a temporary error.
SpfAnswers(s) ==
  /\ check[s].stage = "spf"
  /\ \E r \in {check[s].mail.spf, "temperror"} :
       AfterSpf(s, IF check[s].left < 0 THEN "temperror" ELSE r)
-----------------------------------------------------------------------------
(* The verification of signatures, in the thread of the session or in a    *)
(* child process.                                                          *)

\* A result that comes after the deadline is neutral, and ends the loop.
Outcome(s, r) ==
  IF verifier[s].left < 0
  THEN [verifier[s] EXCEPT !.outcomes = Append(verifier[s].outcomes, "neutral"),
                           !.incomplete = "deadline"]
  ELSE [verifier[s] EXCEPT !.outcomes = Append(verifier[s].outcomes, r)]

\* The next signature is verified, or the DNS failed; the thread goes on at once.
SignatureAnswers(s) ==
  /\ verifier[s].at \in {"thread", "child"} /\ GoesOn(verifier[s], Count(s))
  /\ \E r \in {check[s].mail.signatures[Len(verifier[s].outcomes) + 1], "temperror"} :
       LET v == Outcome(s, r)
       IN  /\ verifier' = [verifier EXCEPT ![s] = v]
           /\ check' = IF v.at = "thread"
                       THEN [check EXCEPT ![s].due = CallTime(v, Count(s))] ELSE check
  /\ UNCHANGED <<cfg, verifySlots, workers>>

ThreadDone(s) ==
  /\ check[s].stage = "dkim" /\ ~GoesOn(verifier[s], Count(s))
  /\ Conclude(s, check[s].spf, Completed(verifier[s], Count(s)), CutShort(verifier[s], Count(s)))

\* MemoryError in the thread: nothing is evaluated.
ThreadMemory(s) ==
  /\ check[s].stage = "dkim"
  /\ Conclude(s, check[s].spf, Unevaluated(Count(s)), "memory")

\* verify_in_worker: a child is started, with what is left of the deadline.
WorkerFree(s) ==
  /\ check[s].stage = "queue" /\ workers > 0
  /\ workers' = workers - 1
  /\ check' = [check EXCEPT ![s].stage = "worker", ![s].due = Remaining(check[s].left)]
  /\ verifier' = [verifier EXCEPT ![s] =
                    [NoVerifier EXCEPT !.at = "spawned", !.left = Remaining(check[s].left)]]
  /\ UNCHANGED <<cfg, verifySlots>>

QueueTimeout(s) ==
  /\ check[s].stage = "queue" /\ check[s].due = 0 /\ workers = 0
  /\ Conclude(s, check[s].spf, Unevaluated(Count(s)), "deadline")

\* The child is ready; its own deadline begins only now.
ChildStarts(s) ==
  /\ verifier[s].at = "spawned"
  /\ verifier' = [verifier EXCEPT ![s].at = "child"]
  /\ UNCHANGED <<cfg, check, verifySlots, workers>>

\* The child runs into its memory limit and says so, or ends without an answer.
ChildFails(s) ==
  /\ verifier[s].at \in {"spawned", "child"}
  /\ \E how \in {"memory", "crashed"} : verifier' = [verifier EXCEPT ![s].at = how]
  /\ UNCHANGED <<cfg, check, verifySlots, workers>>

\* Mutant of CrashOutcome: a child without an answer has verified nothing.
CrashOutcomeNeutral(n) == Unevaluated(n)

CrashOutcome(n) == [i \in 1 .. n |-> "temperror"]

ChildDone(s) ==
  /\ check[s].stage = "worker"
  /\ LET v == verifier[s]
         n == Count(s)
     IN  \/ v.at = "child" /\ ~GoesOn(v, n)
            /\ Conclude(s, check[s].spf, Completed(v, n), CutShort(v, n))
         \/ v.at = "memory" /\ Conclude(s, check[s].spf, Unevaluated(n), "memory")
         \/ v.at = "crashed" /\ Conclude(s, check[s].spf, CrashOutcome(n), "none")

\* The child has not answered by the deadline: it is killed.
ChildTimeout(s) ==
  /\ check[s].stage = "worker" /\ check[s].due = 0
  /\ Conclude(s, check[s].spf, Unevaluated(Count(s)), "deadline")

\* An exception passes through: the slots return, and Postfix defers the message.
Raises(s) ==
  /\ check[s].stage \in Checking
  /\ check' = [check EXCEPT ![s] = Idle("defer")]
  /\ verifier' = [verifier EXCEPT ![s] = NoVerifier]
  /\ Release(s)
  /\ UNCHANGED cfg

\* Time passes for all, but for no check beyond the end of its call.
Tick ==
  /\ \E s \in Sessions : check[s].stage # "idle"
  /\ \A s \in Sessions : check[s].stage # "idle" => check[s].due > 0
  /\ check' = [s \in Sessions |->
                 IF check[s].stage = "idle" THEN check[s]
                 ELSE [check[s] EXCEPT !.left = check[s].left - 1, !.due = check[s].due - 1,
                                       !.age = check[s].age + 1]]
  /\ verifier' = [s \in Sessions |->
                    IF verifier[s].at \in {"thread", "child"}
                    THEN [verifier[s] EXCEPT !.left = verifier[s].left - 1] ELSE verifier[s]]
  /\ UNCHANGED <<cfg, verifySlots, workers>>

\* A call of the session returns.
Returns(s) ==
  \/ Admit(s) \/ NotAdmitted(s)
  \/ SpfNoTime(s) \/ SpfBegins(s) \/ SpfAnswers(s)
  \/ SignatureAnswers(s) \/ ThreadDone(s) \/ ThreadMemory(s)
  \/ WorkerFree(s) \/ QueueTimeout(s) \/ ChildDone(s) \/ ChildTimeout(s)
  \/ Raises(s)

Next ==
  \/ Tick
  \/ \E s \in Sessions :
       \/ \E m \in Mails : Begin(s, m)
       \/ Returns(s) \/ ChildStarts(s) \/ ChildFails(s)

Spec == Init /\ [][Next]_vars

\* Time passes, however fast checks follow each other.
TimePasses == []<>(\E s \in Sessions : check[s].stage # "idle") => []<><<Tick>>_vars

\* And a call whose time is up returns.
FairSpec == Spec /\ TimePasses /\ \A s \in Sessions : WF_vars(Returns(s))
-----------------------------------------------------------------------------
(* The shape of the state; there is at most one outcome per signature, and *)
(* a verification runs only for a check that waits for it.                 *)
VTypeOK ==
  /\ \A s \in Sessions :
       /\ check[s].stage \in Checking \cup {"idle", "wait"}
       /\ check[s].due \in Nat /\ check[s].age \in Nat
       /\ check[s].left \in Int /\ verifier[s].left \in Int
       /\ Len(verifier[s].outcomes) <= Count(s)
       /\ verifier[s].at = "thread" <=> check[s].stage = "dkim"
       /\ verifier[s].at \notin {"none", "thread"} <=> check[s].stage = "worker"
  /\ verifySlots \in 0 .. cfg.max_concurrent_messages
  /\ workers \in 0 .. cfg.dkim_workers

(* Every slot of both pools is free or held by one check in progress,      *)
(* whether checks end by an answer, a timeout, a killed child or an        *)
(* exception (the finally blocks of _authenticate and authenticate).       *)
PoolsConserved ==
  /\ verifySlots + Cardinality({s \in Sessions : Bounded /\ check[s].stage \in Checking})
       = cfg.max_concurrent_messages
  /\ workers + Cardinality({s \in Sessions : check[s].stage = "worker"}) = cfg.dkim_workers

(* The waits for both slots, SPF, every signature and the child share one  *)
(* deadline: Postfix has its answer no later than it and one overrun       *)
(* (authentication_deadline_seconds; _remaining, dkim_verify).             *)
EndsInTime ==
  \A s \in Sessions :
    check[s].stage # "idle" => check[s].age <= cfg.authentication_deadline + Slack

\* The decision on a message with all the time, memory and answers it needs.
Ideal(m) ==
  Authentication(cfg, m.sender,
    [spf |-> m.spf, dkim |-> {m.signatures[i] : i \in DOMAIN m.signatures},
     incomplete |-> FALSE]).action

(* A check that lacked time, memory, a slot, a worker or an answer of the  *)
(* DNS, or left out signatures, never refuses or accepts a message that    *)
(* the full check would not: it decides as that one, or defers             *)
(* (temporary errors defer, never rescue: evaluate_authentication).        *)
RightOrDefers ==
  [][\A s \in Sessions :
       check[s].stage # "idle" /\ check'[s].stage = "idle" =>
         check'[s].decision \in {Ideal(check[s].mail), "defer"}]_vars

(* Every check ends: no session waits forever for a slot while others,     *)
(* which may hold theirs, wait for a worker (_authenticate, authenticate). *)
EveryCheckEnds ==
  \A s \in Sessions : check[s].stage = "wait" ~> check[s].stage = "idle"
=============================================================================
