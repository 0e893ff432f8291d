--------------------------- MODULE MilterSessionProofs ---------------------------
(***************************************************************************)
(* What MilterSession shares between its sessions, for any number of them, *)
(* any configurations, messages, slots and limit.                          *)
(*                                                                         *)
(* First the slots: the semaphores of milter.py never lose one and are     *)
(* never given one too many, which a BoundedSemaphore answers with an      *)
(* exception.  Then the sending limit: the store reserves a place for each *)
(* parsed recipient accepted and counts those delivered, and an enforced   *)
(* limit leaves room for both.  PolicyProofs says what follows of the      *)
(* recipients that no parser takes.                                        *)
(***************************************************************************)
EXTENDS MilterSession, FiniteSetTheorems, TLAPS

\* The stages in which Postfix has a message, which may hold an open slot.
Open == {"rcpt", "data", "wait", "verify", "broken"}

Holders == {s \in Sessions : tx[s].holds_slot}
Verifiers == {s \in Sessions : Bounded /\ post[s].stage = "verify"}

\* What the state looks like, as far as slots go.
SlotShape ==
  /\ DOMAIN tx = Sessions /\ DOMAIN post = Sessions
  /\ \A s \in Sessions :
       /\ DOMAIN tx[s] = DOMAIN Blank /\ tx[s].holds_slot \in BOOLEAN
       /\ DOMAIN post[s] = {"stage", "envelope", "content"}
  /\ openFree \in Nat /\ verifyFree \in Nat
  /\ cfg \in Configs

OpenConserved == openFree + Cardinality(Holders) = MaxOpen
VerifyConserved == verifyFree + Cardinality(Verifiers) = MaxVerify
HeldWhileOpen == \A s \in Sessions : tx[s].holds_slot => post[s].stage \in Open

SlotInv == SlotShape /\ OpenConserved /\ VerifyConserved /\ HeldWhileOpen

USE DEF MaxOpen, MaxVerify
-----------------------------------------------------------------------------
(* Adding an element to a finite set of sessions, or removing one, changes *)
(* its cardinality by one.                                                 *)
LEMMA CountsOne ==
  ASSUME NEW S \in SUBSET Sessions, NEW s \in Sessions
  PROVE  /\ Cardinality(S) \in Nat
         /\ s \notin S => Cardinality(S \cup {s}) = Cardinality(S) + 1
         /\ s \in S => Cardinality(S \ {s}) = Cardinality(S) - 1
<1>1. IsFiniteSet(S)
  BY SessionAssumption, FS_Subset
<1>2. Cardinality(S) \in Nat
  BY <1>1, FS_CardinalityType
<1>3. s \notin S => Cardinality(S \cup {s}) = Cardinality(S) + 1
  BY <1>1, FS_AddElement
<1>4. s \in S => Cardinality(S \ {s}) = Cardinality(S) - 1
  BY <1>1, FS_RemoveElement
<1> QED  BY <1>2, <1>3, <1>4

(* _reset_message gives back the slot a message holds, and no other.       *)
LEMMA ResetConserves ==
  ASSUME NEW s \in Sessions, NEW q, SlotShape, OpenConserved, Reset(s, q), UNCHANGED cfg
  PROVE  /\ OpenConserved' /\ openFree' \in Nat
         /\ DOMAIN tx' = Sessions /\ tx'[s] = Blank
         /\ \A u \in Sessions \ {s} : tx'[u] = tx[u]
<1>1. /\ DOMAIN tx' = Sessions /\ tx'[s] = Blank
      /\ \A u \in Sessions \ {s} : tx'[u] = tx[u]
  BY DEF SlotShape, Reset
<1>2. ~Blank.holds_slot
  BY DEF Blank
<1>3. Holders' = Holders \ {s}
  BY <1>1, <1>2 DEF Holders
<1>4. CASE tx[s].holds_slot
  <2>1. s \in Holders /\ openFree' = openFree + 1
    BY <1>4 DEF Holders, Reset
  <2>2. Cardinality(Holders') = Cardinality(Holders) - 1 /\ Cardinality(Holders) \in Nat
    BY <1>3, <2>1, CountsOne DEF Holders
  <2> QED  BY <1>1, <2>1, <2>2, SessionAssumption DEF OpenConserved, SlotShape
<1>5. CASE ~tx[s].holds_slot
  <2>1. Holders' = Holders /\ openFree' = openFree
    BY <1>3, <1>5 DEF Holders, Reset
  <2> QED  BY <1>1, <2>1 DEF OpenConserved, SlotShape
<1> QED  BY <1>4, <1>5

(* A session that begins, ends or is in no verification leaves those of    *)
(* the others as they are.                                                 *)
LEMMA StageChange ==
  ASSUME NEW s \in Sessions, DOMAIN post = Sessions,
         \A u \in Sessions \ {s} : post'[u].stage = post[u].stage,
         UNCHANGED cfg
  PROVE  /\ Verifiers \in SUBSET Sessions
         /\ (Bounded /\ post'[s].stage = "verify") => Verifiers' = Verifiers \cup {s}
         /\ (~Bounded \/ post'[s].stage # "verify") => Verifiers' = Verifiers \ {s}
         /\ ~Bounded => Verifiers = {}
         /\ s \in Verifiers <=> Bounded /\ post[s].stage = "verify"
<1>1. Bounded' = Bounded
  BY DEF Bounded
<1> QED  BY <1>1 DEF Verifiers


(* Steps outside a verification leave the verification slots alone.        *)
LEMMA NotVerifying ==
  ASSUME NEW s \in Sessions, SlotShape, VerifyConserved,
         \A u \in Sessions \ {s} : post'[u].stage = post[u].stage,
         post[s].stage # "verify", post'[s].stage # "verify",
         UNCHANGED <<cfg, verifyFree>>
  PROVE  VerifyConserved' /\ verifyFree' \in Nat
<1>1. Verifiers' = Verifiers \ {s} /\ s \notin Verifiers
  BY StageChange DEF SlotShape
<1>2. Verifiers' = Verifiers
  BY <1>1
<1> QED  BY <1>2 DEF VerifyConserved, SlotShape

(* The end of a verification, by a result or an exception, returns the     *)
(* slot the session took.                                                  *)
LEMMA VerificationEnds ==
  ASSUME NEW s \in Sessions, SlotShape, VerifyConserved,
         \A u \in Sessions \ {s} : post'[u].stage = post[u].stage,
         post[s].stage = "verify", post'[s].stage # "verify",
         UNCHANGED cfg, ReleaseSlot
  PROVE  VerifyConserved' /\ verifyFree' \in Nat
<1>1. Verifiers' = Verifiers \ {s} /\ (s \in Verifiers <=> Bounded) /\ Verifiers \in SUBSET Sessions
  BY StageChange DEF SlotShape
<1>2. CASE Bounded
  <2>1. verifyFree' = verifyFree + 1
    BY <1>2 DEF ReleaseSlot
  <2>2. Cardinality(Verifiers') = Cardinality(Verifiers) - 1 /\ Cardinality(Verifiers) \in Nat
    BY <1>1, <1>2, CountsOne
  <2> QED  BY <2>1, <2>2, SessionAssumption DEF VerifyConserved, SlotShape
<1>3. CASE ~Bounded
  <2>1. Verifiers' = Verifiers /\ verifyFree' = verifyFree
    BY <1>1, <1>3 DEF ReleaseSlot
  <2> QED  BY <2>1 DEF VerifyConserved, SlotShape
<1> QED  BY <1>2, <1>3

(* Postfix's side of one session moves to a stage without a message, and   *)
(* the message is reset.                                                   *)
LEMMA ResetSlots ==
  ASSUME NEW s \in Sessions, NEW q, NEW stage, SlotInv, Reset(s, q),
         post' = [post EXCEPT ![s] = At(stage)], verifyFree' \in Nat, UNCHANGED cfg
  PROVE  /\ SlotShape' /\ OpenConserved' /\ HeldWhileOpen'
         /\ post'[s].stage = stage
         /\ \A u \in Sessions \ {s} : post'[u].stage = post[u].stage
<1>1. /\ OpenConserved' /\ openFree' \in Nat
      /\ DOMAIN tx' = Sessions /\ tx'[s] = Blank
      /\ \A u \in Sessions \ {s} : tx'[u] = tx[u]
  BY ResetConserves DEF SlotInv
<1>2. /\ DOMAIN post' = Sessions /\ post'[s] = At(stage)
      /\ \A u \in Sessions \ {s} : post'[u] = post[u]
  BY DEF SlotInv, SlotShape
<1>3. DOMAIN At(stage) = {"stage", "envelope", "content"} /\ At(stage).stage = stage
  BY DEF At
<1>4. ~Blank.holds_slot /\ Blank.holds_slot \in BOOLEAN
  BY DEF Blank
<1>5. SlotShape'
  BY <1>1, <1>2, <1>3, <1>4 DEF SlotInv, SlotShape
<1>6. HeldWhileOpen'
  BY <1>1, <1>2, <1>4 DEF SlotInv, HeldWhileOpen
<1> QED  BY <1>1, <1>2, <1>3, <1>5, <1>6

(* An answer to the end of a message resets it.                            *)
LEMMA FinishSlots ==
  ASSUME NEW s \in Sessions, NEW ds, SlotInv, Finish(s, ds), verifyFree' \in Nat
  PROVE  /\ SlotShape' /\ OpenConserved' /\ HeldWhileOpen' /\ UNCHANGED cfg
         /\ post'[s].stage \in {"sent", "failed"}
         /\ \A u \in Sessions \ {s} : post'[u].stage = post[u].stage
<1> DEFINE accepts == ~Enforced(cfg, Effective(cfg, ds))
           q == IF accepts THEN [quota EXCEPT !.counted = @ + tx[s].reservation] ELSE quota
           stage == IF accepts THEN "sent" ELSE "failed"
<1>1. Reset(s, q) /\ post' = [post EXCEPT ![s] = At(stage)] /\ UNCHANGED cfg
  BY DEF Finish
<1>2. stage \in {"sent", "failed"}
  OBVIOUS
<1> HIDE DEF q, stage
<1> QED  BY <1>1, <1>2, ResetSlots


(* A step of a message that takes and returns no slot of its own.          *)
LEMMA OpenStays ==
  ASSUME NEW s \in Sessions, SlotInv, UNCHANGED <<openFree, cfg>>,
         DOMAIN tx' = Sessions, DOMAIN post' = Sessions,
         DOMAIN tx'[s] = DOMAIN Blank, tx'[s].holds_slot = tx[s].holds_slot,
         DOMAIN post'[s] = {"stage", "envelope", "content"},
         tx[s].holds_slot => post'[s].stage \in Open,
         \A u \in Sessions \ {s} : tx'[u] = tx[u] /\ post'[u] = post[u],
         verifyFree' \in Nat
  PROVE  SlotShape' /\ OpenConserved' /\ HeldWhileOpen'
<1>1. Holders' = Holders
  BY DEF Holders
<1>2. OpenConserved'
  BY <1>1 DEF SlotInv, OpenConserved
<1>3. SlotShape'
  BY DEF SlotInv, SlotShape
<1>4. HeldWhileOpen'
  BY DEF SlotInv, HeldWhileOpen
<1> QED  BY <1>2, <1>3, <1>4

(* MAIL takes the slot its message holds.                                  *)
LEMMA MailSlots ==
  ASSUME NEW s \in Sessions, NEW o, NEW sender, SlotInv, Mail(s, o, sender)
  PROVE  SlotInv'
<1> DEFINE decision == Decision("defer", "limits", NeedsMessage(cfg, o))
           noSlot   == Bounded /\ openFree = 0
           refused  == noSlot /\ Trust(o) # "local_pickup" /\ Enforced(cfg, decision)
           takes    == Bounded /\ ~noSlot
           waiting  == IF noSlot /\ ~refused THEN {decision} ELSE {}
           next     == [Blank EXCEPT !.origin = o, !.sender = sender, !.capture = ~noSlot,
                                     !.holds_slot = takes, !.deferred = waiting]
           stage    == IF refused THEN "idle" ELSE "rcpt"
<1>1. /\ post[s].stage = "mail"
      /\ tx' = [tx EXCEPT ![s] = next]
      /\ openFree' = IF takes THEN openFree - 1 ELSE openFree
      /\ post' = [post EXCEPT ![s] = At(stage)]
      /\ UNCHANGED <<cfg, verifyFree>>
  BY DEF Mail
<1>2. DOMAIN next = DOMAIN Blank /\ next.holds_slot = takes /\ takes \in BOOLEAN
  BY DEF Blank
<1>3. stage \in {"idle", "rcpt"} /\ (takes => stage = "rcpt" /\ openFree # 0)
  OBVIOUS
<1>4. DOMAIN At(stage) = {"stage", "envelope", "content"} /\ At(stage).stage = stage
  BY DEF At
<1> HIDE DEF next, takes, stage
<1>5. ~tx[s].holds_slot
  BY <1>1 DEF SlotInv, SlotShape, HeldWhileOpen, Open
<1>6. /\ DOMAIN tx' = Sessions /\ tx'[s] = next /\ DOMAIN post' = Sessions /\ post'[s] = At(stage)
      /\ \A u \in Sessions \ {s} : tx'[u] = tx[u] /\ post'[u] = post[u]
  BY <1>1 DEF SlotInv, SlotShape
<1>7. VerifyConserved' /\ verifyFree' \in Nat
  BY <1>1, <1>3, <1>4, <1>6, NotVerifying DEF SlotInv
<1>8. CASE takes
  <2>1. Holders' = Holders \cup {s} /\ s \notin Holders /\ Holders \in SUBSET Sessions
    BY <1>2, <1>5, <1>6, <1>8 DEF Holders
  <2>2. Cardinality(Holders') = Cardinality(Holders) + 1 /\ Cardinality(Holders) \in Nat
    BY <2>1, CountsOne
  <2>3. openFree' = openFree - 1 /\ openFree' \in Nat
    BY <1>1, <1>3, <1>8 DEF SlotInv, SlotShape
  <2>4. OpenConserved'
    BY <1>1, <2>2, <2>3, SessionAssumption DEF SlotInv, SlotShape, OpenConserved
  <2>5. SlotShape'
    BY <1>1, <1>2, <1>4, <1>6, <1>7, <2>3 DEF SlotInv, SlotShape
  <2>6. HeldWhileOpen'
    BY <1>3, <1>4, <1>6, <1>8 DEF SlotInv, HeldWhileOpen, Open
  <2> QED  BY <1>7, <2>4, <2>5, <2>6 DEF SlotInv
<1>9. CASE ~takes
  <2>1. tx'[s].holds_slot = tx[s].holds_slot /\ openFree' = openFree
    BY <1>1, <1>2, <1>5, <1>6, <1>9 DEF SlotInv, SlotShape
  <2>2. SlotShape' /\ OpenConserved' /\ HeldWhileOpen'
    BY <1>1, <1>2, <1>4, <1>5, <1>6, <1>7, <2>1, OpenStays
  <2> QED  BY <1>7, <2>2 DEF SlotInv
<1> QED  BY <1>8, <1>9

(* RCPT changes neither the stage of its message nor the slot it holds.    *)
LEMMA RcptSlots ==
  ASSUME NEW s \in Sessions, NEW r, SlotInv, Rcpt(s, r)
  PROVE  SlotInv'
<1>1. /\ DOMAIN tx' = Sessions /\ DOMAIN tx'[s] = DOMAIN Blank
      /\ tx'[s].holds_slot = tx[s].holds_slot
      /\ \A u \in Sessions \ {s} : tx'[u] = tx[u]
      /\ UNCHANGED <<cfg, openFree, verifyFree>>
  BY DEF Rcpt, SlotInv, SlotShape, Blank
<1>2. /\ DOMAIN post' = Sessions /\ DOMAIN post'[s] = {"stage", "envelope", "content"}
      /\ post'[s].stage = "rcpt" /\ post[s].stage = "rcpt"
      /\ \A u \in Sessions \ {s} : post'[u] = post[u]
  BY DEF Rcpt, SlotInv, SlotShape
<1>3. VerifyConserved' /\ verifyFree' \in Nat
  BY <1>1, <1>2, NotVerifying DEF SlotInv
<1>4. SlotShape' /\ OpenConserved' /\ HeldWhileOpen'
  BY <1>1, <1>2, <1>3, OpenStays DEF Open
<1> QED  BY <1>3, <1>4 DEF SlotInv
-----------------------------------------------------------------------------
LEMMA InitSlots == Init => SlotInv
<1> SUFFICES ASSUME Init PROVE SlotInv
  OBVIOUS
<1>1. SlotShape
  BY SessionAssumption DEF Init, SlotShape, Blank, At
<1>2. Holders = {} /\ Verifiers = {}
  BY DEF Init, Holders, Verifiers, Blank, At
<1>3. OpenConserved /\ VerifyConserved
  BY <1>2, FS_EmptySet, SessionAssumption DEF Init, OpenConserved, VerifyConserved
<1>4. HeldWhileOpen
  BY DEF Init, HeldWhileOpen, Blank
<1> QED  BY <1>1, <1>3, <1>4 DEF SlotInv

(* The other callbacks, one step per action.                               *)
LEMMA SessionSlots ==
  ASSUME NEW s \in Sessions, SlotInv,
         \/ Connect(s) \/ MailReset(s) \/ \E c \in Contents : Data(s, c)
         \/ SpoolFails(s) \/ EndOfMessage(s) \/ AcquireSlot(s) \/ SlotTimeout(s)
         \/ Verified(s) \/ VerifyRaises(s) \/ Abort(s) \/ Close(s)
  PROVE  SlotInv'
<1> USE DEF Calm
<1>types. verifyFree \in Nat /\ DOMAIN post = Sessions
  BY DEF SlotInv, SlotShape
<1>1. CASE Connect(s)
  <2>1. /\ post[s].stage = "closed" /\ post'[s] = At("idle") /\ DOMAIN post' = Sessions
        /\ \A u \in Sessions \ {s} : post'[u] = post[u]
        /\ UNCHANGED <<cfg, tx, openFree, verifyFree>>
    BY <1>1, <1>types DEF Connect
  <2>2. DOMAIN post'[s] = {"stage", "envelope", "content"} /\ post'[s].stage = "idle"
    BY <2>1 DEF At
  <2>3. ~tx[s].holds_slot
    BY <2>1 DEF SlotInv, HeldWhileOpen, Open
  <2>4. VerifyConserved' /\ verifyFree' \in Nat
    BY <2>1, <2>2, NotVerifying DEF SlotInv
  <2>5. SlotShape' /\ OpenConserved' /\ HeldWhileOpen'
    BY <2>1, <2>2, <2>3, <2>4, OpenStays DEF SlotInv, SlotShape
  <2> QED  BY <2>4, <2>5 DEF SlotInv
<1>2. CASE MailReset(s) \/ Abort(s) \/ Close(s)
  <2>1. PICK stage \in {"mail", "idle", "closed"} :
          /\ Reset(s, quota) /\ post' = [post EXCEPT ![s] = At(stage)]
          /\ post[s].stage # "verify" /\ UNCHANGED <<cfg, verifyFree>>
    BY <1>2 DEF MailReset, Abort, Close
  <2>2. /\ SlotShape' /\ OpenConserved' /\ HeldWhileOpen' /\ post'[s].stage = stage
        /\ \A u \in Sessions \ {s} : post'[u].stage = post[u].stage
    BY <2>1, <1>types, ResetSlots
  <2>3. VerifyConserved'
    BY <2>1, <2>2, NotVerifying DEF SlotInv
  <2> QED  BY <2>2, <2>3 DEF SlotInv
<1>3. CASE (\E c \in Contents : Data(s, c)) \/ SpoolFails(s)
  <2>1. /\ post[s].stage \in {"rcpt", "data"} /\ post'[s].stage \in {"data", "broken"}
        /\ DOMAIN post' = Sessions /\ DOMAIN post'[s] = DOMAIN post[s]
        /\ \A u \in Sessions \ {s} : post'[u] = post[u]
        /\ UNCHANGED <<cfg, tx, openFree, verifyFree>>
    BY <1>3 DEF Data, SpoolFails, SlotInv, SlotShape
  <2>2. VerifyConserved' /\ verifyFree' \in Nat
    BY <2>1, NotVerifying DEF SlotInv
  <2>3. SlotShape' /\ OpenConserved' /\ HeldWhileOpen'
    BY <2>1, <2>2, OpenStays DEF SlotInv, SlotShape, Open
  <2> QED  BY <2>2, <2>3 DEF SlotInv
<1>4. CASE EndOfMessage(s)
  <2>1. CASE MustAuthenticate(s)
    <3>1. /\ post[s].stage = "data" /\ post'[s].stage = "wait"
          /\ DOMAIN post' = Sessions /\ DOMAIN post'[s] = DOMAIN post[s]
          /\ \A u \in Sessions \ {s} : post'[u] = post[u]
          /\ UNCHANGED <<cfg, tx, openFree, verifyFree>>
      BY <1>4, <2>1 DEF EndOfMessage, SlotInv, SlotShape
    <3>2. VerifyConserved' /\ verifyFree' \in Nat
      BY <3>1, NotVerifying DEF SlotInv
    <3>3. SlotShape' /\ OpenConserved' /\ HeldWhileOpen'
      BY <3>1, <3>2, OpenStays DEF SlotInv, SlotShape, Open
    <3> QED  BY <3>2, <3>3 DEF SlotInv
  <2>2. CASE ~MustAuthenticate(s)
    <3>1. post[s].stage = "data" /\ Finish(s, Rules(s)) /\ UNCHANGED verifyFree
      BY <1>4, <2>2 DEF EndOfMessage
    <3>2. /\ SlotShape' /\ OpenConserved' /\ HeldWhileOpen' /\ UNCHANGED cfg
          /\ post'[s].stage \in {"sent", "failed"}
          /\ \A u \in Sessions \ {s} : post'[u].stage = post[u].stage
      BY <3>1, <1>types, FinishSlots
    <3>3. VerifyConserved'
      BY <3>1, <3>2, NotVerifying DEF SlotInv
    <3> QED  BY <3>2, <3>3 DEF SlotInv
  <2> QED  BY <2>1, <2>2
<1>5. CASE AcquireSlot(s)
  <2>1. /\ post[s].stage = "wait" /\ post'[s].stage = "verify"
        /\ DOMAIN post' = Sessions /\ DOMAIN post'[s] = DOMAIN post[s]
        /\ \A u \in Sessions \ {s} : post'[u] = post[u]
        /\ Bounded => verifyFree > 0
        /\ verifyFree' = IF Bounded THEN verifyFree - 1 ELSE verifyFree
        /\ UNCHANGED <<cfg, tx, openFree>>
    BY <1>5 DEF AcquireSlot, SlotInv, SlotShape
  <2>2. verifyFree' \in Nat
    BY <2>1, <1>types
  <2>3. /\ Bounded => Verifiers' = Verifiers \cup {s}
        /\ ~Bounded => Verifiers' = Verifiers \ {s}
        /\ s \notin Verifiers /\ Verifiers \in SUBSET Sessions
    BY <2>1, <1>types, StageChange
  <2>4. VerifyConserved'
    <3>1. CASE Bounded
      <4>1. Cardinality(Verifiers') = Cardinality(Verifiers) + 1 /\ Cardinality(Verifiers) \in Nat
        BY <2>3, <3>1, CountsOne
      <4> QED  BY <4>1, <3>1, <2>1, <1>types, SessionAssumption
               DEF SlotInv, VerifyConserved, SlotShape
    <3>2. CASE ~Bounded
      <4>1. Verifiers' = Verifiers /\ verifyFree' = verifyFree
        BY <2>1, <2>3, <3>2
      <4> QED  BY <4>1, <2>1 DEF SlotInv, VerifyConserved
    <3> QED  BY <3>1, <3>2
  <2>5. SlotShape' /\ OpenConserved' /\ HeldWhileOpen'
    BY <2>1, <2>2, OpenStays DEF SlotInv, SlotShape, Open
  <2> QED  BY <2>4, <2>5 DEF SlotInv
<1>6. CASE SlotTimeout(s)
  <2>1. post[s].stage = "wait" /\ Finish(s, Rules(s) \cup {NoSlot(s)}) /\ UNCHANGED verifyFree
    BY <1>6 DEF SlotTimeout
  <2>2. /\ SlotShape' /\ OpenConserved' /\ HeldWhileOpen' /\ UNCHANGED cfg
        /\ post'[s].stage \in {"sent", "failed"}
        /\ \A u \in Sessions \ {s} : post'[u].stage = post[u].stage
    BY <2>1, <1>types, FinishSlots
  <2>3. VerifyConserved'
    BY <2>1, <2>2, NotVerifying DEF SlotInv
  <2> QED  BY <2>2, <2>3 DEF SlotInv
<1>7. CASE Verified(s)
  <2>1. PICK ds : post[s].stage = "verify" /\ ReleaseSlot /\ Finish(s, ds)
    BY <1>7 DEF Verified
  <2>2. verifyFree' \in Nat
    BY <2>1, <1>types DEF ReleaseSlot
  <2>3. /\ SlotShape' /\ OpenConserved' /\ HeldWhileOpen' /\ UNCHANGED cfg
        /\ post'[s].stage \in {"sent", "failed"}
        /\ \A u \in Sessions \ {s} : post'[u].stage = post[u].stage
    BY <2>1, <2>2, FinishSlots
  <2>4. VerifyConserved'
    BY <2>1, <2>3, VerificationEnds DEF SlotInv
  <2> QED  BY <2>3, <2>4 DEF SlotInv
<1>8. CASE VerifyRaises(s)
  <2>1. /\ post[s].stage = "verify" /\ ReleaseSlot /\ Reset(s, quota)
        /\ post' = [post EXCEPT ![s] = At("idle")] /\ UNCHANGED cfg
    BY <1>8 DEF VerifyRaises
  <2>2. verifyFree' \in Nat
    BY <2>1, <1>types DEF ReleaseSlot
  <2>3. /\ SlotShape' /\ OpenConserved' /\ HeldWhileOpen' /\ post'[s].stage = "idle"
        /\ \A u \in Sessions \ {s} : post'[u].stage = post[u].stage
    BY <2>1, <2>2, ResetSlots
  <2>4. VerifyConserved'
    BY <2>1, <2>3, VerificationEnds DEF SlotInv
  <2> QED  BY <2>3, <2>4 DEF SlotInv
<1> QED  BY <1>1, <1>2, <1>3, <1>4, <1>5, <1>6, <1>7, <1>8

LEMMA NextSlots == SlotInv /\ [Next]_vars => SlotInv'
<1> SUFFICES ASSUME SlotInv, [Next]_vars PROVE SlotInv'
  OBVIOUS
<1>1. CASE Next
  <2>1. PICK s \in Sessions :
          \/ Connect(s) \/ MailReset(s)
          \/ \E o \in Origins, f \in Senders : Mail(s, o, f)
          \/ \E r \in Recipients : Rcpt(s, r)
          \/ \E c \in Contents : Data(s, c)
          \/ SpoolFails(s) \/ EndOfMessage(s)
          \/ AcquireSlot(s) \/ SlotTimeout(s) \/ Verified(s) \/ VerifyRaises(s)
          \/ Abort(s) \/ Close(s)
    BY <1>1 DEF Next
  <2>2. CASE \E o \in Origins, f \in Senders : Mail(s, o, f)
    BY <2>2, MailSlots
  <2>3. CASE \E r \in Recipients : Rcpt(s, r)
    BY <2>3, RcptSlots
  <2> QED  BY <2>1, <2>2, <2>3, SessionSlots
<1>2. CASE UNCHANGED vars
  BY <1>2 DEF vars, SlotInv, SlotShape, OpenConserved, VerifyConserved, HeldWhileOpen,
              Holders, Verifiers, Bounded
<1> QED  BY <1>1, <1>2

(* However messages end, every open-message and every verification slot is *)
(* free or held by one message in progress (_reset_message, _authenticate).*)
THEOREM SlotsNeverLeak == Spec => []SlotsConserved
<1>1. SlotInv => SlotsConserved
  BY DEF SlotInv, OpenConserved, VerifyConserved, HeldWhileOpen, Open, Holders, Verifiers,
         SlotsConserved
<1> QED  BY <1>1, InitSlots, NextSlots, PTL DEF Spec

LEMMA SlotBounds ==
  ASSUME SlotInv
  PROVE  openFree \in 0 .. MaxOpen /\ verifyFree \in 0 .. MaxVerify
<1>1. Holders \in SUBSET Sessions /\ Verifiers \in SUBSET Sessions
  BY DEF Holders, Verifiers
<1>2. IsFiniteSet(Holders) /\ IsFiniteSet(Verifiers)
  BY <1>1, SessionAssumption, FS_Subset
<1>3. Cardinality(Holders) \in Nat /\ Cardinality(Verifiers) \in Nat
  BY <1>2, FS_CardinalityType
<1> QED  BY <1>3, SessionAssumption DEF SlotInv, SlotShape, OpenConserved, VerifyConserved

(* A release never finds its semaphore full, where BoundedSemaphore would  *)
(* raise ValueError in a callback (_reset_message, _authenticate).         *)
THEOREM NoSlotReturnedTwice ==
  Spec => [](openFree \in 0 .. MaxOpen /\ verifyFree \in 0 .. MaxVerify)
<1>1. SlotInv => openFree \in 0 .. MaxOpen /\ verifyFree \in 0 .. MaxVerify
  BY SlotBounds
<1> QED  BY <1>1, InitSlots, NextSlots, PTL DEF Spec
-----------------------------------------------------------------------------
Actions == {"reject", "defer", "allow"}
Refusals(ds) == \A d \in ds : d.action \in Actions

\* The places reserved, one by one.
PlacesOf(f) == {u \in Sessions \X (1 .. MaxGiven) : u[2] <= f[u[1]]}
Reservations == [s \in Sessions |-> tx[s].reservation]

Shape ==
  /\ cfg \in Configs
  /\ DOMAIN tx = Sessions /\ DOMAIN post = Sessions
  /\ DOMAIN quota = {"counted", "reserved"}
  /\ quota.counted \in Nat /\ quota.reserved \in Int
  /\ \A s \in Sessions :
       /\ DOMAIN tx[s] = DOMAIN Blank /\ tx[s].reservation \in 0 .. MaxGiven
       /\ Refusals(tx[s].deferred)
       /\ DOMAIN post[s] = {"stage", "envelope", "content"}
       /\ post[s].envelope \in Seq(Recipients) /\ Len(post[s].envelope) <= MaxGiven

\* The places of a session are its parsed recipients; a recipient of pickup that
\* has none has an enforced refusal that waits for the end of the message.
PlaceOk(s) ==
  IF post[s].stage \notin Open \/ ~Limited(tx[s].origin) THEN tx[s].reservation = 0
  ELSE \/ tx[s].reservation = Parsed(s)
       \/ /\ tx[s].reservation < Parsed(s) /\ IsPickup(s)
          /\ \E d \in tx[s].deferred : Enforced(cfg, d)

Counted ==
  /\ quota.reserved = Cardinality(PlacesOf(Reservations))
  /\ delivered \in Int /\ unparsed \in Int
  /\ quota.counted = delivered - unparsed
  /\ Enforces("sending_limits") => quota.counted + quota.reserved <= Limit

CountInv == Shape /\ Counted /\ \A s \in Sessions : PlaceOk(s)
-----------------------------------------------------------------------------
(* combine and effective: the decision is one of those combined, and       *)
(* enforced when one of them is.                                           *)
LEMMA CombineChooses ==
  ASSUME NEW ds, Refusals(ds), ds # {}
  PROVE  Combine(ds) \in ds
<1> DEFINE Worst(a) == /\ ds # {} => \E d \in ds : d.action = a
                       /\ a = "defer" => \A d \in ds : d.action # "reject"
                       /\ a = "allow" => \A d \in ds : d.action = "allow"
           worst == CHOOSE a \in {"reject", "defer", "allow"} : Worst(a)
<1>1. \E a \in {"reject", "defer", "allow"} : Worst(a)
  <2>1. CASE \E d \in ds : d.action = "reject"
    BY <2>1
  <2>2. CASE (\A d \in ds : d.action # "reject") /\ \E d \in ds : d.action = "defer"
    BY <2>2
  <2>3. CASE \A d \in ds : d.action = "allow"
    BY <2>3
  <2> QED  BY <2>1, <2>2, <2>3 DEF Refusals, Actions
<1>2. Worst(worst)
  <2> HIDE DEF Worst
  <2> QED  BY <1>1
<1>3. \E d \in ds : d.action = worst
  BY <1>2
<1>4. Combine(ds) = CHOOSE d \in ds : d.action = worst
  BY DEF Combine
<1> HIDE DEF worst
<1> QED  BY <1>3, <1>4

LEMMA EffectiveEnforces ==
  ASSUME NEW c, NEW ds, Refusals(ds)
  PROVE  /\ Effective(c, ds).action \in Actions
         /\ Enforced(c, Effective(c, ds)) <=> \E d \in ds : Enforced(c, d)
<1> DEFINE present  == {d \in ds : d.action = "allow" \/ ModeOf(c, d) # "off"}
           refusals == {d \in present : Enforced(c, d)}
           decision == Combine(IF refusals # {} THEN refusals ELSE present)
<1>1. Effective(c, ds) = decision
  BY DEF Effective
<1>2. \A d \in ds : Enforced(c, d) => d \in refusals
  BY DEF Enforced
<1>3. Refusals(refusals) /\ Refusals(present)
  BY DEF Refusals
<1>4. Combine({}) = Allow("none")
  BY DEF Combine
<1>5. Allow("none").action = "allow"
  BY DEF Allow, Decision
<1>6. CASE refusals # {}
  <2>1. decision \in refusals
    BY <1>3, <1>6, CombineChooses
  <2> QED  BY <1>1, <2>1 DEF Refusals
<1>7. CASE refusals = {} /\ present # {}
  <2>1. decision \in present
    BY <1>3, <1>7, CombineChooses
  <2> QED  BY <1>1, <1>2, <1>7, <2>1 DEF Refusals
<1>8. CASE refusals = {} /\ present = {}
  <2>1. decision = Allow("none")
    BY <1>4, <1>8
  <2> QED  BY <1>1, <1>2, <1>5, <1>8, <2>1 DEF Enforced, Actions
<1> QED  BY <1>6, <1>7, <1>8

LEMMA DecisionActions ==
  ASSUME NEW rule, NEW forced
  PROVE  /\ Allow(rule).action \in Actions /\ Reject(rule).action \in Actions
         /\ Defer(rule).action \in Actions /\ Decision("defer", rule, forced).action \in Actions
BY DEF Allow, Reject, Defer, Decision, Actions

(* Every rule for a recipient or a message refuses, defers or allows.      *)
LEMMA RecipientActions ==
  ASSUME NEW c, NEW o, NEW sender, NEW r, NEW kept
  PROVE  RecipientDecision(c, o, sender, r, kept).decision.action \in Actions
<1>1. Refusals(ProtectedRecipient(o, r) \cup SelfSenderEnvelope(c, o, sender, r))
  BY DecisionActions DEF Refusals, ProtectedRecipient, SelfSenderEnvelope, Listed
<1>2. RecipientRules(c, o, sender, r).action \in Actions
  BY <1>1, EffectiveEnforces, DecisionActions DEF RecipientRules
<1> QED  BY <1>2, DecisionActions DEF RecipientDecision

LEMMA MessageActions ==
  ASSUME NEW c, NEW o, NEW deferred, Refusals(deferred), NEW accepted, NEW from, NEW over
  PROVE  /\ Refusals(MessageRules(c, o, deferred, accepted, from, over))
         /\ deferred \subseteq MessageRules(c, o, deferred, accepted, from, over)
<1>1. Refusals(BoundDecision(c, o, over))
  BY DecisionActions DEF Refusals, BoundDecision
<1>2. Refusals(VisibleFrom(c, o, from))
  BY DecisionActions DEF Refusals, VisibleFrom
<1>3. Refusals(SelfSenderHeader(c, o, from, accepted))
  BY DecisionActions DEF Refusals, SelfSenderHeader, Listed
<1> QED  BY <1>1, <1>2, <1>3 DEF Refusals, MessageRules

LEMMA AuthenticationActions ==
  ASSUME NEW c, NEW sender, NEW auth
  PROVE  Authentication(c, sender, auth).action \in Actions
<1>1. AuthenticationAction(c, sender, auth) \in Actions
  BY DEF AuthenticationAction, Actions
<1> QED  BY <1>1 DEF Authentication, Decision
-----------------------------------------------------------------------------
(* Counting: one more recipient, and the places of one session.            *)
OkAt(e) == {i \in DOMAIN e : e[i].ok}

LEMMA UpTo ==
  ASSUME NEW n \in Nat
  PROVE  IsFiniteSet(1 .. n) /\ Cardinality(1 .. n) = n
<1>1. n \in Int
  OBVIOUS
<1>2. IsFiniteSet(1 .. n) /\ Cardinality(1 .. n) = IF 1 > n THEN 0 ELSE n - 1 + 1
  BY <1>1, FS_Interval
<1> QED  BY <1>2

LEMMA ParsedCounts ==
  ASSUME NEW e \in Seq(Recipients), NEW r \in Recipients
  PROVE  /\ Cardinality(OkAt(e)) \in Nat /\ Cardinality(OkAt(e)) <= Len(e)
         /\ r.ok => Cardinality(OkAt(Append(e, r))) = Cardinality(OkAt(e)) + 1
         /\ ~r.ok => Cardinality(OkAt(Append(e, r))) = Cardinality(OkAt(e))
<1>1. Len(e) \in Nat /\ DOMAIN e = 1 .. Len(e)
  OBVIOUS
<1>2. IsFiniteSet(1 .. Len(e)) /\ Cardinality(1 .. Len(e)) = Len(e)
  BY <1>1, UpTo
<1>3. OkAt(e) \in SUBSET (1 .. Len(e))
  BY <1>1 DEF OkAt
<1>4. /\ IsFiniteSet(OkAt(e)) /\ Cardinality(OkAt(e)) <= Len(e)
      /\ Cardinality(OkAt(e)) \in Nat
  BY <1>2, <1>3, FS_Subset, FS_CardinalityType
<1>5. /\ DOMAIN Append(e, r) = 1 .. Len(e) + 1
      /\ \A i \in 1 .. Len(e) : Append(e, r)[i] = e[i]
      /\ Append(e, r)[Len(e) + 1] = r
  OBVIOUS
<1>6. r.ok => OkAt(Append(e, r)) = OkAt(e) \cup {Len(e) + 1}
  BY <1>1, <1>5 DEF OkAt
<1>7. ~r.ok => OkAt(Append(e, r)) = OkAt(e)
  BY <1>1, <1>5 DEF OkAt
<1>8. Len(e) + 1 \notin OkAt(e)
  BY <1>1 DEF OkAt
<1> QED  BY <1>4, <1>6, <1>7, <1>8, FS_AddElement

LEMMA PlacesFinite ==
  ASSUME NEW f
  PROVE  IsFiniteSet(PlacesOf(f)) /\ Cardinality(PlacesOf(f)) \in Nat
<1>1. IsFiniteSet(1 .. MaxGiven) /\ IsFiniteSet(Sessions)
  BY SessionAssumption, UpTo
<1>2. IsFiniteSet(Sessions \X (1 .. MaxGiven))
  BY <1>1, FS_Product
<1>3. PlacesOf(f) \in SUBSET (Sessions \X (1 .. MaxGiven))
  BY DEF PlacesOf
<1> QED  BY <1>2, <1>3, FS_Subset, FS_CardinalityType

\* The places of the other sessions, and those of s.
Others(f, s) == {u \in PlacesOf(f) : u[1] # s}

LEMMA PlacesSplit ==
  ASSUME NEW f, NEW s \in Sessions, f[s] \in 0 .. MaxGiven
  PROVE  /\ Cardinality(PlacesOf(f)) = Cardinality(Others(f, s)) + f[s]
         /\ Cardinality(Others(f, s)) \in Nat
<1> DEFINE own == {s} \X (1 .. f[s])
<1>1. MaxGiven \in Nat /\ f[s] \in Nat /\ f[s] <= MaxGiven
  BY SessionAssumption
<1>2. PlacesOf(f) = Others(f, s) \cup own
  <2>1. own \subseteq PlacesOf(f)
    BY <1>1 DEF PlacesOf
  <2>2. \A u \in PlacesOf(f) : u[1] = s => u \in own
    BY <1>1 DEF PlacesOf
  <2> QED  BY <2>1, <2>2 DEF Others
<1>3. Others(f, s) \cap own = {}
  BY DEF Others
<1>4. IsFiniteSet(own) /\ Cardinality(own) = f[s]
  <2>1. IsFiniteSet({s}) /\ Cardinality({s}) = 1
    BY FS_Singleton
  <2>2. IsFiniteSet(1 .. f[s]) /\ Cardinality(1 .. f[s]) = f[s]
    BY <1>1, UpTo
  <2>3. IsFiniteSet(own) /\ Cardinality(own) = 1 * f[s]
    BY <2>1, <2>2, FS_Product
  <2> QED  BY <1>1, <2>3
<1>5. IsFiniteSet(Others(f, s)) /\ Cardinality(Others(f, s)) \in Nat
  BY PlacesFinite, FS_Subset, FS_CardinalityType DEF Others
<1> HIDE DEF own
<1>6. Cardinality(PlacesOf(f)) = Cardinality(Others(f, s)) + Cardinality(own) - Cardinality({})
  BY <1>2, <1>3, <1>4, <1>5, FS_Union
<1> QED  BY <1>1, <1>4, <1>5, <1>6, FS_EmptySet

(* A session that gets or gives back places changes their number by those. *)
LEMMA PlacesChange ==
  ASSUME NEW f, NEW g, NEW s \in Sessions, f[s] \in 0 .. MaxGiven, g[s] \in 0 .. MaxGiven,
         \A u \in Sessions \ {s} : f[u] = g[u]
  PROVE  Cardinality(PlacesOf(g)) = Cardinality(PlacesOf(f)) - f[s] + g[s]
<1>1. Others(f, s) = Others(g, s)
  BY DEF Others, PlacesOf
<1>2. f[s] \in Nat /\ g[s] \in Nat
  BY SessionAssumption
<1> QED  BY <1>1, <1>2, PlacesSplit
-----------------------------------------------------------------------------
(* A step of session s, whatever it does: the others keep their places, and *)
(* the store reserves those s has now.                                     *)
LEMMA SessionStep ==
  ASSUME NEW s \in Sessions, CountInv, UNCHANGED cfg,
         DOMAIN tx' = Sessions, DOMAIN post' = Sessions,
         \A u \in Sessions \ {s} : tx'[u] = tx[u] /\ post'[u] = post[u],
         DOMAIN tx'[s] = DOMAIN Blank, tx'[s].reservation \in 0 .. MaxGiven,
         Refusals(tx'[s].deferred),
         DOMAIN post'[s] = {"stage", "envelope", "content"},
         post'[s].envelope \in Seq(Recipients), Len(post'[s].envelope) <= MaxGiven,
         DOMAIN quota' = {"counted", "reserved"}, quota'.counted \in Nat,
         quota'.reserved = quota.reserved - tx[s].reservation + tx'[s].reservation,
         delivered' \in Int, unparsed' \in Int, quota'.counted = delivered' - unparsed',
         Enforces("sending_limits") => quota'.counted + quota'.reserved <= Limit,
         PlaceOk(s)'
  PROVE  CountInv'
<1>1. tx[s].reservation \in Int /\ tx'[s].reservation \in Int /\ quota.reserved \in Int
  BY SessionAssumption DEF CountInv, Shape
<1>2. Shape'
  <2>1. quota'.reserved \in Int
    BY <1>1
  <2> QED  BY <2>1 DEF CountInv, Shape
<1>3. quota'.reserved = Cardinality(PlacesOf(Reservations'))
  <2> DEFINE f == Reservations
             g == [u \in Sessions |-> tx'[u].reservation]
  <2>1. f[s] = tx[s].reservation /\ g[s] = tx'[s].reservation
    BY DEF Reservations
  <2>2. \A u \in Sessions \ {s} : f[u] = g[u]
    BY DEF Reservations
  <2>3. f[s] \in 0 .. MaxGiven /\ g[s] \in 0 .. MaxGiven
    BY <2>1 DEF CountInv, Shape
  <2>4. quota.reserved = Cardinality(PlacesOf(f))
    BY DEF CountInv, Counted
  <2>5. Reservations' = g
    BY DEF Reservations
  <2> HIDE DEF f, g
  <2>6. Cardinality(PlacesOf(g)) = Cardinality(PlacesOf(f)) - f[s] + g[s]
    BY <2>2, <2>3, PlacesChange
  <2> QED  BY <2>1, <2>4, <2>5, <2>6
<1>4. Counted'
  BY <1>3 DEF Counted, Enforces
<1>5. \A u \in Sessions \ {s} : PlaceOk(u)'
  BY DEF CountInv, PlaceOk, Parsed, IsPickup, Limited
<1> QED  BY <1>2, <1>4, <1>5 DEF CountInv

\* What the invariant says of one session, for the steps below.
LEMMA Facts ==
  ASSUME NEW s \in Sessions, CountInv
  PROVE  /\ DOMAIN tx = Sessions /\ DOMAIN post = Sessions
         /\ DOMAIN tx[s] = DOMAIN Blank /\ tx[s].reservation \in 0 .. MaxGiven
         /\ tx[s].reservation \in Nat
         /\ Refusals(tx[s].deferred)
         /\ DOMAIN post[s] = {"stage", "envelope", "content"}
         /\ post[s].envelope \in Seq(Recipients) /\ Len(post[s].envelope) <= MaxGiven
         /\ DOMAIN quota = {"counted", "reserved"}
         /\ quota.counted \in Nat /\ quota.reserved \in Int
         /\ delivered \in Int /\ unparsed \in Int /\ quota.counted = delivered - unparsed
         /\ Enforces("sending_limits") => quota.counted + quota.reserved <= Limit
         /\ cfg \in Configs /\ cfg.mode["sending_limits"] \in Modes
         /\ PlaceOk(s)
<1>1. tx[s].reservation \in Nat
  BY SessionAssumption DEF CountInv, Shape
<1>2. cfg.mode["sending_limits"] \in Modes
  BY SessionAssumption DEF CountInv, Shape, Sections
<1> QED  BY <1>1, <1>2 DEF CountInv, Shape, Counted

LEMMA BlankRecord ==
  /\ Blank.reservation = 0 /\ Refusals(Blank.deferred)
  /\ \A stage : /\ DOMAIN At(stage) = {"stage", "envelope", "content"}
                /\ At(stage).stage = stage /\ At(stage).envelope = <<>>
BY DEF Blank, At, Refusals

LEMMA NothingParsed == Cardinality(OkAt(<<>>)) = 0
<1>1. OkAt(<<>>) = {}
  BY DEF OkAt
<1> QED  BY <1>1, FS_EmptySet

(* A message that ends gives back its places, and counts them when it was  *)
(* delivered with all of its recipients counted.                           *)
LEMMA ResetStep ==
  ASSUME NEW s \in Sessions, NEW q, NEW stage, NEW n \in Nat, CountInv,
         Reset(s, q), post' = [post EXCEPT ![s] = At(stage)], stage \notin Open,
         UNCHANGED cfg, delivered' \in Int, unparsed' \in Int,
         delivered' - unparsed' = (delivered - unparsed) + n,
         DOMAIN q = DOMAIN quota, q.counted = quota.counted + n, q.reserved = quota.reserved,
         n <= tx[s].reservation
  PROVE  CountInv'
<1>1. /\ DOMAIN tx' = Sessions /\ tx'[s] = Blank
      /\ DOMAIN post' = Sessions /\ post'[s] = At(stage)
      /\ \A u \in Sessions \ {s} : tx'[u] = tx[u] /\ post'[u] = post[u]
  BY Facts DEF Reset
<1>3. /\ DOMAIN quota' = {"counted", "reserved"} /\ quota'.counted = quota.counted + n
      /\ quota'.reserved = quota.reserved - tx[s].reservation
  BY Facts DEF Reset
<1>4. PlaceOk(s)'
  BY <1>1, BlankRecord DEF PlaceOk
<1>5. 0 \in 0 .. MaxGiven /\ MaxGiven \in Nat
  BY SessionAssumption
<1>6. <<>> \in Seq(Recipients) /\ Len(<<>>) = 0
  OBVIOUS
<1>7. quota'.counted \in Nat /\ quota'.counted = delivered' - unparsed'
  BY <1>3, Facts
<1>8. quota'.reserved = quota.reserved - tx[s].reservation + 0
  BY <1>3, Facts
<1>9. Enforces("sending_limits") => quota'.counted + quota'.reserved <= Limit
  <2>1. /\ quota.counted \in Nat /\ quota.reserved \in Int /\ tx[s].reservation \in Nat
        /\ Enforces("sending_limits") => quota.counted + quota.reserved <= Limit
    BY Facts
  <2> QED  BY <1>3, <2>1, SessionAssumption
<1>10. DOMAIN tx'[s] = DOMAIN Blank /\ tx'[s].reservation = 0 /\ Refusals(tx'[s].deferred)
  BY <1>1, BlankRecord
<1>11. DOMAIN post'[s] = {"stage", "envelope", "content"} /\ post'[s].envelope = <<>>
  BY <1>1, BlankRecord
<1>12. post'[s].envelope \in Seq(Recipients) /\ Len(post'[s].envelope) <= MaxGiven
  <2>1. post'[s].envelope \in Seq(Recipients) /\ Len(post'[s].envelope) = 0
    BY <1>6, <1>11, Zenon
  <2> QED  BY <1>5, <2>1
<1> QED  BY <1>1, <1>3, <1>4, <1>5, <1>7, <1>8, <1>9, <1>10, <1>11, <1>12, SessionStep

(* The answer to the end of a message: only one whose recipients all have  *)
(* their place is delivered.                                               *)
LEMMA FinishStep ==
  ASSUME NEW s \in Sessions, NEW ds, CountInv, Finish(s, ds), post[s].stage \in Open,
         Refusals(ds), tx[s].deferred \subseteq ds
  PROVE  CountInv'
<1> DEFINE accepts == ~Enforced(cfg, Effective(cfg, ds))
           q == IF accepts THEN [quota EXCEPT !.counted = quota.counted + tx[s].reservation]
                ELSE quota
           stage == IF accepts THEN "sent" ELSE "failed"
<1>1. /\ Reset(s, q) /\ post' = [post EXCEPT ![s] = At(stage)] /\ UNCHANGED cfg
      /\ accepts => Delivers(s)
      /\ ~accepts => UNCHANGED <<delivered, unparsed>>
  BY DEF Finish
<1>2. stage \notin Open
  BY DEF Open
<1>3. accepts => \A d \in tx[s].deferred : ~Enforced(cfg, d)
  BY EffectiveEnforces
<1>4. /\ tx[s].reservation \in Nat /\ delivered \in Int /\ unparsed \in Int
      /\ Len(post[s].envelope) \in Nat
  BY Facts
<1>5. CASE accepts
  <2>1. /\ delivered' \in Int /\ unparsed' \in Int
        /\ delivered' - unparsed' = (delivered - unparsed) + tx[s].reservation
    <3>1. CASE Limited(tx[s].origin)
      <4>1. tx[s].reservation = Parsed(s)
        BY <1>3, <1>5, <3>1, Facts DEF PlaceOk
      <4> QED  BY <1>1, <1>4, <1>5, <3>1, <4>1 DEF Delivers
    <3>2. CASE ~Limited(tx[s].origin)
      BY <1>1, <1>4, <1>5, <3>2, Facts DEF PlaceOk, Delivers
    <3> QED  BY <3>1, <3>2
  <2>2. /\ DOMAIN q = DOMAIN quota /\ q.counted = quota.counted + tx[s].reservation
        /\ q.reserved = quota.reserved
    BY <1>5, Facts
  <2>3. tx[s].reservation <= tx[s].reservation
    BY <1>4
  <2> HIDE DEF accepts, q, stage
  <2> QED  BY <1>1, <1>2, <1>4, <2>1, <2>2, <2>3, ResetStep
<1>6. CASE ~accepts
  <2>1. /\ delivered' \in Int /\ unparsed' \in Int
        /\ delivered' - unparsed' = (delivered - unparsed) + 0
        /\ 0 \in Nat /\ 0 <= tx[s].reservation
    BY <1>1, <1>4, <1>6
  <2>2. q = quota /\ quota.counted = quota.counted + 0
    BY <1>6, Facts
  <2> HIDE DEF accepts, q, stage
  <2> QED  BY <1>1, <1>2, <2>1, <2>2, ResetStep
<1> QED  BY <1>5, <1>6

(* What a message is decided on includes the refusals that wait.           *)
LEMMA RulesWait ==
  ASSUME NEW s \in Sessions, CountInv
  PROVE  Refusals(Rules(s)) /\ tx[s].deferred \subseteq Rules(s)
BY Facts, MessageActions DEF Rules

(* A message that is aborted or fails counts nothing.                      *)
LEMMA DropStep ==
  ASSUME NEW s \in Sessions, NEW stage, CountInv, Reset(s, quota), stage \notin Open,
         post' = [post EXCEPT ![s] = At(stage)], UNCHANGED <<cfg, delivered, unparsed>>
  PROVE  CountInv'
<1>1. /\ quota.counted = quota.counted + 0 /\ delivered' \in Int /\ unparsed' \in Int
      /\ delivered' - unparsed' = (delivered - unparsed) + 0
  BY Facts
<1>2. 0 \in Nat /\ 0 <= tx[s].reservation
  BY Facts
<1> QED  BY <1>1, <1>2, ResetStep

(* A step that only moves a message on.                                    *)
LEMMA StageStep ==
  ASSUME NEW s \in Sessions, CountInv, UNCHANGED <<cfg, tx, quota, delivered, unparsed>>,
         DOMAIN post' = Sessions, \A u \in Sessions \ {s} : post'[u] = post[u],
         DOMAIN post'[s] = DOMAIN post[s], post'[s].envelope = post[s].envelope,
         post[s].stage \in Open, post'[s].stage \in Open
  PROVE  CountInv'
<1>1. PlaceOk(s)'
  BY Facts DEF PlaceOk, Parsed, IsPickup, Limited
<1>2. quota'.reserved = quota.reserved - tx[s].reservation + tx'[s].reservation
  BY Facts
<1> QED  BY <1>1, <1>2, Facts, SessionStep

(* MAIL begins with no recipient and no place.                             *)
LEMMA MailStep ==
  ASSUME NEW s \in Sessions, NEW o, NEW sender, CountInv, Mail(s, o, sender)
  PROVE  CountInv'
<1> DEFINE decision == Decision("defer", "limits", NeedsMessage(cfg, o))
           noSlot   == Bounded /\ openFree = 0
           refused  == noSlot /\ Trust(o) # "local_pickup" /\ Enforced(cfg, decision)
           waiting  == IF noSlot /\ ~refused THEN {decision} ELSE {}
           next     == [Blank EXCEPT !.origin = o, !.sender = sender, !.capture = ~noSlot,
                                     !.holds_slot = Bounded /\ ~noSlot, !.deferred = waiting]
           stage    == IF refused THEN "idle" ELSE "rcpt"
<1>1. /\ post[s].stage = "mail" /\ tx' = [tx EXCEPT ![s] = next]
      /\ post' = [post EXCEPT ![s] = At(stage)]
      /\ UNCHANGED <<cfg, quota, delivered, unparsed>>
  BY DEF Mail, history
<1>2. DOMAIN next = DOMAIN Blank /\ next.reservation = 0 /\ next.deferred = waiting
  BY DEF Blank
<1>3. Refusals(waiting)
  BY DecisionActions DEF Refusals
<1> HIDE DEF next, waiting, stage
<1>4. /\ DOMAIN tx' = Sessions /\ tx'[s] = next /\ DOMAIN post' = Sessions /\ post'[s] = At(stage)
      /\ \A u \in Sessions \ {s} : tx'[u] = tx[u] /\ post'[u] = post[u]
  BY <1>1, Facts
<1>5. tx[s].reservation = 0
  BY <1>1, Facts DEF PlaceOk, Open
<1>6. <<>> \in Seq(Recipients) /\ Len(<<>>) = 0
  OBVIOUS
<1>7. /\ DOMAIN post'[s] = {"stage", "envelope", "content"} /\ post'[s].envelope = <<>>
      /\ post'[s].envelope \in Seq(Recipients) /\ Len(post'[s].envelope) = 0
  BY <1>4, <1>6, BlankRecord, Zenon
<1>8. PlaceOk(s)'
  <2>1. Parsed(s)' = Cardinality(OkAt(post'[s].envelope))
    BY DEF Parsed, OkAt
  <2>2. Parsed(s)' = 0
    BY <1>7, <2>1, NothingParsed
  <2> QED  BY <1>2, <1>4, <2>2 DEF PlaceOk
<1>9. 0 \in 0 .. MaxGiven /\ Len(post'[s].envelope) <= MaxGiven
  BY <1>7, SessionAssumption
<1>10. quota'.reserved = quota.reserved - tx[s].reservation + tx'[s].reservation
  BY <1>1, <1>2, <1>4, <1>5, Facts
<1> QED  BY <1>1, <1>2, <1>3, <1>4, <1>7, <1>8, <1>9, <1>10, Facts, SessionStep

(* The rules and the limit for one recipient, in a session of the origin o *)
(* (envrcpt, _reserve): an accepted one has its place, unless pickup could *)
(* not refuse it, and an enforced limit gives no place beyond it.          *)
LEMMA RecipientPlace ==
  ASSUME NEW s \in Sessions, NEW r \in Recipients, NEW rules, rules.action \in Actions,
         cfg.mode["sending_limits"] \in Modes, NEW decision, decision = Limiting(s, r, rules),
         NEW place, place = IF /\ Reserves(s, r, rules)
                               /\ AtLimit => cfg.mode["sending_limits"] = "observe"
                            THEN 1 ELSE 0
  PROVE  /\ decision.action \in Actions
         /\ place \in {0, 1}
         /\ place = 1 => r.ok /\ Limited(tx[s].origin) /\ ~Enforced(cfg, decision)
         /\ place = 0 /\ r.ok /\ Limited(tx[s].origin) => Enforced(cfg, decision)
         /\ place = 1 /\ Enforces("sending_limits") => ~AtLimit
<1> DEFINE limit == Defer("sending_limit")
<1>1. limit.action \in Actions /\ limit.action = "defer"
  BY DecisionActions DEF Defer, Decision
<1>2. Enforced(cfg, limit) <=> cfg.mode["sending_limits"] = "enforce"
  BY DEF Enforced, ModeOf, RuleMode, Section, Defer, Decision
<1> HIDE DEF limit
<1>3. Limited(tx[s].origin) => cfg.mode["sending_limits"] \in {"observe", "enforce"}
  BY DEF Limited, Modes
<1>4. CASE Reserves(s, r, rules) /\ AtLimit
  <2>1. decision = Effective(cfg, {rules, limit})
    BY <1>4 DEF Limiting, limit
  <2>2. Refusals({rules, limit})
    BY <1>1 DEF Refusals
  <2>3. /\ decision.action \in Actions
        /\ Enforced(cfg, decision) <=> Enforced(cfg, rules) \/ Enforced(cfg, limit)
    BY <2>1, <2>2, EffectiveEnforces
  <2> QED  BY <1>2, <1>3, <1>4, <2>3 DEF Reserves, Enforces
<1>5. CASE ~(Reserves(s, r, rules) /\ AtLimit)
  <2>1. decision = rules
    BY <1>5 DEF Limiting
  <2> QED  BY <1>5, <2>1 DEF Reserves
<1> QED  BY <1>4, <1>5

LEMMA RcptStep ==
  ASSUME NEW s \in Sessions, NEW r \in Recipients, CountInv, Rcpt(s, r)
  PROVE  CountInv'
<1> DEFINE t        == tx[s]
           rules    == RecipientDecision(cfg, t.origin, t.sender, r, Len(t.recipients))
           decision == Limiting(s, r, rules.decision)
           place    == IF /\ Reserves(s, r, rules.decision)
                          /\ AtLimit => cfg.mode["sending_limits"] = "observe"
                       THEN 1 ELSE 0
           waits    == decision.action # "allow" /\ IsPickup(s)
           kept     == IF rules.kept
                       THEN Append(t.recipients, [of |-> r, decision |-> decision])
                       ELSE t.recipients
           waiting  == IF waits THEN t.deferred \cup {decision} ELSE t.deferred
           refused  == Enforced(cfg, decision) /\ ~waits
           envelope == IF refused THEN post[s].envelope ELSE Append(post[s].envelope, r)
<1>1. /\ tx' = [tx EXCEPT ![s] = [t EXCEPT !.recipients = kept, !.deferred = waiting,
                                           !.reservation = t.reservation + place]]
      /\ quota' = [quota EXCEPT !.reserved = quota.reserved + place]
      /\ post' = IF refused THEN post ELSE [post EXCEPT ![s].envelope = envelope]
      /\ UNCHANGED <<cfg, delivered, unparsed>>
      /\ post[s].stage = "rcpt" /\ Len(post[s].envelope) < MaxGiven
  BY DEF Rcpt, history
<1>2. rules.decision.action \in Actions
  BY RecipientActions
<1>3. /\ decision.action \in Actions
      /\ place \in {0, 1}
      /\ place = 1 => r.ok /\ Limited(t.origin) /\ ~Enforced(cfg, decision)
      /\ place = 0 /\ r.ok /\ Limited(t.origin) => Enforced(cfg, decision)
      /\ place = 1 /\ Enforces("sending_limits") => ~AtLimit
  BY <1>2, Facts, RecipientPlace
<1>4. Refusals(waiting)
  BY <1>3, Facts DEF Refusals
<1>5. Enforced(cfg, decision) => decision.action # "allow"
  BY DEF Enforced
<1>6. IsPickup(s) => ~refused
  BY <1>5
<1>7. place = 1 => ~refused
  BY <1>3
<1>8. IsPickup(s) /\ Enforced(cfg, decision) => decision \in waiting
  BY <1>5
<1>9. ~IsPickup(s) => (refused <=> Enforced(cfg, decision))
  OBVIOUS
<1>10. t.deferred \subseteq waiting
  OBVIOUS
<1> HIDE DEF rules, decision, place, kept, waiting, refused
<1>11. /\ DOMAIN tx' = Sessions /\ DOMAIN post' = Sessions
       /\ \A u \in Sessions \ {s} : tx'[u] = tx[u] /\ post'[u] = post[u]
       /\ DOMAIN tx'[s] = DOMAIN Blank /\ tx'[s].reservation = t.reservation + place
       /\ tx'[s].deferred = waiting /\ tx'[s].origin = t.origin
  BY <1>1, Facts DEF Blank
<1>12. /\ DOMAIN post'[s] = {"stage", "envelope", "content"}
       /\ post'[s].stage = "rcpt" /\ post'[s].envelope = envelope
  BY <1>1, Facts
<1>13. /\ envelope \in Seq(Recipients) /\ Len(envelope) <= MaxGiven
  <2>1. /\ post[s].envelope \in Seq(Recipients) /\ Len(post[s].envelope) \in Nat
        /\ Len(post[s].envelope) < MaxGiven
    BY <1>1, Facts
  <2>2. /\ Append(post[s].envelope, r) \in Seq(Recipients)
        /\ Len(Append(post[s].envelope, r)) = Len(post[s].envelope) + 1
    BY <2>1
  <2> QED  BY <2>1, <2>2, SessionAssumption
<1>14. /\ Parsed(s) = Cardinality(OkAt(post[s].envelope))
       /\ Parsed(s)' = Cardinality(OkAt(envelope))
  BY <1>12 DEF Parsed, OkAt
<1>15. /\ Parsed(s) \in Nat
       /\ Parsed(s)' = IF ~refused /\ r.ok THEN Parsed(s) + 1 ELSE Parsed(s)
  BY <1>14, Facts, ParsedCounts
<1>16. Parsed(s)' <= MaxGiven
  BY <1>13, <1>14, ParsedCounts, SessionAssumption
<1> HIDE DEF envelope
<1>17. (IsPickup(s)' <=> IsPickup(s)) /\ (Limited(tx[s].origin)' <=> Limited(t.origin))
  BY <1>1, <1>11 DEF IsPickup, Limited
<1>18. PlaceOk(s) /\ t.reservation \in Nat /\ post[s].stage \in Open /\ post'[s].stage \in Open
  BY <1>1, <1>12, Facts DEF Open
<1>19. PlaceOk(s)' /\ t.reservation + place \in 0 .. MaxGiven
  <2>1. CASE ~Limited(t.origin)
    <3>1. t.reservation = 0 /\ place = 0
      BY <1>3, <1>18, <2>1 DEF PlaceOk
    <3>2. 0 \in 0 .. MaxGiven
      BY SessionAssumption
    <3> QED  BY <1>11, <1>17, <2>1, <3>1, <3>2 DEF PlaceOk
  <2>2. CASE Limited(t.origin) /\ t.reservation = Parsed(s)
    <3>1. CASE Parsed(s)' = t.reservation + place
      <4>1. t.reservation + place \in 0 .. MaxGiven
        BY <1>3, <1>16, <1>18, <3>1, SessionAssumption
      <4> QED  BY <1>11, <1>17, <1>18, <2>2, <3>1, <4>1 DEF PlaceOk
    <3>2. CASE Parsed(s)' # t.reservation + place
      <4>1. r.ok /\ ~refused /\ place = 0
        BY <1>3, <1>7, <1>15, <2>2, <3>2
      <4>2. Enforced(cfg, decision) /\ IsPickup(s)
        BY <1>3, <1>9, <2>2, <4>1
      <4>3. \E d \in tx'[s].deferred : Enforced(cfg', d)
        BY <1>1, <1>8, <1>11, <4>2
      <4>4. t.reservation + place < Parsed(s)' /\ t.reservation + place \in 0 .. MaxGiven
        BY <1>15, <1>16, <1>18, <2>2, <4>1, SessionAssumption
      <4> QED  BY <1>11, <1>17, <1>18, <2>2, <4>2, <4>3, <4>4 DEF PlaceOk
    <3> QED  BY <3>1, <3>2
  <2>3. CASE /\ Limited(t.origin) /\ t.reservation < Parsed(s) /\ IsPickup(s)
             /\ \E d \in t.deferred : Enforced(cfg, d)
    <3>1. \E d \in tx'[s].deferred : Enforced(cfg', d)
      BY <1>1, <1>10, <1>11, <2>3
    <3>2. t.reservation + place < Parsed(s)' /\ t.reservation + place \in 0 .. MaxGiven
      BY <1>3, <1>6, <1>15, <1>16, <1>18, <2>3, SessionAssumption
    <3> QED  BY <1>11, <1>17, <1>18, <2>3, <3>1, <3>2 DEF PlaceOk
  <2> QED  BY <1>18, <2>1, <2>2, <2>3 DEF PlaceOk
<1>20. /\ DOMAIN quota' = {"counted", "reserved"} /\ quota'.counted = quota.counted
       /\ quota'.reserved = quota.reserved - t.reservation + tx'[s].reservation
       /\ quota'.reserved = quota.reserved + place
  BY <1>1, <1>3, <1>11, <1>18, Facts
<1>21. Enforces("sending_limits") => quota'.counted + quota'.reserved <= Limit
  BY <1>3, <1>20, Facts, SessionAssumption DEF AtLimit
<1> QED  BY <1>1, <1>4, <1>11, <1>12, <1>13, <1>19, <1>20, <1>21, Facts, SessionStep
-----------------------------------------------------------------------------
LEMMA InitCount == Init => CountInv
<1> SUFFICES ASSUME Init PROVE CountInv
  OBVIOUS
<1>1. <<>> \in Seq(Recipients) /\ Len(<<>>) = 0 /\ 0 \in 0 .. MaxGiven /\ MaxGiven \in Nat
  BY SessionAssumption
<1>2. \A s \in Sessions : /\ tx[s] = Blank /\ post[s] = At("closed")
                          /\ post[s].envelope \in Seq(Recipients)
                          /\ Len(post[s].envelope) <= MaxGiven
  <2>1. \A s \in Sessions : tx[s] = Blank /\ post[s] = At("closed")
    BY DEF Init
  <2>2. At("closed").envelope \in Seq(Recipients) /\ Len(At("closed").envelope) = 0
    BY <1>1, BlankRecord, Zenon
  <2> QED  BY <1>1, <2>1, <2>2
<1>3. Shape
  BY <1>1, <1>2, BlankRecord DEF Init, Shape
<1>4. PlacesOf(Reservations) = {}
  BY <1>2, BlankRecord DEF PlacesOf, Reservations
<1>5. Counted
  BY <1>4, FS_EmptySet, SessionAssumption DEF Init, Counted
<1>6. \A s \in Sessions : PlaceOk(s)
  BY <1>2, BlankRecord DEF PlaceOk, Open
<1> QED  BY <1>3, <1>5, <1>6 DEF CountInv

LEMMA NextCount == CountInv /\ [Next]_vars => CountInv'
<1> SUFFICES ASSUME CountInv, [Next]_vars PROVE CountInv'
  OBVIOUS
<1>1. CASE Next
  <2>1. PICK s \in Sessions :
          \/ Connect(s) \/ MailReset(s)
          \/ \E o \in Origins, f \in Senders : Mail(s, o, f)
          \/ \E r \in Recipients : Rcpt(s, r)
          \/ \E c \in Contents : Data(s, c)
          \/ SpoolFails(s) \/ EndOfMessage(s)
          \/ AcquireSlot(s) \/ SlotTimeout(s) \/ Verified(s) \/ VerifyRaises(s)
          \/ Abort(s) \/ Close(s)
    BY <1>1 DEF Next
  <2>2. CASE \E o \in Origins, f \in Senders : Mail(s, o, f)
    BY <2>2, MailStep
  <2>3. CASE \E r \in Recipients : Rcpt(s, r)
    BY <2>3, RcptStep
  <2>4. CASE MailReset(s) \/ VerifyRaises(s) \/ Abort(s) \/ Close(s)
    <3>1. PICK stage \in {"mail", "idle", "closed"} :
            Reset(s, quota) /\ post' = [post EXCEPT ![s] = At(stage)]
      BY <2>4 DEF MailReset, VerifyRaises, Abort, Close
    <3>2. UNCHANGED <<cfg, delivered, unparsed>>
      BY <2>4 DEF MailReset, VerifyRaises, Abort, Close, history
    <3> QED  BY <3>1, <3>2, DropStep DEF Open
  <2>5. CASE \/ (\E c \in Contents : Data(s, c)) \/ SpoolFails(s) \/ AcquireSlot(s)
             \/ EndOfMessage(s) /\ MustAuthenticate(s)
    <3>1. /\ UNCHANGED <<cfg, tx, quota, delivered, unparsed>>
          /\ post[s].stage \in {"rcpt", "data", "wait"}
          /\ post'[s].stage \in {"data", "broken", "wait", "verify"}
          /\ DOMAIN post' = Sessions /\ DOMAIN post'[s] = DOMAIN post[s]
          /\ post'[s].envelope = post[s].envelope
          /\ \A u \in Sessions \ {s} : post'[u] = post[u]
      BY <2>5, Facts DEF Data, SpoolFails, AcquireSlot, EndOfMessage, history
    <3> QED  BY <3>1, StageStep DEF Open
  <2>6. CASE EndOfMessage(s) /\ ~MustAuthenticate(s)
    <3>1. post[s].stage \in Open /\ Finish(s, Rules(s))
      BY <2>6 DEF EndOfMessage, Open
    <3> QED  BY <3>1, RulesWait, FinishStep
  <2>7. CASE SlotTimeout(s)
    <3>1. post[s].stage \in Open /\ Finish(s, Rules(s) \cup {NoSlot(s)})
      BY <2>7 DEF SlotTimeout, Open
    <3>2. Refusals(Rules(s) \cup {NoSlot(s)})
      BY RulesWait, DecisionActions DEF Refusals, NoSlot
    <3> QED  BY <3>1, <3>2, RulesWait, FinishStep
  <2>8. CASE Verified(s)
    <3>1. PICK d : /\ d.action \in Actions /\ post[s].stage \in Open
                   /\ Finish(s, Rules(s) \cup {d})
      BY <2>8, AuthenticationActions DEF Verified, Open
    <3>2. Refusals(Rules(s) \cup {d})
      BY <3>1, RulesWait DEF Refusals
    <3> QED  BY <3>1, <3>2, RulesWait, FinishStep
  <2>9. CASE Connect(s)
    <3>1. /\ post[s].stage = "closed" /\ post' = [post EXCEPT ![s] = At("idle")]
          /\ UNCHANGED <<cfg, tx, quota, delivered, unparsed>>
      BY <2>9 DEF Connect, history
    <3>2. tx[s].reservation = 0
      BY <3>1, Facts DEF PlaceOk, Open
    <3>3. /\ DOMAIN post' = Sessions /\ post'[s] = At("idle")
          /\ \A u \in Sessions \ {s} : tx'[u] = tx[u] /\ post'[u] = post[u]
      BY <3>1, Facts
    <3>4. <<>> \in Seq(Recipients) /\ Len(<<>>) = 0
      OBVIOUS
    <3>5. /\ DOMAIN post'[s] = {"stage", "envelope", "content"} /\ post'[s].stage = "idle"
          /\ post'[s].envelope \in Seq(Recipients) /\ Len(post'[s].envelope) = 0
      BY <3>3, <3>4, BlankRecord, Zenon
    <3>6. Len(post'[s].envelope) <= MaxGiven
      BY <3>5, SessionAssumption
    <3>7. PlaceOk(s)'
      BY <3>1, <3>2, <3>5 DEF PlaceOk, Open
    <3>8. quota'.reserved = quota.reserved - tx[s].reservation + tx'[s].reservation
      BY <3>1, <3>2, Facts
    <3> QED  BY <3>1, <3>3, <3>5, <3>6, <3>7, <3>8, Facts, SessionStep
  <2> QED  BY <2>1, <2>2, <2>3, <2>4, <2>5, <2>6, <2>7, <2>8, <2>9
<1>2. CASE UNCHANGED vars
  BY <1>2 DEF vars, CountInv, Shape, Counted, Reservations, Enforces, PlaceOk, Parsed, IsPickup,
              Limited
<1> QED  BY <1>1, <1>2

(* The store reserves one place for each parsed recipient of a limited     *)
(* message Postfix still has, but for those pickup could not refuse        *)
(* (_reserve, _reset_message).                                             *)
THEOREM PlacesFollowRecipients == Spec => []PlacesAreRecipients
<1>1. CountInv => PlacesAreRecipients
  <2> SUFFICES ASSUME CountInv PROVE PlacesAreRecipients
    OBVIOUS
  <2>1. PlacesOf(Reservations) =
          {u \in Sessions \X (1 .. MaxGiven) : u[2] <= tx[u[1]].reservation}
    BY DEF PlacesOf, Reservations
  <2>2. \A s \in Sessions : tx[s].reservation \in Int /\ Parsed(s) \in Int
    <3> SUFFICES ASSUME NEW s \in Sessions PROVE tx[s].reservation \in Int /\ Parsed(s) \in Int
      OBVIOUS
    <3>1. post[s].envelope \in Seq(Recipients) /\ tx[s].reservation \in Nat
      BY Facts
    <3>2. IsFiniteSet(OkAt(post[s].envelope))
      <4>1. OkAt(post[s].envelope) \in SUBSET (1 .. Len(post[s].envelope))
        BY <3>1 DEF OkAt
      <4>2. IsFiniteSet(1 .. Len(post[s].envelope))
        BY <3>1, UpTo
      <4> QED  BY <4>1, <4>2, FS_Subset
    <3>3. Parsed(s) = Cardinality(OkAt(post[s].envelope))
      BY DEF Parsed, OkAt
    <3> QED  BY <3>1, <3>2, <3>3, FS_CardinalityType
  <2> QED  BY <2>1, <2>2 DEF CountInv, Counted, PlaceOk, Open, PlacesAreRecipients
<1> QED  BY <1>1, InitCount, NextCount, PTL DEF Spec
-----------------------------------------------------------------------------
(* What the two invariants leave of the shape of the state.                *)
Stages == Calm \cup {"closed", "mail", "rcpt", "data", "wait", "verify", "broken"}

Typed ==
  /\ quota \in [counted : Int, reserved : Int]
  /\ \A s \in Sessions : post[s].stage \in Stages /\ tx[s].capture \in BOOLEAN

TypeInv == SlotInv /\ CountInv /\ Typed

LEMMA BlankTyped == Blank.capture = FALSE
BY DEF Blank

LEMMA ResetTyped ==
  ASSUME NEW s \in Sessions, CountInv, NEW q \in [counted : Int, reserved : Int],
         NEW stage \in Stages, Reset(s, q), post' = [post EXCEPT ![s] = At(stage)]
  PROVE  /\ quota' \in [counted : Int, reserved : Int]
         /\ post'[s].stage \in Stages /\ tx'[s].capture \in BOOLEAN
         /\ \A u \in Sessions \ {s} : tx'[u] = tx[u] /\ post'[u] = post[u]
<1>1. tx[s].reservation \in Int
  BY Facts
<1>2. quota' = [q EXCEPT !.reserved = q.reserved - tx[s].reservation]
  BY DEF Reset
<1>3. quota' \in [counted : Int, reserved : Int]
  BY <1>1, <1>2
<1>4. tx'[s] = Blank /\ post'[s] = At(stage)
      /\ \A u \in Sessions \ {s} : tx'[u] = tx[u] /\ post'[u] = post[u]
  BY Facts DEF Reset
<1> QED  BY <1>3, <1>4, BlankTyped, BlankRecord

LEMMA InitTyped == Init => TypeInv
<1> SUFFICES ASSUME Init PROVE TypeInv
  OBVIOUS
<1>1. \A s \in Sessions : post[s].stage = "closed" /\ tx[s].capture = FALSE
  BY BlankTyped, BlankRecord DEF Init
<1>2. quota \in [counted : Int, reserved : Int]
  BY DEF Init
<1> QED  BY <1>1, <1>2, InitSlots, InitCount DEF TypeInv, Typed, Stages

LEMMA NextTyped == TypeInv /\ [Next]_vars => TypeInv'
<1> SUFFICES ASSUME TypeInv, [Next]_vars PROVE TypeInv'
  OBVIOUS
<1>1. CountInv /\ Typed /\ CountInv' /\ SlotInv'
  BY NextSlots, NextCount DEF TypeInv
<1>2. CASE Next
  <2>1. PICK s \in Sessions :
          \/ Connect(s) \/ MailReset(s)
          \/ \E o \in Origins, f \in Senders : Mail(s, o, f)
          \/ \E r \in Recipients : Rcpt(s, r)
          \/ \E c \in Contents : Data(s, c)
          \/ SpoolFails(s) \/ EndOfMessage(s)
          \/ AcquireSlot(s) \/ SlotTimeout(s) \/ Verified(s) \/ VerifyRaises(s)
          \/ Abort(s) \/ Close(s)
    BY <1>2 DEF Next
  <2> DEFINE Goal == /\ quota' \in [counted : Int, reserved : Int]
                     /\ post'[s].stage \in Stages /\ tx'[s].capture \in BOOLEAN
                     /\ \A u \in Sessions \ {s} : tx'[u] = tx[u] /\ post'[u] = post[u]
  <2>2. ASSUME NEW o, NEW f, Mail(s, o, f) PROVE Goal
    <3>1. \E stage \in {"idle", "rcpt"} : post' = [post EXCEPT ![s] = At(stage)]
      BY <2>2 DEF Mail
    <3>2. post'[s].stage \in Stages /\ \A u \in Sessions \ {s} : post'[u] = post[u]
      BY <1>1, <3>1, Facts, BlankRecord DEF Stages, Calm
    <3>3. PICK waiting : tx' = [tx EXCEPT ![s] =
                 [Blank EXCEPT !.origin = o, !.sender = f,
                               !.capture = ~(Bounded /\ openFree = 0),
                               !.holds_slot = Bounded /\ ~(Bounded /\ openFree = 0),
                               !.deferred = waiting]]
      BY <2>2 DEF Mail
    <3>4. tx'[s].capture \in BOOLEAN /\ \A u \in Sessions \ {s} : tx'[u] = tx[u]
      BY <1>1, <3>3, Facts DEF Blank
    <3>5. quota' \in [counted : Int, reserved : Int]
      BY <1>1, <2>2 DEF Mail, Typed
    <3> QED  BY <3>2, <3>4, <3>5
  <2>3. ASSUME NEW r \in Recipients, Rcpt(s, r) PROVE Goal
    <3> DEFINE rules    == RecipientDecision(cfg, tx[s].origin, tx[s].sender, r,
                                             Len(tx[s].recipients))
               decision == Limiting(s, r, rules.decision)
               place    == IF /\ Reserves(s, r, rules.decision)
                              /\ AtLimit => cfg.mode["sending_limits"] = "observe"
                           THEN 1 ELSE 0
               kept     == IF rules.kept
                           THEN Append(tx[s].recipients, [of |-> r, decision |-> decision])
                           ELSE tx[s].recipients
               waits    == decision.action # "allow" /\ IsPickup(s)
               waiting  == IF waits THEN tx[s].deferred \cup {decision} ELSE tx[s].deferred
               refused  == Enforced(cfg, decision) /\ ~waits
    <3>1. /\ tx' = [tx EXCEPT ![s] =
               [tx[s] EXCEPT !.recipients = kept, !.deferred = waiting,
                             !.reservation = tx[s].reservation + place]]
          /\ quota' = [quota EXCEPT !.reserved = quota.reserved + place]
          /\ post' = IF refused THEN post
                     ELSE [post EXCEPT ![s].envelope = Append(post[s].envelope, r)]
          /\ place \in {0, 1}
      BY <2>3 DEF Rcpt
    <3> HIDE DEF rules, decision, place, kept, waits, waiting, refused
    <3>2. tx'[s].capture = tx[s].capture /\ \A u \in Sessions \ {s} : tx'[u] = tx[u]
      BY <1>1, <3>1, Facts DEF Blank
    <3>3. post'[s].stage = post[s].stage /\ \A u \in Sessions \ {s} : post'[u] = post[u]
      BY <1>1, <3>1, Facts
    <3>4. quota' \in [counted : Int, reserved : Int]
      BY <1>1, <3>1 DEF Typed
    <3> QED  BY <1>1, <3>2, <3>3, <3>4 DEF Typed
  <2>4. ASSUME \/ MailReset(s) \/ VerifyRaises(s) \/ Abort(s) \/ Close(s) PROVE Goal
    <3>1. PICK stage \in Stages : Reset(s, quota) /\ post' = [post EXCEPT ![s] = At(stage)]
      BY <2>4 DEF MailReset, VerifyRaises, Abort, Close, Stages, Calm
    <3> QED  BY <1>1, <3>1, ResetTyped DEF Typed
  <2>5. ASSUME NEW ds, Finish(s, ds) PROVE Goal
    <3> DEFINE accepts == ~Enforced(cfg, Effective(cfg, ds))
               stage   == IF accepts THEN "sent" ELSE "failed"
               q       == IF accepts
                          THEN [quota EXCEPT !.counted = quota.counted + tx[s].reservation]
                          ELSE quota
    <3>1. /\ post' = [post EXCEPT ![s] = At(stage)] /\ Reset(s, q)
          /\ stage \in Stages
      BY <2>5 DEF Finish, Stages, Calm
    <3>2. tx[s].reservation \in Int
      BY <1>1, Facts
    <3>3. q \in [counted : Int, reserved : Int]
      BY <1>1, <3>2 DEF Typed
    <3> HIDE DEF accepts, stage, q
    <3> QED  BY <1>1, <3>1, <3>3, ResetTyped
  <2>6. ASSUME \/ Connect(s) \/ (\E c \in Contents : Data(s, c)) \/ SpoolFails(s)
               \/ AcquireSlot(s) \/ (EndOfMessage(s) /\ MustAuthenticate(s))
        PROVE  Goal
    <3>1. /\ UNCHANGED <<tx, quota>> /\ post'[s].stage \in Stages
          /\ \A u \in Sessions \ {s} : post'[u] = post[u]
      <4>1. CASE Connect(s)
        BY <1>1, <4>1, Facts, BlankRecord DEF Connect, Stages, Calm
      <4>2. CASE \E c \in Contents : Data(s, c)
        BY <1>1, <4>2, Facts DEF Data, Stages
      <4>3. CASE SpoolFails(s) \/ AcquireSlot(s) \/ (EndOfMessage(s) /\ MustAuthenticate(s))
        BY <1>1, <4>3, Facts DEF SpoolFails, AcquireSlot, EndOfMessage, Stages
      <4> QED  BY <2>6, <4>1, <4>2, <4>3
    <3> QED  BY <1>1, <3>1 DEF Typed
  <2>7. (EndOfMessage(s) /\ ~MustAuthenticate(s)) \/ SlotTimeout(s) \/ Verified(s)
          => \E ds : Finish(s, ds)
    BY DEF EndOfMessage, SlotTimeout, Verified
  <2>8. Goal
    <3> HIDE DEF Goal
    <3> QED  BY <2>1, <2>2, <2>3, <2>4, <2>5, <2>6, <2>7
  <2> QED  BY <1>1, <2>8 DEF TypeInv, Typed
<1>3. CASE UNCHANGED vars
  BY <1>1, <1>3 DEF vars, TypeInv, Typed
<1> QED  BY <1>2, <1>3

(* The state keeps its shape, and no more slots or places than there are   *)
(* are ever free or reserved (PolicyMilter, TransactionState, configure).  *)
THEOREM MilterTypeCorrect == Spec => []MilterTypeOK
<1>1. TypeInv => MilterTypeOK
  <2> SUFFICES ASSUME TypeInv PROVE MilterTypeOK
    OBVIOUS
  <2>1. openFree \in 0 .. MaxOpen /\ verifyFree \in 0 .. MaxVerify
    BY SlotBounds DEF TypeInv
  <2>2. Cardinality(PlacesOf(Reservations)) \in Nat
    BY PlacesFinite
  <2>3. quota \in [counted : Nat, reserved : Nat]
    BY <2>2 DEF TypeInv, Typed, CountInv, Counted, Shape
  <2>4. cfg.mode \in [Sections -> Modes]
    BY SessionAssumption DEF TypeInv, CountInv, Shape
  <2>5. \A s \in Sessions : tx[s].holds_slot \in BOOLEAN
    BY DEF TypeInv, SlotInv, SlotShape
  <2> QED  BY <2>1, <2>3, <2>4, <2>5
           DEF TypeInv, Typed, CountInv, Shape, Stages, MilterTypeOK
<1> QED  BY <1>1, InitTyped, NextTyped, PTL DEF Spec
=============================================================================
