----------------------------- MODULE SendingLimit -----------------------------
(***************************************************************************)
(* What enforced sending limits promise, without buckets, a store or a     *)
(* sweep: a recipient is granted a place only while the recipients         *)
(* delivered in the rolling span and the places still held leave room, a   *)
(* place is delivered or given back exactly once, and nothing else happens *)
(* to it.  A grant may be refused for any reason.                          *)
(***************************************************************************)
EXTENDS Integers, FiniteSets

CONSTANTS LimitKeys, LocalLimit, Messages, Span, MaxRecipients

VARIABLES
  owner,  \* the limit key of each message that is limited
  held,   \* the places of each message: [keyed, local]
  open,   \* the messages that are neither delivered nor given up
  done,   \* when each delivered message was delivered
  clock

vars == <<owner, held, open, done, clock>>

Spans == {"hour", "day"}

Live(s) == open \cup {m \in DOMAIN done : done[m] >= clock - Span[s]}

KeyPlaces(text, s) ==
  Cardinality({u \in Live(s) \X (1 .. MaxRecipients) :
                 owner[u[1]].text = text /\ u[2] <= held[u[1]].keyed})
LocalPlaces(s) ==
  Cardinality({u \in Live(s) \X (1 .. MaxRecipients) : u[2] <= held[u[1]].local})

Init ==
  /\ owner = [m \in {} |-> 0]
  /\ held = [m \in {} |-> 0]
  /\ open = {}
  /\ done = [m \in {} |-> 0]
  /\ clock = 0

Tick == clock' = clock + 1 /\ UNCHANGED <<owner, held, open, done>>

Start(m, k) ==
  /\ m \notin DOMAIN owner
  /\ owner' = [x \in DOMAIN owner \cup {m} |-> IF x = m THEN k ELSE owner[x]]
  /\ held' = [x \in DOMAIN owner \cup {m} |->
                IF x = m THEN [keyed |-> 0, local |-> 0] ELSE held[x]]
  /\ open' = open \cup {m}
  /\ UNCHANGED <<done, clock>>

Grant(m) ==
  /\ m \in open
  /\ \A s \in Spans : KeyPlaces(owner[m].text, s) < owner[m].limit[s]
  /\ owner[m].local => \A s \in Spans : LocalPlaces(s) < LocalLimit[s]
  /\ held' = [held EXCEPT ![m] =
                [keyed |-> @.keyed + 1,
                 local |-> IF owner[m].local THEN @.local + 1 ELSE @.local]]
  /\ UNCHANGED <<owner, open, done, clock>>

Deliver(m, t) ==
  /\ m \in open /\ t <= clock
  /\ open' = open \ {m}
  /\ done' = [x \in DOMAIN done \cup {m} |-> IF x = m THEN t ELSE done[x]]
  /\ UNCHANGED <<owner, held, clock>>

GiveUp(m) ==
  /\ m \in open
  /\ open' = open \ {m}
  /\ UNCHANGED <<owner, held, done, clock>>

Next ==
  \/ Tick
  \/ \E m \in Messages :
       \/ \E k \in LimitKeys : Start(m, k)
       \/ Grant(m)
       \/ \E t \in 0 .. clock : Deliver(m, t)
       \/ GiveUp(m)

Spec == Init /\ [][Next]_vars
=============================================================================
