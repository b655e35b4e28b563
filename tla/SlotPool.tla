------------------------------ MODULE SlotPool ------------------------------
(***************************************************************************)
(* What the session pool promises, whatever memory does: a set of free     *)
(* slots kept in one perfect place.  A slot is handed to one connection at *)
(* a time and comes back when that connection closes; a slot whose session *)
(* record is broken may be dropped instead of being handed out; the pool   *)
(* as a whole may be lost, and then it hands out nothing any more.         *)
(***************************************************************************)
EXTENDS FiniteSets

CONSTANT Slots

VARIABLES
  free,    \* slots a connection may get
  held,    \* slots that belong to a connection
  broken,  \* slots whose session record has lost its majority
  up       \* the pool is not lost

vars == <<free, held, broken, up>>

Init ==
  /\ free = Slots
  /\ held = {}
  /\ broken = {}
  /\ up = TRUE

\* One search: broken slots it meets are dropped, the slot it ends with is
\* handed out.
Acquire(s, dropped) ==
  /\ up
  /\ s \in free \ broken
  /\ dropped \subseteq free \cap broken
  /\ free' = free \ (dropped \cup {s})
  /\ held' = held \cup {s}
  /\ UNCHANGED <<broken, up>>

\* A search that meets broken slots only.
Exhaust ==
  /\ up
  /\ free \subseteq broken
  /\ free' = {}
  /\ UNCHANGED <<held, broken, up>>

\* A connection closes: its record is written anew and its slot is free again,
\* unless the pool is lost.
Release(s) ==
  /\ s \in held
  /\ held' = held \ {s}
  /\ broken' = broken \ {s}
  /\ free' = IF up THEN free \cup {s} ELSE free
  /\ UNCHANGED up

\* The pool is lost.
Lose ==
  /\ free' = {} /\ up' = FALSE
  /\ UNCHANGED <<held, broken>>

\* A connection ends and its slot stays behind.
Abandon(s) ==
  /\ s \in held
  /\ held' = held \ {s}
  /\ UNCHANGED <<free, broken, up>>

\* A session record loses its majority, or records are written anew.
Break(s) ==
  /\ broken' = broken \cup {s}
  /\ UNCHANGED <<free, held, up>>

Heal ==
  /\ broken' = {}
  /\ UNCHANGED <<free, held, up>>

Next ==
  \/ \E s \in free : \E dropped \in SUBSET free : Acquire(s, dropped)
  \/ Exhaust
  \/ \E s \in held : Release(s) \/ Abandon(s)
  \/ Lose
  \/ \E s \in Slots : Break(s)
  \/ Heal

Spec == Init /\ [][Next]_vars
=============================================================================
