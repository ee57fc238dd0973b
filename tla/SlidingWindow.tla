---------------------------- MODULE SlidingWindow ----------------------------
(***************************************************************************)
(* What the rate limit promises, backend/core/rate_limit.py: "count +      *)
(* insert must be ONE transaction".  A request is let in or refused in a   *)
(* single step, by the number of hits in the window that ends when it      *)
(* came.  No hit is ever deleted, nobody has a lock, nothing is counted    *)
(* twice.  Of the hits whose own window ended while a request waited for   *)
(* its turn, any number may be left out.                                   *)
(***************************************************************************)
EXTENDS Integers, FiniteSets

CONSTANTS Workers, Limit, Window,
          MaxHits,  \* bound: the hits ever recorded
          MaxTime,  \* bound: the clock
          None

VARIABLES
  clock,
  asked,    \* asked[w]: when the request came that w checks, or None
  last,     \* the hits recorded so far are 1 .. last
  stamp,    \* stamp[k]: the time of hit k
  verdict   \* verdict[w]: what w answered last

svars == <<clock, asked, last, stamp, verdict>>

Init ==
  /\ clock = 0
  /\ asked = [w \in Workers |-> None]
  /\ last = 0
  /\ stamp = [k \in 1 .. MaxHits |-> 0]
  /\ verdict = [w \in Workers |-> "none"]

Tick ==
  /\ clock < MaxTime
  /\ clock' = clock + 1
  /\ UNCHANGED <<asked, last, stamp, verdict>>

Ask(w) ==
  /\ asked[w] = None
  /\ asked' = [asked EXCEPT ![w] = clock]
  /\ verdict' = [verdict EXCEPT ![w] = "none"]
  /\ UNCHANGED <<clock, last, stamp>>

-----------------------------------------------------------------------------
InWindow(now) == {k \in 1 .. last : stamp[k] > now - Window}

(* The hits in the window of time now whose own has not ended at time t.   *)
Alive(now, t) == {k \in InWindow(now) : stamp[k] + Window >= t}

(* The sets of hits that may be counted for a request that came at now.    *)
Countable(now) ==
  {s \in SUBSET InWindow(now) : \E t \in now .. clock : Alive(now, t) \subseteq s}

Answered(w, v) ==
  /\ asked' = [asked EXCEPT ![w] = None]
  /\ verdict' = [verdict EXCEPT ![w] = v]
  /\ UNCHANGED clock

Admit(w) ==
  /\ asked[w] # None
  /\ last < MaxHits
  /\ \E s \in Countable(asked[w]) : Cardinality(s) < Limit
  /\ last' = last + 1
  /\ stamp' = [stamp EXCEPT ![last'] = asked[w]]
  /\ Answered(w, "allowed")

Refuse(w) ==
  /\ asked[w] # None
  /\ \E s \in Countable(asked[w]) : Cardinality(s) >= Limit
  /\ Answered(w, "refused")
  /\ UNCHANGED <<last, stamp>>

(* The check fails and the request goes on, or nobody answers it.          *)
GiveUp(w) ==
  /\ asked[w] # None
  /\ \E v \in {"unchecked", verdict[w]} : Answered(w, v)
  /\ UNCHANGED <<last, stamp>>

Next ==
  \/ Tick
  \/ \E w \in Workers : Ask(w) \/ Admit(w) \/ Refuse(w) \/ GiveUp(w)

Spec == Init /\ [][Next]_svars

=============================================================================
