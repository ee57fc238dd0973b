------------------------------ MODULE RateLimit ------------------------------
(***************************************************************************)
(* The sliding-window limit on sign-up, login, password reset and OAuth;   *)
(* backend/core/rate_limit.py, migrations/0009, backend/api/_session.py.   *)
(*                                                                         *)
(* The rows of one key and endpoint of rate_limit_hits: no statement       *)
(* touches those of another (forgot-password checks two keys, one after    *)
(* the other).  The table "survives restarts and is shared across          *)
(* workers": several connections run check_and_record at once, each in a   *)
(* deferred transaction that takes SQLite's write lock with its first      *)
(* statement, the DELETE.  Nothing a transaction does shows before its     *)
(* commit.                                                                 *)
(*                                                                         *)
(* Time is counted in ticks, Second of them to a second, so that a float   *)
(* is not a whole number of seconds; the clock does not go back.  Not      *)
(* modelled: which address a request is counted under.                     *)
(***************************************************************************)
EXTENDS Integers, FiniteSets

CONSTANTS Workers,  \* connections that may run check_and_record at once
          Limit,    \* limit
          Second,   \* bound: the ticks that tell apart the times within a second
          Seconds,  \* window_sec
          MaxHits,  \* bound: the hits ever recorded
          MaxTime,  \* bound: the clock
          None

ASSUME LimitAssumption ==
  /\ Limit \in Nat \ {0} /\ Second \in Nat \ {0} /\ Seconds \in Nat \ {0}
  /\ MaxHits \in Nat /\ MaxTime \in Nat
  /\ None \notin Workers \cup 0 .. MaxTime

VARIABLES
  clock,   \* time.time()
  last,    \* the hits recorded so far are 1 .. last, in the order of commits
  stamp,   \* stamp[k]: hit_at of hit k; expires_at is Window later
  hits,    \* the hits that are rows of the table
  lock,    \* the worker that has the write lock, or None
  job,     \* job[w]: where w is in check_and_record, and its local variables
  answer,  \* answer[w]: what its caller was told last
  taken    \* history: taken[k] is when the request of hit k got the lock

vars == <<clock, last, stamp, hits, lock, job, answer, taken>>

Window == Seconds * Second
Ids == 1 .. MaxHits
Times == 0 .. MaxTime

(* The local variables of check_and_record: `locked' is when the write     *)
(* lock was obtained, `kept' the rows that the DELETE has left.            *)
At(step, now, locked, kept, count) ==
  [at |-> step, now |-> now, locked |-> locked, kept |-> kept, count |-> count]

Idle == At("idle", 0, 0, {}, 0)

Jobs == [at : {"idle", "begun", "cleaned", "counted"}, now : Times,
         locked : Times, kept : SUBSET Ids, count : Nat]

(* `sent' is when the answer was written, `until' when a caller comes back *)
(* that waits as long as it says, `seen' the rows that were there.         *)
NoAnswer == [verdict |-> "none", now |-> 0, sent |-> 0, until |-> 0, seen |-> {}]

Answers == [verdict : {"none", "allowed", "refused", "unchecked"}, now : Times,
            sent : Times, until : Nat, seen : SUBSET Ids]

(* The shape of the state: who has the lock is past its DELETE.            *)
TypeOK ==
  /\ clock \in Times
  /\ last \in 0 .. MaxHits
  /\ stamp \in [Ids -> Times]
  /\ hits \in SUBSET (1 .. last)
  /\ lock \in Workers \cup {None}
  /\ job \in [Workers -> Jobs]
  /\ answer \in [Workers -> Answers]
  /\ taken \in [Ids -> Times]
  /\ \A w \in Workers : lock = w <=> job[w].at \in {"cleaned", "counted"}

Init ==
  /\ clock = 0
  /\ last = 0
  /\ stamp = [k \in Ids |-> 0]
  /\ hits = {}
  /\ lock = None
  /\ job = [w \in Workers |-> Idle]
  /\ answer = [w \in Workers |-> NoAnswer]
  /\ taken = [k \in Ids |-> 0]

-----------------------------------------------------------------------------
Within(set, now) == {k \in set : stamp[k] > now - Window}

(* now = time.time(), then BEGIN, which takes no lock.                     *)
Check(w) ==
  /\ job[w].at = "idle"
  /\ job' = [job EXCEPT ![w] = At("begun", clock, 0, {}, 0)]
  /\ answer' = [answer EXCEPT ![w] = NoAnswer]
  /\ UNCHANGED <<clock, last, stamp, hits, lock, taken>>

(* Mutant: the DELETE that takes the lock is left out, so that count and   *)
(* insert are not one step for the others.                                 *)
CleanNothing(w) ==
  /\ job[w].at = "begun"
  /\ job' = [job EXCEPT ![w] = At("cleaned", job[w].now, clock, hits, 0)]
  /\ UNCHANGED <<clock, last, stamp, hits, lock, answer, taken>>

(* DELETE ... WHERE expires_at < now, as soon as the lock is free.         *)
Clean(w) ==
  /\ job[w].at = "begun"
  /\ lock = None
  /\ lock' = w
  /\ job' = [job EXCEPT ![w] =
       At("cleaned", job[w].now, clock, {k \in hits : ~ stamp[k] + Window < job[w].now}, 0)]
  /\ UNCHANGED <<clock, last, stamp, hits, answer, taken>>

(* Mutant: every row that is left is counted.                              *)
CountRows(w) ==
  /\ job[w].at = "cleaned"
  /\ job' = [job EXCEPT ![w] =
       At("counted", job[w].now, job[w].locked, job[w].kept, Cardinality(job[w].kept))]
  /\ UNCHANGED <<clock, last, stamp, hits, lock, answer, taken>>

(* The count of the rows whose hit_at > window_start.                      *)
Count(w) ==
  /\ job[w].at = "cleaned"
  /\ job' = [job EXCEPT ![w] =
       At("counted", job[w].now, job[w].locked, job[w].kept,
          Cardinality(Within(job[w].kept, job[w].now)))]
  /\ UNCHANGED <<clock, last, stamp, hits, lock, answer, taken>>

(* The INSERT and the commit.                                              *)
Admit(w) ==
  /\ job[w].at = "counted"
  /\ job[w].count < Limit
  /\ last < MaxHits
  /\ last' = last + 1
  /\ stamp' = [stamp EXCEPT ![last'] = job[w].now]
  /\ hits' = job[w].kept \cup {last'}
  /\ lock' = None
  /\ job' = [job EXCEPT ![w] = Idle]
  /\ answer' = [answer EXCEPT ![w] =
       [verdict |-> "allowed", now |-> job[w].now, sent |-> clock,
        until |-> clock, seen |-> {}]]
  /\ taken' = [taken EXCEPT ![last'] = job[w].locked]
  /\ UNCHANGED clock

(* math.ceil of a time: the first whole second that is not before it.      *)
Ceil(t) == (t + Second - 1) \div Second

(* max(1, int(...)) of the time that is left until the second `reset':     *)
(* what is left of a second is cut off.                                    *)
RetryAfter(reset) ==
  IF reset * Second - clock < Second THEN 1 ELSE (reset * Second - clock) \div Second

(* Mutant: reset_at is cut to a whole second, not rounded up.              *)
RetryAtCut(now) == clock + Second * RetryAfter((now + Window) \div Second)

(* When a caller that waits for Retry-After seconds comes back.  The wait  *)
(* that check_and_record computes from the oldest hit goes nowhere.        *)
RetryAt(now) == clock + Second * RetryAfter(Ceil(now + Window))

(* The limit is reached: the DELETE is committed, no hit is recorded.      *)
Refuse(w) ==
  /\ job[w].at = "counted"
  /\ job[w].count >= Limit
  /\ hits' = job[w].kept
  /\ lock' = None
  /\ job' = [job EXCEPT ![w] = Idle]
  /\ answer' = [answer EXCEPT ![w] =
       [verdict |-> "refused", now |-> job[w].now, sent |-> clock,
        until |-> RetryAt(job[w].now), seen |-> job[w].kept]]
  /\ UNCHANGED <<clock, last, stamp, taken>>

(* Any error, a lock that is not released in time among them: the          *)
(* transaction is rolled back, the request goes on and leaves no hit.      *)
Fail(w) ==
  /\ job[w].at # "idle"
  /\ lock' = IF lock = w THEN None ELSE lock
  /\ job' = [job EXCEPT ![w] = Idle]
  /\ answer' = [answer EXCEPT ![w] =
       [verdict |-> "unchecked", now |-> job[w].now, sent |-> clock,
        until |-> clock, seen |-> {}]]
  /\ UNCHANGED <<clock, last, stamp, hits, taken>>

(* A worker's process ends; SQLite rolls its transaction back.             *)
Crash(w) ==
  /\ job[w].at # "idle"
  /\ lock' = IF lock = w THEN None ELSE lock
  /\ job' = [job EXCEPT ![w] = Idle]
  /\ UNCHANGED <<clock, last, stamp, hits, answer, taken>>

Tick ==
  /\ clock < MaxTime
  /\ clock' = clock + 1
  /\ UNCHANGED <<last, stamp, hits, lock, job, answer, taken>>

Next == \/ \E w \in Workers : \/ Check(w) \/ Clean(w) \/ Count(w)
                              \/ Admit(w) \/ Refuse(w) \/ Fail(w) \/ Crash(w)
        \/ Tick

Spec == Init /\ [][Next]_vars

-----------------------------------------------------------------------------
(* "limit: Maximum hits allowed in the window", with any number of checks  *)
(* at once, crashes and rows cleaned up by others: when a request is       *)
(* allowed, no more than Limit hits, its own included, have been allowed   *)
(* in the window that ends with it.  One that waited for the lock is       *)
(* counted at the time before it waited; hits whose own window ended       *)
(* meanwhile, and only those, may be missing from its count.  Requests let *)
(* in by a check that failed leave no hit and are not counted.             *)
WithinLimit ==
  \A i \in 1 .. last :
    Cardinality({k \in Within(1 .. i, stamp[i]) : stamp[k] + Window >= taken[i]}) <= Limit

(* Of the window that ends now there are never more hits than the limit,   *)
(* however long those that were let in have waited for the lock.           *)
LimitNow == Cardinality(Within(1 .. last, clock)) <= Limit

(* docs/DEBUGGING_429.md, Retry-After: "Sleep this long."  Who does so     *)
(* finds none of the hits left that were there at the time of the refused  *)
(* request, if that second was not over yet when the answer was written.   *)
(* If it was, the header may be short, though by less than a second: with  *)
(* one second more they are gone.  (Hits that came later may be in the     *)
(* window: those of others, and those that others recorded while this one  *)
(* waited for the lock.)                                                   *)
RetryLongEnough ==
  \A w \in Workers :
    LET a == answer[w]
        late == IF a.sent <= Second * Ceil(a.now) THEN 0 ELSE Second
    IN  a.verdict = "refused" =>
          Within({k \in a.seen : stamp[k] <= a.now}, a.until + late) = {}

(* "Otherwise N concurrent requests can all read count < limit and all     *)
(* insert": the DELETE, the count and the INSERT of check_and_record, with *)
(* their lock and their clean-up, are one step of SlidingWindow.           *)
Limiter == INSTANCE SlidingWindow WITH
  asked   <- [w \in Workers |-> IF job[w].at = "idle" THEN None ELSE job[w].now],
  verdict <- [w \in Workers |-> answer[w].verdict]

OneStep == Limiter!Spec

=============================================================================
