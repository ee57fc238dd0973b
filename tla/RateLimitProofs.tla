--------------------------- MODULE RateLimitProofs ---------------------------
(***************************************************************************)
(* Proofs about RateLimit for any number of workers, any limit and window. *)
(***************************************************************************)
EXTENDS RateLimit, FiniteSetTheorems, TLAPS

-----------------------------------------------------------------------------
(* The inductive invariant: a row is gone only when its window has ended;  *)
(* who has the lock knows all that was not gone when it got it; what an    *)
(* answer relied on.                                                       *)

Gone(t) == \A k \in (1 .. last) \ hits : stamp[k] + Window < t

(* The time by which the hits of a refused request's own time, or earlier, *)
(* have left the window: Retry-After, and a second more if the answer was  *)
(* written after the second of the request.                                *)
Late(a) == IF a.sent <= Second * Ceil(a.now) THEN 0 ELSE Second
Until(a) == a.until + Late(a)
Old(a) == {k \in a.seen : stamp[k] <= a.now}

JobOK(w) ==
  LET j == job[w] IN
  /\ j.now <= clock
  /\ j.at \in {"cleaned", "counted"} =>
       /\ j.kept \subseteq hits
       /\ \A k \in hits \ j.kept : stamp[k] + Window < j.now
       /\ j.now <= j.locked /\ j.locked <= clock
       /\ Gone(j.locked)
  /\ j.at = "counted" => j.count = Cardinality(Within(j.kept, j.now))

AnswerOK(w) ==
  answer[w].verdict = "refused" =>
    /\ answer[w].seen \subseteq 1 .. last
    /\ Within(Old(answer[w]), Until(answer[w])) = {}

IInv ==
  /\ TypeOK
  /\ Gone(clock)
  /\ \A w \in Workers : JobOK(w) /\ AnswerOK(w)
  /\ WithinLimit

(* A product of two positive numbers.                                      *)
LEMMA Products ==
  ASSUME NEW m \in Nat \ {0}, NEW n \in Nat \ {0}
  PROVE  m * n \in Nat \ {0}
OBVIOUS

LEMMA Constants ==
  /\ Limit \in Nat \ {0} /\ Window \in Nat \ {0} /\ MaxHits \in Nat /\ MaxTime \in Nat
  /\ Second \in Nat \ {0} /\ Seconds \in Nat \ {0} /\ Window = Second * Seconds
<1>1. Seconds * Second \in Nat \ {0} /\ Seconds * Second = Second * Seconds
  BY LimitAssumption, Products
<1> QED
  BY <1>1, LimitAssumption DEF Window

LEMMA SomeFinite == \A S \in SUBSET Ids : IsFiniteSet(S) /\ Cardinality(S) \in Nat
<1>1. IsFiniteSet(Ids)
  BY FS_Interval, Constants DEF Ids
<1> QED
  BY <1>1, FS_Subset, FS_CardinalityType

LEMMA JobFacts ==
  /\ Idle \in Jobs /\ Idle.at = "idle" /\ Idle.now = 0
  /\ NoAnswer \in Answers /\ NoAnswer.verdict = "none"
BY Constants DEF Idle, At, NoAnswer, Jobs, Answers, Times

LEMMA JobRecord ==
  ASSUME NEW a \in {"idle", "begun", "cleaned", "counted"}, NEW n \in Times,
         NEW K \in SUBSET Ids, NEW c \in Nat, NEW b \in Times
  PROVE  /\ At(a, n, b, K, c) \in Jobs
         /\ At(a, n, b, K, c).at = a /\ At(a, n, b, K, c).now = n /\ At(a, n, b, K, c).locked = b
         /\ At(a, n, b, K, c).kept = K /\ At(a, n, b, K, c).count = c
BY DEF Jobs, At

LEMMA AnswerRecord ==
  ASSUME NEW a \in {"none", "allowed", "refused", "unchecked"}, NEW n \in Times,
         NEW u \in Nat, NEW K \in SUBSET Ids, NEW b \in Times
  PROVE  [verdict |-> a, now |-> n, sent |-> b, until |-> u, seen |-> K] \in Answers
BY DEF Answers

LEMMA Typed ==
  ASSUME TypeOK, NEW w \in Workers
  PROVE  /\ job[w] \in Jobs
         /\ job[w].at \in {"idle", "begun", "cleaned", "counted"}
         /\ job[w].now \in Times /\ job[w].now \in Nat
         /\ job[w].kept \in SUBSET Ids /\ job[w].count \in Nat /\ job[w].locked \in Times
         /\ clock \in Times /\ clock \in Nat
<1>1. job[w] \in Jobs /\ clock \in Times
  BY DEF TypeOK
<1> QED
  BY <1>1, Constants DEF Jobs, Times

LEMMA InitIInv == Init => IInv
<1> SUFFICES ASSUME Init PROVE IInv
  OBVIOUS
<1>1. TypeOK
  BY Constants, LimitAssumption, JobFacts DEF Init, TypeOK, Jobs, Answers, Ids, Times
<1>2. Gone(clock) /\ WithinLimit
  BY DEF Init, Gone, WithinLimit
<1>3. \A w \in Workers : JobOK(w) /\ AnswerOK(w)
  BY JobFacts DEF Init, JobOK, AnswerOK
<1> QED
  BY <1>1, <1>2, <1>3 DEF IInv

-----------------------------------------------------------------------------
(* Steps that record nothing.                                              *)

LEMMA JobKept ==
  ASSUME NEW w \in Workers, JobOK(w), job'[w] = job[w], UNCHANGED <<clock, last, stamp, hits>>
  PROVE  JobOK(w)'
BY DEF JobOK, Gone, Within

(* A job that has not got the lock yet, or no more.                        *)
LEMMA JobOutside ==
  ASSUME NEW w \in Workers, job'[w].at \in {"idle", "begun"}, job'[w].now <= clock'
  PROVE  JobOK(w)'
BY DEF JobOK

(* What was answered stands as long as the stamps of its hits do.          *)
LEMMA AnswerKept ==
  ASSUME TypeOK, TypeOK', NEW w \in Workers, AnswerOK(w),
         answer'[w] = answer[w] \/ answer'[w].verdict # "refused",
         last <= last', \A k \in 1 .. last : stamp'[k] = stamp[k]
  PROVE  AnswerOK(w)'
<1>1. CASE answer'[w].verdict = "refused"
  <2> DEFINE a == answer[w]
             seen == a.seen
  <2>1. answer'[w] = a /\ a.verdict = "refused" /\ seen \subseteq 1 .. last
    BY <1>1 DEF AnswerOK
  <2>2. \A t : {k \in {i \in seen : stamp'[i] <= a.now} : stamp'[k] > t - Window}
                = {k \in {i \in seen : stamp[i] <= a.now} : stamp[k] > t - Window}
    BY <2>1
  <2>3. seen \subseteq 1 .. last'
    BY <2>1, Constants DEF TypeOK
  <2> QED
    BY <2>1, <2>2, <2>3 DEF AnswerOK, Within, Old, Until, Late
<1>2. CASE answer'[w].verdict # "refused"
  BY <1>2 DEF AnswerOK
<1> QED
  BY <1>1, <1>2

LEMMA CheckIInv ==
  ASSUME IInv, NEW w \in Workers, Check(w)
  PROVE  IInv'
<1> USE DEF Check
<1>0. TypeOK /\ job[w] \in Jobs /\ clock \in Times /\ clock \in Nat
  BY Typed DEF IInv
<1> DEFINE j == At("begun", clock, 0, {}, 0)
<1>1. job' = [job EXCEPT ![w] = j] /\ j \in Jobs /\ j.at = "begun" /\ j.now = clock
  <2>1. 0 \in Times /\ {} \in SUBSET Ids
    BY Constants DEF Times
  <2> QED
    BY <1>0, <2>1, JobRecord
<1>2. TypeOK'
  <2>1. job' \in [Workers -> Jobs] /\ answer' \in [Workers -> Answers]
    BY <1>0, <1>1, JobFacts DEF TypeOK
  <2>2. \A v \in Workers : lock' = v <=> job'[v].at \in {"cleaned", "counted"}
    BY <1>0, <1>1 DEF TypeOK
  <2> QED
    BY <1>0, <2>1, <2>2 DEF TypeOK
<1>3. ASSUME NEW v \in Workers PROVE JobOK(v)'
  <2>1. CASE v = w
    BY <1>0, <1>1, <2>1, JobOutside DEF TypeOK
  <2>2. CASE v # w
    BY <1>0, <1>1, <2>2, JobKept DEF IInv, TypeOK
  <2> QED
    BY <2>1, <2>2
<1>4. ASSUME NEW v \in Workers PROVE AnswerOK(v)'
  BY <1>2, AnswerKept, JobFacts, Constants DEF IInv, TypeOK
<1>5. (Gone(clock) /\ WithinLimit)'
  BY DEF IInv, Gone, WithinLimit, Within
<1> QED
  BY <1>2, <1>3, <1>4, <1>5 DEF IInv

(* The lock is taken: what is gone, and what is there, lies before now if  *)
(* the clock has not moved since now was read.                             *)
LEMMA CleanIInv ==
  ASSUME IInv, NEW w \in Workers, Clean(w)
  PROVE  IInv'
<1> USE DEF Clean
<1> DEFINE now == job[w].now
           kept == {k \in hits : ~ stamp[k] + Window < now}
           j == At("cleaned", now, clock, kept, 0)
<1>0. TypeOK /\ now \in Times /\ now \in Nat /\ clock \in Nat /\ now <= clock /\ job[w].at = "begun"
  BY Typed DEF IInv, JobOK
<1>1. /\ job' = [job EXCEPT ![w] = j] /\ j \in Jobs
      /\ j.at = "cleaned" /\ j.now = now /\ j.locked = clock /\ j.kept = kept
  <2>1. hits \subseteq Ids
    BY <1>0, Constants DEF TypeOK, Ids
  <2>2. kept \in SUBSET Ids /\ clock \in Times
    BY <1>0, <2>1 DEF TypeOK
  <2> HIDE DEF kept
  <2> QED
    BY <1>0, <2>2, JobRecord DEF kept
<1>2. TypeOK'
  <2>1. job' \in [Workers -> Jobs]
    BY <1>0, <1>1 DEF TypeOK
  <2>2. \A v \in Workers : lock' = v <=> job'[v].at \in {"cleaned", "counted"}
    BY <1>0, <1>1, LimitAssumption DEF TypeOK
  <2> QED
    BY <1>0, <2>1, <2>2 DEF TypeOK
<1>3. ASSUME NEW v \in Workers PROVE JobOK(v)'
  <2>1. CASE v = w
    <3>1. job'[w] = j
      BY <1>0, <1>1 DEF TypeOK
    <3>2. \A k \in (1 .. last) \ hits : stamp[k] + Window < clock
      BY DEF IInv, Gone
    <3>3. kept \subseteq hits /\ \A k \in hits \ kept : stamp[k] + Window < now
      OBVIOUS
    <3>4. UNCHANGED <<clock, last, stamp, hits>>
      OBVIOUS
    <3> HIDE DEF j, kept, Clean, now
    <3> QED
      BY <1>0, <1>1, <2>1, <3>1, <3>2, <3>3, <3>4 DEF JobOK, Gone
  <2>2. CASE v # w
    BY <1>0, <1>1, <2>2, JobKept DEF IInv, TypeOK
  <2> QED
    BY <2>1, <2>2
<1>4. ASSUME NEW v \in Workers PROVE AnswerOK(v)'
  BY DEF IInv, AnswerOK, Within, Old, Until, Late
<1>5. (Gone(clock) /\ WithinLimit)'
  BY DEF IInv, Gone, WithinLimit, Within
<1> QED
  BY <1>2, <1>3, <1>4, <1>5 DEF IInv

LEMMA CountIInv ==
  ASSUME IInv, NEW w \in Workers, Count(w)
  PROVE  IInv'
<1> USE DEF Count
<1> DEFINE n == Cardinality(Within(job[w].kept, job[w].now))
           j == At("counted", job[w].now, job[w].locked, job[w].kept, n)
<1>0. TypeOK /\ job[w].at = "cleaned"
  BY DEF IInv
<1>1. /\ job' = [job EXCEPT ![w] = j] /\ j \in Jobs
      /\ j.at = "counted" /\ j.now = job[w].now /\ j.locked = job[w].locked
      /\ j.kept = job[w].kept /\ j.count = n
  <2>1. Within(job[w].kept, job[w].now) \in SUBSET Ids
    BY <1>0, Typed DEF Within
  <2>2. n \in Nat
    BY <2>1, SomeFinite
  <2> HIDE DEF n
  <2> QED
    BY <1>0, <2>2, Typed, JobRecord DEF n
<1>2. TypeOK'
  <2>1. job' \in [Workers -> Jobs]
    BY <1>0, <1>1 DEF TypeOK
  <2>2. \A v \in Workers : lock' = v <=> job'[v].at \in {"cleaned", "counted"}
    BY <1>0, <1>1 DEF TypeOK
  <2> QED
    BY <1>0, <2>1, <2>2 DEF TypeOK
<1>3. ASSUME NEW v \in Workers PROVE JobOK(v)'
  <2>1. CASE v = w
    <3>1. job'[w] = j
      BY <1>0, <1>1 DEF TypeOK
    <3> HIDE DEF j
    <3> QED
      BY <1>0, <1>1, <2>1, <3>1 DEF IInv, JobOK, Gone, Within
  <2>2. CASE v # w
    BY <1>0, <1>1, <2>2, JobKept DEF IInv, TypeOK
  <2> QED
    BY <2>1, <2>2
<1>4. ASSUME NEW v \in Workers PROVE AnswerOK(v)'
  BY DEF IInv, AnswerOK, Within, Old, Until, Late
<1>5. (Gone(clock) /\ WithinLimit)'
  BY DEF IInv, Gone, WithinLimit, Within
<1> QED
  BY <1>2, <1>3, <1>4, <1>5 DEF IInv

(* A check is given up, by an error or with its process.                   *)
LEMMA GivenUpIInv ==
  ASSUME IInv, NEW w \in Workers, Fail(w) \/ Crash(w)
  PROVE  IInv'
<1>1. /\ lock' = IF lock = w THEN None ELSE lock
      /\ job' = [job EXCEPT ![w] = Idle]
      /\ UNCHANGED <<clock, last, stamp, hits, taken>>
  BY DEF Fail, Crash
<1>2. /\ answer' \in [Workers -> Answers]
      /\ \A v \in Workers : answer'[v] = answer[v] \/ answer'[v].verdict = "unchecked"
  <2> DEFINE a == [verdict |-> "unchecked", now |-> job[w].now, sent |-> clock,
                   until |-> clock, seen |-> {}]
  <2>1. a \in Answers /\ a.verdict = "unchecked"
    BY Typed, AnswerRecord DEF IInv
  <2>2. answer' = [answer EXCEPT ![w] = a] \/ answer' = answer
    BY DEF Fail, Crash
  <2> HIDE DEF a
  <2> QED
    BY <2>1, <2>2 DEF IInv, TypeOK
<1>3. TypeOK'
  <2>1. job' \in [Workers -> Jobs]
    BY <1>1, JobFacts DEF IInv, TypeOK
  <2>2. lock' \in Workers \cup {None}
    BY <1>1 DEF IInv, TypeOK
  <2>3. \A v \in Workers : lock' = v <=> job'[v].at \in {"cleaned", "counted"}
    BY <1>1, JobFacts, LimitAssumption DEF IInv, TypeOK
  <2> QED
    BY <1>1, <1>2, <2>1, <2>2, <2>3 DEF IInv, TypeOK
<1>4. ASSUME NEW v \in Workers PROVE JobOK(v)'
  <2>1. CASE v = w
    <3>1. job'[w] = Idle /\ clock' \in Nat
      BY <1>1, Typed DEF IInv, TypeOK
    <3> QED
      BY <2>1, <3>1, JobFacts, JobOutside
  <2>2. CASE v # w
    BY <1>1, <2>2, JobKept DEF IInv, TypeOK
  <2> QED
    BY <2>1, <2>2
<1>5. ASSUME NEW v \in Workers PROVE AnswerOK(v)'
  BY <1>1, <1>2, <1>3, AnswerKept DEF IInv, TypeOK
<1>6. (Gone(clock) /\ WithinLimit)'
  BY <1>1 DEF IInv, Gone, WithinLimit, Within
<1> QED
  BY <1>3, <1>4, <1>5, <1>6 DEF IInv

LEMMA TickIInv == IInv /\ Tick => IInv'
<1> SUFFICES ASSUME IInv, Tick PROVE IInv'
  OBVIOUS
<1> USE DEF Tick
<1>1. clock \in Nat /\ clock' = clock + 1 /\ stamp \in [Ids -> Times] /\ 1 .. last \subseteq Ids
  BY Constants DEF IInv, TypeOK, Times, Ids
<1>2. TypeOK'
  BY Constants DEF IInv, TypeOK, Times
<1>3. ASSUME NEW w \in Workers PROVE JobOK(w)'
  <2>1. job[w].now \in Nat /\ job[w].now <= clock /\ job[w].locked \in Nat
    BY Typed, Constants DEF IInv, JobOK, Times
  <2>2. job'[w].now <= clock' /\ (job[w].locked <= clock => job[w].locked <= clock')
    BY <1>1, <2>1
  <2> QED
    BY <2>2 DEF IInv, JobOK, Gone, Within
<1>4. ASSUME NEW w \in Workers PROVE AnswerOK(w)'
  BY DEF IInv, AnswerOK, Within, Old, Until, Late
<1>5. (Gone(clock) /\ WithinLimit)'
  BY <1>1, Constants DEF IInv, TypeOK, Times, Gone, WithinLimit, Within
<1> QED
  BY <1>2, <1>3, <1>4, <1>5 DEF IInv

-----------------------------------------------------------------------------
(* The two ends of a check.  Nobody else is between lock and commit.       *)

(* \div is the whole number below.                                         *)
LEMMA Floor ==
  ASSUME NEW t \in Nat
  PROVE  /\ t \div Second \in Nat
         /\ Second * (t \div Second) <= t
         /\ t < Second * (t \div Second) + Second
<1>1. Second \in Nat /\ Second > 0
  BY Constants
<1>2. PICK q : q = t \div Second
  OBVIOUS
<1>3. q \in Nat /\ Second * q <= t /\ t < Second * q + Second
  BY <1>1, <1>2
<1> QED
  BY <1>2, <1>3

LEMMA Above ==
  ASSUME NEW m \in Nat, NEW n \in Nat, Second * m < Second * n + Second
  PROVE  m <= n
<1> SUFFICES ASSUME m >= n + 1 PROVE FALSE
  OBVIOUS
<1>1. Second \in Nat /\ Second > 0
  BY Constants
<1>2. Second * m >= Second * (n + 1) /\ Second * (n + 1) = Second * n + Second
  BY <1>1
<1> QED
  BY <1>1, <1>2

(* math.ceil of a time lies less than a second after it, and a whole       *)
(* number of seconds later it is as many more.                             *)
LEMMA CeilFacts ==
  ASSUME NEW t \in Nat
  PROVE  /\ Ceil(t) \in Nat /\ t <= Second * Ceil(t) /\ Second * Ceil(t) < t + Second
         /\ Second * Ceil(t + Window) = Second * Ceil(t) + Window
         /\ Ceil(t + Window) \in Nat
<1>1. Second \in Nat /\ Second > 0 /\ Window \in Nat /\ Seconds \in Nat /\ Window = Second * Seconds
  BY Constants
<1>2. \A u \in Nat : Ceil(u) \in Nat /\ u <= Second * Ceil(u) /\ Second * Ceil(u) < u + Second
  <2> SUFFICES ASSUME NEW u \in Nat
               PROVE  Ceil(u) \in Nat /\ u <= Second * Ceil(u) /\ Second * Ceil(u) < u + Second
    OBVIOUS
  <2>1. u + Second - 1 \in Nat
    BY <1>1
  <2>2. PICK c \in Nat : c = Ceil(u) /\ Second * c <= u + Second - 1 /\ u + Second - 1 < Second * c + Second
    BY <2>1, Floor DEF Ceil
  <2>3. Second * c \in Nat
    BY <1>1
  <2> QED
    BY <1>1, <2>2, <2>3
<1>3. PICK c \in Nat : c = Ceil(t) /\ t <= Second * c /\ Second * c < t + Second
  BY <1>2
<1>4. PICK d \in Nat : d = Ceil(t + Window) /\ t + Window <= Second * d /\ Second * d < t + Window + Second
  <2>1. PICK u \in Nat : u = t + Window
    BY <1>1
  <2>2. Ceil(u) \in Nat /\ u <= Second * Ceil(u) /\ Second * Ceil(u) < u + Second
    BY <1>2
  <2> QED
    BY <2>1, <2>2
<1>5. c + Seconds \in Nat /\ Second * (c + Seconds) = Second * c + Window
  BY <1>1
<1>6. Second * c \in Nat /\ Second * d \in Nat
  BY <1>1
<1>7. d <= c + Seconds
  BY <1>1, <1>3, <1>4, <1>5, <1>6, Above
<1>8. c + Seconds <= d
  BY <1>1, <1>3, <1>4, <1>5, <1>6, Above
<1>9. d = c + Seconds
  BY <1>1, <1>7, <1>8
<1> QED
  BY <1>3, <1>4, <1>5, <1>9

(* Retry-After is the whole window if the answer is written in the second  *)
(* of the request, and less than a second short of it if it is later.      *)
LEMMA RetryFacts ==
  ASSUME NEW now \in Nat, clock \in Nat, now <= clock
  PROVE  /\ RetryAt(now) \in Nat
         /\ clock <= Second * Ceil(now) => RetryAt(now) >= now + Window
         /\ RetryAt(now) + Second >= now + Window
<1> DEFINE reset == Ceil(now + Window)
           left == reset * Second - clock
           wait == RetryAfter(reset)
<1>1. Second \in Nat /\ Second > 0 /\ Window \in Nat /\ Seconds \in Nat /\ Window = Second * Seconds
      /\ Seconds >= 1
  BY Constants
<1>2. /\ Ceil(now) \in Nat /\ now <= Second * Ceil(now)
      /\ reset \in Nat /\ Second * reset = Second * Ceil(now) + Window
      /\ reset * Second = Second * reset
  <2>1. reset \in Nat /\ Second * reset = Second * Ceil(now) + Window
    BY CeilFacts
  <2>2. reset * Second = Second * reset
    BY <1>1, <2>1
  <2> QED
    BY <2>1, <2>2, CeilFacts
<1>3. PICK e \in Nat : e = Second * Ceil(now)
  BY <1>1, <1>2
<1>4. left = e + Window - clock /\ now <= e /\ left \in Int
  BY <1>1, <1>2, <1>3
<1> HIDE DEF reset
<1>5. /\ wait \in Nat /\ Second * wait \in Nat
      /\ left < Second => wait = 1
      /\ left >= Second => Second * wait <= left /\ left < Second * wait + Second
  <2>1. CASE left < Second
    <3>1. wait = 1
      BY <2>1 DEF RetryAfter
    <3>2. Second * 1 \in Nat
      BY <1>1
    <3> HIDE DEF wait, left
    <3> QED
      BY <2>1, <3>1, <3>2, <1>1, <1>4
  <2>2. CASE left >= Second
    <3>1. left \in Nat
      BY <1>1, <1>4, <2>2
    <3> HIDE DEF left
    <3>2. wait = left \div Second
      BY <1>1, <1>4, <2>2, <3>1 DEF RetryAfter, left
    <3>3. wait \in Nat /\ Second * wait <= left /\ left < Second * wait + Second
      BY <3>1, <3>2, Floor
    <3>4. Second * wait \in Nat
      BY <1>1, <3>3
    <3> QED
      BY <1>1, <1>4, <2>2, <3>3, <3>4
  <2> QED
    BY <1>1, <1>4, <2>1, <2>2
<1>6. RetryAt(now) = clock + Second * wait
  BY DEF RetryAt, reset
<1>7. PICK d \in Nat : d = Second * wait
  BY <1>5
<1> HIDE DEF wait, left
<1>8. left < Second => d = Second
  BY <1>1, <1>5, <1>7
<1>9. clock + d + Second >= now + Window
  BY <1>1, <1>4, <1>5, <1>7, <1>8
<1>10. ASSUME clock <= e PROVE clock + d >= now + Window
  <2>1. left >= Window /\ Window >= Second
    BY <1>1, <1>4, <1>10, Products
  <2>2. Second * Seconds < Second * wait + Second
    BY <1>1, <1>4, <1>5, <2>1
  <2>3. Seconds <= wait
    BY <1>1, <1>5, <2>2, Above
  <2>4. Second * Seconds <= Second * wait
    BY <1>1, <1>5, <2>3
  <2> QED
    BY <1>1, <1>4, <1>7, <2>4, <1>10
<1> QED
  BY <1>1, <1>3, <1>6, <1>7, <1>9, <1>10

LEMMA OthersWait ==
  ASSUME TypeOK, NEW w \in Workers, job[w].at = "counted", NEW v \in Workers \ {w}
  PROVE  job[v].at \notin {"cleaned", "counted"}
BY DEF TypeOK

LEMMA AdmitIInv ==
  ASSUME IInv, NEW w \in Workers, Admit(w)
  PROVE  IInv'
<1> USE DEF Admit
<1> DEFINE now == job[w].now
           kept == job[w].kept
           id == last + 1
<1>0. /\ job[w] \in Jobs /\ now \in Times /\ now \in Nat /\ clock \in Nat /\ now <= clock
      /\ last \in Nat /\ id \in Ids /\ last' = id /\ id \notin 1 .. last
      /\ kept \subseteq 1 .. last /\ job[w].locked \in Times /\ 1 .. id = (1 .. last) \cup {id}
      /\ 1 .. id \subseteq Ids
  <2>1. /\ job[w] \in Jobs /\ now \in Times /\ now \in Nat /\ clock \in Nat
        /\ job[w].locked \in Times
    BY Typed DEF IInv
  <2>2. now <= clock /\ kept \subseteq hits /\ hits \subseteq 1 .. last
    BY DEF IInv, TypeOK, JobOK
  <2>3. last \in Nat /\ MaxHits \in Nat /\ last < MaxHits /\ last' = id
    BY Constants DEF IInv, TypeOK
  <2>4. id \in Ids /\ id \notin 1 .. last /\ 1 .. id = (1 .. last) \cup {id} /\ 1 .. id \subseteq Ids
    BY <2>3 DEF Ids
  <2> QED
    BY <2>1, <2>2, <2>3, <2>4
<1>1. /\ stamp'[id] = now /\ taken'[id] = job[w].locked
      /\ \A k \in 1 .. last : stamp'[k] = stamp[k] /\ taken'[k] = taken[k]
  BY <1>0 DEF IInv, TypeOK, Ids
<1>2. TypeOK'
  <2>1. stamp' \in [Ids -> Times] /\ hits' \in SUBSET (1 .. id) /\ taken' \in [Ids -> Times]
    BY <1>0 DEF IInv, TypeOK
  <2>2. [verdict |-> "allowed", now |-> now, sent |-> clock, until |-> clock,
         seen |-> {}] \in Answers
    BY <1>0, Typed, AnswerRecord DEF IInv
  <2>3. answer' \in [Workers -> Answers] /\ job' \in [Workers -> Jobs]
    BY <2>2, JobFacts DEF IInv, TypeOK
  <2>4. \A v \in Workers : lock' = v <=> job'[v].at \in {"cleaned", "counted"}
    BY OthersWait, JobFacts, LimitAssumption DEF IInv, TypeOK
  <2>5. id \in 0 .. MaxHits /\ clock' \in Times /\ lock' \in Workers \cup {None}
    BY <1>0 DEF IInv, TypeOK, Ids
  <2> QED
    BY <1>0, <2>1, <2>3, <2>4, <2>5 DEF TypeOK
<1>3. ASSUME NEW v \in Workers PROVE JobOK(v)'
  <2>1. CASE v = w
    BY <1>0, <2>1, JobFacts DEF IInv, TypeOK, JobOK
  <2>2. CASE v # w
    BY <2>2, OthersWait DEF IInv, TypeOK, JobOK
  <2> QED
    BY <2>1, <2>2
<1>4. ASSUME NEW v \in Workers PROVE AnswerOK(v)'
  <2>1. answer'[v] = answer[v] \/ answer'[v].verdict # "refused"
    BY DEF IInv, TypeOK
  <2> QED
    BY <1>0, <1>1, <1>2, <2>1, AnswerKept DEF IInv
<1>5. Gone(clock)'
  <2>1. ASSUME NEW k \in 1 .. id, k \notin hits' PROVE stamp'[k] + Window < clock
    <3>1. k \in 1 .. last /\ stamp'[k] = stamp[k] /\ stamp[k] \in Nat
      BY <1>0, <1>1, <2>1, Constants DEF IInv, TypeOK, Times
    <3>2. CASE k \in hits
      <4>1. stamp[k] + Window < now
        BY <2>1, <3>1, <3>2 DEF IInv, JobOK
      <4> QED
        BY <1>0, <3>1, <4>1, Constants
    <3>3. CASE k \notin hits
      BY <3>1, <3>3 DEF IInv, Gone
    <3> QED
      BY <3>2, <3>3
  <2> QED
    BY <1>0, <2>1 DEF Gone
<1>6. WithinLimit'
  <2> DEFINE Counted(i) == {k \in 1 .. i : /\ stamp'[k] > stamp'[i] - Window
                                           /\ stamp'[k] + Window >= taken'[i]}
  <2> SUFFICES ASSUME NEW i \in 1 .. id PROVE Cardinality(Counted(i)) <= Limit
    <3>1. \A i \in 1 .. id :
            {k \in Within(1 .. i, stamp[i])' : stamp'[k] + Window >= taken'[i]} = Counted(i)
      BY DEF Within
    <3> QED
      BY <1>0, <3>1 DEF WithinLimit
  <2>1. CASE i \in 1 .. last
    <3>1. \A k \in 1 .. i : stamp'[k] = stamp[k]
      BY <1>0, <1>1, <2>1
    <3>2. Counted(i) = {k \in Within(1 .. i, stamp[i]) : stamp[k] + Window >= taken[i]}
      BY <1>1, <2>1, <3>1 DEF Within
    <3> HIDE DEF Counted
    <3> QED
      BY <2>1, <3>2 DEF IInv, WithinLimit
  <2>2. CASE i = id
    <3>1. Gone(job[w].locked) /\ now <= job[w].locked /\ job[w].locked \in Nat
      BY <1>0, Constants DEF IInv, JobOK, Times
    <3> DEFINE old == Within(kept, now)
    <3>3. Counted(id) \subseteq old \cup {id}
      <4> SUFFICES ASSUME NEW k \in 1 .. last, stamp[k] > now - Window,
                          stamp[k] + Window >= job[w].locked
                   PROVE  k \in kept
        BY <1>0, <1>1 DEF Within
      <4>1. stamp[k] \in Nat
        BY <1>0, Constants DEF IInv, TypeOK, Times
      <4>2. ~(stamp[k] + Window < now) /\ ~(stamp[k] + Window < job[w].locked)
        BY <1>0, <3>1, <4>1, Constants
      <4>3. k \in hits
        BY <3>1, <4>2 DEF Gone
      <4> QED
        BY <4>2, <4>3 DEF IInv, JobOK
    <3>4. IsFiniteSet(old) /\ Cardinality(old) \in Nat /\ id \notin old /\ old \in SUBSET Ids
      <4>1. old \in SUBSET Ids /\ id \notin old
        BY <1>0 DEF Within
      <4> QED
        BY <4>1, SomeFinite
    <3>5. Cardinality(old) < Limit
      BY DEF IInv, JobOK
    <3>6. IsFiniteSet(old \cup {id}) /\ Cardinality(old \cup {id}) = Cardinality(old) + 1
      BY <3>4, FS_AddElement
    <3>7. Counted(id) \in SUBSET Ids
      BY <1>0
    <3> HIDE DEF Counted
    <3>8. Cardinality(Counted(id)) <= Cardinality(old \cup {id}) /\ Cardinality(Counted(id)) \in Nat
      BY <3>3, <3>6, <3>7, FS_Subset, SomeFinite
    <3> QED
      BY <2>2, <3>4, <3>5, <3>6, <3>8, Constants
  <2> QED
    BY <1>0, <2>1, <2>2
<1> QED
  BY <1>2, <1>3, <1>4, <1>5, <1>6 DEF IInv

LEMMA RefuseIInv ==
  ASSUME IInv, NEW w \in Workers, Refuse(w)
  PROVE  IInv'
<1> USE DEF Refuse
<1> DEFINE now == job[w].now
           kept == job[w].kept
           a == [verdict |-> "refused", now |-> now, sent |-> clock,
                 until |-> RetryAt(now), seen |-> kept]
<1>0. /\ job[w] \in Jobs /\ now \in Times /\ now \in Nat /\ clock \in Nat /\ now <= clock
      /\ kept \subseteq hits /\ hits \subseteq 1 .. last /\ job[w].locked \in Times
      /\ kept \in SUBSET Ids
  BY Constants DEF IInv, TypeOK, JobOK, Jobs, Times, Ids
<1>1. RetryAt(now) \in Nat /\ clock \in Times
  BY <1>0, RetryFacts DEF IInv, TypeOK
<1>2. answer'[w] = a /\ a \in Answers
  <2>1. a \in Answers
    BY <1>0, <1>1, AnswerRecord
  <2> QED
    BY <2>1 DEF IInv, TypeOK
<1>3. TypeOK'
  <2>1. answer' \in [Workers -> Answers] /\ job' \in [Workers -> Jobs]
    BY <1>2, JobFacts DEF IInv, TypeOK
  <2>2. \A v \in Workers : lock' = v <=> job'[v].at \in {"cleaned", "counted"}
    BY OthersWait, JobFacts, LimitAssumption DEF IInv, TypeOK
  <2> QED
    BY <1>0, <2>1, <2>2 DEF IInv, TypeOK
<1>4. ASSUME NEW v \in Workers PROVE JobOK(v)'
  <2>1. CASE v = w
    BY <1>0, <2>1, JobFacts DEF IInv, TypeOK, JobOK
  <2>2. CASE v # w
    BY <2>2, OthersWait DEF IInv, TypeOK, JobOK
  <2> QED
    BY <2>1, <2>2
<1>5. ASSUME NEW v \in Workers PROVE AnswerOK(v)'
  <2>1. CASE v = w
    <3>1. kept \subseteq 1 .. last
      BY <1>0
    <3>2. a.verdict = "refused" /\ a.now = now /\ a.sent = clock /\ a.until = RetryAt(now) /\ a.seen = kept
      OBVIOUS
    <3>3. Until(a) \in Nat /\ Until(a) >= now + Window
      BY <1>0, <1>1, <3>2, RetryFacts, Constants DEF Until, Late
    <3>4. ASSUME NEW k \in kept, stamp[k] <= now
          PROVE  ~(stamp[k] > Until(a) - Window)
      <4>1. stamp[k] \in Nat
        BY <1>0, Constants DEF IInv, TypeOK, Times
      <4> HIDE DEF a
      <4> QED
        BY <1>0, <3>3, <3>4, <4>1, Constants
    <3> HIDE DEF a
    <3> QED
      BY <1>2, <2>1, <3>1, <3>2, <3>4 DEF AnswerOK, Within, Old, Until, Late
  <2>2. CASE v # w
    BY <2>2 DEF IInv, TypeOK, AnswerOK, Within, Old, Until, Late
  <2> QED
    BY <2>1, <2>2
<1>6. (Gone(clock) /\ WithinLimit)'
  <2>1. WithinLimit'
    BY DEF IInv, WithinLimit, Within
  <2>2. ASSUME NEW k \in 1 .. last, k \notin kept PROVE stamp[k] + Window < clock
    <3>1. stamp[k] \in Nat
      BY Constants DEF IInv, TypeOK, Times, Ids
    <3>2. CASE k \in hits
      <4>1. stamp[k] + Window < now
        BY <2>2, <3>2 DEF IInv, JobOK
      <4> QED
        BY <1>0, <3>1, <4>1, Constants
    <3>3. CASE k \notin hits
      BY <3>3 DEF IInv, Gone
    <3> QED
      BY <3>2, <3>3
  <2> QED
    BY <2>1, <2>2 DEF Gone
<1> QED
  BY <1>3, <1>4, <1>5, <1>6 DEF IInv

-----------------------------------------------------------------------------
LEMMA NextIInv == IInv /\ [Next]_vars => IInv'
<1> SUFFICES ASSUME IInv, [Next]_vars PROVE IInv'
  OBVIOUS
<1>1. ASSUME NEW w \in Workers,
             Check(w) \/ Clean(w) \/ Count(w) \/ Admit(w) \/ Refuse(w) \/ Fail(w) \/ Crash(w)
      PROVE  IInv'
  BY <1>1, CheckIInv, CleanIInv, CountIInv, AdmitIInv, RefuseIInv, GivenUpIInv
<1>2. CASE UNCHANGED vars
  BY <1>2 DEF vars, IInv, TypeOK, Gone, JobOK, AnswerOK, WithinLimit, Within, Old, Until, Late
<1> QED
  BY <1>1, <1>2, TickIInv DEF Next

LEMMA SpecIInv == Spec => []IInv
BY InitIInv, NextIInv, PTL DEF Spec

(* The state keeps its shape; the lock is with the one that is past its    *)
(* DELETE.                                                                 *)
THEOREM TypeCorrect == Spec => []TypeOK
<1>1. IInv => TypeOK
  BY DEF IInv
<1> QED
  BY <1>1, SpecIInv, PTL

(* Checks at once, crashes and the cleaning of others let no request in    *)
(* beyond the limit of its window, as far as that had not ended when the   *)
(* request got the lock.                                                   *)
THEOREM LimitKept == Spec => []WithinLimit
<1>1. IInv => WithinLimit
  BY DEF IInv
<1> QED
  BY <1>1, SpecIInv, PTL

(* Who waits as long as Retry-After says finds none of those hits left     *)
(* that were there at the time of the request, if that second was not over *)
(* when the answer was written; with one second more none is left if it    *)
(* was.                                                                    *)
THEOREM WaitSuffices == Spec => []RetryLongEnough
<1>1. IInv => RetryLongEnough
  BY DEF IInv, AnswerOK, RetryLongEnough, Old, Until, Late
<1> QED
  BY <1>1, SpecIInv, PTL

-----------------------------------------------------------------------------
(* The refinement.  What SlidingWindow sees of a check is the time it came *)
(* and what it answered.                                                   *)

Asked == [w \in Workers |-> IF job[w].at = "idle" THEN None ELSE job[w].now]
Verdict == [w \in Workers |-> answer[w].verdict]

LEMMA AskedOf ==
  ASSUME TypeOK, NEW w \in Workers
  PROVE  /\ job[w].at = "idle" => Asked[w] = None
         /\ job[w].at # "idle" => Asked[w] = job[w].now /\ Asked[w] # None
<1>1. job[w].now # None
  BY Typed, LimitAssumption DEF Times
<1> QED
  BY <1>1 DEF Asked

(* A step inside a check changes neither.                                  *)
LEMMA InsideStutters ==
  ASSUME TypeOK, NEW w \in Workers, NEW j, job' = [job EXCEPT ![w] = j],
         j.at # "idle", job[w].at # "idle", j.now = job[w].now,
         UNCHANGED <<clock, last, stamp, answer>>
  PROVE  UNCHANGED Limiter!svars
<1>1. \A v \in Workers : (job'[v].at = "idle" <=> job[v].at = "idle") /\ job'[v].now = job[v].now
  BY DEF TypeOK
<1> QED
  BY <1>1 DEF Limiter!svars

(* A check ends: nobody waits for w, and all others stand where they did.  *)
LEMMA EndAnswers ==
  ASSUME TypeOK, NEW w \in Workers, NEW v, job' = [job EXCEPT ![w] = Idle],
         \A u \in Workers : answer'[u].verdict = IF u = w THEN v ELSE answer[u].verdict,
         UNCHANGED clock
  PROVE  Limiter!Answered(w, v)
<1>1. Asked' = [Asked EXCEPT ![w] = None]
  <2>1. \A u \in Workers : Asked'[u] = IF u = w THEN None ELSE Asked[u]
    BY JobFacts DEF TypeOK, Asked
  <2> QED
    BY <2>1 DEF Asked
<1>2. Verdict' = [Verdict EXCEPT ![w] = v]
  <2>1. \A u \in Workers : Verdict'[u] = IF u = w THEN v ELSE Verdict[u]
    BY DEF Verdict
  <2> QED
    BY <2>1 DEF Verdict
<1> QED
  BY <1>1, <1>2 DEF Limiter!Answered, Asked, Verdict

(* What is counted with the lock held is a set that may be counted: all    *)
(* that is not gone since the lock was obtained is there.                  *)
LEMMA CountIsFair ==
  ASSUME IInv, NEW w \in Workers, job[w].at = "counted"
  PROVE  \E s \in Limiter!Countable(job[w].now) : Cardinality(s) = job[w].count
<1> DEFINE now == job[w].now
           t == job[w].locked
           counted == Within(job[w].kept, now)
<1>1. /\ job[w].kept \subseteq hits /\ \A k \in hits \ job[w].kept : stamp[k] + Window < now
      /\ now <= t /\ t <= clock /\ Gone(t) /\ job[w].count = Cardinality(counted)
  BY DEF IInv, JobOK
<1>2. now \in Nat /\ t \in Nat /\ clock \in Nat /\ Window \in Nat /\ hits \subseteq 1 .. last
  BY Typed, Constants DEF IInv, TypeOK, Times
<1>3. \A k \in 1 .. last : stamp[k] \in Nat
  BY Constants DEF IInv, TypeOK, Times, Ids
<1>4. counted \subseteq Limiter!InWindow(now)
  BY <1>1, <1>2 DEF Within, Limiter!InWindow
<1>5. Limiter!Alive(now, t) \subseteq counted
  <2> SUFFICES ASSUME NEW k \in 1 .. last, stamp[k] > now - Window, stamp[k] + Window >= t
               PROVE  k \in job[w].kept
    BY DEF Limiter!Alive, Limiter!InWindow, Within
  <2>1. stamp[k] \in Nat
    BY <1>3
  <2>2. ~(stamp[k] + Window < t) /\ ~(stamp[k] + Window < now)
    BY <1>1, <1>2, <2>1
  <2> QED
    BY <1>1, <2>2 DEF Gone
<1>6. t \in now .. clock
  BY <1>1, <1>2
<1> QED
  BY <1>1, <1>4, <1>5, <1>6 DEF Limiter!Countable

(* The cardinality of SlidingWindow is the cardinality of this module.     *)
LEMMA SameCardinality == \A S : Limiter!Cardinality(S) = Cardinality(S)
BY DEF Limiter!Cardinality, Cardinality

LEMMA InitLimiter == Init => Limiter!Init
BY JobFacts DEF Init, Limiter!Init, Ids

LEMMA CheckMaps ==
  ASSUME IInv, NEW w \in Workers, Check(w)
  PROVE  Limiter!Ask(w)
<1> DEFINE j == At("begun", clock, 0, {}, 0)
<1>1. TypeOK /\ job[w].at = "idle" /\ j.at = "begun" /\ j.now = clock
      /\ job' = [job EXCEPT ![w] = j] /\ answer' = [answer EXCEPT ![w] = NoAnswer]
      /\ UNCHANGED <<clock, last, stamp>>
  BY DEF IInv, Check, At
<1> HIDE DEF j
<1>2. Asked[w] = None
  BY <1>1, AskedOf
<1>3. Asked' = [Asked EXCEPT ![w] = clock]
  <2>1. \A u \in Workers : Asked'[u] = IF u = w THEN clock ELSE Asked[u]
    BY <1>1 DEF TypeOK, Asked
  <2> QED
    BY <2>1 DEF Asked
<1>4. Verdict' = [Verdict EXCEPT ![w] = "none"]
  <2>1. \A u \in Workers : Verdict'[u] = IF u = w THEN "none" ELSE Verdict[u]
    BY <1>1, JobFacts DEF TypeOK, Verdict
  <2> QED
    BY <2>1 DEF Verdict
<1> QED
  BY <1>1, <1>2, <1>3, <1>4 DEF Limiter!Ask, Asked, Verdict

LEMMA AdmitMaps ==
  ASSUME IInv, NEW w \in Workers, Admit(w)
  PROVE  Limiter!Admit(w)
<1>1. TypeOK /\ job[w].at = "counted" /\ Asked[w] = job[w].now /\ Asked[w] # None
  BY AskedOf DEF IInv, Admit
<1>2. \E s \in Limiter!Countable(job[w].now) : Cardinality(s) < Limit
  BY <1>1, CountIsFair DEF Admit
<1>3. \A u \in Workers : answer'[u].verdict = IF u = w THEN "allowed" ELSE answer[u].verdict
  BY <1>1 DEF Admit, TypeOK
<1>4. Limiter!Answered(w, "allowed")
  BY <1>1, <1>3, EndAnswers DEF Admit
<1> QED
  BY <1>1, <1>2, <1>4, SameCardinality DEF Limiter!Admit, Admit, Asked

LEMMA RefuseMaps ==
  ASSUME IInv, NEW w \in Workers, Refuse(w)
  PROVE  Limiter!Refuse(w)
<1>1. TypeOK /\ job[w].at = "counted" /\ Asked[w] = job[w].now /\ Asked[w] # None
  BY AskedOf DEF IInv, Refuse
<1>2. \E s \in Limiter!Countable(job[w].now) : Cardinality(s) >= Limit
  BY <1>1, CountIsFair DEF Refuse
<1>3. \A u \in Workers : answer'[u].verdict = IF u = w THEN "refused" ELSE answer[u].verdict
  BY <1>1 DEF Refuse, TypeOK
<1>4. Limiter!Answered(w, "refused")
  BY <1>1, <1>3, EndAnswers DEF Refuse
<1> QED
  BY <1>1, <1>2, <1>4, SameCardinality DEF Limiter!Refuse, Refuse, Asked

LEMMA GivenUpMaps ==
  ASSUME IInv, NEW w \in Workers, Fail(w) \/ Crash(w)
  PROVE  Limiter!GiveUp(w)
<1>1. TypeOK /\ Asked[w] # None /\ job' = [job EXCEPT ![w] = Idle]
      /\ UNCHANGED <<clock, last, stamp>>
  BY AskedOf DEF IInv, Fail, Crash
<1>2. CASE Fail(w)
  <2>1. \A u \in Workers : answer'[u].verdict = IF u = w THEN "unchecked" ELSE answer[u].verdict
    BY <1>1, <1>2 DEF Fail, TypeOK
  <2>2. Limiter!Answered(w, "unchecked")
    BY <1>1, <2>1, EndAnswers
  <2> QED
    BY <1>1, <2>2 DEF Limiter!GiveUp, Asked
<1>3. CASE Crash(w)
  <2>1. PICK v : v = answer[w].verdict
    OBVIOUS
  <2>2. \A u \in Workers : answer'[u].verdict = IF u = w THEN v ELSE answer[u].verdict
    BY <1>3, <2>1 DEF Crash
  <2>3. Limiter!Answered(w, v)
    BY <1>1, <2>2, EndAnswers
  <2>4. v = Verdict[w]
    BY <2>1 DEF Verdict
  <2> QED
    BY <1>1, <2>3, <2>4 DEF Limiter!GiveUp, Asked, Verdict
<1> QED
  BY <1>2, <1>3

LEMMA StepLimiter ==
  ASSUME IInv, [Next]_vars
  PROVE  [Limiter!Next]_(Limiter!svars)
<1>1. ASSUME NEW w \in Workers, Clean(w)
      PROVE  UNCHANGED Limiter!svars
  <2> DEFINE j == At("cleaned", job[w].now, clock, {k \in hits : ~ stamp[k] + Window < job[w].now}, 0)
  <2>1. TypeOK /\ job[w].at = "begun" /\ job' = [job EXCEPT ![w] = j]
        /\ j.at = "cleaned" /\ j.now = job[w].now /\ UNCHANGED <<clock, last, stamp, answer>>
    BY <1>1 DEF IInv, Clean, At
  <2> HIDE DEF j
  <2> QED
    BY <2>1, InsideStutters
<1>2. ASSUME NEW w \in Workers, Count(w)
      PROVE  UNCHANGED Limiter!svars
  <2> DEFINE j == At("counted", job[w].now, job[w].locked, job[w].kept,
                     Cardinality(Within(job[w].kept, job[w].now)))
  <2>1. TypeOK /\ job[w].at = "cleaned" /\ job' = [job EXCEPT ![w] = j]
        /\ j.at = "counted" /\ j.now = job[w].now /\ UNCHANGED <<clock, last, stamp, answer>>
    BY <1>2 DEF IInv, Count, At
  <2> HIDE DEF j
  <2> QED
    BY <2>1, InsideStutters
<1>3. ASSUME NEW w \in Workers, Check(w) \/ Admit(w) \/ Refuse(w) \/ Fail(w) \/ Crash(w)
      PROVE  Limiter!Next
  BY <1>3, CheckMaps, AdmitMaps, RefuseMaps, GivenUpMaps DEF Limiter!Next
<1>4. CASE Tick
  BY <1>4 DEF Tick, Limiter!Next, Limiter!Tick
<1>5. CASE UNCHANGED vars
  BY <1>5 DEF vars, Limiter!svars
<1> QED
  BY <1>1, <1>2, <1>3, <1>4, <1>5 DEF Next

(* check_and_record implements SlidingWindow: with any number of workers,  *)
(* a request that reads the clock, waits for the lock, deletes what has    *)
(* expired, counts and inserts is, for those who see the answers and the   *)
(* hits, let in or refused in one step, by hits that it may count.         *)
THEOREM CountAndInsertAreOneStep == Spec => OneStep
<1>1. IInv /\ [Next]_vars => [Limiter!Next]_(Limiter!svars)
  BY StepLimiter
<1> QED
  BY <1>1, InitLimiter, SpecIInv, PTL DEF Spec, OneStep, Limiter!Spec

-----------------------------------------------------------------------------
(* What SlidingWindow promises at any moment.  A hit that a request may    *)
(* leave out of its count has left the window that ends now.               *)

LEMMA Current ==
  ASSUME TypeOK
  PROVE  /\ Within(1 .. last, clock) \in SUBSET Ids
         /\ \A k \in 1 .. last : k \in Ids /\ stamp[k] \in Nat
         /\ clock \in Nat /\ last \in Nat /\ Window \in Nat /\ Limit \in Nat
<1>1. last \in 0 .. MaxHits /\ clock \in 0 .. MaxTime /\ stamp \in [Ids -> Times]
  BY DEF TypeOK, Times
<1>2. 1 .. last \subseteq Ids
  BY <1>1, Constants DEF Ids
<1>3. \A k \in 1 .. last : stamp[k] \in Nat
  BY <1>1, <1>2, Constants DEF Times
<1> QED
  BY <1>1, <1>2, <1>3, Constants DEF Within

(* While no hit is added the window only loses hits.                       *)
LEMMA LimitNowKept ==
  ASSUME TypeOK, LimitNow, last' = last, stamp' = stamp,
         clock' \in Nat, clock <= clock'
  PROVE  LimitNow'
<1> DEFINE old == Within(1 .. last, clock)
           new == {k \in 1 .. last : stamp[k] > clock' - Window}
<1>1. new \subseteq old
  BY Current DEF Within
<1>2. old \in SUBSET Ids /\ new \in SUBSET Ids
  BY <1>1, Current
<1>3. IsFiniteSet(old) /\ Cardinality(old) \in Nat /\ Cardinality(new) \in Nat
  BY <1>2, SomeFinite
<1> HIDE DEF new, old
<1>4. Cardinality(new) <= Cardinality(old)
  BY <1>1, <1>3, FS_Subset
<1>5. Cardinality(new) <= Limit
  BY <1>3, <1>4, Constants DEF LimitNow, old
<1> QED
  BY <1>5 DEF LimitNow, Within, new

LEMMA LimitNowAdmit ==
  ASSUME TypeOK, TypeOK', LimitNow, NEW w \in Workers, Limiter!Admit(w)
  PROVE  LimitNow'
<1> DEFINE id == last + 1
           now == Asked[w]
           new == {k \in 1 .. id : stamp'[k] > clock - Window}
<1>1. PICK s \in Limiter!Countable(now) : Cardinality(s) < Limit
  BY SameCardinality DEF Limiter!Admit, Asked
<1>2. last' = id /\ stamp' = [stamp EXCEPT ![id] = now] /\ clock' = clock
      /\ now # None
  BY DEF Limiter!Admit, Limiter!Answered, Asked
<1>3. now \in Nat
  BY <1>2, AskedOf, Typed
<1>4. PICK t \in now .. clock : Limiter!Alive(now, t) \subseteq s
  BY <1>1 DEF Limiter!Countable
<1>5. s \subseteq 1 .. last
  BY <1>1 DEF Limiter!Countable, Limiter!InWindow
<1>6. new \subseteq s \cup {id}
  <2> SUFFICES ASSUME NEW k \in 1 .. last, stamp[k] > clock - Window
               PROVE  k \in Limiter!Alive(now, t)
    BY <1>2, <1>4, Current DEF TypeOK
  <2>1. t \in Nat /\ now <= t /\ t <= clock /\ stamp[k] \in Nat
    BY <1>3, <1>4, Current
  <2>2. stamp[k] > now - Window /\ stamp[k] + Window >= t
    BY <1>3, <2>1, Current
  <2> QED
    BY <2>2 DEF Limiter!Alive, Limiter!InWindow
<1>7. s \in SUBSET Ids /\ id \notin s
  BY <1>5, Current
<1>8. IsFiniteSet(s) /\ Cardinality(s) \in Nat
  BY <1>7, SomeFinite
<1>9. IsFiniteSet(s \cup {id}) /\ Cardinality(s \cup {id}) = Cardinality(s) + 1
  BY <1>7, <1>8, FS_AddElement
<1> HIDE DEF new, id
<1>10. Cardinality(new) <= Cardinality(s \cup {id}) /\ Cardinality(new) \in Nat
  BY <1>6, <1>9, FS_Subset, FS_CardinalityType
<1>11. Cardinality(new) <= Limit
  BY <1>1, <1>8, <1>9, <1>10, Constants
<1> QED
  BY <1>2, <1>11 DEF LimitNow, Within, new

(* Whoever relies on SlidingWindow may rely on the limit at any moment,    *)
(* without knowing when a request that was let in has waited, or how long. *)
THEOREM WindowSuffices == []TypeOK /\ OneStep => []LimitNow
<1>1. Limiter!Init => LimitNow
  <2> SUFFICES ASSUME Limiter!Init PROVE LimitNow
    OBVIOUS
  <2>1. Within(1 .. last, clock) = {}
    BY DEF Limiter!Init, Within
  <2> QED
    BY <2>1, FS_EmptySet, Constants DEF LimitNow
<1>2. TypeOK /\ TypeOK' /\ LimitNow /\ [Limiter!Next]_(Limiter!svars) => LimitNow'
  <2> SUFFICES ASSUME TypeOK, TypeOK', LimitNow, [Limiter!Next]_(Limiter!svars)
               PROVE  LimitNow'
    OBVIOUS
  <2>1. clock' \in Nat /\ clock \in Nat
    BY Constants DEF TypeOK, Times
  <2>2. ASSUME NEW w \in Workers,
               Limiter!Ask(w) \/ Limiter!Refuse(w) \/ Limiter!GiveUp(w)
        PROVE  UNCHANGED <<clock, last, stamp>>
    BY <2>2 DEF Limiter!Ask, Limiter!Refuse, Limiter!GiveUp, Limiter!Answered
  <2>3. CASE Limiter!Tick \/ UNCHANGED <<clock, last, stamp>>
    <3>1. last' = last /\ stamp' = stamp /\ clock <= clock'
      BY <2>1, <2>3 DEF Limiter!Tick
    <3> QED
      BY <2>1, <3>1, LimitNowKept
  <2>4. CASE UNCHANGED Limiter!svars
    BY <2>3, <2>4 DEF Limiter!svars
  <2> QED
    BY <2>2, <2>3, <2>4, LimitNowAdmit DEF Limiter!Next
<1> QED
  BY <1>1, <1>2, PTL DEF OneStep, Limiter!Spec

=============================================================================
