------------------------------ MODULE MCStartUp ------------------------------
(* Model-checking instance of StartUp: two migrations, two requests.       *)
EXTENDS StartUp

CONSTANTS t1, r1, r2

(* The two requests are there at the same time before the first upload,    *)
(* one of them at any time.  A backup and a deletion are each followed     *)
(* without the bucket and without the other, and what a backup that was    *)
(* put back under a run of `db push' leads to is not followed.             *)
Focus ==
  LET busy == {r \in Requests : job[r] # Idle \/ open[r]}
      noCopy == push = "idle" /\ \A f \in Dbs : bucket[f] = Absent
      deleted == life \notin {"unborn", "made"}
  IN  /\ \/ noCopy /\ backup = Absent
         \/ busy # Requests
      /\ backup # Absent \/ deleted => noCopy
      /\ ~(backup # Absent /\ deleted)
      /\ "crossed" \notin mishaps

=============================================================================
