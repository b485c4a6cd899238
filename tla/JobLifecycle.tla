----------------------------- MODULE JobLifecycle -----------------------------
(***************************************************************************)
(* What a client that polls GET /jobs/{id} relies on, and all it can see   *)
(* of a job: the job appears as PENDING, may become PROCESSING, and ends   *)
(* as DONE or FAILED, for good.  Only a job that was PROCESSING is DONE.   *)
(* The statuses are those of the CHECK constraint of infra/postgres/       *)
(* init.sql.                                                               *)
(***************************************************************************)
CONSTANT Ids
VARIABLE status

Unfinished == {"PENDING", "PROCESSING"}
Finished == {"DONE", "FAILED"}

LifecycleTypeOK == status \in [Ids -> {"none"} \union Unfinished \union Finished]

Move(i, from, to) ==
  /\ status[i] \in from
  /\ status' = [status EXCEPT ![i] = to]

Create(i) == Move(i, {"none"}, "PENDING")
Start(i)  == Move(i, {"PENDING"}, "PROCESSING")
Finish(i) == Move(i, {"PROCESSING"}, "DONE")
Fail(i)   == Move(i, Unfinished, "FAILED")

Init == status = [i \in Ids |-> "none"]
Next == \E i \in Ids : Create(i) \/ Start(i) \/ Finish(i) \/ Fail(i)
Spec == Init /\ [][Next]_status
=============================================================================
