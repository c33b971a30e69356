---------------------------- MODULE VideoContract -----------------------------
(***************************************************************************)
(* What a client may rely on about the status of its video: the status     *)
(* transitions core-api and the pipeline-worker own between them.          *)
(***************************************************************************)
VARIABLE status

Existing == {"PENDING", "UPLOADED", "PROCESSING", "READY", "FAILED"}

Init == status = "ABSENT"

Step(from, to) == status \in from /\ status' = to

Accept   == Step({"ABSENT"}, "PENDING")
Complete == Step({"PENDING"}, "UPLOADED")
Claim    == Step({"PENDING", "UPLOADED"}, "PROCESSING")
Succeed  == Step({"PROCESSING"}, "READY")
Fail     == Step({"PROCESSING"}, "FAILED")
Retry    == Step({"FAILED"}, "PENDING")
Delete   == Step(Existing, "DELETING")
Remove   == Step({"DELETING"}, "GONE")

Next == \/ Accept \/ Complete \/ Claim \/ Succeed \/ Fail
        \/ Retry \/ Delete \/ Remove

Spec == Init /\ [][Next]_status
=============================================================================
