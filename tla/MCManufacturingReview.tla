----------------------- MODULE MCManufacturingReview -----------------------
(***************************************************************************)
(* An instance of ManufacturingReview for TLC: three requests that compete *)
(* for one review on two server processes.                                 *)
(***************************************************************************)
EXTENDS ManufacturingReview

CONSTANTS p1, p2   \* the processes

Submission == [action |-> "submit",  expected |-> 0]
Hasty      == [action |-> "approve", expected |-> 0]   \* skips the submission
Approval   == [action |-> "approve", expected |-> 1]
Rejection  == [action |-> "reject",  expected |-> 1]

MCAsks == {Submission, Hasty, Approval, Rejection}

(* What the requests 1, 2 and 3 ask for, and which process serves each:    *)
(* two submissions of one draft, two decisions on one submission, and an   *)
(* approval that comes before the submission, with the same and with       *)
(* different processes.                                                    *)
Scenarios == {<<<<Submission, Submission, Approval>>, <<p1, p2, p2>>>>,
              <<<<Submission, Submission, Approval>>, <<p2, p2, p1>>>>,
              <<<<Submission, Approval, Rejection>>, <<p1, p1, p2>>>>,
              <<<<Submission, Approval, Rejection>>, <<p2, p1, p2>>>>,
              <<<<Submission, Hasty, Rejection>>, <<p1, p2, p1>>>>,
              <<<<Submission, Hasty, Rejection>>, <<p2, p1, p2>>>>}

MCInit == Init /\ <<ask, home>> \in Scenarios

(* FairSpec from these initial states.                                     *)
MCSpec == MCInit /\ [][Next]_vars /\ \A r \in Requests : WF_vars(Serve(r))

=============================================================================
