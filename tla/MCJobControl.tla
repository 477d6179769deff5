---------------------------- MODULE MCJobControl ----------------------------
(***************************************************************************)
(* JobControl for TLC.  Requests are interchangeable (nothing in the code  *)
(* orders request ids), jobs are not (claimApprovedSQL orders by id).      *)
(***************************************************************************)
EXTENDS JobControl, TLC

RequestSymmetry == Permutations(Requests)

\* Two jobs: either the agent refuses everything, and the jobs are half a second
\* apart, within a second or not, whichever is the older; or their commands may
\* overlap, and they are of one time, with ids in the order of their creation.
Exists(j) == status'[j] # "absent"

TwoJobsNext ==
    /\ Next
    /\ IF agent = "enabled"
       THEN /\ \A j \in Jobs : created'[j].at = 0
            /\ \A j, k \in Jobs : j < k /\ Exists(k) => Exists(j)
       ELSE \A j, k \in Jobs : j # k /\ Exists(j) /\ Exists(k) =>
                created'[j].at - created'[k].at \in {-1, 1}

TwoJobs == Init /\ [][TwoJobsNext]_vars
=============================================================================
