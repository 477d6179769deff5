---------------------------- MODULE JobLifecycle ----------------------------
(***************************************************************************)
(* What the job pipeline promises, and nothing about how it keeps it.      *)
(*                                                                         *)
(* A job is a durable intent to control one service.  A human decides it   *)
(* once; an approved job is claimed once; a claimed job reaches the host   *)
(* at most once, and is called completed only after its effect on the      *)
(* host has been confirmed.  A failed job promises nothing about the host: *)
(* the command may still be on its way when the job fails.                 *)
(***************************************************************************)

CONSTANT Jobs

VARIABLES
    status,     \* status[j]: where job j is in its life
    effect      \* effect[j]: what has become of j's command on the host

vars == <<status, effect>>

Statuses == {"absent", "queued", "approved", "rejected",
             "running", "completed", "failed"}

Effects == {"none", "sent", "applied", "unconfirmed"}

TypeOK ==
    /\ status \in [Jobs -> Statuses]
    /\ effect \in [Jobs -> Effects]

Init ==
    /\ status = [j \in Jobs |-> "absent"]
    /\ effect = [j \in Jobs |-> "none"]

Move(j, from, to) ==
    /\ status[j] = from
    /\ status' = [status EXCEPT ![j] = to]

Create(j)  == Move(j, "absent", "queued") /\ UNCHANGED effect
Approve(j) == Move(j, "queued", "approved") /\ UNCHANGED effect
Reject(j)  == Move(j, "queued", "rejected") /\ UNCHANGED effect
Claim(j)   == Move(j, "approved", "running") /\ UNCHANGED effect
Fail(j)    == Move(j, "running", "failed") /\ UNCHANGED effect

Complete(j) ==
    /\ effect[j] = "applied"
    /\ Move(j, "running", "completed")
    /\ UNCHANGED effect

\* Only a running job is sent to the host, and only once.
Send(j) ==
    /\ status[j] = "running"
    /\ effect[j] = "none"
    /\ effect' = [effect EXCEPT ![j] = "sent"]
    /\ UNCHANGED status

\* The host settles the command, possibly after the job was given up on.
Settle(j) ==
    /\ effect[j] = "sent"
    /\ \E e \in {"applied", "unconfirmed"} : effect' = [effect EXCEPT ![j] = e]
    /\ UNCHANGED status

\* The host side dies; whatever was under way there is never confirmed.
HostStops ==
    /\ effect' = [j \in Jobs |-> IF effect[j] = "sent" THEN "unconfirmed" ELSE effect[j]]
    /\ UNCHANGED status

Next ==
    \/ HostStops
    \/ \E j \in Jobs :
         \/ Create(j) \/ Approve(j) \/ Reject(j) \/ Claim(j)
         \/ Send(j) \/ Settle(j) \/ Complete(j) \/ Fail(j)

Spec == Init /\ [][Next]_vars
=============================================================================
