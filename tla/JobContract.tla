----------------------------- MODULE JobContract -----------------------------
(***************************************************************************)
(* What the background job service promises about a job, whatever fails:    *)
(* its file goes through one life, its command is started at most once and  *)
(* only while the file shows the job as accepted and unfinished, and output *)
(* is published only for a job whose command was started.                   *)
(***************************************************************************)
CONSTANT Jobs

VARIABLES
    durable,  \* what a restarted service would find out about each job
    started   \* jobs whose command has been started

Status == {"none", "open", "closed", "published", "removed"}

\* none -> open: accepted.  none -> closed: cancelled before the acceptance
\* was written.  A removed job never comes back.
Life == {<<"none", "open">>, <<"none", "closed">>, <<"open", "closed">>,
         <<"open", "published">>, <<"closed", "removed">>,
         <<"published", "removed">>}

Init == /\ durable = [j \in Jobs |-> "none"]
        /\ started = {}

Start == \E j \in Jobs \ started :
            /\ durable[j] = "open"
            /\ started' = started \cup {j}
            /\ UNCHANGED durable

\* One write of the store, with the removals that precede it.
Write == /\ durable' \in [Jobs -> Status]
         /\ \A j \in Jobs :
               /\ durable'[j] # durable[j] => <<durable[j], durable'[j]>> \in Life
               /\ durable'[j] = "published" => j \in started
         /\ UNCHANGED started

Next == Start \/ Write

Spec == Init /\ [][Next]_<<durable, started>>
=============================================================================
