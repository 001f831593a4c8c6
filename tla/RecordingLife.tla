----------------------------- MODULE RecordingLife -----------------------------
(***************************************************************************)
(* What the recorder promises of every recording, whatever its four tasks  *)
(* read before and write after each other: the row only moves forward, the *)
(* recording has one ffmpeg at a time, and it is completed only while none *)
(* runs.                                                                   *)
(***************************************************************************)
CONSTANT Recordings

VARIABLES
    status,     \* of the row
    ffmpeg      \* "none", "running", or "exited" with its outcome not written

lifeVars == <<status, ffmpeg>>

Outcomes == {"completed", "failed", "missed", "cancelled"}

LifeInit ==
    /\ status = [r \in Recordings |-> "none"]
    /\ ffmpeg = [r \in Recordings |-> "none"]

Schedule(r) ==
    /\ status[r] = "none"
    /\ status' = [status EXCEPT ![r] = "scheduled"]
    /\ UNCHANGED ffmpeg

Spawn(r) ==
    /\ status[r] # "none"
    /\ ffmpeg[r] = "none"
    /\ ffmpeg' = [ffmpeg EXCEPT ![r] = "running"]
    /\ UNCHANGED status

Begin(r) ==
    /\ status[r] = "scheduled"
    /\ status' = [status EXCEPT ![r] = "recording"]
    /\ UNCHANGED ffmpeg

Exit(r) ==
    /\ ffmpeg[r] = "running"
    /\ ffmpeg' = [ffmpeg EXCEPT ![r] = "exited"]
    /\ UNCHANGED status

\* The outcome is written, or left open, and ffmpeg forgotten in one step.
Conclude(r) ==
    /\ ffmpeg[r] = "exited"
    /\ ffmpeg' = [ffmpeg EXCEPT ![r] = "none"]
    /\ \/ UNCHANGED status
       \/ /\ status[r] \notin {"none", "deleted"}
          /\ \E outcome \in {"completed", "failed"} :
                status' = [status EXCEPT ![r] = outcome]

\* Another task settles the row, or replaces the outcome it has.
Settle(r) ==
    /\ status[r] \notin {"none", "deleted"}
    /\ \E outcome \in Outcomes :
          /\ outcome = "completed" => ffmpeg[r] = "none"
          /\ status' = [status EXCEPT ![r] = outcome]
    /\ UNCHANGED ffmpeg

Delete(r) ==
    /\ status[r] \in Outcomes
    /\ status' = [status EXCEPT ![r] = "deleted"]
    /\ UNCHANGED ffmpeg

\* The service stops: every ffmpeg goes with it, the rows stay.
Lose ==
    /\ ffmpeg' = [r \in Recordings |-> "none"]
    /\ UNCHANGED status

LifeNext ==
    \/ \E r \in Recordings : \/ Schedule(r) \/ Spawn(r) \/ Begin(r) \/ Exit(r)
                             \/ Conclude(r) \/ Settle(r) \/ Delete(r)
    \/ Lose

LifeSpec == LifeInit /\ [][LifeNext]_lifeVars

=============================================================================
