--------------------------------- MODULE Dvr ---------------------------------
(***************************************************************************)
(* Recordings of the iptv service (crates/iptv/src/dvr.rs): the rows in    *)
(* SQLite, the 20 s scheduler tick, the ffmpeg recorder and the DELETE     *)
(* route.  Four tasks meet on one row: the tick, which works through a     *)
(* snapshot of the rows; a recording's supervisor, which writes the        *)
(* outcome once ffmpeg exited; a DELETE; and shutdown.  Every database     *)
(* call is an await, so each is a step of its own and the others run in    *)
(* between.                                                                *)
(*                                                                         *)
(* A recording's clock is the phase of its window.  Database errors, the   *)
(* tracker slot (StreamTracker models it) and playback are left out.       *)
(***************************************************************************)
EXTENDS Naturals, FiniteSets, Functions

CONSTANTS
    Recordings,     \* recording ids
    NoRecording,
    MaxRestarts     \* bound on restarts of the service

ASSUME DvrAssumption == NoRecording \notin Recordings /\ MaxRestarts \in Nat

VARIABLES
    rows,       \* dvr_recordings: id -> status and whether file_path is set
    window,     \* where now is: before start_utc, open, past stop_utc
    files,      \* recordings with an <id>.ts on disk
    children,   \* Shared.children: recordings with an ffmpeg not finalized yet
    tick,       \* the scheduler pass
    del,        \* the DELETE in flight
    stopping,   \* shutdown has begun
    restarts    \* restarts so far

dvrVars == <<rows, window, files, children, tick, del, stopping, restarts>>

Active == {"scheduled", "recording"}
Terminal == {"completed", "failed", "missed", "cancelled"}

\* "none": not scheduled yet.  "deleted": the row is gone for good.
Statuses == Active \cup Terminal \cup {"none", "deleted"}

Child == [exit : {"running", "ok", "sigterm", "error"},
          term : BOOLEAN,                     \* stop asked for (Child.term)
          seen : Statuses \cup {"unread"}]    \* the status finalize read

NewChild == [exit |-> "running", term |-> FALSE, seen |-> "unread"]

TickIdle == [pc |-> "idle", starts |-> {}, stops |-> {}, misses |-> {},
             cur |-> NoRecording]

NoDelete == [rec |-> NoRecording, seen |-> "none", path |-> FALSE, current |-> "unread"]

Recorded == DOMAIN children
Running(r) == r \in Recorded /\ children[r].exit = "running"

WithStatus(r, status) ==
    rows' = IF rows[r].status = "deleted" THEN rows
            ELSE [rows EXCEPT ![r].status = status]

Terminated(ids) ==
    children' = [r \in Recorded |-> IF r \in ids THEN [children[r] EXCEPT !.term = TRUE]
                                    ELSE children[r]]

-----------------------------------------------------------------------------
DvrInit ==
    /\ rows = [r \in Recordings |-> [status |-> "none", path |-> FALSE]]
    /\ window = [r \in Recordings |-> "before"]
    /\ files = {}
    /\ children = << >>
    /\ tick = TickIdle
    /\ del = NoDelete
    /\ stopping = FALSE
    /\ restarts = 0

\* schedule_route: a window that has not ended.
Schedule(r) ==
    /\ ~stopping
    /\ rows[r].status = "none"
    /\ window[r] # "closed"
    /\ WithStatus(r, "scheduled")
    /\ UNCHANGED <<window, files, children, tick, del, stopping, restarts>>

TimePasses(r) ==
    /\ window' = [window EXCEPT ![r] = IF @ = "before" THEN "open" ELSE "closed"]
    /\ UNCHANGED <<rows, files, children, tick, del, stopping, restarts>>

-----------------------------------------------------------------------------
(* The scheduler's tick. *)

At(pc) == ~stopping /\ tick.pc = pc
Becomes(pc) == tick' = [tick EXCEPT !.pc = pc]

\* Mutant of Planned: only a row whose ffmpeg runs is stopped.
PlannedRunningOnly ==
    [starts |-> {r \in Recordings : rows[r].status \in Active /\ window[r] = "open"},
     stops  |-> {r \in Recorded : rows[r].status = "recording" /\ window[r] = "closed"},
     misses |-> {r \in Recordings : rows[r].status = "scheduled" /\ window[r] = "closed"}]

\* plan_transitions.
Planned ==
    [starts |-> {r \in Recordings : rows[r].status \in Active /\ window[r] = "open"},
     stops  |-> {r \in Recordings : rows[r].status = "recording" /\ window[r] = "closed"},
     misses |-> {r \in Recordings : rows[r].status = "scheduled" /\ window[r] = "closed"}]

\* tick reads the active rows ...
TickRead ==
    /\ At("idle")
    /\ tick' = [pc |-> "plan", starts |-> Planned.starts, stops |-> Planned.stops,
                misses |-> Planned.misses, cur |-> NoRecording]
    /\ UNCHANGED <<rows, window, files, children, del, stopping, restarts>>

\* Mutant of TickPlan: recordings in flight are not skipped.
TickPlanAll ==
    /\ At("plan")
    /\ Becomes("work")
    /\ UNCHANGED <<rows, window, files, children, del, stopping, restarts>>

\* ... and, back from the await, which recordings run.
TickPlan ==
    /\ At("plan")
    /\ tick' = [tick EXCEPT !.pc = "work", !.starts = @ \ Recorded]
    /\ UNCHANGED <<rows, window, files, children, del, stopping, restarts>>

\* Recorder::start: deferred, failed, or an ffmpeg writing the row's file.
TickStart(r) ==
    /\ At("work")
    /\ r \in tick.starts
    /\ \/ /\ tick' = [tick EXCEPT !.starts = @ \ {r}]
          /\ UNCHANGED children
       \/ /\ tick' = [tick EXCEPT !.starts = @ \ {r}, !.pc = "fail", !.cur = r]
          /\ UNCHANGED children
       \/ /\ tick' = [tick EXCEPT !.starts = @ \ {r}, !.pc = "mark", !.cur = r]
          /\ children' = [i \in Recorded \cup {r} |-> IF i = r THEN NewChild ELSE children[i]]
    /\ UNCHANGED <<rows, window, files, del, stopping, restarts>>

\* Mutant of TickMark: the update forgets the status guard.
TickMarkAlways ==
    /\ At("mark")
    /\ rows' = [rows EXCEPT ![tick.cur] =
                   IF @.status # "deleted" THEN [status |-> "recording", path |-> TRUE] ELSE @]
    /\ Becomes("work")
    /\ UNCHANGED <<window, files, children, del, stopping, restarts>>

\* The UPDATE after a start: only a row still active becomes recording.
TickMark ==
    /\ At("mark")
    /\ rows' = [rows EXCEPT ![tick.cur] =
                   IF @.status \in Active THEN [status |-> "recording", path |-> TRUE] ELSE @]
    /\ Becomes("work")
    /\ UNCHANGED <<window, files, children, del, stopping, restarts>>

TickFail ==
    /\ At("fail")
    /\ WithStatus(tick.cur, "failed")
    /\ Becomes("work")
    /\ UNCHANGED <<window, files, children, del, stopping, restarts>>

\* Recorder::stop of a row whose window closed ...
TickStop(r) ==
    /\ At("work")
    /\ tick.starts = {}
    /\ r \in tick.stops
    /\ Terminated({r})
    /\ tick' = [tick EXCEPT !.stops = @ \ {r}, !.pc = "wait", !.cur = r]
    /\ UNCHANGED <<rows, window, files, del, stopping, restarts>>

\* Mutant of TickWait: tick does not wait for the child's exit.
TickWaitNot ==
    /\ At("wait")
    /\ Becomes(IF rows[tick.cur].status = "recording" THEN "backstop" ELSE "work")
    /\ UNCHANGED <<rows, window, files, children, del, stopping, restarts>>

\* ... resolves once its outcome is written; then the row is read again ...
TickWait ==
    /\ At("wait")
    /\ tick.cur \notin Recorded
    /\ Becomes(IF rows[tick.cur].status = "recording" THEN "backstop" ELSE "work")
    /\ UNCHANGED <<rows, window, files, children, del, stopping, restarts>>

\* ... and one still recording is marked completed.
TickBackstop ==
    /\ At("backstop")
    /\ WithStatus(tick.cur, "completed")
    /\ Becomes("work")
    /\ UNCHANGED <<window, files, children, del, stopping, restarts>>

TickMiss(r) ==
    /\ At("work")
    /\ tick.starts = {}
    /\ tick.stops = {}
    /\ r \in tick.misses
    /\ WithStatus(r, "missed")
    /\ tick' = [tick EXCEPT !.misses = @ \ {r}]
    /\ UNCHANGED <<window, files, children, del, stopping, restarts>>

TickEnd ==
    /\ At("work")
    /\ tick.starts = {} /\ tick.stops = {} /\ tick.misses = {}
    /\ tick' = TickIdle
    /\ UNCHANGED <<rows, window, files, children, del, stopping, restarts>>

-----------------------------------------------------------------------------
(* A recording's supervisor. *)

\* ffmpeg exits: 0 at the end of its input or of -t, by a SIGTERM (ours,
\* trapped, or the container's), or with an error or our SIGKILL.  It opens
\* the file, if at all, once the provider answered.
ChildExit(r) ==
    /\ Running(r)
    /\ \E exit \in {"ok", "sigterm", "error"}, opened \in BOOLEAN :
          /\ exit = "ok" => opened
          /\ children' = [children EXCEPT ![r].exit = exit]
          /\ files' = IF opened THEN files \cup {r} ELSE files
    /\ UNCHANGED <<rows, window, tick, del, stopping, restarts>>

\* Mutant of FinalizeRead: the outcome is decided before the exit.
FinalizeReadEarly(r) ==
    /\ r \in Recorded
    /\ children[r].seen = "unread"
    /\ children' = [children EXCEPT ![r].seen = rows[r].status]
    /\ UNCHANGED <<rows, window, files, tick, del, stopping, restarts>>

\* finalize reads the row ...
FinalizeRead(r) ==
    /\ r \in Recorded
    /\ ~Running(r)
    /\ children[r].seen = "unread"
    /\ children' = [children EXCEPT ![r].seen = rows[r].status]
    /\ UNCHANGED <<rows, window, files, tick, del, stopping, restarts>>

\* Mutant of Outcome: a SIGTERM always completes the recording.
OutcomeNoResume(r) ==
    IF children[r].exit \in {"ok", "sigterm"} THEN "completed" ELSE "failed"

\* The outcome of a recording that was active when finalize read it.  A
\* SIGTERM inside the window is an interruption: the row stays for the next
\* tick to resume.
Outcome(r) ==
    IF children[r].exit = "sigterm" /\ window[r] # "closed" THEN rows[r].status
    ELSE IF children[r].exit \in {"ok", "sigterm"} THEN "completed"
    ELSE "failed"

\* ... and writes its outcome, or removes the partial of a cancelled one.
\* Only then does the child leave the map.
FinalizeWrite(r) ==
    /\ r \in Recorded
    /\ children[r].seen # "unread"
    /\ IF children[r].seen \in Active THEN WithStatus(r, Outcome(r)) ELSE UNCHANGED rows
    /\ files' = IF children[r].seen = "cancelled" THEN files \ {r} ELSE files
    /\ children' = Restrict(children, Recorded \ {r})
    /\ UNCHANGED <<window, tick, del, stopping, restarts>>

-----------------------------------------------------------------------------
(* delete_route. *)

DeleteRead(r) ==
    /\ ~stopping
    /\ del = NoDelete
    /\ rows[r].status \notin {"none", "deleted"}
    /\ del' = [rec |-> r, seen |-> rows[r].status, path |-> rows[r].path, current |-> "unread"]
    /\ UNCHANGED <<rows, window, files, children, tick, stopping, restarts>>

\* cancel reads the row a second time ...
CancelRead ==
    /\ del.rec # NoRecording
    /\ del.current = "unread"
    /\ del' = [del EXCEPT !.current = rows[del.rec].status]
    /\ UNCHANGED <<rows, window, files, children, tick, stopping, restarts>>

\* ... cancels an active one, deletes a terminal one ...
CancelWrite ==
    /\ del.current \in Active \cup Terminal
    /\ WithStatus(del.rec, IF del.current \in Active THEN "cancelled" ELSE "deleted")
    /\ del' = [del EXCEPT !.current = IF @ \in Active THEN "none" ELSE "deleted"]
    /\ UNCHANGED <<window, files, children, tick, stopping, restarts>>

\* ... and the route, by the first read, stops ffmpeg or removes the file.
DeleteAct ==
    /\ del.current \in {"none", "deleted"}
    /\ IF del.seen = "recording" THEN Terminated({del.rec}) ELSE UNCHANGED children
    /\ files' = IF del.seen # "recording" /\ del.current = "deleted" /\ del.path
                THEN files \ {del.rec} ELSE files
    /\ del' = NoDelete
    /\ UNCHANGED <<rows, window, tick, stopping, restarts>>

\* The client hung up: axum drops the handler at whichever await it is.
DeleteDropped ==
    /\ del # NoDelete
    /\ del' = NoDelete
    /\ UNCHANGED <<rows, window, files, children, tick, stopping, restarts>>

-----------------------------------------------------------------------------
\* main: requests have drained; the scheduler is aborted wherever it awaits
\* and stop_all terminates every recording.
Shutdown ==
    /\ ~stopping
    /\ del = NoDelete
    /\ restarts < MaxRestarts
    /\ stopping' = TRUE
    /\ tick' = TickIdle
    /\ Terminated(Recorded)
    /\ UNCHANGED <<rows, window, files, del, restarts>>

\* A boot, after a shutdown (its wait is bounded) or a crash.
Restart ==
    /\ restarts < MaxRestarts
    /\ restarts' = restarts + 1
    /\ stopping' = FALSE
    /\ tick' = TickIdle
    /\ del' = NoDelete
    /\ children' = << >>
    /\ UNCHANGED <<rows, window, files>>

TickNext ==
    \/ TickRead \/ TickPlan \/ TickMark \/ TickFail \/ TickWait \/ TickBackstop \/ TickEnd
    \/ \E r \in Recordings : TickStart(r) \/ TickStop(r) \/ TickMiss(r)

SuperviseNext(r) == ChildExit(r) \/ FinalizeRead(r) \/ FinalizeWrite(r)

DeleteNext ==
    \/ \E r \in Recordings : DeleteRead(r)
    \/ CancelRead \/ CancelWrite \/ DeleteAct \/ DeleteDropped

DvrNext ==
    \/ \E r \in Recordings : Schedule(r) \/ TimePasses(r) \/ SuperviseNext(r)
    \/ TickNext
    \/ DeleteNext
    \/ Shutdown
    \/ Restart

DvrSpec == DvrInit /\ [][DvrNext]_dvrVars

\* The tick and the supervisors run, a child told to stop exits (SIGKILL
\* after the grace) and a shutdown ends in a boot.
DvrFairness ==
    /\ WF_dvrVars(TickNext)
    /\ WF_dvrVars(Restart /\ stopping)
    /\ \A r \in Recordings :
          /\ WF_dvrVars(ChildExit(r) /\ children[r].term)
          /\ WF_dvrVars(FinalizeRead(r))
          /\ WF_dvrVars(FinalizeWrite(r))

FairDvrSpec == DvrSpec /\ DvrFairness

-----------------------------------------------------------------------------
(* Properties *)

\* Rows, children and the pass are well formed, and a child's outcome is read
\* only after its exit.
TypeOK ==
    /\ rows \in [Recordings -> [status : Statuses, path : BOOLEAN]]
    /\ window \in [Recordings -> {"before", "open", "closed"}]
    /\ files \subseteq Recordings
    /\ Recorded \subseteq Recordings
    /\ children \in [Recorded -> Child]
    /\ \A r \in Recorded : children[r].seen # "unread" => ~Running(r)
    /\ tick.pc \in {"idle", "plan", "work", "mark", "fail", "wait", "backstop"}
    /\ tick.starts \cup tick.stops \cup tick.misses \subseteq Recordings
    /\ del.rec \in Recordings \cup {NoRecording}
    /\ stopping \in BOOLEAN
    /\ restarts \in 0..MaxRestarts

\* tick: an outcome once written is not undone.  A stale pass may replace it
\* by another outcome, but never puts the row back into recording.
OutcomeStays ==
    [][\A r \in Recordings :
          rows[r].status \in Terminal => rows'[r].status \in Terminal \cup {"deleted"}]_dvrVars

RowStatus == [r \in Recordings |-> rows[r].status]

Ffmpeg == [r \in Recordings |-> IF r \notin Recorded THEN "none"
                               ELSE IF Running(r) THEN "running" ELSE "exited"]

Life == INSTANCE RecordingLife WITH status <- RowStatus, ffmpeg <- Ffmpeg

\* The tick, the supervisors and the DELETE, each with a view some awaits old,
\* implement the life of a recording: no outcome is undone, only a row that
\* has one is deleted, and ffmpeg is spawned, reaped and concluded in turn.
ImplementsLife == Life!LifeSpec

\* tick: one ffmpeg per recording.  None is spawned over one still in the
\* map, however old the snapshot of the running ones is.
NoSecondRecorder ==
    [][(tick.pc = "work" /\ tick'.pc = "mark") => tick'.cur \notin Recorded]_dvrVars

\* tick: completed is never written while ffmpeg still holds the file.
CompletedAfterExit ==
    [][\A r \in Recordings :
          rows[r].status # "completed" /\ rows'[r].status = "completed" => ~Running(r)]_dvrVars

\* finalize: a recording stopped inside its window (a shutdown, a deploy) is
\* not a finished one.  Only an ffmpeg that ended by itself completes it.
InterruptionResumes ==
    [][\A r \in Recordings :
          /\ rows[r].status = "recording"
          /\ rows'[r].status = "completed"
          /\ window[r] # "closed"
          => r \in Recorded /\ children[r].exit = "ok"]_dvrVars

\* The scheduler: a row whose window is over reaches an outcome, through
\* deferrals, kills and restarts.
RowSettles ==
    \A r \in Recordings :
        (rows[r].status \in Active /\ window[r] = "closed") ~> rows[r].status \notin Active

\* "an in-flight cancel stops ffmpeg (its exit removes the partial)"
\* (delete_route).  A DELETE that read the row before tick marked it
\* recording cancels it and leaves ffmpeg running.
CancelStops ==
    \A r \in Recordings :
        rows[r].status = "cancelled" /\ Running(r) /\ del = NoDelete => children[r].term

\* "until the outcome is written, running() keeps tick from re-spawning this
\* row" (supervise).  tick reads the rows before it asks running(), so a row
\* that finished in between is started again, over its own file.
NoRespawn ==
    [][\A r \in DOMAIN children' \ Recorded :
          rows[r].status \notin {"completed", "failed"}]_dvrVars

=============================================================================
