--------------------------- MODULE TranscodeSession ---------------------------
(***************************************************************************)
(* Sessions of the transcoder (crates/transcoder/src/session.rs and        *)
(* concurrency.rs): a grant starts an ffmpeg under a concurrency permit in *)
(* a directory of its own; a supervisor task is the only owner of the      *)
(* process, restarts it after a crash and obeys seek and stop through a    *)
(* mailbox.  A session leaves the map at a DELETE, a superseding grant,    *)
(* the idle sweep or the restart cap, while its supervisor may be anywhere *)
(* in a respawn.                                                           *)
(*                                                                         *)
(* Every lock().await and file call is a point where the others run.       *)
(* stop waits for the supervisor up to 10 s and killing takes 5 s, so its  *)
(* timeout is left out; so are segment numbers and the sidecar jobs.       *)
(***************************************************************************)
EXTENDS Naturals, Sequences, FiniteSets, Functions

CONSTANTS
    Clients,        \* requests to start a session, concurrently
    Titles,         \* coalescing identities
    Offsets,        \* offsets granted or sought, in seconds
    Cap,            \* Caps.max_total
    MaxRestarts,    \* MAX_RESTARTS
    SegmentSecs,    \* HLS_SEGMENT_SECS
    MaxSegments,    \* bound on the segments a child wrote before it crashed
    Duration,       \* bound on offsets: the length of a title
    MaxSessions,    \* bound on sessions ever created
    MaxMail         \* bound on seeks waiting in a mailbox

ASSUME TranscodeAssumption ==
    /\ IsFiniteSet(Clients) /\ Titles # {} /\ Offsets # {}
    /\ Offsets \subseteq 0..Duration
    /\ Cap \in Nat \ {0} /\ SegmentSecs \in Nat \ {0}
    /\ {MaxRestarts, MaxSegments, Duration, MaxSessions, MaxMail} \subseteq Nat

VARIABLES
    sessions,   \* SessionManager.sessions
    sup,        \* supervisor tasks
    starts,     \* start calls in flight, one per client
    stops,      \* stop calls that removed a session and have not returned
    sweep,      \* stale ids the idle sweep still has to stop
    permits,    \* ids whose Permit is held
    dirs,       \* ids with a session directory
    created,    \* START_SEQ
    forsaken,   \* ids whose start or stop ended early (a hang-up, a failed spawn)
    lapsed      \* per title, the ids that ever were idle past IDLE_TIMEOUT

transcodeVars == <<sessions, sup, starts, stops, sweep, permits, dirs, created, forsaken, lapsed>>

Ids == 1..MaxSessions

\* requested: the grant's offset (and options).
Session == [title : Titles, requested : Offsets, start : 0..Duration,
            restarts : 0..MaxRestarts, idle : BOOLEAN]

\* long: the run of the last child reached HEALTHY_RUN_RESET (last_run).
Supervisor == [pc : {"running", "completed", "crashed", "backoff", "teardown",
                     "read", "write", "spawn", "check"},
               mode : {"seek", "crash"},
               snap : 0..Duration, long : BOOLEAN,
               mail : Seq({"restart", "shutdown"})]

Start == [pc : {"none", "gate", "find", "supersede", "admit", "spawn"},
          title : Titles, asked : Offsets, id : 0..MaxSessions]

Live == DOMAIN sessions
Supervised == DOMAIN sup

\* Ids whose ffmpeg runs.
Encoding == {id \in Supervised : sup[id].pc \in {"running", "check"}}

Without(f, id) == Restrict(f, DOMAIN f \ {id})
With(f, id, value) == [i \in DOMAIN f \cup {id} |-> IF i = id THEN value ELSE f[i]]
Becomes(id, pc) == sup' = [sup EXCEPT ![id].pc = pc]

\* The supervisor task returns; its mailbox closes.
Return(id) == sup' = Without(sup, id)

Mail(id, command) == sup' = [sup EXCEPT ![id].mail = Append(@, command)]

-----------------------------------------------------------------------------
NoStart == [pc |-> "none", title |-> CHOOSE t \in Titles : TRUE,
            asked |-> CHOOSE o \in Offsets : TRUE, id |-> 0]

TranscodeInit ==
    /\ sessions = << >>
    /\ sup = << >>
    /\ starts = [c \in Clients |-> NoStart]
    /\ stops = << >>
    /\ sweep = {}
    /\ permits = {}
    /\ dirs = {}
    /\ created = 0
    /\ forsaken = {}
    /\ lapsed = [t \in Titles |-> {}]

-----------------------------------------------------------------------------
(* stop: by a DELETE, a superseding start or the sweep. *)

\* Mutant of StopBegin: the session stays in the map until the ack.
StopBeginKeeps(id, by) ==
    /\ UNCHANGED sessions
    /\ Mail(id, "shutdown")
    /\ stops' = With(stops, id, by)

\* The session leaves the map and its supervisor is told to shut down.
StopBegin(id, by) ==
    /\ sessions' = Without(sessions, id)
    /\ Mail(id, "shutdown")
    /\ stops' = With(stops, id, by)

\* Mutant of StopFinish: the ack is not awaited.
StopFinishEarly(id) ==
    /\ id \in DOMAIN stops
    /\ stops' = Without(stops, id)
    /\ dirs' = dirs \ {id}
    /\ permits' = permits \ {id}
    /\ UNCHANGED <<sessions, sup, starts, sweep, created, forsaken, lapsed>>

\* The supervisor is gone, its ffmpeg dead: remove the directory, free the slot.
StopFinish(id) ==
    /\ id \in DOMAIN stops
    /\ id \notin Supervised
    /\ stops' = Without(stops, id)
    /\ dirs' = dirs \ {id}
    /\ permits' = permits \ {id}
    /\ UNCHANGED <<sessions, sup, starts, sweep, created, forsaken, lapsed>>

\* DELETE /session/{id}.
Delete(id) ==
    /\ id \in Live
    /\ StopBegin(id, "delete")
    /\ UNCHANGED <<starts, sweep, permits, dirs, created, forsaken, lapsed>>

\* Its client hangs up: the call is dropped, and the permit with it.
DeleteDropped(id) ==
    /\ id \in DOMAIN stops
    /\ stops[id] = "delete"
    /\ stops' = Without(stops, id)
    /\ permits' = permits \ {id}
    /\ forsaken' = forsaken \cup {id}
    /\ UNCHANGED <<sessions, sup, starts, sweep, dirs, created, lapsed>>

-----------------------------------------------------------------------------
(* start *)

InGate(c) == starts[c].pc \in {"find", "supersede", "admit", "spawn"}

StartAsk(c, title, offset) ==
    /\ starts[c].pc = "none"
    /\ created + Cardinality({d \in Clients : starts[d].pc # "none"}) < MaxSessions
    /\ starts' = [starts EXCEPT ![c] = [pc |-> "gate", title |-> title, asked |-> offset, id |-> 0]]
    /\ UNCHANGED <<sessions, sup, stops, sweep, permits, dirs, created, forsaken, lapsed>>

\* Mutant of StartGate: starts of one title run side by side.
StartUngated(c) ==
    /\ starts[c].pc = "gate"
    /\ starts' = [starts EXCEPT ![c].pc = "find"]
    /\ UNCHANGED <<sessions, sup, stops, sweep, permits, dirs, created, forsaken, lapsed>>

\* The per-identity gate.
StartGate(c) ==
    /\ starts[c].pc = "gate"
    /\ ~ \E d \in Clients : InGate(d) /\ starts[d].title = starts[c].title
    /\ starts' = [starts EXCEPT ![c].pc = "find"]
    /\ UNCHANGED <<sessions, sup, stops, sweep, permits, dirs, created, forsaken, lapsed>>

\* find_owner_title_session: one fresh session of the title, if any.
SameTitle(title) == {id \in Live : sessions[id].title = title /\ ~sessions[id].idle}

\* A duplicate grant reuses the session; another offset supersedes it.
StartFind(c) ==
    /\ starts[c].pc = "find"
    /\ LET found == SameTitle(starts[c].title) IN
       \/ /\ found = {}
          /\ starts' = [starts EXCEPT ![c].pc = "admit"]
          /\ UNCHANGED <<sessions, sup, stops>>
       \/ \E id \in found :
             \/ /\ sessions[id].requested = starts[c].asked
                /\ starts' = [starts EXCEPT ![c] = NoStart]
                /\ UNCHANGED <<sessions, sup, stops>>
             \/ /\ sessions[id].requested # starts[c].asked
                /\ StopBegin(id, c)
                /\ starts' = [starts EXCEPT ![c].pc = "supersede", ![c].id = id]
    /\ UNCHANGED <<sweep, permits, dirs, created, forsaken, lapsed>>

StartSuperseded(c) ==
    /\ starts[c].pc = "supersede"
    /\ starts[c].id \notin DOMAIN stops
    /\ starts' = [starts EXCEPT ![c].pc = "admit", ![c].id = 0]
    /\ UNCHANGED <<sessions, sup, stops, sweep, permits, dirs, created, forsaken, lapsed>>

\* A permit and a directory, or busy.
StartAdmit(c) ==
    /\ starts[c].pc = "admit"
    /\ \/ /\ Cardinality(permits) < Cap
          /\ created' = created + 1
          /\ permits' = permits \cup {created'}
          /\ dirs' = dirs \cup {created'}
          /\ starts' = [starts EXCEPT ![c].pc = "spawn", ![c].id = created']
       \/ /\ Cardinality(permits) >= Cap
          /\ starts' = [starts EXCEPT ![c] = NoStart]
          /\ UNCHANGED <<created, permits, dirs>>
    /\ UNCHANGED <<sessions, sup, stops, sweep, forsaken, lapsed>>

\* Where playback begins: on the segment grid, or exactly at the offset
\* without one (grid_start, a copy-remux whose keyframes are not known).
Snapped(offset) == {offset, offset - (offset % SegmentSecs)}

\* The child runs: the session is registered and its supervisor spawned.
StartSpawn(c) ==
    LET id == starts[c].id IN
    /\ starts[c].pc = "spawn"
    /\ \E offset \in Snapped(starts[c].asked) :
          /\ sessions' = With(sessions, id,
                [title |-> starts[c].title, requested |-> starts[c].asked, start |-> offset,
                 restarts |-> 0, idle |-> FALSE])
          /\ sup' = With(sup, id, [pc |-> "running", mode |-> "crash", snap |-> 0,
                                   long |-> FALSE, mail |-> << >>])
    /\ starts' = [starts EXCEPT ![c] = NoStart]
    /\ UNCHANGED <<stops, sweep, permits, dirs, created, forsaken, lapsed>>

\* The spawn fails, or the client hangs up (the child dies with the call):
\* the permit is freed, the directory stays.
StartFails(c) ==
    LET id == starts[c].id IN
    /\ starts[c].pc = "spawn"
    /\ permits' = permits \ {id}
    /\ forsaken' = forsaken \cup {id}
    /\ starts' = [starts EXCEPT ![c] = NoStart]
    /\ UNCHANGED <<sessions, sup, stops, sweep, dirs, created, lapsed>>

\* The client hangs up earlier, maybe in the midst of its stop.
StartDropped(c) ==
    LET left == {id \in DOMAIN stops : stops[id] = c} IN
    /\ starts[c].pc \in {"gate", "find", "supersede", "admit"}
    /\ stops' = Restrict(stops, DOMAIN stops \ left)
    /\ permits' = permits \ left
    /\ forsaken' = forsaken \cup left
    /\ starts' = [starts EXCEPT ![c] = NoStart]
    /\ UNCHANGED <<sessions, sup, sweep, dirs, created, lapsed>>

-----------------------------------------------------------------------------
(* The player: heartbeats, seeks. *)

Heartbeat(id) ==
    /\ id \in Live
    /\ sessions' = [sessions EXCEPT ![id].idle = FALSE]
    /\ UNCHANGED <<sup, starts, stops, sweep, permits, dirs, created, forsaken, lapsed>>

\* 30 s pass without one.
GoIdle(id) ==
    /\ id \in Live
    /\ sessions' = [sessions EXCEPT ![id].idle = TRUE]
    /\ lapsed' = [lapsed EXCEPT ![sessions[id].title] = @ \cup {id}]
    /\ UNCHANGED <<sup, starts, stops, sweep, permits, dirs, created, forsaken>>

\* seek, also by a backfill: the new offset, then a Restart to the supervisor.
Seek(id, to) ==
    /\ id \in Live
    /\ Len(sup[id].mail) < MaxMail
    /\ sessions' = [sessions EXCEPT ![id].start = to, ![id].idle = FALSE]
    /\ Mail(id, "restart")
    /\ UNCHANGED <<starts, stops, sweep, permits, dirs, created, forsaken, lapsed>>

-----------------------------------------------------------------------------
(* The supervisor. *)

\* ffmpeg reaches its end, or dies after a short or a long run.
ChildExits(id) ==
    /\ id \in Supervised
    /\ sup[id].pc = "running"
    /\ \/ Becomes(id, "completed")
       \/ \E long \in BOOLEAN : sup' = [sup EXCEPT ![id].pc = "crashed", ![id].long = long]
    /\ UNCHANGED <<sessions, starts, stops, sweep, permits, dirs, created, forsaken, lapsed>>

Receives(id, command) ==
    /\ id \in Supervised
    /\ sup[id].pc \in {"running", "completed", "backoff"}
    /\ sup[id].mail # << >>
    /\ Head(sup[id].mail) = command

\* A Restart: kill the child, if any, and respawn at the session's offset.
TakeRestart(id) ==
    /\ Receives(id, "restart")
    /\ sup' = [sup EXCEPT ![id].pc = "read", ![id].mode = "seek", ![id].mail = Tail(@)]
    /\ UNCHANGED <<sessions, starts, stops, sweep, permits, dirs, created, forsaken, lapsed>>

\* A Shutdown: kill the child, ack and return.
TakeShutdown(id) ==
    /\ Receives(id, "shutdown")
    /\ Return(id)
    /\ UNCHANGED <<sessions, starts, stops, sweep, permits, dirs, created, forsaken, lapsed>>

\* Mutant of Budget: every crash starts a fresh budget.
BudgetReset(id) == 0

\* effective_restart_count.
Budget(id) == IF sup[id].long THEN 0 ELSE sessions[id].restarts

\* Back off before a respawn, or give the session up at the restart cap.
Crashed(id) ==
    /\ id \in Supervised
    /\ sup[id].pc = "crashed"
    /\ \/ /\ id \notin Live
          /\ Return(id)
          /\ UNCHANGED <<sessions, permits>>
       \/ /\ id \in Live
          /\ Budget(id) < MaxRestarts
          /\ sessions' = [sessions EXCEPT ![id].restarts = Budget(id) + 1]
          /\ sup' = [sup EXCEPT ![id].pc = "backoff", ![id].long = FALSE]
          /\ UNCHANGED permits
       \/ /\ id \in Live
          /\ Budget(id) >= MaxRestarts
          /\ sessions' = Without(sessions, id)
          /\ permits' = permits \ {id}
          /\ Becomes(id, "teardown")
    /\ UNCHANGED <<starts, stops, sweep, dirs, created, forsaken, lapsed>>

\* Mutant of Teardown: the session's directory is forgotten.
TeardownKeepsDir(id) ==
    /\ id \in Supervised
    /\ sup[id].pc = "teardown"
    /\ Return(id)
    /\ UNCHANGED <<sessions, starts, stops, sweep, permits, dirs, created, forsaken, lapsed>>

Teardown(id) ==
    /\ id \in Supervised
    /\ sup[id].pc = "teardown"
    /\ dirs' = dirs \ {id}
    /\ Return(id)
    /\ UNCHANGED <<sessions, starts, stops, sweep, permits, created, forsaken, lapsed>>

BackoffEnds(id) ==
    /\ id \in Supervised
    /\ sup[id].pc = "backoff"
    /\ sup' = [sup EXCEPT ![id].pc = "read", ![id].mode = "crash"]
    /\ UNCHANGED <<sessions, starts, stops, sweep, permits, dirs, created, forsaken, lapsed>>

\* respawn reads the session ...
RespawnRead(id) ==
    /\ id \in Supervised
    /\ sup[id].pc = "read"
    /\ IF id \in Live
       THEN sup' = [sup EXCEPT ![id].pc = "write", ![id].snap = sessions[id].start]
       ELSE Return(id)
    /\ UNCHANGED <<sessions, starts, stops, sweep, permits, dirs, created, forsaken, lapsed>>

\* A seek spawns at the offset read; a crash resumes past what was written.
SpawnOffsets(id) ==
    IF sup[id].mode = "seek" THEN Snapped(sup[id].snap)
    ELSE {sup[id].snap + n * SegmentSecs : n \in 0..MaxSegments} \cap (0..Duration)

\* ... looks at its files, writes the offset it will spawn at ...
RespawnWrite(id) ==
    /\ id \in Supervised
    /\ sup[id].pc = "write"
    /\ IF id \in Live
       THEN /\ sup' = [sup EXCEPT ![id].pc = "spawn", ![id].mode = "crash", ![id].snap = 0]
            /\ \E offset \in SpawnOffsets(id) :
                  sessions' = [sessions EXCEPT ![id].start = offset]
       ELSE Return(id) /\ UNCHANGED sessions
    /\ UNCHANGED <<starts, stops, sweep, permits, dirs, created, forsaken, lapsed>>

\* Mutant of RespawnSpawn: a failed respawn ends the supervisor.
RespawnSpawnGivesUp(id) ==
    /\ id \in Supervised
    /\ sup[id].pc = "spawn"
    /\ dirs' = dirs \cup {id}
    /\ \/ Becomes(id, "check")
       \/ Return(id)
    /\ UNCHANGED <<sessions, starts, stops, sweep, permits, created, forsaken, lapsed>>

\* ... makes the directory and spawns ...
RespawnSpawn(id) ==
    /\ id \in Supervised
    /\ sup[id].pc = "spawn"
    /\ \/ /\ dirs' = dirs \cup {id}
          /\ Becomes(id, "check")
       \/ /\ dirs' \in {dirs, dirs \cup {id}}
          /\ sup' = [sup EXCEPT ![id].pc = "crashed",
                                ![id].long = FALSE]
    /\ UNCHANGED <<sessions, starts, stops, sweep, permits, created, forsaken, lapsed>>

\* ... and undoes both if the session was stopped meanwhile.
RespawnCheck(id) ==
    /\ id \in Supervised
    /\ sup[id].pc = "check"
    /\ IF id \in Live
       THEN Becomes(id, "running") /\ UNCHANGED dirs
       ELSE Return(id) /\ dirs' = dirs \ {id}
    /\ UNCHANGED <<sessions, starts, stops, sweep, permits, created, forsaken, lapsed>>

-----------------------------------------------------------------------------
(* sweep_idle *)

\* Mutant of IdleIds: a session whose ffmpeg completed is left to drain.
IdleIdsRunning == {id \in Live : sessions[id].idle /\ sup[id].pc = "running"}

IdleIds == {id \in Live : sessions[id].idle}

SweepRead ==
    /\ sweep = {}
    /\ ~ \E id \in DOMAIN stops : stops[id] = "sweep"
    /\ sweep' = IdleIds
    /\ UNCHANGED <<sessions, sup, starts, stops, permits, dirs, created, forsaken, lapsed>>

\* One stale id after the other; one stopped meanwhile is skipped.
SweepStop(id) ==
    /\ id \in sweep
    /\ ~ \E i \in DOMAIN stops : stops[i] = "sweep"
    /\ sweep' = sweep \ {id}
    /\ IF id \in Live THEN StopBegin(id, "sweep") ELSE UNCHANGED <<sessions, sup, stops>>
    /\ UNCHANGED <<starts, permits, dirs, created, forsaken, lapsed>>

-----------------------------------------------------------------------------
StartNext(c) ==
    \/ \E title \in Titles, offset \in Offsets : StartAsk(c, title, offset)
    \/ StartGate(c) \/ StartFind(c) \/ StartSuperseded(c) \/ StartAdmit(c)
    \/ StartSpawn(c) \/ StartFails(c) \/ StartDropped(c)

PlayerNext(id) ==
    \/ Heartbeat(id) \/ GoIdle(id) \/ Delete(id) \/ DeleteDropped(id)
    \/ \E to \in Offsets : Seek(id, to)

SuperviseNext(id) ==
    \/ TakeRestart(id) \/ TakeShutdown(id)
    \/ Crashed(id) \/ Teardown(id) \/ BackoffEnds(id)
    \/ RespawnRead(id) \/ RespawnWrite(id) \/ RespawnSpawn(id) \/ RespawnCheck(id)

SweepNext == SweepRead \/ \E id \in Ids : SweepStop(id)

TranscodeNext ==
    \/ \E c \in Clients : StartNext(c)
    \/ \E id \in Ids : PlayerNext(id) \/ ChildExits(id) \/ SuperviseNext(id) \/ StopFinish(id)
    \/ SweepNext

TranscodeSpec == TranscodeInit /\ [][TranscodeNext]_transcodeVars

\* The tasks of the service run.  Players, clients and crashes owe nothing.
TranscodeFairness ==
    /\ WF_transcodeVars(SweepNext)
    /\ \A id \in Ids : WF_transcodeVars(SuperviseNext(id)) /\ WF_transcodeVars(StopFinish(id))

FairTranscodeSpec == TranscodeSpec /\ TranscodeFairness

-----------------------------------------------------------------------------
(* Properties *)

\* Sessions, supervisors and calls are well formed; the restart budget is
\* never exceeded, a permit belongs to an id that was created.
TypeOK ==
    /\ Live \subseteq Ids /\ sessions \in [Live -> Session]
    /\ Supervised \subseteq Ids
    /\ sup \in [Supervised -> Supervisor]
    /\ starts \in [Clients -> Start]
    /\ DOMAIN stops \subseteq Ids \ Live
    /\ sweep \cup permits \cup dirs \cup forsaken \subseteq 1..created
    /\ created \in 0..MaxSessions
    /\ lapsed \in [Titles -> SUBSET (1..created)]

\* stop: "confirm it is dead BEFORE removing the dir".  An ffmpeg always has
\* its directory, and its permit unless the client of its stop hung up.
EncoderBacked ==
    \A id \in Encoding : id \in dirs /\ id \in permits \cup forsaken

\* try_acquire: the household never runs more encoders than the limiter's cap,
\* however starts, respawns, stops and the sweep interleave.  What a hang-up
\* in the midst of a stop leaves running, its permit freed, comes on top.
EncoderCap == Cardinality(Encoding \ forsaken) <= Cap

\* respawn: a stop racing it leaves nothing behind.  Once the calls that
\* create or end a session returned, its directory, permit and supervisor
\* are gone, wherever in a respawn the stop found it.
Reclaimed ==
    \A id \in 1..created :
        (/\ id \notin Live \cup DOMAIN stops \cup forsaken
         /\ ~ \E c \in Clients : starts[c].pc = "spawn" /\ starts[c].id = id
         /\ ~ (id \in Supervised /\ sup[id].pc = "teardown"))
        => id \notin dirs \cup permits \cup Supervised

\* The sessions of a title in the map.
OfTitle(title) == {id \in Live : sessions[id].title = title}

\* start: duplicate and rapid grants share a session or supersede it.  Every
\* session of a title beyond the first, and hence every further slot, is
\* paid for by a session of that title that lapsed.
DuplicateLapsed ==
    \A t \in Titles : Cardinality(OfTitle(t)) <= 1 + Cardinality(lapsed[t])

\* The supervisor outlives its session: a session in the map can always be
\* seeked, stopped and restarted.
SessionSupervised == Live \subseteq Supervised

\* "a childless session must never sit idle holding its Permit": after a
\* crash it runs again or is gone, however its respawns fail.
ChildlessResolves ==
    \A id \in Ids :
        (id \in Supervised /\ sup[id].pc = "crashed") ~> (id \in Encoding \/ id \notin Live)

\* A session nobody polls is stopped and gives its permit back.
IdleReaped ==
    \A id \in Ids :
        (id \in Live /\ sessions[id].idle)
            ~> (id \in Live /\ ~sessions[id].idle) \/ id \notin permits

\* "the session's start_secs was just set to the seek target and the respawn
\* must honor it exactly" (RespawnMode::Seek).  A respawn that read the
\* session before the seek writes its own offset over the target; the Restart
\* of that seek then reads the wrong one.
SeekHonored ==
    [][\A id \in Live \cap Supervised :
          sup[id].pc = "write" /\ id \in DOMAIN sup' /\ sup'[id].pc = "spawn"
              => sessions[id].start = sup[id].snap]_transcodeVars

=============================================================================
