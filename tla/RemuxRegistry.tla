---------------------------- MODULE RemuxRegistry ----------------------------
(***************************************************************************)
(* The live remux registry of the iptv service (crates/iptv/src/remux.rs): *)
(* the one place an ffmpeg opens a provider connection.  Three actors meet *)
(* in it: the routes and the feed check (start, stop, heartbeat, capture), *)
(* one supervisor task per session, and the operating system, in which a   *)
(* child keeps its socket until it exits however long ago it was           *)
(* signalled.  Each action is one section under the registry's mutex, one  *)
(* turn of a supervisor's select loop, or one event of a child process.    *)
(*                                                                         *)
(* Children that never dial the provider (capture_local) and the re-encode *)
(* memory are left out: neither touches a slot.                            *)
(***************************************************************************)
EXTENDS Integers, FiniteSets, Functions

CONSTANTS
    SessionIds,     \* remux session ids
    Feeds,          \* provider stream ids
    FeedOf,         \* the feed a session dials (Plan.stream_id)
    Children,       \* child ids
    Capture,        \* owner of a feed-check capture's child
    Cap,            \* IPTV_MAX_UPSTREAM_CONNECTIONS; 0 means unlimited
    Idle,           \* Timings.idle, in ticks
    RelaunchFloor,  \* Timings.relaunch_floor, in ticks
    DeadLifetime,   \* Timings.dead_lifetime, in ticks
    StrikesToTag    \* DEAD_FEED_STRIKES_TO_TAG

ASSUME RegistryAssumption ==
    /\ Cap \in Nat
    /\ Idle \in Nat
    /\ RelaunchFloor \in Nat
    /\ DeadLifetime \in Nat
    /\ StrikesToTag \in Nat \ {0}
    /\ FeedOf \in [SessionIds -> Feeds]
    /\ Capture \notin SessionIds

VARIABLES
    sessions,   \* Inner.sessions: session id -> its current child and idle time
    draining,   \* Inner.draining: signalled children not reaped yet
    aux,        \* Inner.aux: feed-check captures nobody preempted
    procs,      \* children spawned and not reaped yet
    strikes,    \* DeadFeeds: strikes of a feed inside the window
    dead,       \* DeadFeeds: feeds tagged dead
    tracked     \* Tracker::live_count, moved by the raw live routes and the DVR

registryVars == <<sessions, draining, aux, procs, strikes, dead, tracked>>

AgeLimit == IF RelaunchFloor > DeadLifetime THEN RelaunchFloor ELSE DeadLifetime

RemuxSession == [child : Children, idle : 0..(Idle + 1)]

Proc == [owner  : SessionIds \cup {Capture},
         up     : BOOLEAN,                        \* running, socket open
         clean  : BOOLEAN,                        \* exited with status 0
         killed : BOOLEAN,                        \* SIGKILL sent
         fault  : {"none", "end", "relaunch"},    \* the supervisor's verdict
         term   : {"none", "sent", "delivered"},  \* Sig::Term
         age    : 0..AgeLimit]                    \* ticks since the spawn

-----------------------------------------------------------------------------
Held == DOMAIN sessions
SessionChildren == {sessions[s].child : s \in Held}

\* Mutant of Count: draining children are forgotten.
CountForgetsDraining == Cardinality(Held) + Cardinality(aux)

\* Slots the registry itself holds ...
Count == Cardinality(Held) + Cardinality(draining) + Cardinality(aux)

\* ... and whether no slot is left once the tracker's are added.
Full == Cap > 0 /\ Count + tracked >= Cap

NewProc(owner) ==
    [owner |-> owner, up |-> TRUE, clean |-> FALSE, killed |-> FALSE,
     fault |-> "none", term |-> "none", age |-> 0]

FreshChildren == Children \ DOMAIN procs

Spawned(c, owner) ==
    [d \in DOMAIN procs \cup {c} |-> IF d = c THEN NewProc(owner) ELSE procs[d]]

SetProc(c, p) == procs' = [procs EXCEPT ![c] = p]

Reaped(c) == Restrict(procs, DOMAIN procs \ {c})

\* Mutants of Stopped: the child of a stopped session is not counted as
\* draining; it is, but never told to exit.
StoppedForgotten(ids) ==
    /\ sessions' = Restrict(sessions, Held \ ids)
    /\ UNCHANGED draining
    /\ procs' = [c \in DOMAIN procs |->
                    IF \E s \in ids : sessions[s].child = c
                    THEN [procs[c] EXCEPT !.term = "sent"] ELSE procs[c]]

StoppedUntold(ids) ==
    /\ sessions' = Restrict(sessions, Held \ ids)
    /\ draining' = draining \cup {sessions[s].child : s \in ids}
    /\ UNCHANGED procs

\* stop_locked of each of these sessions.
Stopped(ids) ==
    /\ sessions' = Restrict(sessions, Held \ ids)
    /\ draining' = draining \cup {sessions[s].child : s \in ids}
    /\ procs' = [c \in DOMAIN procs |->
                    IF \E s \in ids : sessions[s].child = c
                    THEN [procs[c] EXCEPT !.term = "sent"] ELSE procs[c]]

\* The least recently polled sessions.
LeastRecent == {s \in Held : \A o \in Held : sessions[o].idle <= sessions[s].idle}

-----------------------------------------------------------------------------
RegistryInit ==
    /\ sessions = << >>
    /\ draining = {}
    /\ aux = {}
    /\ procs = << >>
    /\ strikes = [f \in Feeds |-> 0]
    /\ dead = {}
    /\ tracked = 0

\* start, with a slot free: spawn ffmpeg and register the session.  (A spawn
\* that fails registers nothing.)  The id ends in the millisecond, so it may
\* be that of a session stopped in the same one and still draining.
Start(s, c) ==
    /\ s \notin Held
    /\ ~Full
    /\ c \in FreshChildren
    /\ procs' = Spawned(c, s)
    /\ sessions' = [i \in Held \cup {s} |->
                       IF i = s THEN [child |-> c, idle |-> 0] ELSE sessions[i]]
    /\ UNCHANGED <<draining, aux, strikes, dead, tracked>>

\* preempt_locked: every capture is cancelled and drains.
Preempted ==
    /\ draining' = draining \cup aux
    /\ aux' = {}

\* start at the cap: preempt the captures, or else, when nothing drains
\* already, reclaim the least recent session if it is past the idle limit.
StartDeferred ==
    /\ Full
    /\ \/ /\ aux # {}
          /\ Preempted
          /\ UNCHANGED <<sessions, procs>>
       \/ /\ aux = {}
          /\ draining = {}
          /\ \E s \in LeastRecent : sessions[s].idle > Idle /\ Stopped({s})
          /\ UNCHANGED aux
    /\ UNCHANGED <<strikes, dead, tracked>>

\* preempt_aux of a recording about to dial, and yield_aux of a viewer.
PreemptAux ==
    /\ aux # {}
    /\ Preempted
    /\ UNCHANGED <<sessions, procs, strikes, dead, tracked>>

Heartbeat(s) ==
    /\ s \in Held
    /\ sessions' = [sessions EXCEPT ![s].idle = 0]
    /\ UNCHANGED <<draining, aux, procs, strikes, dead, tracked>>

Stop(s) ==
    /\ s \in Held
    /\ Stopped({s})
    /\ UNCHANGED <<aux, strikes, dead, tracked>>

\* Mutant of IdleSessions: like a capture at the cap, the sweep stands down.
IdleSessionsStoodDown == {s \in Held : ~Full /\ sessions[s].idle > Idle}

IdleSessions == {s \in Held : sessions[s].idle > Idle}

SweepIdle ==
    /\ IdleSessions # {}
    /\ Stopped(IdleSessions)
    /\ UNCHANGED <<aux, strikes, dead, tracked>>

\* Shutdown.  Its wait for draining to empty changes nothing.
Drain ==
    /\ Held # {}
    /\ Stopped(Held)
    /\ UNCHANGED <<aux, strikes, dead, tracked>>

\* Mutant of CaptureStart: off by one at the cap.
CaptureStartAtCap(c) ==
    /\ Cap > 0 => Count + tracked <= Cap
    /\ c \in FreshChildren
    /\ procs' = Spawned(c, Capture)
    /\ aux' = aux \cup {c}
    /\ UNCHANGED <<sessions, draining, strikes, dead, tracked>>

CaptureStart(c) ==
    /\ ~Full
    /\ c \in FreshChildren
    /\ procs' = Spawned(c, Capture)
    /\ aux' = aux \cup {c}
    /\ UNCHANGED <<sessions, draining, strikes, dead, tracked>>

\* read_frames: cancelled by a preemption or by the check that holds the
\* task, or past CAPTURE_TIMEOUT.
KillCapture(c) ==
    /\ c \in DOMAIN procs
    /\ procs[c].owner = Capture
    /\ ~procs[c].killed
    /\ SetProc(c, [procs[c] EXCEPT !.killed = TRUE])
    /\ UNCHANGED <<sessions, draining, aux, strikes, dead, tracked>>

\* Mutant of ReapCapture: a preempted capture never leaves draining.
ReapCaptureKeeps(c) ==
    /\ c \in DOMAIN procs
    /\ procs[c].owner = Capture
    /\ ~procs[c].up
    /\ procs' = Reaped(c)
    /\ aux' = aux \ {c}
    /\ UNCHANGED <<sessions, draining, strikes, dead, tracked>>

\* The capture task after read_frames saw its child exit.
ReapCapture(c) ==
    /\ c \in DOMAIN procs
    /\ procs[c].owner = Capture
    /\ ~procs[c].up
    /\ procs' = Reaped(c)
    /\ aux' = aux \ {c}
    /\ draining' = draining \ {c}
    /\ UNCHANGED <<sessions, strikes, dead, tracked>>

-----------------------------------------------------------------------------
(* A session's supervisor, and its child. *)

Supervised(c) == c \in DOMAIN procs /\ procs[c].owner # Capture

\* A storm, jump, stall or codec verdict SIGKILLs the child, once.  Only a
\* launch past the floor is marked for a relaunch; one that never wrote a
\* segment, or only needs re-encoding, is not whatever its age.  The child
\* may have exited already.
Fault(c, verdict) ==
    /\ Supervised(c)
    /\ procs[c].fault = "none"
    /\ verdict \in {"end", "relaunch"}
    /\ verdict = "relaunch" => procs[c].age >= RelaunchFloor
    /\ SetProc(c, [procs[c] EXCEPT !.fault = verdict, !.killed = TRUE])
    /\ UNCHANGED <<sessions, draining, aux, strikes, dead, tracked>>

\* The supervisor receives Sig::Term: SIGTERM now, SIGKILL after the grace.
DeliverTerm(c) ==
    /\ Supervised(c)
    /\ procs[c].term = "sent"
    /\ SetProc(c, [procs[c] EXCEPT !.term = "delivered"])
    /\ UNCHANGED <<sessions, draining, aux, strikes, dead, tracked>>

GraceKill(c) ==
    /\ Supervised(c)
    /\ procs[c].term = "delivered"
    /\ ~procs[c].killed
    /\ SetProc(c, [procs[c] EXCEPT !.killed = TRUE])
    /\ UNCHANGED <<sessions, draining, aux, strikes, dead, tracked>>

\* The child exits: by SIGKILL, by SIGTERM, which ffmpeg traps to exit 0, at
\* the end of its input (0 too), or with an error.
Exit(c) ==
    /\ c \in DOMAIN procs
    /\ procs[c].up
    /\ \E clean \in BOOLEAN :
          /\ procs[c].killed => ~clean
          /\ SetProc(c, [procs[c] EXCEPT !.up = FALSE, !.clean = clean])
    /\ UNCHANGED <<sessions, draining, aux, strikes, dead, tracked>>

\* Mutants of TornDown and Registered: a SIGTERMed child's exit 0 reads as a
\* provider EOF; a relaunch does not look whether the session was stopped.
TornDownNever(c) == FALSE
RegisteredAssumed(c) == TRUE

TornDown(c) == c \in draining

\* The session is still registered, with this child.
Registered(c) ==
    LET s == procs[c].owner
    IN  s \in Held /\ sessions[s].child = c

\* A clean end of a young child nobody signalled is a dead placeholder; the
\* second one tags the feed.
Struck(c) ==
    procs[c].clean /\ ~TornDown(c) /\ procs[c].age < DeadLifetime

\* Mutant of Strike: tagging the feed keeps its strikes.
StrikeKept(c) ==
    LET f == FeedOf[procs[c].owner]
    IN  IF Struck(c)
        THEN /\ strikes' = [strikes EXCEPT ![f] = @ + 1]
             /\ dead' = IF strikes[f] + 1 >= StrikesToTag THEN dead \cup {f} ELSE dead
        ELSE UNCHANGED <<strikes, dead>>

Strike(c) ==
    LET f == FeedOf[procs[c].owner]
        tag == strikes[f] + 1 >= StrikesToTag
    IN  IF Struck(c)
        THEN /\ strikes' = [strikes EXCEPT ![f] = IF tag THEN 0 ELSE @ + 1]
             /\ dead' = IF tag THEN dead \cup {f} ELSE dead
        ELSE UNCHANGED <<strikes, dead>>

\* The supervisor's child has exited: strike, then relaunch in place into
\* child d ...
ReapRelaunch(c, d) ==
    /\ Supervised(c)
    /\ ~procs[c].up
    /\ procs[c].fault = "relaunch"
    /\ Registered(c)
    /\ d \in FreshChildren
    /\ LET s == procs[c].owner
       IN  /\ sessions' = IF s \in Held THEN [sessions EXCEPT ![s].child = d]
                          ELSE sessions
           /\ procs' = [i \in (DOMAIN procs \ {c}) \cup {d} |->
                           IF i = d THEN NewProc(s) ELSE procs[i]]
    /\ draining' = draining \ {c}
    /\ Strike(c)
    /\ UNCHANGED <<aux, tracked>>

\* ... or, with nothing to relaunch or the spawn failing, end the session.
ReapEnd(c) ==
    /\ Supervised(c)
    /\ ~procs[c].up
    /\ sessions' = IF Registered(c) THEN Restrict(sessions, Held \ {procs[c].owner})
                   ELSE sessions
    /\ procs' = Reaped(c)
    /\ draining' = draining \ {c}
    /\ Strike(c)
    /\ UNCHANGED <<aux, tracked>>

-----------------------------------------------------------------------------
Tick ==
    /\ sessions' = [s \in Held |->
                       IF sessions[s].idle <= Idle
                       THEN [sessions[s] EXCEPT !.idle = @ + 1] ELSE sessions[s]]
    /\ procs' = [c \in DOMAIN procs |->
                    IF procs[c].age < AgeLimit
                    THEN [procs[c] EXCEPT !.age = @ + 1] ELSE procs[c]]
    /\ UNCHANGED <<draining, aux, strikes, dead, tracked>>

\* DEAD_FEED_MEMORY passed: a strike or a tag is forgotten.
Forget(f) ==
    /\ \/ strikes' = [strikes EXCEPT ![f] = 0] /\ UNCHANGED dead
       \/ dead' = dead \ {f} /\ UNCHANGED strikes
    /\ UNCHANGED <<sessions, draining, aux, procs, tracked>>

\* The raw live routes and the DVR take or release tracker slots.
TrackerMoves ==
    /\ tracked' \in 0..Cap
    /\ UNCHANGED <<sessions, draining, aux, procs, strikes, dead>>

RouteNext ==
    \/ \E s \in SessionIds : Heartbeat(s) \/ Stop(s)
    \/ \E s \in SessionIds, c \in Children : Start(s, c)
    \/ StartDeferred
    \/ SweepIdle
    \/ Drain

CaptureNext ==
    \/ PreemptAux
    \/ \E c \in Children : CaptureStart(c) \/ KillCapture(c) \/ ReapCapture(c)

SupervisorNext ==
    \E c \in Children :
        \/ \E verdict \in {"end", "relaunch"} : Fault(c, verdict)
        \/ DeliverTerm(c)
        \/ GraceKill(c)
        \/ Exit(c)
        \/ \E d \in Children : ReapRelaunch(c, d)
        \/ ReapEnd(c)

RegistryNext ==
    \/ RouteNext
    \/ CaptureNext
    \/ SupervisorNext
    \/ Tick
    \/ \E f \in Feeds : Forget(f)
    \/ TrackerMoves

RegistrySpec == RegistryInit /\ [][RegistryNext]_registryVars

\* The supervisor and capture tasks and the idle sweep run; a SIGKILLed
\* process exits.  Nothing is assumed of ffmpeg's answer to SIGTERM, of the
\* routes, or of the clock.
RegistryFairness ==
    /\ WF_registryVars(SweepIdle)
    /\ \A c \in Children :
          /\ WF_registryVars(DeliverTerm(c))
          /\ WF_registryVars(GraceKill(c))
          /\ WF_registryVars(Exit(c) /\ procs[c].killed)
          /\ WF_registryVars(ReapEnd(c))
          /\ WF_registryVars(ReapCapture(c))
          /\ WF_registryVars(KillCapture(c) /\ c \in draining)

FairRegistrySpec == RegistrySpec /\ RegistryFairness

-----------------------------------------------------------------------------
(* Properties *)

\* Every child belongs to a session or the feed check, every session has one.
TypeOK ==
    /\ Held \subseteq SessionIds
    /\ sessions \in [Held -> RemuxSession]
    /\ draining \subseteq Children
    /\ aux \subseteq Children
    /\ DOMAIN procs \subseteq Children
    /\ procs \in [DOMAIN procs -> Proc]
    /\ strikes \in [Feeds -> 0..(StrikesToTag - 1)]
    /\ dead \subseteq Feeds
    /\ tracked \in Nat

OpenSockets == {c \in DOMAIN procs : procs[c].up}

\* start, capture_aux: however sessions start, relaunch, drain and are
\* preempted, the provider never sees more of our ffmpegs than the cap.
UpstreamCap == Cap > 0 => Cardinality(OpenSockets) <= Cap

\* No child with an open socket falls between the three sets Count adds up,
\* and no session names a child that is not its own.
SocketsCounted ==
    /\ OpenSockets \subseteq SessionChildren \cup draining \cup aux
    /\ \A s \in Held : /\ sessions[s].child \in DOMAIN procs
                       /\ procs[sessions[s].child].owner = s

\* The reverse: no slot is counted for a child nobody will reap.
NoLeakedSlot == draining \cup aux \subseteq DOMAIN procs

\* supervise: a session that was stopped stays stopped.  Reaping its child
\* starts no other, even when a fault had marked the child for a relaunch,
\* and leaves every other session as it is.
StopIsFinal ==
    [][\A c \in draining :
          c \notin draining' => /\ DOMAIN procs' = DOMAIN procs \ {c}
                                /\ sessions' = sessions]_registryVars

\* DeadFeeds::strike: a feed gains a strike or the tag only by the end of a session that
\* is still registered, never by our own SIGTERM, whose exit looks the same.
StrikeJustified ==
    [][\A f \in Feeds : strikes'[f] > strikes[f] \/ f \in dead' \ dead =>
          \E s \in Held : /\ FeedOf[s] = f
                          /\ sessions[s].child \notin DOMAIN procs'
                          /\ procs[sessions[s].child].clean]_registryVars

Pool == INSTANCE ConnectionPool
            WITH Connections <- Children,
                 held <- SessionChildren \cup draining \cup aux,
                 open <- OpenSockets

\* The registry implements the pool: a slot is freed only after its socket
\* closed, and a relaunch hands over the slot of a closed one.
ImplementsPool == Pool!PoolSpec

\* stop, preempt: a stopped child is reaped and its slot freed, SIGTERM
\* ignored or not.
DrainingEmpties == \A c \in Children : c \in draining ~> c \notin draining

\* sweep_idle: a session nobody polls does not keep its slot.
IdleSessionEnds ==
    \A s \in SessionIds :
        LET lapsed == s \in Held /\ sessions[s].idle > Idle
        IN  lapsed ~> ~lapsed

=============================================================================
