---------------------------- MODULE StreamTracker ----------------------------
(***************************************************************************)
(* The household stream tracker of the iptv service                        *)
(* (crates/iptv/src/concurrency.rs): one in-memory slot per playing        *)
(* stream, capped household-wide, with a second cap shared by the live     *)
(* kinds.  The actions are the calls the byte routes, the grants           *)
(* (streams.rs) and the DVR recorder (dvr.rs) make; every one runs under   *)
(* the tracker's mutex and is one step.                                    *)
(*                                                                         *)
(* Time is discrete.  A session carries the ticks since last_seen instead  *)
(* of the timestamp, counted up to one past the longest idle limit, so     *)
(* behaviours are infinite and no clock bound is needed.                   *)
(***************************************************************************)
EXTENDS Integers, FiniteSets, Functions

CONSTANTS
    Viewers,        \* subs of household members
    Recordings,     \* DVR rows; a recording's sub is "dvr:<id>"
    Channels,       \* live resource ids
    Titles,         \* on-demand resource ids (vod, series, catch-up)
    SessionIds,     \* opaque ids minted for grants
    Cap,            \* IPTV_MAX_CONCURRENT_STREAMS
    LiveKindCap,    \* live_kind_cap: min of the two configured caps
    UpstreamCap,    \* IPTV_MAX_UPSTREAM_CONNECTIONS
    Idle,           \* idle limit, in ticks
    RemuxIdle,      \* REMUX_IDLE_MS, in ticks
    NoRecording

ASSUME CapsAssumption ==
    /\ Cap \in Nat \ {0}
    /\ LiveKindCap \in Nat \ {0}
    /\ UpstreamCap \in Nat \ {0}
    /\ LiveKindCap <= UpstreamCap
    /\ Idle \in Nat
    /\ RemuxIdle \in Nat

ASSUME NamesAssumption ==
    /\ Viewers \cap Recordings = {}
    /\ SessionIds \cap Recordings = {}
    /\ NoRecording \notin Recordings

VARIABLES
    sessions,       \* Tracker.sessions: session id -> session
    dvrAdmitted     \* the recording that passed upstream_in_use() and has
                    \* not reserved yet (FfmpegRecorder::start in flight)

trackerVars == <<sessions, dvrAdmitted>>

LiveKinds == {"live", "remux"}
OnDemandKinds == {"vod", "series", "catchup"}
Kinds == LiveKinds \cup OnDemandKinds
Subs == Viewers \cup Recordings
Ids == SessionIds \cup Recordings

IdleLimit(kind) ==
    IF kind = "remux" /\ RemuxIdle > Idle THEN RemuxIdle ELSE Idle

AgeLimit == (IF RemuxIdle > Idle THEN RemuxIdle ELSE Idle) + 1

Session == [sub      : Subs,
            kind     : Kinds,
            resource : Channels \cup Titles,
            age      : 0..AgeLimit]

-----------------------------------------------------------------------------
Held == DOMAIN sessions

\* Sessions sweep_locked keeps.
Fresh == {i \in Held : sessions[i].age <= IdleLimit(sessions[i].kind)}

Swept == Restrict(sessions, Fresh)

IsLive(i) == sessions[i].kind \in LiveKinds

\* An Acquire request.  "capped": kind_cap is Some(live_kind_cap).
Request(sub, kind, resource, capped, replaceLive) ==
    [sub |-> sub, kind |-> kind, resource |-> resource,
     capped |-> capped, replaceLive |-> replaceLive]

SameSlot(s, r) == s.sub = r.sub /\ s.kind = r.kind /\ s.resource = r.resource

\* Mutants of Replaced: a re-grant is not recognised; a switch takes the
\* live slots of every viewer.
ReplacedSwitchOnly(r) ==
    {i \in Fresh : /\ sessions[i].sub = r.sub
                   /\ r.replaceLive
                   /\ r.kind \in LiveKinds
                   /\ IsLive(i)}

ReplacedAnyViewer(r) ==
    {i \in Fresh : \/ SameSlot(sessions[i], r)
                   \/ r.replaceLive /\ r.kind \in LiveKinds /\ IsLive(i)}

\* The reservations a successful admission of r supersedes.
Replaced(r) ==
    {i \in Fresh :
        \/ SameSlot(sessions[i], r)
        \/ /\ sessions[i].sub = r.sub
           /\ r.replaceLive
           /\ r.kind \in LiveKinds
           /\ IsLive(i)}

Remaining(r) == Fresh \ Replaced(r)

\* Mutant of Competing: raw live and remux are budgeted apart.
CompetingSameKind(r) == {i \in Remaining(r) : sessions[i].kind = r.kind}

\* The remaining reservations that draw on the budget r draws on.
Competing(r) ==
    {i \in Remaining(r) :
        IF r.kind \in LiveKinds THEN IsLive(i) ELSE sessions[i].kind = r.kind}

\* Mutant of Admissible: off by one at the household cap.
AdmissibleAtCap(r) ==
    /\ r.capped => Cardinality(Competing(r)) < LiveKindCap
    /\ Cardinality(Remaining(r)) <= Cap

Admissible(r) ==
    /\ r.capped => Cardinality(Competing(r)) < LiveKindCap
    /\ Cardinality(Remaining(r)) < Cap

\* Mutant of NewSession: the two identifying strings are swapped.
NewSessionSwapped(r) ==
    [sub |-> r.resource, kind |-> r.kind, resource |-> r.sub, age |-> 0]

NewSession(r) ==
    [sub |-> r.sub, kind |-> r.kind, resource |-> r.resource, age |-> 0]

WithSession(r, id) ==
    [i \in Remaining(r) \cup {id} |-> IF i = id THEN NewSession(r) ELSE sessions[i]]

\* try_acquire: sweep, then refresh a known id, admit, or deny.
TryAcquire(r, id) ==
    sessions' = IF id \in Fresh THEN [Swept EXCEPT ![id].age = 0]
                ELSE IF Admissible(r) THEN WithSession(r, id)
                ELSE Swept

\* Ids of sessions matching the tuple the byte routes know.
Matching(sub, kind, resource) ==
    {i \in Held : SameSlot(sessions[i], Request(sub, kind, resource, FALSE, FALSE))}

Touch(ids) ==
    sessions' = [i \in Held |-> IF i \in ids THEN [sessions[i] EXCEPT !.age = 0]
                                ELSE sessions[i]]

Remove(ids) == sessions' = Restrict(sessions, Held \ ids)

\* Ids a grant can mint: live ids hold a uuid, on-demand ids only a
\* millisecond, so a second grant of one title can mint the id it holds.
FreshIds == SessionIds \ Held
OnDemandIds(r) == FreshIds \cup (Matching(r.sub, r.kind, r.resource) \cap SessionIds)

-----------------------------------------------------------------------------
TrackerInit ==
    /\ sessions = << >>
    /\ dvrAdmitted = NoRecording

Tick ==
    /\ sessions' = [i \in Held |-> IF sessions[i].age < AgeLimit
                                   THEN [sessions[i] EXCEPT !.age = @ + 1]
                                   ELSE sessions[i]]
    /\ UNCHANGED dvrAdmitted

\* list, has, find, live_count and sweep all sweep under the lock.
Sweep ==
    /\ sessions' = Swept
    /\ UNCHANGED dvrAdmitted

\* live_grant.  A preview never replaces, and borrows a remux reservation
\* the viewer already holds on the channel.
LiveGrant(v, c, kind, preview) ==
    LET r == Request(v, kind, c, TRUE, ~preview)
        borrowed == preview /\ kind = "remux" /\ Matching(v, kind, c) \cap Fresh # {}
    IN  /\ IF borrowed THEN sessions' = Swept
           ELSE \E id \in FreshIds : TryAcquire(r, id)
        /\ UNCHANGED dvrAdmitted

\* live_ts of a playlist URL: the slot find() did not see is taken here.
LiveBytes(v, c) ==
    /\ \E id \in FreshIds : TryAcquire(Request(v, "live", c, TRUE, FALSE), id)
    /\ UNCHANGED dvrAdmitted

\* vod_grant, series_grant, catchup_grant, and hold_slot re-taking a slot.
OnDemandAcquire(v, t, kind) ==
    LET r == Request(v, kind, t, FALSE, FALSE)
    IN  /\ \E id \in OnDemandIds(r) : TryAcquire(r, id)
        /\ UNCHANGED dvrAdmitted

\* heartbeat_by_resource: no sweep, so it revives a slot just past idle.
HeartbeatByResource(v, kind, resource) ==
    /\ \E i \in Matching(v, kind, resource) : Touch({i})
    /\ UNCHANGED dvrAdmitted

\* release_by_resource of a dropped on-demand body, release of a raw live
\* lease, and the sessions widget (which refuses DVR sessions).
ReleaseViewer(i) ==
    /\ i \in Held \cap SessionIds
    /\ Remove({i})
    /\ UNCHANGED dvrAdmitted

\* Mutant of DvrAdmit: remux reservations are not counted.
DvrAdmitLiveOnly(rec) ==
    /\ dvrAdmitted = NoRecording
    /\ Cardinality({i \in Fresh : sessions[i].kind = "live"}) < UpstreamCap
    /\ sessions' = Swept
    /\ dvrAdmitted' = rec

\* FfmpegRecorder::start reads upstream_in_use() (list() sweeps) ...
DvrAdmit(rec) ==
    /\ dvrAdmitted = NoRecording
    /\ Cardinality({i \in Fresh : IsLive(i)}) < UpstreamCap
    /\ sessions' = Swept
    /\ dvrAdmitted' = rec

\* ... and only then reserves, with no kind_cap.  Other threads may have
\* been admitted in between.
DvrReserve(c) ==
    /\ dvrAdmitted # NoRecording
    /\ TryAcquire(Request(dvrAdmitted, "live", c, FALSE, FALSE), dvrAdmitted)
    /\ dvrAdmitted' = NoRecording

DvrHeartbeat(rec) ==
    /\ rec \in Held
    /\ Touch({rec})
    /\ UNCHANGED dvrAdmitted

\* The recorder's child exited, or never spawned.
DvrRelease(rec) ==
    /\ rec \in Held
    /\ Remove({rec})
    /\ UNCHANGED dvrAdmitted

ViewerNext ==
    \/ \E v \in Viewers, c \in Channels, preview \in BOOLEAN :
          \E kind \in LiveKinds : LiveGrant(v, c, kind, preview)
    \/ \E v \in Viewers, c \in Channels : LiveBytes(v, c)
    \/ \E v \in Viewers, t \in Titles, kind \in OnDemandKinds :
          OnDemandAcquire(v, t, kind)
    \/ \E v \in Viewers, kind \in LiveKinds, c \in Channels :
          HeartbeatByResource(v, kind, c)
    \/ \E v \in Viewers, kind \in OnDemandKinds, t \in Titles :
          HeartbeatByResource(v, kind, t)
    \/ \E i \in SessionIds : ReleaseViewer(i)

DvrNext ==
    \/ \E rec \in Recordings : DvrAdmit(rec)
    \/ \E c \in Channels : DvrReserve(c)
    \/ \E rec \in Recordings : DvrHeartbeat(rec)
    \/ \E rec \in Recordings : DvrRelease(rec)

TrackerNext == Tick \/ Sweep \/ ViewerNext \/ DvrNext

TrackerSpec == TrackerInit /\ [][TrackerNext]_trackerVars

-----------------------------------------------------------------------------
(* Properties *)

\* The tracker holds well-formed sessions and the DVR scheduler, whose ticks
\* never overlap, has at most one recording between check and reservation.
TypeOK ==
    /\ Held \subseteq Ids
    /\ sessions \in [Held -> Session]
    /\ dvrAdmitted \in Recordings \cup {NoRecording}

\* try_acquire: no sequence of grants, switches, revivals by heartbeat and
\* recordings ever holds more slots than the household cap.
HouseholdCap == Cardinality(Held) <= Cap

\* A re-grant replaces: one viewer never holds two slots for one resource,
\* whichever ids its devices were given.
NoDoubleBooking ==
    \A i, j \in Held : SameSlot(sessions[i], sessions[j]) => i = j

\* The raw live and remux reservations of viewers together never exceed
\* live_kind_cap, recordings or not.
ViewerLiveBudget ==
    Cardinality({i \in Held : IsLive(i) /\ sessions[i].sub \in Viewers}) <= LiveKindCap

LiveHeld == {i \in Held : IsLive(i)}

\* "a kind cap shared by every live upstream connection (raw live, remux,
\* DVR)" (concurrency.rs:2).  FfmpegRecorder::start checks the count, then
\* acquires without a kind cap, so a grant in between breaks it.
SharedLiveBudget == Cardinality(LiveHeld) <= UpstreamCap

\* How far that race can go: live reservations exceed the upstream cap by at
\* most one, and never while a recording is still between the two steps.
OvershootAtMostOne ==
    /\ Cardinality(LiveHeld) <= UpstreamCap + 1
    /\ dvrAdmitted # NoRecording => Cardinality(LiveHeld) <= UpstreamCap

\* A fresh slot is lost only to its own release or to an admission of the
\* same viewer, for the same resource or as a live switch: a denied grant
\* keeps the old reservation and nobody evicts another member.
EvictionJustified ==
    [][\A i \in Fresh \ DOMAIN sessions' :
          \/ ReleaseViewer(i)
          \/ DvrRelease(i)
          \/ \E j \in DOMAIN sessions' \ Held :
                /\ sessions'[j].sub = sessions[i].sub
                /\ \/ SameSlot(sessions'[j], sessions[i])
                   \/ IsLive(i) /\ sessions'[j].kind \in LiveKinds]_trackerVars

=============================================================================
