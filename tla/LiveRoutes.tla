------------------------------ MODULE LiveRoutes ------------------------------
(***************************************************************************)
(* A viewer's live playback (crates/iptv/src/streams.rs, remux_map.rs):    *)
(* the grant reserves a slot in the tracker, a raw .ts request proxies     *)
(* bytes under a lease, a manifest poll shares one remux session through   *)
(* the live map.  Tracker, leases, map and registry have a lock each, and  *)
(* a request awaits between looking at one and acting on another.          *)
(*                                                                         *)
(* The caps (StreamTracker) and the registry's children (RemuxRegistry)    *)
(* enter as refusals that may happen; which sibling feed a dial picks, and *)
(* the redial backoff, as a dial that may not happen.                      *)
(***************************************************************************)
EXTENDS Naturals, FiniteSets

CONSTANTS
    Subs,       \* viewers
    Channels,   \* channels they tune
    Requests,   \* requests in flight
    Ids,        \* reservation ids (uuids)
    Sessions,   \* remux session ids
    None        \* no request, id or session

Keys == Subs \X Channels

Kinds == {"live", "remux"}

ASSUME LiveRoutesAssumption ==
    None \notin Requests \cup Ids \cup Sessions \cup Keys

VARIABLES
    reserved,   \* the tracker's live reservations
    leases,     \* leases: key -> the raw proxy that owns it
    index,      \* LiveMap's index: key -> session
    alive,      \* sessions the registry knows
    quiet,      \* those not heartbeated for their idle time
    requests    \* the handlers' local state

liveVars == <<reserved, leases, index, alive, quiet, requests>>

Reservation == [id : Ids, key : Keys, kind : Kinds]

\* Where a handler stands between two of its awaits or locks.
Stages == {"idle", "acquire", "drain", "proxy", "release", "ensure", "wait", "preview",
           "grantLive", "grantRemux", "stopLive", "stopRemux", "forget"}

\* stop: the proxy's cancellation token.  entry: what a DELETE found.
Request == [pc : Stages, key : Keys \cup {None}, id : Ids \cup {None},
            entry : Sessions \cup {None}, stop : BOOLEAN]

Idle == [pc |-> "idle", key |-> None, id |-> None, entry |-> None, stop |-> FALSE]

-----------------------------------------------------------------------------
(* Tracker *)

Held(i) == \E x \in reserved : x.id = i

\* find, heartbeat_by_resource.
Slots(k, kind) == {x \in reserved : x.key = k /\ x.kind = kind}

\* A new uuid: which one tells no two runs apart.
FreeIds == {i \in Ids : ~Held(i) /\ \A r \in Requests : requests[r].id # i}

FreeId == CHOOSE i \in FreeIds : TRUE

\* try_acquire's evictions: the same slot, or a switch's every live slot.
Replaced(k, kind, switch) ==
    {x \in reserved : x \in Slots(k, kind) \/ (switch /\ x.key[1] = k[1])}

Acquired(k, kind, switch) ==
    /\ FreeIds # {}
    /\ reserved' = (reserved \ Replaced(k, kind, switch))
                       \cup {[id |-> FreeId, key |-> k, kind |-> kind]}

WithoutId(i) == {x \in reserved : x.id # i}

\* A slot nobody heartbeats is swept.
Expire(x) ==
    /\ x \in reserved
    /\ reserved' = reserved \ {x}
    /\ UNCHANGED <<leases, index, alive, quiet, requests>>

-----------------------------------------------------------------------------
(* Requests *)

Begins(r, pc, k, i, s) ==
    requests' = [requests EXCEPT ![r] = [pc |-> pc, key |-> k, id |-> i, entry |-> s,
                                         stop |-> FALSE]]

Ends(r) == requests' = [requests EXCEPT ![r] = Idle]

\* Only an await can be left: by an error, a refusal or the client.
Leave(r) ==
    /\ requests[r].pc \in {"acquire", "drain", "ensure", "wait", "preview"}
    /\ Ends(r)
    /\ UNCHANGED <<reserved, leases, index, alive, quiet>>

-----------------------------------------------------------------------------
(* Raw bytes: live_ts *)

LiveTs(r, k) ==
    /\ requests[r].pc = "idle"
    /\ \/ \E x \in Slots(k, "live") : Begins(r, "drain", k, x.id, None)
       \/ Slots(k, "live") = {} /\ Begins(r, "acquire", k, None, None)
    /\ UNCHANGED <<reserved, leases, index, alive, quiet>>

\* A playlist URL arrives without a grant; the title was awaited since.
LiveTsAcquire(r) ==
    /\ requests[r].pc = "acquire"
    /\ Acquired(requests[r].key, "live", FALSE)
    /\ Begins(r, "drain", requests[r].key, FreeId, None)
    /\ UNCHANGED <<leases, index, alive, quiet>>

\* Still over the cap after DRAIN_WAIT.
DrainTimeout(r) ==
    /\ requests[r].pc = "drain"
    /\ reserved' = WithoutId(requests[r].id)
    /\ Ends(r)
    /\ UNCHANGED <<leases, index, alive, quiet>>

\* Mutant of Superseded: the prior proxy is left alone.
SupersededNever(k) == {}

\* The proxy whose lease a new one replaces.
Superseded(k) == {leases[k]} \ {None}

\* begin_raw_live, and the dial.  The reservation was last seen before the
\* waits for captures, draining children and the siblings.
BeginRaw(r) ==
    LET k == requests[r].key IN
    /\ requests[r].pc = "drain"
    /\ leases' = [leases EXCEPT ![k] = r]
    /\ requests' = [q \in Requests |->
                       IF q = r THEN [requests[r] EXCEPT !.pc = "proxy"]
                       ELSE IF q \in Superseded(k) THEN [requests[q] EXCEPT !.stop = TRUE]
                       ELSE requests[q]]
    /\ UNCHANGED <<reserved, index, alive, quiet>>

\* Mutant of Current: any teardown counts as the owner's.
CurrentAssumed(r) == TRUE

\* LeaseHandle::dispose: the lease is still this proxy's.
Current(r) == leases[requests[r].key] = r

\* Mutant of Disposed: the slot is released and the lease left behind.
DisposedSlotOnly(r) == leases

Disposed(r) ==
    IF Current(r) THEN [leases EXCEPT ![requests[r].key] = None] ELSE leases

\* EOF, hang-up, a failed dial or a beat that finds its slot gone: dispose
\* the lease, and, if it was still this proxy's, release the slot ...
EndRaw(r) ==
    /\ requests[r].pc = "proxy"
    /\ leases' = Disposed(r)
    /\ IF Current(r)
       THEN Begins(r, "release", requests[r].key, requests[r].id, None)
       ELSE Ends(r)
    /\ UNCHANGED <<reserved, index, alive, quiet>>

\* ... under the tracker's lock, after that of the leases.
ReleaseRaw(r) ==
    /\ requests[r].pc = "release"
    /\ reserved' = WithoutId(requests[r].id)
    /\ Ends(r)
    /\ UNCHANGED <<leases, index, alive, quiet>>

\* The pump task sees the token even when the client stopped reading.
StopRaw(r) == requests[r].stop /\ EndRaw(r)

-----------------------------------------------------------------------------
(* The live map: ensure, get_active, forget *)

\* get_active drops an entry whose ffmpeg exited.
StaleDropped(k) == [index EXCEPT ![k] = IF @ \in alive THEN @ ELSE None]

\* Mutant of FreshSessions: an id minted before, in the same millisecond.
FreshSessionsAny == Sessions

FreshSessions ==
    {s \in Sessions : /\ s \notin alive
                      /\ \A k \in Keys : index[k] # s
                      /\ \A r \in Requests : requests[r].entry # s}

FreshSession == CHOOSE s \in FreshSessions : TRUE

\* Poll r shares the active session of its key, or dials one.
Ensures(r) ==
    LET k == requests[r].key IN
    \/ /\ index[k] \in alive
       /\ quiet' = quiet \ {index[k]}
       /\ Begins(r, "wait", k, requests[r].id, None)
       /\ UNCHANGED <<index, alive>>
    \/ /\ index[k] \notin alive
       /\ FreshSessions # {}
       /\ index' = [index EXCEPT ![k] = FreshSession]
       /\ alive' \in {alive, alive \cup {FreshSession}} \* ffmpeg may not spawn
       /\ quiet' = quiet \ {FreshSession}
       /\ Begins(r, "wait", k, requests[r].id, None)
    \/ /\ index[k] \notin alive \* cooldown, the cap, or no feed
       /\ index' = [index EXCEPT ![k] = None]
       /\ Ends(r)
       /\ UNCHANGED <<alive, quiet>>

\* Sessions ss leave the registry.
Stopped(ss) ==
    /\ alive' = alive \ ss
    /\ quiet' = quiet \ ss

-----------------------------------------------------------------------------
(* Manifest polls: remux_manifest, remux_seg *)

\* Mutant of Polled: a poll without a reservation is served all the same.
PolledUnreserved(k) == {x \in Reservation : x.key = k}

\* A released slot never reopens: the poll needs its reservation.
Polled(k) == Slots(k, "remux")

\* The lookups before the first await.
PollStart(r, k) ==
    /\ requests[r].pc = "idle"
    /\ \E x \in Polled(k) : Begins(r, "ensure", k, x.id, None)
    /\ index' = StaleDropped(k)
    /\ UNCHANGED <<reserved, leases, alive, quiet>>

\* The first ensure, after the siblings and the captures were awaited.
PollEnsure(r) ==
    /\ requests[r].pc = "ensure"
    /\ Ensures(r)
    /\ UNCHANGED <<reserved, leases>>

\* The wait for a starting window looks at the slot before each ensure.
PollAgain(r) ==
    /\ requests[r].pc = "wait"
    /\ Held(requests[r].id)
    /\ Ensures(r)
    /\ UNCHANGED <<reserved, leases>>

Segment(k) ==
    /\ Polled(k) # {}
    /\ index' = StaleDropped(k)
    /\ quiet' = quiet \ {index[k]}
    /\ UNCHANGED <<reserved, leases, alive, requests>>

-----------------------------------------------------------------------------
(* Grants, DELETE, feed checks *)

\* live_grant for a watch: the viewer's other live slots are replaced.
Grant(r, k, kind) ==
    /\ requests[r].pc = "idle"
    /\ Acquired(k, kind, TRUE)
    /\ Begins(r, IF kind = "live" THEN "grantLive" ELSE "grantRemux", k, None, None)
    /\ UNCHANGED <<leases, index, alive, quiet>>

\* A guide preview borrows a remux slot it finds; a raw one is added ...
PreviewLive(r, k) ==
    /\ requests[r].pc = "idle"
    /\ Acquired(k, "live", FALSE)
    /\ UNCHANGED <<leases, index, alive, quiet, requests>>

\* ... and a remux slot that was missing, after the title was awaited.
PreviewRemux(r, k) ==
    /\ requests[r].pc = "idle"
    /\ Slots(k, "remux") = {}
    /\ Begins(r, "preview", k, None, None)
    /\ UNCHANGED <<reserved, leases, index, alive, quiet>>

PreviewAcquire(r) ==
    /\ requests[r].pc = "preview"
    /\ Acquired(requests[r].key, "remux", FALSE)
    /\ Ends(r)
    /\ UNCHANGED <<leases, index, alive, quiet>>

Proxies(ks) == {leases[k] : k \in ks} \ {None}

\* Cancels the leases of ks and sets r idle.
LeasesStopped(r, ks) ==
    /\ leases' = [k \in Keys |-> IF k \in ks THEN None ELSE leases[k]]
    /\ requests' = [q \in Requests |->
                       IF q = r THEN Idle
                       ELSE IF q \in Proxies(ks) THEN [requests[q] EXCEPT !.stop = TRUE]
                       ELSE requests[q]]

KeysOf(s) == {k \in Keys : k[1] = s}

\* Admitted: stop_other_raw_lives, then drop_others, which share no state.
GrantStops(r) ==
    LET mine == KeysOf(requests[r].key[1])
        keep == IF requests[r].pc = "grantRemux" THEN {requests[r].key} ELSE {}
    IN /\ requests[r].pc \in {"grantLive", "grantRemux"}
       /\ LeasesStopped(r, mine)
       /\ index' = [k \in Keys |-> IF k \in mine \ keep THEN None ELSE index[k]]
       /\ Stopped({index[k] : k \in mine \ keep})
       /\ UNCHANGED reserved

\* release_session: the slot goes first, under the tracker's lock ...
Delete(r, x) ==
    /\ requests[r].pc = "idle"
    /\ x \in reserved
    /\ reserved' = WithoutId(x.id)
    /\ Begins(r, IF x.kind = "live" THEN "stopLive" ELSE "stopRemux", x.key, None, None)
    /\ UNCHANGED <<leases, index, alive, quiet>>

\* ... then stop_raw_live takes whatever lease the key now has ...
StopLive(r) ==
    /\ requests[r].pc = "stopLive"
    /\ LeasesStopped(r, {requests[r].key})
    /\ UNCHANGED <<reserved, index, alive, quiet>>

\* ... or get_active the key's session, and forget the map's lock again.
StopRemux(r) ==
    LET k == requests[r].key IN
    /\ requests[r].pc = "stopRemux"
    /\ index' = StaleDropped(k)
    /\ IF index[k] \in alive THEN Begins(r, "forget", k, None, index[k]) ELSE Ends(r)
    /\ UNCHANGED <<reserved, leases, alive, quiet>>

\* forget removes whatever the key's entry now is.
Forget(r) ==
    /\ requests[r].pc = "forget"
    /\ index' = [index EXCEPT ![requests[r].key] = None]
    /\ Stopped({requests[r].entry})
    /\ Ends(r)
    /\ UNCHANGED <<reserved, leases>>

\* redirect: a feed check sends the tune elsewhere, if still current.
Redirect(k) ==
    /\ index[k] # None
    /\ index' = [index EXCEPT ![k] = None]
    /\ Stopped({index[k]})
    /\ UNCHANGED <<reserved, leases, requests>>

-----------------------------------------------------------------------------
(* The registry *)

\* ffmpeg exits and is not relaunched.
SessionExits(s) ==
    /\ s \in alive
    /\ Stopped({s})
    /\ UNCHANGED <<reserved, leases, index, requests>>

\* The idle time passes without a heartbeat.
GoesQuiet(s) ==
    /\ s \in alive \ quiet
    /\ quiet' = quiet \cup {s}
    /\ UNCHANGED <<reserved, leases, index, alive, requests>>

\* sweep_idle, or a dial that reclaims an idle session.
SweepSession(s) ==
    /\ s \in quiet
    /\ Stopped({s})
    /\ UNCHANGED <<reserved, leases, index, requests>>

-----------------------------------------------------------------------------
LiveRoutesInit ==
    /\ reserved = {}
    /\ leases = [k \in Keys |-> None]
    /\ index = [k \in Keys |-> None]
    /\ alive = {}
    /\ quiet = {}
    /\ requests = [r \in Requests |-> Idle]

RequestNext(r) ==
    \/ Leave(r)
    \/ \E k \in Keys : LiveTs(r, k) \/ PollStart(r, k)
    \/ LiveTsAcquire(r) \/ DrainTimeout(r) \/ BeginRaw(r) \/ EndRaw(r) \/ ReleaseRaw(r)
    \/ PollEnsure(r) \/ PollAgain(r)
    \/ \E k \in Keys, kind \in Kinds : Grant(r, k, kind)
    \/ \E k \in Keys : PreviewLive(r, k) \/ PreviewRemux(r, k)
    \/ PreviewAcquire(r) \/ GrantStops(r)
    \/ \E x \in reserved : Delete(r, x)
    \/ StopLive(r) \/ StopRemux(r) \/ Forget(r)

LiveRoutesNext ==
    \/ \E r \in Requests : RequestNext(r)
    \/ \E x \in reserved : Expire(x)
    \/ \E k \in Keys : Segment(k) \/ Redirect(k)
    \/ \E s \in Sessions : SessionExits(s) \/ GoesQuiet(s) \/ SweepSession(s)

LiveRoutesSpec == LiveRoutesInit /\ [][LiveRoutesNext]_liveVars

\* The pumps and the idle sweep run; time passes.  Requests owe nothing.
FairLiveRoutesSpec ==
    /\ LiveRoutesSpec
    /\ \A r \in Requests : WF_liveVars(StopRaw(r))
    /\ \A s \in Sessions : WF_liveVars(GoesQuiet(s)) /\ WF_liveVars(SweepSession(s))

-----------------------------------------------------------------------------
(* Properties *)

\* Reservations have ids of their own, sessions one key each.
TypeOK ==
    /\ reserved \subseteq Reservation
    /\ \A x, y \in reserved : x.id = y.id => x = y
    /\ leases \in [Keys -> Requests \cup {None}]
    /\ index \in [Keys -> Sessions \cup {None}]
    /\ \A k, l \in Keys : index[k] = index[l] /\ index[k] # None => k = l
    /\ alive \subseteq Sessions /\ quiet \subseteq alive
    /\ requests \in [Requests -> Request]
    /\ \A r \in Requests : requests[r].pc # "idle" => requests[r].key \in Keys

Proxying(r) == requests[r].pc = "proxy"

\* begin_raw_live: one physical byte proxy per viewer and channel.  Every
\* proxy not yet told to stop owns its channel's lease, so the next grant,
\* DELETE or retune reaches it; and no lease outlives its proxy.
LeaseCoversProxy ==
    \A r \in Requests, k \in Keys :
        leases[k] = r <=> Proxying(r) /\ ~requests[r].stop /\ requests[r].key = k

\* begin_raw_live: the late teardown of a proxy that was replaced, granted
\* away or stopped releases no slot, though its replacement found and plays
\* under the same reservation.
TeardownKeepsNewer ==
    [][\A r \in Requests :
          Proxying(r) /\ requests[r].stop => requests'[r].pc # "release"]_liveVars

\* watched_body: a proxy that lost its lease, to a retune, a grant or a
\* DELETE, closes its provider socket even if its client reads no more.
ReplacedProxyEnds ==
    \A r \in Requests :
        Proxying(r) /\ leases[requests[r].key] # r
            ~> ~Proxying(r) \/ leases[requests[r].key] = r

\* The map serves s to a viewer who still holds the channel.
Wanted(s) == \E k \in Keys : index[k] = s /\ Slots(k, "remux") # {}

\* drop_others, forget, the idle sweep: a session dialed for a viewer who has
\* left, or orphaned by a DELETE that removed its entry, does not keep its
\* provider connection.
UnwantedSessionEnds ==
    \A s \in Sessions : s \in alive /\ ~Wanted(s) ~> s \notin alive \/ Wanted(s)

Granting == {r \in Requests : requests[r].pc \in {"grantLive", "grantRemux"}}

\* live_ts: "a retune never holds a second provider socket next to the new
\* one": once a grant has switched the viewer and stopped the old proxies, no
\* request dials a channel they were switched away from.
RetuneOneSocket ==
    [][\A r \in Requests :
          ~Proxying(r) /\ Proxying(r)' /\ Granting = {}
              => \/ Held(requests[r].id)
                 \/ \A x \in reserved : x.key[1] = requests[r].key[1]
                                         => x.key = requests[r].key]_liveVars

=============================================================================
