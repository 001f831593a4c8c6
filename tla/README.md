# The Emerald Exchange in TLA+

Models, model-checking runs and machine-checked proofs for the Rust services of
The Emerald Exchange (`crates/`). The services share a few scarce things: the
connections an IPTV provider allows, the transcoder's slots, files on a small
tmpfs, rows in SQLite. Each is held by an ffmpeg process or a client that may
vanish, and handed over between tasks that only meet at a mutex or an `await`.
That is what is modelled here. What a unit test pins down as well (parsing,
argument lists, request mapping) is not.

## 1. Inventory

Source paths are below `src/`.

### iptv service

| Part | State | Operations | What is hard, what makes it correct |
|---|---|---|---|
| Stream tracker, `crates/iptv/src/concurrency.rs` | map of sessions with viewer, kind, resource, last heartbeat | `try_acquire`, `heartbeat`, `heartbeat_by_resource`, `release`, `sweep`, counts | Three caps over one map, sweeps on some calls and not on others, a live switch that evicts before it admits, the recorder's check that is not under the same lock. No cap is exceeded, nobody is evicted by another member. |
| Remux registry, `crates/iptv/src/remux.rs` | sessions, draining children, feed-check captures, per-feed strikes | `start`, `stop`, `touch`, `sweep_idle`, `preempt_aux`, captures, the supervisors | A provider socket outlives the decision to close it; an exit may be a provider end, a fault, our own signal. The slot count never understates open sockets, a stop is final, only the provider's own ends mark a feed dead. |
| Live remux map, `remux_map.rs` | tuned channel to session | `ensure`, `get_active`, `forget`, `drop_others`, redirect | Its entries are looked up, awaited on, and removed by requests that know nothing of each other. No session nobody wants keeps a connection. |
| Live routes, `streams.rs` | leases of raw proxies | grants, heartbeats, release, raw bytes, manifest | Overlapping requests of one player; four locks taken one after the other with awaits between; teardown arriving late. One proxy per viewer and channel, and no teardown takes a slot from a newer request. |
| DVR, `dvr.rs` | rows, ffmpeg children, files | schedule, 20 s tick, recorder, DELETE, playback | Four tasks on a row with an `await` at every database call; deploys within a recording. One ffmpeg per recording, outcomes stay, a row always settles. |
| Feed checks, `feed_verify.rs`, `feed_checks.rs`, `feed_sweep.rs` | exclusive scheduler, verdicts | schedule, capture, compare, record | Yielding to viewers; corroborating verdicts. |
| Catalog sync and EPG, `sync.rs`, `epg.rs`, `catalog.rs` | catalogue tables, busy flag | sync, resolve | One sync at a time, all or nothing. |

### transcoder

| Part | State | Operations | What is hard, what makes it correct |
|---|---|---|---|
| Sessions and limiter, `crates/transcoder/src/session.rs`, `concurrency.rs` | session map, supervisors and mailboxes, permits, directories, start gates | `start`, `seek`, `stop`, `heartbeat`, `sweep_idle`, crash respawn | A session may leave the map while its supervisor is inside a respawn; clients hang up in the middle of calls. No encoder without slot and directory, no slot or directory left behind, a crash loop ends. |
| Planning, `plan.rs`, `args.rs`, `vod_manifest.rs` | none | pure | Segment arithmetic. |

### auth, gateway, media-core, recommender, clients

* **Members, invites, roles** (`crates/auth/src/members.rs`, `invites.rs`): rows
  changed by one statement or under `BEGIN IMMEDIATE`, while the request that
  changes them was authenticated some awaits earlier. An administrator always
  remains, an invite is used at most `max_uses` times, a revocation stays.
* **Device links and tokens** (`device_link.rs`, `device_tokens.rs`,
  `reconcile.rs`): start, claim, poll, revoke. Claims and polls of one code race
  and clients hang up between consuming a code and minting its token. One token
  per code, and it is the claimer's.
* **Syncplay** (`crates/gateway/src/syncplay.rs`): groups with a host and a
  clock; host succession, idle pruning.
* **Gateway stores, suggestions, usage**: rows per user, a usage budget.
* **media-core**: a scan that is the only one running, watch state.
* **recommender, contracts, pin-staleness, web client**: numeric or pure code;
  the client appears as the requests the services must bear, in any order.

### How the parts meet

```
 viewer --grant/heartbeat/DELETE--> streams.rs --try_acquire--> Tracker <--reserve/heartbeat-- DVR
                                       |                           ^                            |
                                       +--ensure--> remux_map --start/stop--> Remux <--preempt--+
                                                                     |
                                                     feed checks --capture
 viewer --grant/seek/DELETE--> routes.rs --> SessionManager --mailbox--> supervisor --> ffmpeg
```

The tracker counts *reservations*, the registry counts *sockets*, and the
provider sees only the second. The recorder looks at the larger of the two.

`PROJECT.json` lists every part with its status, and, under `hazards`, each
place where an interleaving, a crash, a limit or a stale value can bite, with the
property that watches it or the reason none does yet.

## 2. Modules

| Module | Models | Checked by |
|---|---|---|
| `StreamTracker` | `concurrency.rs` and every request shape its callers in `streams.rs` and `dvr.rs` build | `MCStreamTracker` |
| `StreamTrackerProofs` | theorems about it | TLAPS |
| `ConnectionPool` | abstract: a pool of provider connections | as a refinement of the next |
| `RemuxRegistry` | `remux.rs` | `MCRemuxRegistry` |
| `RemuxRegistryProofs` | theorems about it, refinement included | TLAPS |
| `RecordingLife` | abstract: the life of a recording, its row and its ffmpeg | as a refinement of the next |
| `Dvr` | `dvr.rs`, its shutdown in `main.rs` | `MCDvr` |
| `DvrProofs` | theorems about it, refinement included | TLAPS |
| `TranscodeSession` | `session.rs` and its limiter | `MCTranscodeSession` |
| `TranscodeSessionProofs` | theorems about it | TLAPS |
| `LiveRoutes` | the live routes of `streams.rs` and `remux_map.rs`, with the tracker and the registry as they use them | itself |
| `LiveRoutesProofs` | theorems about it | TLAPS |
| `Allowlist` | abstract: the household's tables, requests out of sight | as a refinement of the next |
| `Household` | `members.rs`, `invites.rs`, `device_link.rs`, `device_tokens.rs`, `reconcile.rs` | `MCHousehold` |
| `HouseholdProofs` | theorems about it, refinement included | TLAPS |

Definitions whose comment says "Mutant of X" are deliberate mistakes. They are
used only to see that a property notices when X is replaced by them.

### StreamTracker

`sessions` is the map; a session carries its `age`, the ticks since its last
heartbeat, instead of a timestamp, counted up to one past the longest idle limit.
A call under the mutex is one action: `TryAcquire` first sweeps what is idle, then
refreshes a session it knows or leaves out the viewer's own slots the request
replaces, checks the two caps (the household's, and the live kinds' where the
request asks for it) on what *remains*, and inserts; denied, it has only swept. The
callers fix the request: `LiveGrant` replaces the viewer's live slots and counts
under the live cap, `OnDemandAcquire` re-enters the same slot, `LiveBytes` takes the
slot a playlist URL arrives without. `HeartbeatByResource` does not sweep, as in the
code, so it may revive a slot past its idle limit. The recorder's admission is
*two* actions, `DvrAdmit` (which reads the count) and `DvrReserve`, because the
code does them under two locks; `dvrAdmitted` holds the recording in between.

### RemuxRegistry and ConnectionPool

`procs` are the ffmpeg children with the state of their exit; `sessions`,
`draining` and `aux` are the registry's three sets. A child moves from a session
to `draining` at a stop and leaves `draining` only when its supervisor reaped
it, so `Count` bounds open sockets from above at every instant. A fault marks a
child for a relaunch; `ReapRelaunch` re-dials in the same slot, `ReapEnd` ends
the session and, if nobody tore it down, strikes its feed. The probe that reads
ffmpeg's stderr is an input: a fault may be reported at any time.

`ConnectionPool` says what the provider should see: `held` slots, `open` ones
among them, a dial only into a held slot and a slot freed only once its socket is
closed. `RemuxRegistry` implements it with `held` mapped to the children counted
and `open` to those whose process lives.

### Dvr

`rows` holds status and whether a file path is set; `window` whether now is
before, in or past the recording's window. `tick` is the scheduler pass as a
program counter: it reads the rows (`TickRead`), then asks for the running set
(`TickPlan`), then starts, stops and misses in order, each database call a step.
`children` is the recorder's map: an entry stays from the spawn until the
supervisor wrote the outcome (`FinalizeRead`, `FinalizeWrite`). `del` is a DELETE
with its *two* reads of the row. `Shutdown` aborts the tick and terminates every
child; `Restart` is a boot after a shutdown or a crash, and loses everything but
rows and files. A client may hang up a DELETE at any await (`DeleteDropped`).

`RecordingLife` forgets the tasks: of each recording it keeps the row's status and
whether an ffmpeg runs, has exited with its outcome unwritten, or is not there. Its
`Settle` and `Conclude` say what a stale view may still do (replace an outcome by
another one); putting a row back, completing one whose ffmpeg runs, deleting one
without an outcome, spawning twice are not steps of it. `Dvr` implements it with
`status` mapped to the rows' statuses and `ffmpeg` read off `children`.

### TranscodeSession

`sessions` is the map, `sup` the supervisor tasks, each with a program counter
and its mailbox. `starts` are calls of `start` (gate, find, supersede, admit,
spawn), `stops` calls of `stop` that took a session out of the map and wait for
its supervisor, with who called (`DELETE`, a superseding start, the sweep).
`respawn` is four steps, `RespawnRead`, `RespawnWrite`, `RespawnSpawn`,
`RespawnCheck`, since it takes the map's lock three times and touches the disk
between. A call whose client hangs up is dropped where it awaits: its permit is
freed, its directory stays, and the id is remembered in `forsaken`, an auxiliary
variable the properties need to tell such ids from the others. `lapsed`, the other
one, remembers per title the ids that were ever idle past `IDLE_TIMEOUT`:
`find_owner_title_session` skips an idle session and stops only one fresh one, so
a session that comes back from idleness stays beside its successor, and
`DuplicateLapsed` says exactly how many such sessions there can be.

`stop` waits at most 10 s for the supervisor's ack. The supervisor needs one
kill, at most 5 s, to get there, so the timeout is not an action. A seek's write
of the offset and its message are one step: the window between them adds nothing
the window between two steps of `respawn` does not have.

### LiveRoutes

A composition: `reserved` is what the tracker holds of the live kinds, `leases`
the map from viewer and channel to the raw proxy that owns it, `index` the live
map, `alive` and `quiet` what the registry knows of remux sessions, and
`requests` the handlers, each at one of the `Stages` between two locks or awaits.
`LiveTs` to `BeginRaw` is a raw request (reservation found or taken, then the
wait for draining children, then lease and dial); `EndRaw` and `ReleaseRaw` its
teardown, under the lease's lock and then the tracker's. `PollStart`,
`PollEnsure` and `PollAgain` are the manifest route, whose check of the
reservation and whose dial are awaits apart. `Grant`, `PreviewLive` and
`PreviewRemux` are the grant route; `Delete`, `StopLive`, `StopRemux` and
`Forget` the release route's four locks in turn. `Expire`, `SessionExits`,
`GoesQuiet`, `SweepSession` and `Redirect` are what happens meanwhile.

The tracker's caps and the registry's children are `StreamTracker`'s and
`RemuxRegistry`'s subject; here they are refusals that may happen at any time
(`Leave`), so what holds does not depend on them. Fresh identifiers are chosen,
not enumerated: which uuid is drawn tells no two behaviours apart.

### Household

The tables are variables (`members`, `invites`, `links`, `tokens`), one SQL
statement or transaction is one step, and `requests` holds what each handler
carries from one statement to the next: the caller, the role it was
authenticated with, the code it serves. So a role may be lost between the check
and the act, a code revoked between a claim and a poll, a member revoked while a
Plex probe that admits them is under way. `Drop` ends a request at any await (an
error, an expiry, a hang-up). `links[c].minted` is an auxiliary counter.

`Allowlist` has the same tables and no requests. Its actions are what may become of
the tables in one step, each with the condition that justifies it *then*: an invite
still good and unspent, no owner and not the last administrator, a code consumed
and not minted from. `Household` implements it by the identity on the tables, so
every re-check, transaction and `WHERE` clause that stands between an old read and
a write is what the refinement rests on. Which administrator acts is a request's
secret and stays `RevokedByAdmin`'s; that an invite is issued by, or a token minted
for, somebody revoked a moment earlier is possible in the code and allowed here.

## 3. Runs

| Run | Shows | Instance | States |
|---|---|---|---|
| `stream_tracker` | the caps hold, nobody loses a fresh slot to another, the recorder overshoots by one at most | two viewers, two recordings | 37 k |
| `shared_live_budget` | **violation**: live reservations exceed the upstream cap | one viewer, one recording | |
| `remux_registry` | slots cover sockets, nothing leaks, a stop is final, strikes are deserved, refinement; a signalled child is reaped, an unpolled session ends | three sessions of two feeds, three children, one slot | 54 k |
| `dvr` | every step is one of `RecordingLife`, one ffmpeg, an interruption resumes, every row settles | one recording, two restarts | 46 k |
| `dvr_cancel` | **violation**: a cancelled recording keeps recording | one recording | |
| `dvr_respawn` | **violation**: a finished recording is started again over its file | one recording | |
| `transcode` | encoders have slot and directory, stops leave nothing, duplicates share | two clients, two sessions | 890 k |
| `transcode_liveness` | crash loops end, idle sessions give their permit back | one client, two sessions | 89 k |
| `transcode_seek` | **violation**: a respawn overwrites a seek's target | one session | |
| `live_routes` | one proxy per viewer and channel, teardowns spare newer requests, replaced proxies and unwanted sessions end | one viewer, two channels, two requests | 592 k |
| `live_retune` | **violation**: a request dials a channel its viewer was switched away from | one viewer, two channels | |
| `household` | every write is one `Allowlist` allows, no invite overspent, one token per code and the claimer's, an administrator remains, revocations stay | two people, two requests | 5.3 M |

### Why these bounds

* *Tracker.* Every cap concerns the slot being added and the ones that remain.
  With two viewers and two recordings each cap can be full, and be short by one,
  from either side. The clock runs far enough for an idle slot to be swept by one
  call and revived by another.
* *Registry.* Three sessions compete for one slot, so a relaunch, an eviction, a
  drain and a capture are always in each other's way; two feeds tell whose strike
  is whose. The clock's constants keep the order of those in the code
  (20 s `RelaunchFloor` < 60 s `DeadLifetime` < 90 s `Idle`), and two strikes tag a feed.
* *Dvr.* Recordings interact only through the order the tick works in, and the
  tick may pause arbitrarily long between its plan and each start, stop or miss
  of *the* recording (`pc = "work"`). So what another recording's awaits do to
  this one is covered by one recording. Two restarts let a resumed recording be
  interrupted again.
* *TranscodeSession.* Two requests meet at the gate; the loser shares or
  supersedes the winner's session, which needs a second id. `MaxRestarts` 1
  instead of 3 shortens the crash loop and keeps its three exits (healthy run,
  cap, respawn). In the safety runs offsets tell only a duplicate from a
  superseding grant, so two suffice; `transcode_seek` uses a grid of 2 s.
  `created` and the number of starts in flight together never exceed
  `MaxSessions`. A title with more sessions than that is the theorems' subject.
* *LiveRoutes.* Viewers share only refusals here, so one viewer suffices; two
  channels give a retune, two requests every overlap of two handlers, and a
  reservation or session for each of them. The violation needs a third id and no
  remux session.
* *Household.* Two people, one of whom `ADMIN_SUBS` may name: each may be the
  last administrator, and each may revoke the other. Two requests race on one
  invite of up to two uses and on one code; a second token is there to be minted
  wrongly.

`CHECK_DEADLOCK FALSE` appears where the system may stop: all rows terminal, or
every bounded id used up.

### Fairness

* Registry: the supervisors, captures and the idle sweep are tasks of the
  runtime; a process that got SIGKILL exits. ffmpeg's answer to SIGTERM, the
  routes and the clock owe nothing.
* Dvr: the tick loop runs, supervisors run, a child told to stop exits (SIGKILL
  after the grace), and a shutdown is followed by a boot. No DELETE is fair, and
  an undisturbed child need not exit.
* TranscodeSession: each supervisor, each `stop` in flight and the sweeper run.
  Heartbeats, hang-ups, crashes and completions owe nothing, and a respawn may
  fail each time.
* LiveRoutes: a pump task sees its cancellation token, time passes for a session
  nobody polls, and the idle sweep runs. Requests owe nothing: a handler may wait
  for ever in each of its awaits.
* Household: none. Nothing there must happen.

### Disagreements found

* **`shared_live_budget`** (`dvr.rs:577-604`). The recorder compares the count
  with the cap, then reserves without one. A grant in between takes the last
  slot. `OvershootAtMostOne` shows the damage is one connection and never more.
* **`dvr_cancel`** (`dvr.rs:783`). `delete_route` decides by its first read of
  the row. When the tick starts the recording before `cancel` reads it again, the
  row is cancelled and ffmpeg holds a provider connection until the window ends.
* **`dvr_respawn`** (`dvr.rs:275-286`). `tick` reads the rows, awaits, and only
  then asks which recordings run. One that finished in between is still in the
  plan and not in the running set, and its ffmpeg is started with `-y` over the
  file it just finished.
* **`transcode_seek`** (`session.rs:2320`). `respawn` writes back the offset it
  read before its file calls. A seek that set its target in between is lost, and
  its own Restart then honors the older offset and acks success. A scrub of
  several seeks is enough.
* **`live_retune`** (`streams.rs:1125`). `live_ts` finds or takes its reservation,
  awaits the captures' yield, the draining children and the siblings, and then
  publishes its lease and dials without looking again. A grant of another channel
  in between found no lease to cancel, so two provider sockets are open until the
  first chunk's beat; the comment at `streams.rs:1153` promises one.

## 4. Proofs

TLAPS proves these for every value of the constants, from the named assumptions
of each module only.

**StreamTracker.** `TrackerInvariant` proves an inductive invariant by one case
per action; `TrackerTypeOK`, `TrackerHouseholdCap`, `TrackerNoDoubleBooking`,
`TrackerViewerLiveBudget` and `TrackerOvershoot` follow. The caps are statements
about cardinalities of subsets of a finite map, and the lemmas about `Swept`,
`Replaced` and `WithSession` say how an action changes such a subset: it loses
elements, or it gains one where the guard left room. The overshoot needs the
strengthening that a recorder which has read the count contributes at most the
one reservation it is about to make. `TrackerEvictionJustified`, of every step, says
who may take a fresh slot from whom; it needs `OwnSlots`, that a recording's slot is
held under the recording's own id. An admission under an id already held, a
recorder's whose slot went stale or a second grant of one title in a millisecond,
adds no session that could justify an eviction; `OwnSlots` and `NoDoubleBooking`
show it replaces no slot but its own.

**RemuxRegistry.** `RegistryInvariant` proves the conjunction of the type
invariant, the slot cap, "every open socket is counted, and no two sessions share
a child", and "no slot is counted for a reaped child". None of them is inductive
alone: a relaunch keeps the cap only because the dead child's slot is still
counted, and the count is right only because the three sets are disjoint. From
it follow `RegistryTypeOK`, `RegistryUpstreamCap`, `RegistrySocketsCounted`,
`RegistryNoLeakedSlot`, the action properties `RegistryStopIsFinal` and
`RegistryStrikeJustified`, and the refinement `RegistryImplementsPool`: each
action of the registry is a `Dial`, `Hangup`, `Free` or `Redial` of
`ConnectionPool`, or leaves it unchanged.

**Dvr.** The inductive invariant is the typing of rows, children, the pass and the
DELETE, with the rule that an outcome is read only after the exit, and a statement
about the pass in flight (`PassInv`): what it plans to start is not in the
recorder's map *and stays out of it*, because only the tick starts recordings;
what it stops, waits for or backstops has a closed window; and the backstop
comes after the child left the map. With it `DvrTypeOK`, `DvrOutcomeStays`,
`DvrNoSecondRecorder`, `DvrCompletedAfterExit` and `DvrInterruptionResumes` follow
step by step, for any number of recordings and restarts. `DvrImplementsLife` is
the refinement: each action maps to one of `RecordingLife` or to a stutter
(`LifeTick`, `LifeSupervise`, `LifeDelete`, `LifeStep`). It needs one invariant more,
`Known`: what a task remembers of a recording is of a row that exists, and a DELETE
that found an outcome still finds one when it deletes the row, because rows only move
forward (`RowsForward`). The run checks the refinement in place of `OutcomeStays`,
which it implies; `DvrOutcomeStays` states it by itself.

**TranscodeSession.** `TranscodeInvariant` proves `Core`: the typing, and who owns
what. An admitted start owns its id, slot and directory alone (`SpawnsOwn`); a
session in the map has a supervisor whose mailbox holds no Shutdown
(`LiveSupervised`); a supervisor holds its slot until it tears the session down,
and its directory while a child may run (`SupervisorsHold`). The four invariants
`TranscodeTypeOK`, `TranscodeEncoderBacked`, `TranscodeReclaimed` and
`TranscodeSessionSupervised` are parts of it. Supervisor steps are reduced to two
lemmas: one that moves and holds on to what it has (`SupStep`), one that returns
because its session is gone (`SupEnd`). `TranscodeDuplicateLapsed` counts: the gate
lets one start per title in (`GateAlone`), and from its search on there is room
for what it will add (`RoomLeft`), either because every session of the title is
idle, hence lapsed, or because one was just stopped. `TranscodeEncoderCap` adds the
limiter's promise: encoders, those a hang-up left to themselves aside, never
outnumber its permits, since an encoder holds a permit (`EncoderBacked`) and a permit
is taken below the cap only (`PermitsCapped`). It is no property of a run: with the
runs' two sessions and cap of two it could not fail.

**LiveRoutes.** `LiveRoutesTypeOK`, `LiveRoutesLeaseCoversProxy` and
`LiveRoutesTeardownKeepsNewer`, each by one case per handler step. That proxies
not told to stop and leases correspond is inductive once ids, keys and requests
are typed: whoever takes a lease away sets the token of its proxy in the same
step.

**Household.** `HouseholdTypeOK`, `HouseholdInviteWithinUses`,
`HouseholdOneTokenPerCode` and `HouseholdTokenOfClaimer` as invariants,
`HouseholdAdminRemains`, `HouseholdRevokedByAdmin` and `HouseholdRevokeWins` of every
step. The tokens need the strengthening `LinkInv`: a code is consumed by at most
one request, which alone may still mint, and the code stays bound to the member
that request carries. `HouseholdImplementsAllowlist` maps every step of a request to
one of `Allowlist` or to a stutter, table by table (`AllowReads`, `AllowMembers`,
`AllowDevices`); it uses `LinkInv` for the token of a code, `ProbeInv` (only a Plex
identity is probed) for a share, and the actor re-read under the write lock for a
revocation, which leaves that actor as the administrator who remains. The run checks
the refinement in place of `InviteWithinUses`, which it implies.

**Only model-checked.** Everything that says *eventually*
(`DrainingEmpties`, `IdleSessionEnds`, `RowSettles`, `ChildlessResolves`,
`IdleReaped`, `ReplacedProxyEnds`, `UnwantedSessionEnds`), since liveness under
fairness and `ENABLED` are out of the prover's reach here.

## 5. Not modelled, and why

* The stderr probe's arithmetic, fingerprints, EPG matching, ranking, the media
  scanner, transcode planning and argument lists, the recommender: sequential
  data transformations, which make most of the code. Where a modelled part uses
  their verdict, it is a nondeterministic input.
* Database errors (except a row that is gone): the hazards that depend on them
  are listed without a property.
* Wall-clock durations. Only the order of timeouts matters in what is modelled;
  where it does not hold by the constants in the code, the timeout is an action.
* In `TranscodeSession`: the CPU cap (the global one stands for both), segment
  numbers, the one-shot sidecar jobs. In `Dvr`: overlap validation, playback.
* In `LiveRoutes`: the redial backoff and the choice among sibling feeds (a dial
  may be refused at any time), a redirect's lifetime, the rewriting of playlists,
  catch-up and on-demand routes (they hold a tracker slot only, `StreamTracker`),
  the panel probe's single flight.
* In `Household`: the sealing of cookies, rate limits, the providers' protocols.
* Syncplay, the feed-check scheduler, the catalogue sync, the gateway's stores:
  stateful, and next in the plan.
* Proxies, integrations, clients: their state lives elsewhere.

## 6. Plan

1. **ProviderBudget**: tracker, registry and recorder composed, with the
   abstract promise "at most `Cap` sockets"; the two counters and the moment they
   disagree.
2. **Syncplay**: host succession, idle pruning and late messages of a member who
   rejoined.
3. The feed-check scheduler against viewers and recordings; the catalogue sync's
   busy flag; rate limiters and the usage budget.
4. The redial backoff in `LiveRoutes` (`get_active` drops an early death before
   `ensure` can count it), and the media-sequence rewrite as an operator checked
   against a reference definition.
5. Database errors in `Dvr`: a pass that aborts after a start.

The order is by what a failure costs: a burst over the provider's cap drops
every viewer in the household; the rest inconveniences one user.
