--------------------------- MODULE LiveRoutesProofs ---------------------------
(***************************************************************************)
(* Every raw proxy that was not told to stop owns its channel's lease, and *)
(* one that was releases no slot: for any number of viewers, channels and  *)
(* requests.                                                               *)
(***************************************************************************)
EXTENDS LiveRoutes, TLAPS

-----------------------------------------------------------------------------
(* TypeOK in parts *)

ReservedOK ==
    /\ reserved \subseteq Reservation
    /\ \A x, y \in reserved : x.id = y.id => x = y

LeasesOK == leases \in [Keys -> Requests \cup {None}]

IndexOK ==
    /\ index \in [Keys -> Sessions \cup {None}]
    /\ \A k, l \in Keys : index[k] = index[l] /\ index[k] # None => k = l

AliveOK == alive \subseteq Sessions /\ quiet \subseteq alive

RequestsOK ==
    /\ requests \in [Requests -> Request]
    /\ \A r \in Requests : requests[r].pc # "idle" => requests[r].key \in Keys

Parts == ReservedOK /\ LeasesOK /\ IndexOK /\ AliveOK /\ RequestsOK

LEMMA TypeParts == TypeOK <=> Parts
BY DEF TypeOK, Parts, ReservedOK, LeasesOK, IndexOK, AliveOK, RequestsOK

\* A request that begins or goes on keeps the requests well formed.
LEMMA BeginsTyped ==
    ASSUME RequestsOK, NEW r \in Requests, NEW pc \in Stages, NEW k \in Keys,
           NEW i \in Ids \cup {None}, NEW s \in Sessions \cup {None},
           Begins(r, pc, k, i, s)
    PROVE  RequestsOK'
BY DEF RequestsOK, Begins, Request

LEMMA EndsTyped ==
    ASSUME RequestsOK, NEW r \in Requests, Ends(r)
    PROVE  RequestsOK'
BY DEF RequestsOK, Ends, Idle, Request, Stages

\* The id taken is new, so ids stay apart.
LEMMA AcquiredTyped ==
    ASSUME ReservedOK, NEW k \in Keys, NEW kind \in Kinds, NEW switch \in BOOLEAN,
           Acquired(k, kind, switch)
    PROVE  ReservedOK' /\ FreeId \in Ids
<1>1. FreeId \in FreeIds
  BY DEF Acquired, FreeId
<1>2. FreeId \in Ids /\ \A x \in reserved : x.id # FreeId
  BY <1>1 DEF FreeIds, Held
<1>3. [id |-> FreeId, key |-> k, kind |-> kind] \in Reservation
  BY <1>2 DEF Reservation
<1> QED
  BY <1>2, <1>3 DEF ReservedOK, Acquired, Replaced

\* A release or an expiry only shrinks the set.
LEMMA FewerReserved ==
    ASSUME ReservedOK, reserved' \subseteq reserved
    PROVE  ReservedOK'
BY DEF ReservedOK

LEMMA DisposedTyped ==
    ASSUME LeasesOK, NEW r \in Requests, leases' = Disposed(r)
    PROVE  LeasesOK'
BY DEF LeasesOK, Disposed

\* An entry only ever goes, except for a dial.
LEMMA FewerIndexed ==
    ASSUME IndexOK, index' \in [Keys -> Sessions \cup {None}],
           \A k \in Keys : index'[k] \in {index[k], None}
    PROVE  IndexOK'
BY DEF IndexOK

LEMMA StaleDroppedTyped ==
    ASSUME IndexOK, NEW k \in Keys, index' = StaleDropped(k)
    PROVE  IndexOK'
<1>1. index' \in [Keys -> Sessions \cup {None}]
  BY DEF IndexOK, StaleDropped
<1>2. \A l \in Keys : index'[l] \in {index[l], None}
  BY DEF IndexOK, StaleDropped
<1> QED
  BY <1>1, <1>2, FewerIndexed

LEMMA StoppedTyped ==
    ASSUME AliveOK, NEW ss, Stopped(ss)
    PROVE  AliveOK'
BY DEF AliveOK, Stopped

\* A poll shares its key's session or dials one that no key has.
LEMMA EnsuresTyped ==
    ASSUME IndexOK, AliveOK, RequestsOK, NEW r \in Requests, Ensures(r),
           requests[r].key \in Keys
    PROVE  IndexOK' /\ AliveOK' /\ RequestsOK'
<1> DEFINE k == requests[r].key
<1>1. requests[r].id \in Ids \cup {None}
  BY DEF RequestsOK, Request
<1>2. CASE /\ index[k] \in alive
           /\ quiet' = quiet \ {index[k]}
           /\ Begins(r, "wait", k, requests[r].id, None)
           /\ UNCHANGED <<index, alive>>
  <2>1. RequestsOK'
    BY <1>1, <1>2, BeginsTyped DEF Stages
  <2> QED
    BY <1>2, <2>1 DEF IndexOK, AliveOK
<1>3. CASE /\ FreshSessions # {}
           /\ index' = [index EXCEPT ![k] = FreshSession]
           /\ alive' \in {alive, alive \cup {FreshSession}}
           /\ quiet' = quiet \ {FreshSession}
           /\ Begins(r, "wait", k, requests[r].id, None)
  <2>1. RequestsOK'
    BY <1>1, <1>3, BeginsTyped DEF Stages
  <2>2. FreshSession \in FreshSessions
    BY <1>3 DEF FreshSession
  <2>3. FreshSession \in Sessions /\ \A l \in Keys : index[l] # FreshSession
    BY <2>2 DEF FreshSessions
  <2>4. IndexOK'
    BY <1>3, <2>3 DEF IndexOK
  <2> QED
    BY <1>3, <2>1, <2>3, <2>4 DEF AliveOK
<1>4. CASE /\ index' = [index EXCEPT ![k] = None]
           /\ Ends(r)
           /\ UNCHANGED <<alive, quiet>>
  <2>1. IndexOK'
    <3>1. index' \in [Keys -> Sessions \cup {None}]
      BY <1>4 DEF IndexOK
    <3>2. \A l \in Keys : index'[l] \in {index[l], None}
      BY <1>4 DEF IndexOK
    <3> QED
      BY <3>1, <3>2, FewerIndexed
  <2> QED
    BY <1>4, <2>1, EndsTyped DEF AliveOK
<1> QED
  BY <1>2, <1>3, <1>4 DEF Ensures

LEMMA LeasesStoppedTyped ==
    ASSUME LeasesOK, RequestsOK, NEW r \in Requests, NEW ks, LeasesStopped(r, ks)
    PROVE  LeasesOK' /\ RequestsOK'
<1>1. LeasesOK'
  BY DEF LeasesOK, LeasesStopped
<1>2. requests' \in [Requests -> Request]
  <2>1. \A q \in Requests : requests[q] \in Request
    BY DEF RequestsOK
  <2>2. \A q \in Requests : [requests[q] EXCEPT !.stop = TRUE] \in Request
    BY <2>1 DEF Request
  <2>3. Idle \in Request
    BY DEF Idle, Request, Stages
  <2> QED
    BY <2>1, <2>2, <2>3 DEF LeasesStopped
<1>3. ASSUME NEW q \in Requests, requests'[q].pc # "idle"
      PROVE  requests'[q].key \in Keys
  BY <1>3 DEF RequestsOK, LeasesStopped, Idle, Request
<1> QED
  BY <1>1, <1>2, <1>3 DEF RequestsOK

-----------------------------------------------------------------------------
(* Type correctness *)

LEMMA TypeInit == LiveRoutesInit => TypeOK
BY LiveRoutesAssumption DEF LiveRoutesInit, TypeOK, Idle, Request, Stages

\* Every step of a request.
LEMMA TypeRequest ==
    ASSUME Parts, NEW r \in Requests, RequestNext(r)
    PROVE  Parts'
<1> USE DEF Parts
<1>t. ReservedOK /\ LeasesOK /\ IndexOK /\ AliveOK /\ RequestsOK
  OBVIOUS
<1>i. requests[r] \in Request
  BY <1>t DEF RequestsOK
<1>k. requests[r].pc # "idle" => requests[r].key \in Keys
  BY <1>t DEF RequestsOK
<1>1. CASE Leave(r)
  <2>1. RequestsOK'
    BY <1>1, <1>t, EndsTyped DEF Leave
  <2> QED
    BY <1>1, <1>t, <2>1 DEF Leave, ReservedOK, LeasesOK, IndexOK, AliveOK
<1>2. ASSUME NEW k \in Keys, LiveTs(r, k)
      PROVE  Parts'
  <2>1. RequestsOK'
    BY <1>2, <1>t, BeginsTyped DEF LiveTs, Slots, ReservedOK, Reservation, Stages
  <2> QED
    BY <1>2, <1>t, <2>1 DEF LiveTs, ReservedOK, LeasesOK, IndexOK, AliveOK
<1>3. CASE LiveTsAcquire(r)
  <2>1. requests[r].key \in Keys
    BY <1>3, <1>k DEF LiveTsAcquire
  <2>2. ReservedOK' /\ FreeId \in Ids
    BY <1>3, <1>t, <2>1, AcquiredTyped DEF LiveTsAcquire, Kinds
  <2>3. RequestsOK'
    BY <1>3, <1>t, <2>1, <2>2, BeginsTyped DEF LiveTsAcquire, Stages
  <2> QED
    BY <1>3, <1>t, <2>2, <2>3 DEF LiveTsAcquire, LeasesOK, IndexOK, AliveOK
<1>4. CASE DrainTimeout(r) \/ ReleaseRaw(r)
  <2>1. RequestsOK'
    BY <1>4, <1>t, EndsTyped DEF DrainTimeout, ReleaseRaw
  <2>2. ReservedOK'
    BY <1>4, <1>t, FewerReserved DEF DrainTimeout, ReleaseRaw, WithoutId
  <2> QED
    BY <1>4, <1>t, <2>1, <2>2 DEF DrainTimeout, ReleaseRaw, LeasesOK, IndexOK, AliveOK
<1>5. CASE BeginRaw(r)
  <2>1. requests[r].key \in Keys
    BY <1>5, <1>k DEF BeginRaw
  <2>2. LeasesOK'
    BY <1>5, <1>t, <2>1 DEF BeginRaw, LeasesOK
  <2>3. requests' \in [Requests -> Request]
    <3>1. \A q \in Requests : requests[q] \in Request
      BY <1>t DEF RequestsOK
    <3>2. [requests[r] EXCEPT !.pc = "proxy"] \in Request
      BY <3>1 DEF Request, Stages
    <3>3. \A q \in Requests : [requests[q] EXCEPT !.stop = TRUE] \in Request
      BY <3>1 DEF Request
    <3> QED
      BY <1>5, <3>1, <3>2, <3>3 DEF BeginRaw
  <2>4. \A q \in Requests : requests'[q].pc # "idle" => requests'[q].key \in Keys
    BY <1>5, <1>t, <2>1 DEF BeginRaw, RequestsOK, Request
  <2> QED
    BY <1>5, <1>t, <2>2, <2>3, <2>4 DEF BeginRaw, ReservedOK, IndexOK, AliveOK, RequestsOK
<1>6. CASE EndRaw(r)
  <2>1. requests[r].key \in Keys
    BY <1>6, <1>k DEF EndRaw
  <2>2. LeasesOK'
    BY <1>6, <1>t, DisposedTyped DEF EndRaw
  <2>3. RequestsOK'
    BY <1>6, <1>t, <1>i, <2>1, BeginsTyped, EndsTyped DEF EndRaw, Request, Stages
  <2> QED
    BY <1>6, <1>t, <2>2, <2>3 DEF EndRaw, ReservedOK, IndexOK, AliveOK
<1>7. ASSUME NEW k \in Keys, PollStart(r, k)
      PROVE  Parts'
  <2>1. RequestsOK'
    BY <1>7, <1>t, BeginsTyped DEF PollStart, Polled, Slots, ReservedOK, Reservation, Stages
  <2>2. IndexOK'
    BY <1>7, <1>t, StaleDroppedTyped DEF PollStart
  <2> QED
    BY <1>7, <1>t, <2>1, <2>2 DEF PollStart, ReservedOK, LeasesOK, AliveOK
<1>8. CASE PollEnsure(r) \/ PollAgain(r)
  <2>1. IndexOK' /\ AliveOK' /\ RequestsOK'
    BY <1>8, <1>t, <1>k, EnsuresTyped DEF PollEnsure, PollAgain
  <2> QED
    BY <1>8, <1>t, <2>1 DEF PollEnsure, PollAgain, ReservedOK, LeasesOK
<1>9. ASSUME NEW k \in Keys, NEW kind \in Kinds, Grant(r, k, kind)
      PROVE  Parts'
  <2>1. ReservedOK'
    BY <1>9, <1>t, AcquiredTyped DEF Grant
  <2>2. RequestsOK'
    BY <1>9, <1>t, BeginsTyped DEF Grant, Stages
  <2> QED
    BY <1>9, <1>t, <2>1, <2>2 DEF Grant, LeasesOK, IndexOK, AliveOK
<1>10. ASSUME NEW k \in Keys, PreviewLive(r, k)
       PROVE  Parts'
  <2>1. ReservedOK'
    BY <1>10, <1>t, AcquiredTyped DEF PreviewLive, Kinds
  <2> QED
    BY <1>10, <1>t, <2>1 DEF PreviewLive, LeasesOK, IndexOK, AliveOK, RequestsOK
<1>11. ASSUME NEW k \in Keys, PreviewRemux(r, k)
       PROVE  Parts'
  <2>1. RequestsOK'
    BY <1>11, <1>t, BeginsTyped DEF PreviewRemux, Stages
  <2> QED
    BY <1>11, <1>t, <2>1 DEF PreviewRemux, ReservedOK, LeasesOK, IndexOK, AliveOK
<1>12. CASE PreviewAcquire(r)
  <2>1. ReservedOK'
    BY <1>12, <1>t, <1>k, AcquiredTyped DEF PreviewAcquire, Kinds
  <2>2. RequestsOK'
    BY <1>12, <1>t, EndsTyped DEF PreviewAcquire
  <2> QED
    BY <1>12, <1>t, <2>1, <2>2 DEF PreviewAcquire, LeasesOK, IndexOK, AliveOK
<1>13. CASE GrantStops(r)
  <2>1. LeasesOK' /\ RequestsOK'
    BY <1>13, <1>t, LeasesStoppedTyped DEF GrantStops
  <2>2. index' \in [Keys -> Sessions \cup {None}]
    BY <1>13, <1>t DEF GrantStops, IndexOK
  <2>3. \A l \in Keys : index'[l] \in {index[l], None}
    BY <1>13, <1>t DEF GrantStops, IndexOK
  <2>4. IndexOK'
    BY <1>t, <2>2, <2>3, FewerIndexed
  <2>5. AliveOK'
    BY <1>13, <1>t, StoppedTyped DEF GrantStops
  <2> QED
    BY <1>13, <1>t, <2>1, <2>4, <2>5 DEF GrantStops, ReservedOK
<1>14. ASSUME NEW x \in reserved, Delete(r, x)
       PROVE  Parts'
  <2>1. RequestsOK'
    BY <1>14, <1>t, BeginsTyped DEF Delete, ReservedOK, Reservation, Stages
  <2>2. ReservedOK'
    BY <1>14, <1>t, FewerReserved DEF Delete, WithoutId
  <2> QED
    BY <1>14, <1>t, <2>1, <2>2 DEF Delete, LeasesOK, IndexOK, AliveOK
<1>15. CASE StopLive(r)
  <2>1. LeasesOK' /\ RequestsOK'
    BY <1>15, <1>t, LeasesStoppedTyped DEF StopLive
  <2> QED
    BY <1>15, <1>t, <2>1 DEF StopLive, ReservedOK, IndexOK, AliveOK
<1>16. CASE StopRemux(r)
  <2>1. requests[r].key \in Keys
    BY <1>16, <1>k DEF StopRemux
  <2>2. IndexOK'
    BY <1>16, <1>t, <2>1, StaleDroppedTyped DEF StopRemux
  <2>3. CASE index[requests[r].key] \in alive
    <3>1. index[requests[r].key] \in Sessions \cup {None}
      BY <1>t, <2>1 DEF IndexOK
    <3>2. Begins(r, "forget", requests[r].key, None, index[requests[r].key])
      BY <1>16, <2>3 DEF StopRemux
    <3>3. RequestsOK'
      BY <1>t, <2>1, <3>1, <3>2, BeginsTyped DEF Stages
    <3> QED
      BY <1>16, <1>t, <2>2, <3>3 DEF StopRemux, ReservedOK, LeasesOK, AliveOK
  <2>4. CASE index[requests[r].key] \notin alive
    <3>1. RequestsOK'
      BY <1>16, <1>t, <2>4, EndsTyped DEF StopRemux
    <3> QED
      BY <1>16, <1>t, <2>2, <3>1 DEF StopRemux, ReservedOK, LeasesOK, AliveOK
  <2> QED
    BY <2>3, <2>4
<1>17. CASE Forget(r)
  <2>1. RequestsOK'
    BY <1>17, <1>t, EndsTyped DEF Forget
  <2>2. AliveOK'
    BY <1>17, <1>t, StoppedTyped DEF Forget
  <2>3. IndexOK'
    <3>1. index' \in [Keys -> Sessions \cup {None}]
      BY <1>17, <1>t DEF Forget, IndexOK
    <3>2. \A l \in Keys : index'[l] \in {index[l], None}
      BY <1>17, <1>t DEF Forget, IndexOK
    <3> QED
      BY <1>t, <3>1, <3>2, FewerIndexed
  <2> QED
    BY <1>17, <1>t, <2>1, <2>2, <2>3 DEF Forget, ReservedOK, LeasesOK
<1> QED
  BY <1>1, <1>2, <1>3, <1>4, <1>5, <1>6, <1>7, <1>8, <1>9, <1>10, <1>11, <1>12, <1>13,
     <1>14, <1>15, <1>16, <1>17 DEF RequestNext

LEMMA TypeNext ==
    ASSUME Parts, [LiveRoutesNext]_liveVars
    PROVE  Parts'
<1> USE DEF Parts
<1>t. ReservedOK /\ LeasesOK /\ IndexOK /\ AliveOK /\ RequestsOK
  OBVIOUS
<1>1. ASSUME NEW r \in Requests, RequestNext(r)
      PROVE  Parts'
  BY <1>1, TypeRequest
<1>2. ASSUME NEW x \in reserved, Expire(x)
      PROVE  Parts'
  <2>1. ReservedOK'
    BY <1>2, <1>t, FewerReserved DEF Expire
  <2> QED
    BY <1>2, <1>t, <2>1 DEF Expire, LeasesOK, IndexOK, AliveOK, RequestsOK
<1>3. ASSUME NEW k \in Keys, Segment(k)
      PROVE  Parts'
  <2>1. IndexOK'
    BY <1>3, <1>t, StaleDroppedTyped DEF Segment
  <2> QED
    BY <1>3, <1>t, <2>1 DEF Segment, ReservedOK, LeasesOK, AliveOK, RequestsOK
<1>4. ASSUME NEW k \in Keys, Redirect(k)
      PROVE  Parts'
  <2>1. index' \in [Keys -> Sessions \cup {None}]
    BY <1>4, <1>t DEF Redirect, IndexOK
  <2>2. \A l \in Keys : index'[l] \in {index[l], None}
    BY <1>4, <1>t DEF Redirect, IndexOK
  <2>3. IndexOK' /\ AliveOK'
    BY <1>4, <1>t, <2>1, <2>2, FewerIndexed, StoppedTyped DEF Redirect
  <2> QED
    BY <1>4, <1>t, <2>3 DEF Redirect, ReservedOK, LeasesOK, RequestsOK
<1>5. ASSUME NEW s \in Sessions, SessionExits(s) \/ GoesQuiet(s) \/ SweepSession(s)
      PROVE  Parts'
  <2>1. AliveOK'
    BY <1>5, <1>t DEF SessionExits, GoesQuiet, SweepSession, Stopped, AliveOK
  <2> QED
    BY <1>5, <1>t, <2>1 DEF SessionExits, GoesQuiet, SweepSession, ReservedOK, LeasesOK,
                            IndexOK, RequestsOK
<1>6. CASE UNCHANGED liveVars
  BY <1>6, <1>t DEF liveVars, ReservedOK, LeasesOK, IndexOK, AliveOK, RequestsOK
<1> QED
  BY <1>1, <1>2, <1>3, <1>4, <1>5, <1>6 DEF LiveRoutesNext

\* Reservations, leases, the map and the requests stay well formed, and no two
\* keys share a session, for every set of viewers, channels and requests.
THEOREM LiveRoutesTypeOK == LiveRoutesSpec => []TypeOK
<1>1. LiveRoutesInit => Parts
  BY TypeInit, TypeParts
<1>2. Parts /\ [LiveRoutesNext]_liveVars => Parts'
  BY TypeNext
<1> QED
  BY <1>1, <1>2, TypeParts, PTL DEF LiveRoutesSpec

-----------------------------------------------------------------------------
(* Leases *)

\* Only a proxy is told to stop.
StopOnlyProxies == \A r \in Requests : requests[r].stop => Proxying(r)

LeaseInv == LeaseCoversProxy /\ StopOnlyProxies

LEMMA LeaseInit == LiveRoutesInit => LeaseInv
BY LiveRoutesAssumption
   DEF LiveRoutesInit, LeaseInv, LeaseCoversProxy, StopOnlyProxies, Proxying, Idle

\* A step of a request that is no proxy and becomes none touches no lease.
LEMMA LeaseFrame ==
    ASSUME Parts, LeaseInv, NEW r \in Requests, ~Proxying(r), ~Proxying(r)',
           ~requests'[r].stop, leases' = leases,
           \A q \in Requests \ {r} : requests'[q] = requests[q]
    PROVE  LeaseInv'
<1>1. ASSUME NEW q \in Requests, NEW k \in Keys
      PROVE  leases'[k] = q <=> Proxying(q)' /\ ~requests'[q].stop /\ requests'[q].key = k
  BY DEF LeaseInv, LeaseCoversProxy, Proxying
<1>2. ASSUME NEW q \in Requests, requests'[q].stop
      PROVE  Proxying(q)'
  BY <1>2 DEF LeaseInv, StopOnlyProxies, Proxying
<1> QED
  BY <1>1, <1>2 DEF LeaseInv, LeaseCoversProxy, StopOnlyProxies

LEMMA LeaseBegins ==
    ASSUME Parts, LeaseInv, NEW r \in Requests, ~Proxying(r), leases' = leases,
           NEW pc, pc # "proxy", NEW k, NEW i, NEW s, Begins(r, pc, k, i, s)
    PROVE  LeaseInv'
<1>1. requests'[r].pc = pc /\ ~requests'[r].stop
  BY DEF Begins, Parts, RequestsOK
<1>2. \A q \in Requests \ {r} : requests'[q] = requests[q]
  BY DEF Begins, Parts, RequestsOK
<1> QED
  BY <1>1, <1>2, LeaseFrame DEF Proxying

LEMMA LeaseEnds ==
    ASSUME Parts, LeaseInv, NEW r \in Requests, ~Proxying(r), leases' = leases, Ends(r)
    PROVE  LeaseInv'
<1>1. requests'[r].pc # "proxy" /\ ~requests'[r].stop
  BY DEF Ends, Idle, Parts, RequestsOK
<1>2. \A q \in Requests \ {r} : requests'[q] = requests[q]
  BY DEF Ends, Parts, RequestsOK
<1> QED
  BY <1>1, <1>2, LeaseFrame DEF Proxying

\* The leases of ks go, and exactly their proxies are told to stop.
LEMMA LeaseStopped ==
    ASSUME Parts, LeaseInv, NEW r \in Requests, ~Proxying(r), NEW ks \in SUBSET Keys,
           LeasesStopped(r, ks)
    PROVE  LeaseInv'
<1>1. None \notin Requests
  BY LiveRoutesAssumption
<1>2. /\ requests \in [Requests -> Request]
      /\ leases \in [Keys -> Requests \cup {None}]
  BY DEF Parts, RequestsOK, LeasesOK
<1>3. /\ leases' = [k \in Keys |-> IF k \in ks THEN None ELSE leases[k]]
      /\ requests'[r] = Idle
  BY DEF LeasesStopped
<1>4. ASSUME NEW q \in Requests \ {r}
      PROVE  /\ requests'[q].pc = requests[q].pc
             /\ requests'[q].key = requests[q].key
             /\ requests'[q].stop <=> q \in Proxies(ks) \/ requests[q].stop
  BY <1>2 DEF LeasesStopped, Request
<1>5. ASSUME NEW q \in Requests, NEW k \in Keys
      PROVE  leases'[k] = q <=> Proxying(q)' /\ ~requests'[q].stop /\ requests'[q].key = k
  <2>1. CASE q = r
    <3>1. leases[k] # r
      BY DEF LeaseInv, LeaseCoversProxy
    <3> QED
      BY <1>1, <1>3, <2>1, <3>1 DEF Proxying, Idle
  <2>2. CASE q # r /\ q \in Proxies(ks)
    <3>1. PICK l \in ks : leases[l] = q
      BY <2>2 DEF Proxies
    <3>2. leases[k] = q => k \in ks
      BY <3>1 DEF LeaseInv, LeaseCoversProxy
    <3>3. requests'[q].stop
      BY <1>4, <2>2
    <3> QED
      BY <1>1, <1>3, <3>2, <3>3
  <2>3. CASE q # r /\ q \notin Proxies(ks)
    <3>1. leases[k] = q => k \notin ks
      BY <1>1, <2>3 DEF Proxies
    <3>2. leases'[k] = q <=> leases[k] = q
      BY <1>1, <1>3, <3>1
    <3> QED
      BY <1>4, <2>3, <3>2 DEF LeaseInv, LeaseCoversProxy, Proxying
  <2> QED
    BY <2>1, <2>2, <2>3
<1>6. ASSUME NEW q \in Requests, requests'[q].stop
      PROVE  Proxying(q)'
  <2>1. q # r
    BY <1>3, <1>6 DEF Idle
  <2>2. Proxying(q)
    <3>1. CASE q \in Proxies(ks)
      <4>1. PICK l \in ks : leases[l] = q
        BY <3>1 DEF Proxies
      <4> QED
        BY <4>1 DEF LeaseInv, LeaseCoversProxy
    <3>2. CASE requests[q].stop
      BY <3>2 DEF LeaseInv, StopOnlyProxies
    <3> QED
      BY <1>4, <1>6, <2>1, <3>1, <3>2
  <2> QED
    BY <1>4, <2>1, <2>2 DEF Proxying
<1> QED
  BY <1>5, <1>6 DEF LeaseInv, LeaseCoversProxy, StopOnlyProxies

\* The new proxy takes the lease, and the one it had is told to stop.
LEMMA LeaseBeginRaw ==
    ASSUME Parts, LeaseInv, NEW r \in Requests, BeginRaw(r)
    PROVE  LeaseInv'
<1> DEFINE k == requests[r].key
<1>1. /\ None \notin Requests
      /\ k \in Keys
      /\ requests[r].pc = "drain"
      /\ ~requests[r].stop
  BY LiveRoutesAssumption DEF BeginRaw, Parts, RequestsOK, LeaseInv, StopOnlyProxies, Proxying
<1>2. /\ requests \in [Requests -> Request]
      /\ leases \in [Keys -> Requests \cup {None}]
  BY DEF Parts, RequestsOK, LeasesOK
<1>3. /\ leases' = [leases EXCEPT ![k] = r]
      /\ requests'[r] = [requests[r] EXCEPT !.pc = "proxy"]
  BY DEF BeginRaw
<1>4. ASSUME NEW q \in Requests \ {r}
      PROVE  /\ requests'[q].pc = requests[q].pc
             /\ requests'[q].key = requests[q].key
             /\ requests'[q].stop <=> leases[k] = q \/ requests[q].stop
  BY <1>1, <1>2 DEF BeginRaw, Superseded, Request
<1>5. /\ requests'[r].pc = "proxy"
      /\ requests'[r].key = k
      /\ ~requests'[r].stop
  BY <1>1, <1>2, <1>3 DEF Request
<1>6. ASSUME NEW q \in Requests, NEW l \in Keys
      PROVE  leases'[l] = q <=> Proxying(q)' /\ ~requests'[q].stop /\ requests'[q].key = l
  <2>1. CASE q = r
    <3>1. leases[l] # r
      BY <1>1 DEF LeaseInv, LeaseCoversProxy, Proxying
    <3> QED
      BY <1>2, <1>3, <1>5, <2>1, <3>1 DEF Proxying
  <2>2. CASE q # r /\ l = k
    <3>1. leases'[l] # q
      BY <1>1, <1>2, <1>3, <2>2
    <3>2. Proxying(q) /\ ~requests[q].stop /\ requests[q].key = k => leases[k] = q
      BY <1>1 DEF LeaseInv, LeaseCoversProxy
    <3> QED
      BY <1>4, <2>2, <3>1, <3>2 DEF Proxying
  <2>3. CASE q # r /\ l # k
    <3>1. leases'[l] = leases[l]
      BY <1>2, <1>3, <2>3
    <3>2. leases[l] = q <=> Proxying(q) /\ ~requests[q].stop /\ requests[q].key = l
      BY DEF LeaseInv, LeaseCoversProxy
    <3>3. leases[k] = q => requests[q].key = k
      BY <1>1 DEF LeaseInv, LeaseCoversProxy
    <3> QED
      BY <1>4, <2>3, <3>1, <3>2, <3>3 DEF Proxying
  <2> QED
    BY <2>1, <2>2, <2>3
<1>7. ASSUME NEW q \in Requests, requests'[q].stop
      PROVE  Proxying(q)'
  <2>1. q # r
    BY <1>5, <1>7
  <2>2. leases[k] = q \/ requests[q].stop
    BY <1>4, <1>7, <2>1
  <2>3. Proxying(q)
    BY <1>1, <2>2 DEF LeaseInv, LeaseCoversProxy, StopOnlyProxies
  <2> QED
    BY <1>4, <2>1, <2>3 DEF Proxying
<1> QED
  BY <1>6, <1>7 DEF LeaseInv, LeaseCoversProxy, StopOnlyProxies

\* A proxy that ends takes its lease along, and no other's.
LEMMA LeaseEndRaw ==
    ASSUME Parts, LeaseInv, NEW r \in Requests, EndRaw(r)
    PROVE  LeaseInv'
<1> DEFINE k == requests[r].key
<1>1. /\ None \notin Requests
      /\ k \in Keys
  BY LiveRoutesAssumption DEF EndRaw, Parts, RequestsOK
<1>2. /\ requests \in [Requests -> Request]
      /\ leases \in [Keys -> Requests \cup {None}]
      /\ leases' = IF leases[k] = r THEN [leases EXCEPT ![k] = None] ELSE leases
  BY DEF EndRaw, Disposed, Current, Parts, RequestsOK, LeasesOK
<1>3. /\ requests'[r].pc # "proxy"
      /\ ~requests'[r].stop
      /\ \A q \in Requests \ {r} : requests'[q] = requests[q]
  BY <1>2 DEF EndRaw, Begins, Ends, Idle
<1>4. ASSUME NEW q \in Requests, NEW l \in Keys
      PROVE  leases'[l] = q <=> Proxying(q)' /\ ~requests'[q].stop /\ requests'[q].key = l
  <2>1. leases[l] = q <=> Proxying(q) /\ ~requests[q].stop /\ requests[q].key = l
    BY DEF LeaseInv, LeaseCoversProxy
  <2>2. CASE q = r
    <3>1. leases'[l] # r
      BY <1>1, <1>2, <2>1, <2>2
    <3> QED
      BY <1>3, <2>2, <3>1 DEF Proxying
  <2>3. CASE q # r
    <3>1. leases'[l] = q <=> leases[l] = q
      BY <1>1, <1>2, <2>3
    <3> QED
      BY <1>3, <2>1, <2>3, <3>1 DEF Proxying
  <2> QED
    BY <2>2, <2>3
<1>5. ASSUME NEW q \in Requests, requests'[q].stop
      PROVE  Proxying(q)'
  BY <1>3, <1>5 DEF LeaseInv, StopOnlyProxies, Proxying
<1> QED
  BY <1>4, <1>5 DEF LeaseInv, LeaseCoversProxy, StopOnlyProxies

\* Steps that leave requests and leases alone.
LEMMA LeaseUnchanged ==
    ASSUME LeaseInv, UNCHANGED <<leases, requests>>
    PROVE  LeaseInv'
BY DEF LeaseInv, LeaseCoversProxy, StopOnlyProxies, Proxying

LEMMA LeaseRequest ==
    ASSUME Parts, LeaseInv, NEW r \in Requests, RequestNext(r)
    PROVE  LeaseInv'
<1>1. CASE Leave(r)
  BY <1>1, LeaseEnds DEF Leave, Proxying
<1>2. ASSUME NEW k \in Keys, LiveTs(r, k)
      PROVE  LeaseInv'
  BY <1>2, LeaseBegins DEF LiveTs, Proxying
<1>3. CASE LiveTsAcquire(r)
  BY <1>3, LeaseBegins DEF LiveTsAcquire, Proxying
<1>4. CASE DrainTimeout(r) \/ ReleaseRaw(r)
  BY <1>4, LeaseEnds DEF DrainTimeout, ReleaseRaw, Proxying
<1>5. CASE BeginRaw(r)
  BY <1>5, LeaseBeginRaw
<1>6. CASE EndRaw(r)
  BY <1>6, LeaseEndRaw
<1>7. ASSUME NEW k \in Keys, PollStart(r, k)
      PROVE  LeaseInv'
  BY <1>7, LeaseBegins DEF PollStart, Proxying
<1>8. CASE PollEnsure(r) \/ PollAgain(r)
  <2>1. ~Proxying(r) /\ leases' = leases /\ Ensures(r)
    BY <1>8 DEF PollEnsure, PollAgain, Proxying
  <2>2. \/ Ends(r)
        \/ Begins(r, "wait", requests[r].key, requests[r].id, None)
    BY <2>1 DEF Ensures
  <2> QED
    BY <2>1, <2>2, LeaseBegins, LeaseEnds
<1>9. ASSUME NEW k \in Keys, NEW kind \in Kinds, Grant(r, k, kind)
      PROVE  LeaseInv'
  BY <1>9, LeaseBegins DEF Grant, Proxying
<1>10. ASSUME NEW k \in Keys, PreviewLive(r, k)
       PROVE  LeaseInv'
  BY <1>10, LeaseUnchanged DEF PreviewLive
<1>11. ASSUME NEW k \in Keys, PreviewRemux(r, k)
       PROVE  LeaseInv'
  BY <1>11, LeaseBegins DEF PreviewRemux, Proxying
<1>12. CASE PreviewAcquire(r)
  BY <1>12, LeaseEnds DEF PreviewAcquire, Proxying
<1>13. CASE GrantStops(r)
  <2>1. KeysOf(requests[r].key[1]) \in SUBSET Keys
    BY DEF KeysOf
  <2> QED
    BY <1>13, <2>1, LeaseStopped DEF GrantStops, Proxying
<1>14. ASSUME NEW x \in reserved, Delete(r, x)
       PROVE  LeaseInv'
  BY <1>14, LeaseBegins DEF Delete, Proxying
<1>15. CASE StopLive(r)
  <2>1. {requests[r].key} \in SUBSET Keys
    BY <1>15 DEF StopLive, Parts, RequestsOK
  <2> QED
    BY <1>15, <2>1, LeaseStopped DEF StopLive, Proxying
<1>16. CASE StopRemux(r)
  <2>1. ~Proxying(r) /\ leases' = leases
    BY <1>16 DEF StopRemux, Proxying
  <2>2. \/ Ends(r)
        \/ Begins(r, "forget", requests[r].key, None, index[requests[r].key])
    BY <1>16 DEF StopRemux
  <2> QED
    BY <2>1, <2>2, LeaseBegins, LeaseEnds
<1>17. CASE Forget(r)
  BY <1>17, LeaseEnds DEF Forget, Proxying
<1> QED
  BY <1>1, <1>2, <1>3, <1>4, <1>5, <1>6, <1>7, <1>8, <1>9, <1>10, <1>11, <1>12, <1>13,
     <1>14, <1>15, <1>16, <1>17 DEF RequestNext

LEMMA LeaseNext ==
    ASSUME Parts, LeaseInv, [LiveRoutesNext]_liveVars
    PROVE  LeaseInv'
<1>1. ASSUME NEW r \in Requests, RequestNext(r)
      PROVE  LeaseInv'
  BY <1>1, LeaseRequest
<1>2. CASE UNCHANGED <<leases, requests>>
  BY <1>2, LeaseUnchanged
<1> QED
  BY <1>1, <1>2 DEF LiveRoutesNext, liveVars, Expire, Segment, Redirect, SessionExits,
                    GoesQuiet, SweepSession

LEMMA LeaseInvariant == LiveRoutesSpec => [](Parts /\ LeaseInv)
<1>1. LiveRoutesInit => Parts /\ LeaseInv
  BY TypeInit, TypeParts, LeaseInit
<1>2. Parts /\ LeaseInv /\ [LiveRoutesNext]_liveVars => (Parts /\ LeaseInv)'
  BY TypeNext, LeaseNext
<1> QED
  BY <1>1, <1>2, PTL DEF LiveRoutesSpec

\* begin_raw_live, stop_raw_live, dispose: the proxies that run unasked and the
\* leases match one to one, so a viewer has one per channel and a later grant,
\* DELETE or retune finds each of them.
THEOREM LiveRoutesLeaseCoversProxy == LiveRoutesSpec => []LeaseCoversProxy
BY LeaseInvariant, PTL DEF LeaseInv

\* No step takes a proxy that was told to stop to its release.
LEMMA StoppedReleasesNothing ==
    ASSUME Parts, LeaseInv, [LiveRoutesNext]_liveVars,
           NEW r \in Requests, Proxying(r), requests[r].stop
    PROVE  requests'[r].pc # "release"
<1>r. requests \in [Requests -> Request] /\ requests[r].pc = "proxy"
  BY DEF Parts, RequestsOK, Proxying
<1>1. CASE EndRaw(r)
  <2>1. ~Current(r)
    BY <1>1, <1>r DEF Current, Parts, RequestsOK, LeaseInv, LeaseCoversProxy
  <2> QED
    BY <1>1, <1>r, <2>1 DEF EndRaw, Ends, Idle
<1>2. ASSUME NEW q \in Requests \ {r}, RequestNext(q)
      PROVE  requests'[r].pc = "proxy"
  <2>1. CASE BeginRaw(q)
    BY <1>r, <1>2, <2>1 DEF BeginRaw, Request
  <2>2. CASE GrantStops(q) \/ StopLive(q)
    BY <1>r, <1>2, <2>2 DEF GrantStops, StopLive, LeasesStopped, Request
  <2>3. CASE Ends(q) \/ UNCHANGED requests
    BY <1>r, <1>2, <2>3 DEF Ends
  <2>4. ASSUME NEW pc, NEW k, NEW i, NEW s, Begins(q, pc, k, i, s)
        PROVE  requests'[r].pc = "proxy"
    BY <1>r, <1>2, <2>4 DEF Begins
  <2>5. CASE Leave(q) \/ DrainTimeout(q) \/ ReleaseRaw(q) \/ PreviewAcquire(q) \/ Forget(q)
    BY <2>3, <2>5 DEF Leave, DrainTimeout, ReleaseRaw, PreviewAcquire, Forget
  <2>6. CASE LiveTsAcquire(q) \/ EndRaw(q) \/ StopRemux(q)
    BY <2>3, <2>4, <2>6 DEF LiveTsAcquire, EndRaw, StopRemux
  <2>7. CASE PollEnsure(q) \/ PollAgain(q)
    BY <2>3, <2>4, <2>7 DEF PollEnsure, PollAgain, Ensures
  <2>8. CASE \E k \in Keys : \/ LiveTs(q, k) \/ PollStart(q, k)
                            \/ PreviewLive(q, k) \/ PreviewRemux(q, k)
                            \/ \E kind \in Kinds : Grant(q, k, kind)
    BY <2>3, <2>4, <2>8 DEF LiveTs, PollStart, PreviewLive, PreviewRemux, Grant
  <2>9. CASE \E x \in reserved : Delete(q, x)
    BY <2>4, <2>9 DEF Delete
  <2> QED
    BY <1>2, <2>1, <2>2, <2>5, <2>6, <2>7, <2>8, <2>9 DEF RequestNext
<1>3. CASE RequestNext(r)
  BY <1>1, <1>3, <1>r
     DEF RequestNext, Leave, LiveTs, LiveTsAcquire, DrainTimeout, BeginRaw, ReleaseRaw,
         PollStart, PollEnsure, PollAgain, Grant, PreviewLive, PreviewRemux,
         PreviewAcquire, GrantStops, Delete, StopLive, StopRemux, Forget
<1>4. CASE UNCHANGED requests
  BY <1>4, <1>r
<1> QED
  BY <1>2, <1>3, <1>4
     DEF LiveRoutesNext, liveVars, Expire, Segment, Redirect, SessionExits, GoesQuiet,
         SweepSession

\* LeaseHandle::dispose: a proxy whose lease was replaced, granted away or
\* stopped ends without releasing the slot its replacement plays under.
THEOREM LiveRoutesTeardownKeepsNewer == LiveRoutesSpec => TeardownKeepsNewer
<1>1. Parts /\ LeaseInv /\ [LiveRoutesNext]_liveVars
        => [\A r \in Requests :
              Proxying(r) /\ requests[r].stop => requests'[r].pc # "release"]_liveVars
  BY StoppedReleasesNothing
<1> QED
  BY <1>1, LeaseInvariant, PTL DEF LiveRoutesSpec, TeardownKeepsNewer

=============================================================================
