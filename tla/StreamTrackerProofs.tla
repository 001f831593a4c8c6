------------------------- MODULE StreamTrackerProofs -------------------------
(***************************************************************************)
(* Theorems of StreamTracker, for every set of viewers, recordings,        *)
(* channels and titles and every value of the caps.                        *)
(*                                                                         *)
(* The argument: a step of the tracker either admits one request, or keeps *)
(* a subset of the sessions with their sub, kind and resource (Keeps).     *)
(* Keeps preserves every bound because the sets counted only shrink; an    *)
(* admission preserves them because Admissible counted what remains after  *)
(* the replacement, under the same lock.                                   *)
(***************************************************************************)
EXTENDS StreamTracker, FiniteSetTheorems, TLAPS

ViewerLive == {i \in Held : IsLive(i) /\ sessions[i].sub \in Viewers}

IInv ==
    /\ TypeOK
    /\ IsFiniteSet(Held)
    /\ HouseholdCap
    /\ NoDoubleBooking
    /\ ViewerLiveBudget
    /\ OvershootAtMostOne

\* No session is admitted: what survives keeps its identity.
Keeps ==
    /\ Held' \subseteq Held
    /\ sessions' \in [Held' -> Session]
    /\ \A i \in Held' : SameSlot(sessions'[i], sessions[i])

\* A well-formed request: live requests of viewers carry the kind cap, and
\* only recordings ask for a live slot without one.
IsRequest(r) ==
    /\ r \in [sub : Subs, kind : Kinds, resource : Channels \cup Titles,
              capped : BOOLEAN, replaceLive : BOOLEAN]
    /\ r.sub \in Viewers /\ r.kind \in LiveKinds => r.capped

USE DEF Held

-----------------------------------------------------------------------------
(* What the steps of the tracker do to the session map. *)

\* A fresh age is in range whatever the limits are.
LEMMA AgeBounds == AgeLimit \in Nat /\ 0 \in 0..AgeLimit
  BY CapsAssumption DEF AgeLimit

\* Dropping sessions keeps the others.
LEMMA RestrictKeeps ==
  ASSUME TypeOK, NEW S \in SUBSET Held, sessions' = Restrict(sessions, S)
  PROVE  Keeps
  BY DEF Keeps, Restrict, TypeOK, SameSlot

\* Refreshing or ageing sessions keeps them all.
LEMMA TouchKeeps ==
  ASSUME TypeOK, NEW ids, Touch(ids)
  PROVE  Keeps
  BY AgeBounds DEF Keeps, Touch, TypeOK, Session, SameSlot

LEMMA TickKeeps ==
  ASSUME TypeOK, Tick
  PROVE  Keeps
  BY AgeBounds DEF Keeps, Tick, TypeOK, Session, SameSlot

\* sweep_locked keeps the fresh sessions.
LEMMA SweptKeeps ==
  ASSUME TypeOK, sessions' = Swept
  PROVE  Keeps
  <1>1. Fresh \in SUBSET Held
    BY DEF Fresh
  <1>2. QED
    BY <1>1, RestrictKeeps DEF Swept

\* The refresh of a known id keeps the fresh sessions too.
LEMMA RefreshKeeps ==
  ASSUME TypeOK, NEW id \in Fresh, sessions' = [Swept EXCEPT ![id].age = 0]
  PROVE  Keeps
  BY AgeBounds DEF Keeps, Swept, Restrict, Fresh, TypeOK, Session, SameSlot

-----------------------------------------------------------------------------
(* Every bound survives a step that admits nothing. *)

LEMMA KeepsBounds ==
  ASSUME IInv, Keeps
  PROVE  /\ sessions' \in [Held' -> Session]
         /\ Held' \subseteq Ids
         /\ IsFiniteSet(Held')
         /\ HouseholdCap'
         /\ NoDoubleBooking'
         /\ ViewerLiveBudget'
         /\ Cardinality(LiveHeld') <= Cardinality(LiveHeld)
         /\ Cardinality(LiveHeld') \in Nat
         /\ Cardinality(LiveHeld) \in Nat
  <1> USE DEF IInv
  <1>1. Held' \subseteq Ids /\ sessions' \in [Held' -> Session]
    BY DEF Keeps, TypeOK
  <1>2. IsFiniteSet(Held') /\ Cardinality(Held') <= Cardinality(Held)
    BY FS_Subset DEF Keeps
  <1>3. HouseholdCap'
    BY <1>2, FS_CardinalityType, CapsAssumption DEF HouseholdCap
  <1>4. NoDoubleBooking'
    BY DEF Keeps, NoDoubleBooking, SameSlot
  <1>5. /\ ViewerLive' \subseteq ViewerLive
        /\ LiveHeld' \subseteq LiveHeld
    BY DEF Keeps, ViewerLive, LiveHeld, IsLive, SameSlot
  <1>6. IsFiniteSet(ViewerLive) /\ IsFiniteSet(LiveHeld)
    BY FS_Subset DEF ViewerLive, LiveHeld
  <1>7. /\ Cardinality(ViewerLive') <= Cardinality(ViewerLive)
        /\ Cardinality(ViewerLive') \in Nat
        /\ Cardinality(ViewerLive) \in Nat
        /\ Cardinality(LiveHeld') <= Cardinality(LiveHeld)
        /\ Cardinality(LiveHeld') \in Nat
        /\ Cardinality(LiveHeld) \in Nat
    BY <1>5, <1>6, FS_Subset, FS_CardinalityType
  <1>8. ViewerLiveBudget'
    BY <1>7, CapsAssumption DEF ViewerLiveBudget, ViewerLive
  <1>9. QED
    BY <1>1, <1>2, <1>3, <1>4, <1>7, <1>8

-----------------------------------------------------------------------------
(* ... and an admission. *)

LEMMA AdmissionBounds ==
  ASSUME IInv, NEW r, IsRequest(r), NEW id \in Ids, id \notin Fresh,
         Admissible(r), sessions' = WithSession(r, id)
  PROVE  /\ sessions' \in [Held' -> Session]
         /\ Held' \subseteq Ids
         /\ IsFiniteSet(Held')
         /\ HouseholdCap'
         /\ NoDoubleBooking'
         /\ ViewerLiveBudget'
         /\ Cardinality(LiveHeld') \in Nat
         /\ Cardinality(LiveHeld') <= Cardinality(LiveHeld) + 1
         /\ r.capped /\ r.kind \in LiveKinds => Cardinality(LiveHeld') <= LiveKindCap
         /\ r.kind \notin LiveKinds => Cardinality(LiveHeld') <= Cardinality(LiveHeld)
  <1> USE DEF IInv
  <1>1. /\ Held' = Remaining(r) \cup {id}
        /\ Remaining(r) \subseteq Held
        /\ id \notin Remaining(r)
        /\ sessions'[id] = NewSession(r)
        /\ \A i \in Remaining(r) : sessions'[i] = sessions[i]
    BY DEF WithSession, Remaining, Fresh
  <1>2. NewSession(r) \in Session /\ SameSlot(NewSession(r), r)
    BY AgeBounds DEF NewSession, Session, IsRequest, SameSlot
  <1>3. sessions' \in [Held' -> Session] /\ Held' \subseteq Ids
    BY <1>1, <1>2 DEF WithSession, TypeOK
  <1>4. IsFiniteSet(Remaining(r)) /\ Cardinality(Remaining(r)) \in Nat
    BY <1>1, FS_Subset, FS_CardinalityType
  <1>5. /\ IsFiniteSet(Held')
        /\ Cardinality(Held') = Cardinality(Remaining(r)) + 1
    BY <1>1, <1>4, FS_AddElement
  <1>6. HouseholdCap'
    BY <1>4, <1>5, CapsAssumption DEF HouseholdCap, Admissible
  <1>7. NoDoubleBooking'
    <2>1. \A i \in Remaining(r) : ~ SameSlot(sessions[i], r)
      BY DEF Remaining, Replaced
    <2>2. QED
      BY <1>1, <1>2, <2>1 DEF NoDoubleBooking, SameSlot
  <1> DEFINE RemainingLive == {i \in Remaining(r) : IsLive(i)}
  <1>8. /\ RemainingLive \subseteq LiveHeld
        /\ IsFiniteSet(LiveHeld) /\ IsFiniteSet(RemainingLive)
        /\ Cardinality(RemainingLive) <= Cardinality(LiveHeld)
        /\ Cardinality(RemainingLive) \in Nat
        /\ Cardinality(LiveHeld) \in Nat
    <2>1. RemainingLive \subseteq LiveHeld
      BY <1>1 DEF LiveHeld
    <2>2. IsFiniteSet(LiveHeld)
      BY FS_Subset DEF LiveHeld
    <2>3. QED
      BY <2>1, <2>2, FS_Subset, FS_CardinalityType
  <1>9. LiveHeld' = IF r.kind \in LiveKinds THEN RemainingLive \cup {id} ELSE RemainingLive
    BY <1>1 DEF LiveHeld, IsLive, NewSession
  <1>10. id \notin RemainingLive
    BY <1>1
  <1>11. /\ IsFiniteSet(LiveHeld')
         /\ Cardinality(LiveHeld') \in Nat
         /\ r.kind \in LiveKinds => Cardinality(LiveHeld') = Cardinality(RemainingLive) + 1
         /\ r.kind \notin LiveKinds => Cardinality(LiveHeld') = Cardinality(RemainingLive)
    BY <1>8, <1>9, <1>10, FS_AddElement, FS_CardinalityType
  <1>12. r.capped /\ r.kind \in LiveKinds => Cardinality(LiveHeld') <= LiveKindCap
    <2>1. r.kind \in LiveKinds => Competing(r) = RemainingLive
      BY DEF Competing
    <2>2. r.capped => Cardinality(Competing(r)) < LiveKindCap
      BY Zenon DEF Admissible
    <2>3. SUFFICES ASSUME r.capped, r.kind \in LiveKinds
                   PROVE  Cardinality(LiveHeld') <= LiveKindCap
      OBVIOUS
    <2>4. Cardinality(RemainingLive) < LiveKindCap
      BY <2>1, <2>2, <2>3, Zenon
    <2>5. Cardinality(LiveHeld') = Cardinality(RemainingLive) + 1
      BY <1>11, <2>3
    <2>6. QED
      BY <2>4, <2>5, <1>8, CapsAssumption
  <1>13. ViewerLiveBudget'
    <2>1. ViewerLive' \subseteq LiveHeld' /\ IsFiniteSet(ViewerLive')
      <3>1. ViewerLive' \subseteq LiveHeld'
        BY DEF ViewerLive, LiveHeld
      <3>2. QED
        BY <3>1, <1>11, FS_Subset
    <2>2. CASE r.sub \in Viewers /\ r.kind \in LiveKinds
      <3>1. Cardinality(LiveHeld') <= LiveKindCap
        BY <2>2, <1>12 DEF IsRequest
      <3>2. Cardinality(ViewerLive') <= Cardinality(LiveHeld') /\ Cardinality(ViewerLive') \in Nat
        BY <2>1, <1>11, FS_Subset, FS_CardinalityType
      <3>3. QED
        BY <3>1, <3>2, <1>11, CapsAssumption DEF ViewerLiveBudget, ViewerLive
    <2>3. CASE ~ (r.sub \in Viewers /\ r.kind \in LiveKinds)
      <3>1. ViewerLive' \subseteq ViewerLive
        BY <2>3, <1>1 DEF ViewerLive, IsLive, NewSession
      <3>2. IsFiniteSet(ViewerLive)
        BY FS_Subset DEF ViewerLive
      <3>3. /\ Cardinality(ViewerLive') <= Cardinality(ViewerLive)
            /\ Cardinality(ViewerLive') \in Nat /\ Cardinality(ViewerLive) \in Nat
        BY <3>1, <3>2, FS_Subset, FS_CardinalityType
      <3>4. QED
        BY <3>3, CapsAssumption DEF ViewerLiveBudget, ViewerLive
    <2>4. QED
      BY <2>2, <2>3
  <1>14. QED
    BY <1>3, <1>5, <1>6, <1>7, <1>8, <1>11, <1>12, <1>13

-----------------------------------------------------------------------------
(* A try_acquire is one of the three.  Only a live request without the kind *)
(* cap, which is a recording's, can leave more live slots than it found.    *)

LEMMA TryAcquireBounds ==
  ASSUME IInv, NEW r, IsRequest(r), NEW id \in Ids, TryAcquire(r, id)
  PROVE  /\ sessions' \in [Held' -> Session]
         /\ Held' \subseteq Ids
         /\ IsFiniteSet(Held')
         /\ HouseholdCap'
         /\ NoDoubleBooking'
         /\ ViewerLiveBudget'
         /\ Cardinality(LiveHeld) \in Nat
         /\ Cardinality(LiveHeld') \in Nat
         /\ Cardinality(LiveHeld') <= Cardinality(LiveHeld) + 1
         /\ r.sub \in Viewers =>
              \/ Cardinality(LiveHeld') <= Cardinality(LiveHeld)
              \/ Cardinality(LiveHeld') <= UpstreamCap
  <1>0. TypeOK
    BY DEF IInv
  <1>1. CASE Keeps
    BY <1>1, KeepsBounds
  <1>2. CASE id \in Fresh
    BY <1>0, <1>1, <1>2, RefreshKeeps DEF TryAcquire
  <1>3. CASE id \notin Fresh /\ ~ Admissible(r)
    <2>1. sessions' = Swept
      BY <1>3 DEF TryAcquire
    <2>2. QED
      BY <1>0, <1>1, <2>1, SweptKeeps
  <1>4. CASE id \notin Fresh /\ Admissible(r)
    <2>1. sessions' = WithSession(r, id)
      BY <1>4 DEF TryAcquire
    <2>2. /\ sessions' \in [Held' -> Session]
          /\ Held' \subseteq Ids
          /\ IsFiniteSet(Held')
          /\ HouseholdCap'
          /\ NoDoubleBooking'
          /\ ViewerLiveBudget'
          /\ Cardinality(LiveHeld') \in Nat
          /\ Cardinality(LiveHeld') <= Cardinality(LiveHeld) + 1
          /\ r.capped /\ r.kind \in LiveKinds => Cardinality(LiveHeld') <= LiveKindCap
          /\ r.kind \notin LiveKinds => Cardinality(LiveHeld') <= Cardinality(LiveHeld)
      BY <1>4, <2>1, AdmissionBounds
    <2>3. Cardinality(LiveHeld) \in Nat
      BY FS_Subset, FS_CardinalityType DEF IInv, LiveHeld
    <2>4. ASSUME r.sub \in Viewers, r.kind \in LiveKinds
          PROVE  Cardinality(LiveHeld') <= UpstreamCap
      <3>1. r.capped
        BY <2>4 DEF IsRequest
      <3>2. Cardinality(LiveHeld') <= LiveKindCap
        BY <2>2, <2>4, <3>1
      <3>3. QED
        BY <2>2, <3>2, CapsAssumption
    <2>5. QED
      BY <2>2, <2>3, <2>4
  <1>5. QED
    BY <1>2, <1>3, <1>4

-----------------------------------------------------------------------------
(* The inductive invariant.                                                *)

LEMMA InitIInv == TrackerInit => IInv
  <1>1. SUFFICES ASSUME TrackerInit PROVE IInv
    OBVIOUS
  <1>2. Held = {}
    BY <1>1 DEF TrackerInit
  <1>3. LiveHeld = {} /\ ViewerLive = {} /\ TypeOK
    BY <1>1, <1>2 DEF TrackerInit, TypeOK, LiveHeld, ViewerLive
  <1>4. Cardinality({}) = 0 /\ IsFiniteSet({})
    BY FS_EmptySet
  <1>5. HouseholdCap /\ NoDoubleBooking /\ ViewerLiveBudget
    BY <1>2, <1>3, <1>4, CapsAssumption
       DEF HouseholdCap, NoDoubleBooking, ViewerLiveBudget, ViewerLive
  <1>6. OvershootAtMostOne
    BY <1>3, <1>4, CapsAssumption DEF OvershootAtMostOne
  <1>7. QED
    BY <1>2, <1>3, <1>4, <1>5, <1>6 DEF IInv

\* A step that admits nothing and leaves the recorder alone.
LEMMA QuietStep ==
  ASSUME IInv, Keeps, dvrAdmitted' = dvrAdmitted
  PROVE  IInv'
  <1>1. OvershootAtMostOne'
    BY KeepsBounds, CapsAssumption DEF IInv, OvershootAtMostOne
  <1>2. TypeOK'
    BY KeepsBounds DEF IInv, TypeOK
  <1>3. QED
    BY <1>1, <1>2, KeepsBounds DEF IInv

\* A viewer's try_acquire.
LEMMA ViewerStep ==
  ASSUME IInv, NEW r, IsRequest(r), r.sub \in Viewers, NEW id \in Ids,
         TryAcquire(r, id), dvrAdmitted' = dvrAdmitted
  PROVE  IInv'
  <1>1. OvershootAtMostOne'
    BY TryAcquireBounds, CapsAssumption DEF IInv, OvershootAtMostOne
  <1>2. TypeOK'
    BY TryAcquireBounds DEF IInv, TypeOK
  <1>3. QED
    BY <1>1, <1>2, TryAcquireBounds DEF IInv

LEMMA ViewerNextIInv ==
  ASSUME IInv, ViewerNext
  PROVE  IInv'
  <1>0. TypeOK
    BY DEF IInv
  <1>1. ASSUME NEW v \in Viewers, NEW c \in Channels, NEW preview \in BOOLEAN,
               NEW kind \in LiveKinds, LiveGrant(v, c, kind, preview)
        PROVE  IInv'
    <2> DEFINE r == Request(v, kind, c, TRUE, ~preview)
    <2>1. dvrAdmitted' = dvrAdmitted
      BY <1>1 DEF LiveGrant
    <2>2. IsRequest(r) /\ r.sub \in Viewers
      BY DEF IsRequest, Request, Subs, Kinds
    <2>3. CASE sessions' = Swept
      BY <1>0, <2>1, <2>3, SweptKeeps, QuietStep
    <2>4. CASE \E id \in FreshIds : TryAcquire(r, id)
      <3>1. PICK id \in FreshIds : TryAcquire(r, id)
        BY <2>4
      <3>2. id \in Ids
        BY DEF FreshIds, Ids
      <3> HIDE DEF r
      <3>3. QED
        BY <2>1, <2>2, <3>1, <3>2, ViewerStep
    <2>5. QED
      BY <1>1, <2>3, <2>4 DEF LiveGrant
  <1>2. ASSUME NEW v \in Viewers, NEW c \in Channels, LiveBytes(v, c)
        PROVE  IInv'
    <2> DEFINE r == Request(v, "live", c, TRUE, FALSE)
    <2>1. IsRequest(r) /\ r.sub \in Viewers
      BY DEF IsRequest, Request, Subs, Kinds, LiveKinds
    <2>2. PICK id \in FreshIds : TryAcquire(r, id)
      BY <1>2 DEF LiveBytes
    <2>3. id \in Ids /\ dvrAdmitted' = dvrAdmitted
      BY <1>2 DEF FreshIds, Ids, LiveBytes
    <2> HIDE DEF r
    <2>4. QED
      BY <2>1, <2>2, <2>3, ViewerStep
  <1>3. ASSUME NEW v \in Viewers, NEW t \in Titles, NEW kind \in OnDemandKinds,
               OnDemandAcquire(v, t, kind)
        PROVE  IInv'
    <2> DEFINE r == Request(v, kind, t, FALSE, FALSE)
    <2>1. kind \notin LiveKinds
      BY DEF OnDemandKinds, LiveKinds
    <2>2. IsRequest(r) /\ r.sub \in Viewers
      BY <2>1 DEF IsRequest, Request, Subs, Kinds
    <2>3. PICK id \in OnDemandIds(r) : TryAcquire(r, id)
      BY <1>3 DEF OnDemandAcquire
    <2>4. id \in Ids /\ dvrAdmitted' = dvrAdmitted
      BY <1>3 DEF OnDemandIds, FreshIds, Ids, OnDemandAcquire
    <2> HIDE DEF r
    <2>5. QED
      BY <2>2, <2>3, <2>4, ViewerStep
  <1>4. ASSUME NEW v, NEW kind, NEW resource, HeartbeatByResource(v, kind, resource)
        PROVE  IInv'
    <2>1. PICK i : Touch({i})
      BY <1>4 DEF HeartbeatByResource
    <2>2. QED
      BY <1>0, <1>4, <2>1, TouchKeeps, QuietStep DEF HeartbeatByResource
  <1>5. ASSUME NEW i \in SessionIds, ReleaseViewer(i)
        PROVE  IInv'
    BY <1>0, <1>5, RestrictKeeps, QuietStep DEF ReleaseViewer, Remove
  <1>6. QED
    BY <1>1, <1>2, <1>3, <1>4, <1>5 DEF ViewerNext

LEMMA DvrNextIInv ==
  ASSUME IInv, DvrNext
  PROVE  IInv'
  <1>0. TypeOK
    BY DEF IInv
  <1>1. ASSUME NEW rec \in Recordings, DvrAdmit(rec)
        PROVE  IInv'
    <2>1. sessions' = Swept /\ dvrAdmitted' = rec
      BY <1>1 DEF DvrAdmit
    <2>2. Keeps
      BY <1>0, <2>1, SweptKeeps
    <2>3. LiveHeld' = {i \in Fresh : IsLive(i)}
      BY <2>1 DEF LiveHeld, IsLive, Swept, Restrict, Fresh
    <2>4. Cardinality(LiveHeld') < UpstreamCap
      BY <1>1, <2>3 DEF DvrAdmit
    <2>5. OvershootAtMostOne'
      BY <2>2, <2>4, KeepsBounds, CapsAssumption DEF OvershootAtMostOne
    <2>6. TypeOK'
      BY <2>1, <2>2, KeepsBounds DEF TypeOK
    <2>7. QED
      BY <2>2, <2>5, <2>6, KeepsBounds DEF IInv
  <1>2. ASSUME NEW c \in Channels, DvrReserve(c)
        PROVE  IInv'
    <2> DEFINE r == Request(dvrAdmitted, "live", c, FALSE, FALSE)
    <2>1. /\ dvrAdmitted \in Recordings /\ dvrAdmitted' = NoRecording
          /\ TryAcquire(r, dvrAdmitted)
      BY <1>0, <1>2 DEF DvrReserve, TypeOK
    <2>2. IsRequest(r) /\ dvrAdmitted \in Ids
      BY <2>1, NamesAssumption DEF IsRequest, Request, Subs, Kinds, LiveKinds, Ids
    <2> HIDE DEF r
    <2>3. Cardinality(LiveHeld) <= UpstreamCap
      BY <1>2 DEF IInv, OvershootAtMostOne, DvrReserve
    <2>4. OvershootAtMostOne'
      BY <2>1, <2>2, <2>3, TryAcquireBounds, CapsAssumption DEF OvershootAtMostOne
    <2>5. TypeOK'
      BY <2>1, <2>2, TryAcquireBounds DEF TypeOK
    <2>6. QED
      BY <2>1, <2>2, <2>4, <2>5, TryAcquireBounds DEF IInv
  <1>3. ASSUME NEW rec \in Recordings, DvrHeartbeat(rec)
        PROVE  IInv'
    BY <1>0, <1>3, TouchKeeps, QuietStep DEF DvrHeartbeat
  <1>4. ASSUME NEW rec \in Recordings, DvrRelease(rec)
        PROVE  IInv'
    BY <1>0, <1>4, RestrictKeeps, QuietStep DEF DvrRelease, Remove
  <1>5. QED
    BY <1>1, <1>2, <1>3, <1>4 DEF DvrNext

\* The inductive invariant holds in every reachable state.
THEOREM TrackerInvariant == TrackerSpec => []IInv
  <1>1. TrackerInit => IInv
    BY InitIInv
  <1>2. IInv /\ [TrackerNext]_trackerVars => IInv'
    <2>1. SUFFICES ASSUME IInv, [TrackerNext]_trackerVars PROVE IInv'
      OBVIOUS
    <2>2. CASE Tick
      BY <2>1, <2>2, TickKeeps, QuietStep DEF Tick, IInv
    <2>3. CASE Sweep
      BY <2>1, <2>3, SweptKeeps, QuietStep DEF Sweep, IInv
    <2>4. CASE ViewerNext
      BY <2>1, <2>4, ViewerNextIInv
    <2>5. CASE DvrNext
      BY <2>1, <2>5, DvrNextIInv
    <2>6. CASE UNCHANGED trackerVars
      <3>1. Keeps
        BY <2>1, <2>6 DEF Keeps, IInv, TypeOK, SameSlot, trackerVars
      <3>2. QED
        BY <2>1, <2>6, <3>1, QuietStep DEF trackerVars
    <2>7. QED
      BY <2>1, <2>2, <2>3, <2>4, <2>5, <2>6 DEF TrackerNext
  <1>3. QED
    BY <1>1, <1>2, PTL DEF TrackerSpec

\* try_acquire and the sweeps keep the session map well formed.
THEOREM TrackerTypeOK == TrackerSpec => []TypeOK
  <1>1. IInv => TypeOK
    BY DEF IInv
  <1>2. QED
    BY <1>1, TrackerInvariant, PTL

\* However grants, switches, heartbeats, sweeps and recordings interleave,
\* the tracker holds at most Cap slots.
THEOREM TrackerHouseholdCap == TrackerSpec => []HouseholdCap
  <1>1. IInv => HouseholdCap
    BY DEF IInv
  <1>2. QED
    BY <1>1, TrackerInvariant, PTL

\* No viewer ever holds two slots for one resource.
THEOREM TrackerNoDoubleBooking == TrackerSpec => []NoDoubleBooking
  <1>1. IInv => NoDoubleBooking
    BY DEF IInv
  <1>2. QED
    BY <1>1, TrackerInvariant, PTL

\* Viewers' raw live and remux slots together stay within live_kind_cap.
THEOREM TrackerViewerLiveBudget == TrackerSpec => []ViewerLiveBudget
  <1>1. IInv => ViewerLiveBudget
    BY DEF IInv
  <1>2. QED
    BY <1>1, TrackerInvariant, PTL

\* The check-then-reserve of a recording can exceed the upstream cap by one
\* live slot and no more, for every cap and number of members.
THEOREM TrackerOvershoot == TrackerSpec => []OvershootAtMostOne
  <1>1. IInv => OvershootAtMostOne
    BY DEF IInv
  <1>2. QED
    BY <1>1, TrackerInvariant, PTL

-----------------------------------------------------------------------------
(* Who may take a slot from whom.                                          *)

\* A recording's slot is held under the recording's own id.
OwnSlots == \A i \in Held : sessions[i].sub \in Recordings => i = sessions[i].sub

LEMMA KeepsOwnSlots ==
  ASSUME OwnSlots, Keeps
  PROVE  OwnSlots'
  BY DEF OwnSlots, Keeps, SameSlot

LEMMA AcquireOwnSlots ==
  ASSUME TypeOK, OwnSlots, NEW r, NEW id, TryAcquire(r, id),
         r.sub \in Recordings => r.sub = id
  PROVE  OwnSlots'
  <1>1. CASE id \in Fresh
    BY <1>1, KeepsOwnSlots, RefreshKeeps DEF TryAcquire
  <1>2. CASE sessions' = Swept
    BY <1>2, KeepsOwnSlots, SweptKeeps
  <1>3. CASE sessions' = WithSession(r, id)
    <2>1. /\ Held' = Remaining(r) \cup {id}
          /\ Remaining(r) \subseteq Held
          /\ sessions'[id] = NewSession(r)
          /\ \A i \in Remaining(r) \ {id} : sessions'[i] = sessions[i]
      BY <1>3 DEF WithSession, Remaining, Fresh
    <2>2. NewSession(r).sub = r.sub
      BY DEF NewSession
    <2>3. QED
      BY <2>1, <2>2 DEF OwnSlots
  <1>4. QED
    BY <1>1, <1>2, <1>3 DEF TryAcquire

LEMMA OwnSlotsStep ==
  ASSUME TypeOK, OwnSlots, [TrackerNext]_trackerVars
  PROVE  OwnSlots'
  <1>1. CASE Keeps
    BY <1>1, KeepsOwnSlots
  <1>2. CASE Tick \/ Sweep
    BY <1>1, <1>2, TickKeeps, SweptKeeps DEF Sweep
  <1>3. ASSUME NEW v \in Viewers, NEW id, NEW r, r.sub = v, TryAcquire(r, id)
        PROVE  OwnSlots'
    BY <1>3, AcquireOwnSlots, NamesAssumption
  <1>4. ASSUME NEW v \in Viewers, NEW c \in Channels, NEW preview \in BOOLEAN,
               NEW kind \in LiveKinds, LiveGrant(v, c, kind, preview)
        PROVE  OwnSlots'
    <2>1. Request(v, kind, c, TRUE, ~preview).sub = v
      BY DEF Request
    <2>2. sessions' = Swept \/ \E id \in FreshIds : TryAcquire(Request(v, kind, c, TRUE, ~preview), id)
      BY <1>4 DEF LiveGrant
    <2>3. QED
      BY <1>1, <1>3, <2>1, <2>2, SweptKeeps
  <1>5. ASSUME NEW v \in Viewers, NEW c \in Channels, LiveBytes(v, c)
        PROVE  OwnSlots'
    <2>1. Request(v, "live", c, TRUE, FALSE).sub = v
      BY DEF Request
    <2>2. QED
      BY <1>3, <1>5, <2>1 DEF LiveBytes
  <1>6. ASSUME NEW v \in Viewers, NEW t \in Titles, NEW kind \in OnDemandKinds,
               OnDemandAcquire(v, t, kind)
        PROVE  OwnSlots'
    <2>1. Request(v, kind, t, FALSE, FALSE).sub = v
      BY DEF Request
    <2>2. QED
      BY <1>3, <1>6, <2>1 DEF OnDemandAcquire
  <1>7. ASSUME NEW v, NEW kind, NEW resource, HeartbeatByResource(v, kind, resource)
        PROVE  OwnSlots'
    BY <1>1, <1>7, TouchKeeps DEF HeartbeatByResource
  <1>8. ASSUME NEW i, ReleaseViewer(i) \/ DvrRelease(i)
        PROVE  OwnSlots'
    BY <1>1, <1>8, RestrictKeeps DEF ReleaseViewer, DvrRelease, Remove
  <1>9. ASSUME NEW rec, DvrAdmit(rec) \/ DvrHeartbeat(rec)
        PROVE  OwnSlots'
    BY <1>1, <1>9, SweptKeeps, TouchKeeps DEF DvrAdmit, DvrHeartbeat
  <1>10. ASSUME NEW c \in Channels, DvrReserve(c)
         PROVE  OwnSlots'
    <2>1. Request(dvrAdmitted, "live", c, FALSE, FALSE).sub = dvrAdmitted
      BY DEF Request
    <2>2. QED
      BY <1>10, <2>1, AcquireOwnSlots DEF DvrReserve
  <1>11. CASE UNCHANGED trackerVars
    BY <1>11 DEF trackerVars, OwnSlots
  <1>12. QED
    BY <1>2, <1>4, <1>5, <1>6, <1>7, <1>8, <1>9, <1>10, <1>11
       DEF TrackerNext, ViewerNext, DvrNext

\* i went to an admission of its own viewer.
TakenOver(i) ==
  \E j \in DOMAIN sessions' \ Held :
     /\ sessions'[j].sub = sessions[i].sub
     /\ \/ SameSlot(sessions'[j], sessions[i])
        \/ IsLive(i) /\ sessions'[j].kind \in LiveKinds

\* A try_acquire under a new id takes only what it replaces ...
LEMMA NewIdTakes ==
  ASSUME NEW r, NEW id, id \notin Held, TryAcquire(r, id),
         NEW i \in Fresh, i \notin DOMAIN sessions'
  PROVE  TakenOver(i)
  <1>1. id \notin Fresh /\ Fresh \subseteq Held
    BY DEF Fresh
  <1>2. DOMAIN Swept = Fresh
    BY <1>1 DEF Swept, Restrict
  <1>3. sessions' = WithSession(r, id)
    BY <1>1, <1>2 DEF TryAcquire
  <1>4. /\ DOMAIN sessions' = Remaining(r) \cup {id}
        /\ sessions'[id] = NewSession(r)
    BY <1>3 DEF WithSession
  <1>5. i \in Replaced(r)
    BY <1>4 DEF Remaining
  <1>6. /\ NewSession(r).sub = r.sub /\ NewSession(r).kind = r.kind
        /\ NewSession(r).resource = r.resource
    BY DEF NewSession
  <1>7. \/ SameSlot(sessions[i], r)
        \/ sessions[i].sub = r.sub /\ r.kind \in LiveKinds /\ IsLive(i)
    BY <1>5 DEF Replaced
  <1>8. QED
    BY <1>4, <1>6, <1>7 DEF TakenOver, SameSlot

\* ... and under a held id, fresh or stale, only that id's own slot.
LEMMA HeldIdTakes ==
  ASSUME NEW r, NEW id \in Held, TryAcquire(r, id), ~r.replaceLive,
         \A k \in Held : SameSlot(sessions[k], r) => k = id
  PROVE  Fresh \subseteq DOMAIN sessions'
  <1>1. DOMAIN Swept = Fresh
    BY DEF Swept, Restrict, Fresh
  <1>2. CASE id \in Fresh \/ ~Admissible(r)
    BY <1>1, <1>2 DEF TryAcquire, WithSession, Remaining, Replaced
  <1>3. CASE id \notin Fresh /\ Admissible(r)
    <2>1. DOMAIN sessions' = Remaining(r) \cup {id}
      BY <1>3 DEF TryAcquire, WithSession
    <2>2. Replaced(r) \subseteq {id}
      BY DEF Replaced, Fresh
    <2>3. QED
      BY <2>1, <2>2 DEF Remaining
  <1>4. QED
    BY <1>2, <1>3

LEMMA EvictionStep ==
  ASSUME TypeOK, NoDoubleBooking, OwnSlots, TrackerNext,
         NEW i \in Fresh, i \notin DOMAIN sessions'
  PROVE  ReleaseViewer(i) \/ DvrRelease(i) \/ TakenOver(i)
  <1> DEFINE Goal == ReleaseViewer(i) \/ DvrRelease(i) \/ TakenOver(i)
  <1>0. i \in Held
    BY DEF Fresh
  <1>1. sessions' # Swept
    BY DEF Swept, Restrict, Fresh
  <1>2. ASSUME NEW ids
        PROVE  ~Touch(ids)
    BY <1>0 DEF Touch
  <1>3. ASSUME NEW k, Remove({k})
        PROVE  k = i
    BY <1>0, <1>3 DEF Remove, Restrict
  <1>4. ~(Tick \/ Sweep)
    BY <1>0, <1>1 DEF Tick, Sweep
  <1>5. ASSUME NEW v \in Viewers, NEW c \in Channels, NEW preview \in BOOLEAN,
               NEW kind \in LiveKinds, LiveGrant(v, c, kind, preview)
        PROVE  Goal
    BY <1>1, <1>5, NewIdTakes DEF LiveGrant, FreshIds
  <1>6. ASSUME NEW v \in Viewers, NEW c \in Channels, LiveBytes(v, c)
        PROVE  Goal
    BY <1>6, NewIdTakes DEF LiveBytes, FreshIds
  \* A second grant of one title may mint the id its stale slot holds.
  <1>7. ASSUME NEW v \in Viewers, NEW t \in Titles, NEW kind \in OnDemandKinds,
               OnDemandAcquire(v, t, kind)
        PROVE  Goal
    <2> DEFINE r == Request(v, kind, t, FALSE, FALSE)
    <2>1. PICK id \in OnDemandIds(r) : TryAcquire(r, id)
      BY <1>7 DEF OnDemandAcquire
    <2>2. CASE id \notin Held
      BY <2>1, <2>2, NewIdTakes
    <2>3. CASE id \in Held
      <3>1. ~r.replaceLive /\ r.sub = v /\ r.kind = kind /\ r.resource = t
        BY DEF Request
      <3>2. id \in Matching(v, kind, t)
        BY <2>1, <2>3, <3>1 DEF OnDemandIds, FreshIds
      <3>3. SameSlot(sessions[id], r)
        BY <3>2 DEF Matching, SameSlot, Request
      <3>4. \A k \in Held : SameSlot(sessions[k], r) => k = id
        BY <2>3, <3>3 DEF NoDoubleBooking, SameSlot
      <3> HIDE DEF r
      <3>5. QED
        BY <2>1, <2>3, <3>1, <3>4, HeldIdTakes
    <2>4. QED
      BY <2>2, <2>3
  <1>8. ASSUME NEW v, NEW kind, NEW resource
        PROVE  ~HeartbeatByResource(v, kind, resource)
    BY <1>2 DEF HeartbeatByResource
  <1>9. ASSUME NEW k, ReleaseViewer(k) \/ DvrRelease(k)
        PROVE  Goal
    BY <1>3, <1>9 DEF ReleaseViewer, DvrRelease
  <1>10. ASSUME NEW rec
         PROVE  ~DvrAdmit(rec) /\ ~DvrHeartbeat(rec)
    BY <1>1, <1>2 DEF DvrAdmit, DvrHeartbeat
  \* A recording whose slot went stale takes it again, and nobody else's.
  <1>11. ASSUME NEW c \in Channels, DvrReserve(c)
         PROVE  Goal
    <2> DEFINE r == Request(dvrAdmitted, "live", c, FALSE, FALSE)
    <2>1. TryAcquire(r, dvrAdmitted) /\ dvrAdmitted \in Recordings
      BY <1>11 DEF DvrReserve, TypeOK
    <2>2. CASE dvrAdmitted \notin Held
      BY <2>1, <2>2, NewIdTakes
    <2>3. CASE dvrAdmitted \in Held
      <3>1. ~r.replaceLive /\ r.sub = dvrAdmitted
        BY DEF Request
      <3> HIDE DEF r
      <3>2. \A k \in Held : SameSlot(sessions[k], r) => k = dvrAdmitted
        BY <2>1, <3>1 DEF OwnSlots, SameSlot
      <3>3. QED
        BY <2>1, <2>3, <3>1, <3>2, HeldIdTakes
    <2>4. QED
      BY <2>2, <2>3
  <1>12. QED
    BY <1>4, <1>5, <1>6, <1>7, <1>8, <1>9, <1>10, <1>11 DEF TrackerNext, ViewerNext, DvrNext

\* A denied grant keeps the old reservation and nobody evicts another member:
\* a slot that is still fresh goes by its own release, or to an admission of
\* its own viewer, whatever the interleaving and the caps.
THEOREM TrackerEvictionJustified == TrackerSpec => EvictionJustified
  <1>1. TrackerInit => OwnSlots
    BY DEF TrackerInit, OwnSlots
  <1>2. TypeOK /\ OwnSlots /\ [TrackerNext]_trackerVars => OwnSlots'
    BY OwnSlotsStep
  <1>3. TypeOK /\ NoDoubleBooking /\ OwnSlots /\ [TrackerNext]_trackerVars
           => [\A i \in Fresh \ DOMAIN sessions' :
                 \/ ReleaseViewer(i)
                 \/ DvrRelease(i)
                 \/ \E j \in DOMAIN sessions' \ Held :
                       /\ sessions'[j].sub = sessions[i].sub
                       /\ \/ SameSlot(sessions'[j], sessions[i])
                          \/ IsLive(i) /\ sessions'[j].kind \in LiveKinds]_trackerVars
    BY EvictionStep DEF TakenOver
  <1>4. QED
    BY <1>1, <1>2, <1>3, TrackerTypeOK, TrackerNoDoubleBooking, PTL
       DEF TrackerSpec, EvictionJustified

=============================================================================
