------------------------ MODULE TranscodeSessionProofs ------------------------
(***************************************************************************)
(* No encoder without slot and directory, nothing left behind by a stop,   *)
(* no session beyond the first of its title that no lapse accounts for:    *)
(* for any number of clients, titles and sessions.                         *)
(***************************************************************************)
EXTENDS TranscodeSession, FiniteSetTheorems, TLAPS

-----------------------------------------------------------------------------
(* The inductive invariant *)

\* Starts that have not taken an id yet.
Pending == {c \in Clients : starts[c].pc \in {"gate", "find", "supersede", "admit"}}

SessionsOK == Live \subseteq 1..created /\ sessions \in [Live -> Session]

SupervisorsOK == Supervised \subseteq 1..created /\ sup \in [Supervised -> Supervisor]

CallsOK ==
    /\ starts \in [Clients -> Start]
    /\ DOMAIN stops \subseteq (1..created) \ Live
    /\ created \in Nat
    /\ created + Cardinality(Pending) <= MaxSessions

MarksOK ==
    /\ sweep \cup permits \cup dirs \cup forsaken \subseteq 1..created
    /\ lapsed \in [Titles -> SUBSET (1..created)]

\* An admitted start owns its id, slot and directory alone.
SpawnsOwn ==
    \A c \in Clients : starts[c].pc = "spawn" =>
        /\ starts[c].id \in permits \cap dirs
        /\ starts[c].id \notin Live \cup Supervised \cup DOMAIN stops
        /\ \A d \in Clients \ {c} :
              starts[d].pc = "spawn" => starts[d].id # starts[c].id

\* A session in the map has a supervisor that nobody told to shut down.
LiveSupervised ==
    \A id \in Live : /\ id \in Supervised
                     /\ sup[id].pc # "teardown"
                     /\ sup[id].mail \in Seq({"restart"})

\* What a supervisor holds, by where it is.
SupervisorsHold ==
    \A id \in Supervised :
        /\ sup[id].pc # "teardown" => id \in permits \cup forsaken
        /\ sup[id].pc = "teardown" => id \notin permits
        /\ sup[id].pc \in {"running", "check"} => id \in dirs

Typed == SessionsOK /\ SupervisorsOK /\ CallsOK /\ MarksOK
Owned == SpawnsOwn /\ LiveSupervised /\ SupervisorsHold /\ Reclaimed
Core == Typed /\ Owned

LEMMA CoreParts ==
    Core => TypeOK /\ EncoderBacked /\ Reclaimed /\ SessionSupervised
<1> SUFFICES ASSUME Core PROVE TypeOK /\ EncoderBacked /\ SessionSupervised
  BY DEF Core, Owned
<1> USE DEF Core, Typed, Owned
<1>1. IsFiniteSet(Pending)
  BY FS_Subset, TranscodeAssumption DEF Pending
<1>2. created \in 0..MaxSessions
  BY <1>1, FS_CardinalityType, TranscodeAssumption DEF CallsOK
<1>3. 1..created \subseteq Ids
  BY <1>2, TranscodeAssumption DEF Ids
<1>4. TypeOK
  BY <1>2, <1>3 DEF TypeOK, SessionsOK, SupervisorsOK, CallsOK, MarksOK
<1>5. EncoderBacked
  BY DEF EncoderBacked, Encoding, SupervisorsHold
<1>6. SessionSupervised
  BY DEF SessionSupervised, LiveSupervised
<1> QED
  BY <1>4, <1>5, <1>6

-----------------------------------------------------------------------------
(* Effects shared by several actions *)

LEMMA BoundsNat == MaxRestarts \in Nat /\ Duration \in Nat
BY TranscodeAssumption

LEMMA PendingFinite == IsFiniteSet(Pending) /\ IsFiniteSet(Pending')
BY FS_Subset, TranscodeAssumption DEF Pending

\* A start that goes on, or ends, makes no room for another.
LEMMA PendingShrinks ==
    ASSUME Pending' \subseteq Pending
    PROVE  Cardinality(Pending') <= Cardinality(Pending)
           /\ Cardinality(Pending) \in Nat /\ Cardinality(Pending') \in Nat
BY FS_Subset, FS_CardinalityType, PendingFinite

\* A function without one point.
LEMMA WithoutFacts ==
    ASSUME NEW f, NEW id
    PROVE  /\ DOMAIN Without(f, id) = DOMAIN f \ {id}
           /\ \A i \in DOMAIN f \ {id} : Without(f, id)[i] = f[i]
           /\ \A S : f \in [DOMAIN f -> S] =>
                 Without(f, id) \in [DOMAIN Without(f, id) -> S]
BY DEF Without, Restrict

LEMMA WithFacts ==
    ASSUME NEW f, NEW id, NEW v
    PROVE  /\ DOMAIN With(f, id, v) = DOMAIN f \cup {id}
           /\ With(f, id, v)[id] = v
           /\ \A i \in DOMAIN f \ {id} : With(f, id, v)[i] = f[i]
BY DEF With

\* A supervisor moves: nothing but its own record changes.
LEMMA SupMoves ==
    ASSUME SupervisorsOK, NEW id \in Supervised, NEW v \in Supervisor,
           sup' = [sup EXCEPT ![id] = v], UNCHANGED created
    PROVE  /\ SupervisorsOK'
           /\ Supervised' = Supervised
           /\ sup'[id] = v
           /\ \A i \in Supervised \ {id} : sup'[i] = sup[i]
BY DEF SupervisorsOK, Supervised

\* A supervisor returns.
LEMMA SupReturns ==
    ASSUME SupervisorsOK, NEW id, Return(id), UNCHANGED created
    PROVE  /\ SupervisorsOK'
           /\ Supervised' = Supervised \ {id}
           /\ \A i \in Supervised' : sup'[i] = sup[i]
BY WithoutFacts DEF SupervisorsOK, Supervised, Return, Without, Restrict

LEMMA SnappedTyped ==
    ASSUME NEW asked \in 0..Duration, NEW offset \in Snapped(asked)
    PROVE  offset \in 0..Duration
BY TranscodeAssumption DEF Snapped

LEMMA CoreInit == TranscodeInit => Core
<1> SUFFICES ASSUME TranscodeInit PROVE Core
  OBVIOUS
<1> USE DEF TranscodeInit
<1>1. Live = {} /\ Supervised = {} /\ DOMAIN stops = {}
  BY DEF Live, Supervised
<1>2. SessionsOK /\ SupervisorsOK
  BY <1>1 DEF SessionsOK, SupervisorsOK
<1>3. NoStart \in Start
  BY TranscodeAssumption DEF NoStart, Start
<1>4. Pending = {}
  BY DEF Pending, NoStart
<1>5. CallsOK
  BY <1>1, <1>3, <1>4, FS_EmptySet, TranscodeAssumption DEF CallsOK
<1>6. MarksOK
  BY DEF MarksOK
<1>7. Owned
  BY <1>1 DEF Owned, SpawnsOwn, LiveSupervised, SupervisorsHold, Reclaimed, NoStart
<1> QED
  BY <1>2, <1>5, <1>6, <1>7 DEF Core, Typed

\* A supervisor that holds its session's resources moves; the session, if it
\* is in the map, may change.
LEMMA SupStep ==
    ASSUME Core, NEW id \in Supervised, NEW v \in Supervisor,
           sup' = [sup EXCEPT ![id] = v],
           sup[id].pc # "teardown", v.pc # "teardown",
           id \in Live => v.mail \in Seq({"restart"}),
           v.pc \in {"running", "check"} => id \in dirs',
           Live' = Live, sessions' \in [Live -> Session],
           dirs \subseteq dirs', dirs' \subseteq dirs \cup {id},
           UNCHANGED <<starts, stops, sweep, permits, created, forsaken, lapsed>>
    PROVE  Core'
<1> USE DEF Core, Typed, Owned
<1>1. /\ SupervisorsOK'
      /\ Supervised' = Supervised
      /\ sup'[id] = v
      /\ \A i \in Supervised \ {id} : sup'[i] = sup[i]
  BY SupMoves
<1>2. SessionsOK'
  BY DEF SessionsOK
<1>3. CallsOK'
  BY DEF CallsOK, Pending
<1>4. MarksOK'
  BY DEF MarksOK, SupervisorsOK
<1>5. SpawnsOwn'
  BY <1>1 DEF SpawnsOwn
<1>6. LiveSupervised'
  BY <1>1 DEF LiveSupervised
<1>7. SupervisorsHold'
  BY <1>1 DEF SupervisorsHold
<1>8. Reclaimed'
  BY <1>1 DEF Reclaimed
<1> QED
  BY <1>1, <1>2, <1>3, <1>4, <1>5, <1>6, <1>7, <1>8

\* A supervisor whose session is gone returns.
LEMMA SupEnd ==
    ASSUME Core, NEW id \in Supervised, id \notin Live, Return(id),
           dirs' \in {dirs, dirs \ {id}},
           sup[id].pc = "teardown" => dirs' = dirs \ {id},
           UNCHANGED <<sessions, starts, stops, sweep, permits, created, forsaken, lapsed>>
    PROVE  Core'
<1> USE DEF Core, Typed, Owned
<1>1. /\ SupervisorsOK'
      /\ Supervised' = Supervised \ {id}
      /\ \A i \in Supervised' : sup'[i] = sup[i]
  BY SupReturns
<1>2. SessionsOK' /\ Live' = Live
  BY DEF SessionsOK, Live
<1>3. CallsOK'
  BY DEF CallsOK, Pending, Live
<1>4. MarksOK'
  BY DEF MarksOK
<1>5. SpawnsOwn'
  BY <1>1, <1>2 DEF SpawnsOwn
<1>6. LiveSupervised'
  BY <1>1, <1>2 DEF LiveSupervised
<1>7. SupervisorsHold'
  BY <1>1 DEF SupervisorsHold
<1>8. Reclaimed'
  BY <1>1, <1>2 DEF Reclaimed, SupervisorsHold
<1> QED
  BY <1>1, <1>2, <1>3, <1>4, <1>5, <1>6, <1>7, <1>8

\* A message more leaves a supervisor well formed.
LEMMA MailTyped ==
    ASSUME NEW v \in Supervisor, NEW command \in {"restart", "shutdown"}
    PROVE  [v EXCEPT !.mail = Append(@, command)] \in Supervisor
<1>1. Append(v.mail, command) \in Seq({"restart", "shutdown"})
  BY DEF Supervisor
<1> DEFINE mail == Append(v.mail, command)
<1>2. mail \in Seq({"restart", "shutdown"}) => [v EXCEPT !.mail = mail] \in Supervisor
  <2> HIDE DEF mail
  <2> QED
    BY DEF Supervisor
<1> QED
  BY <1>1, <1>2

\* No start is admitted, and none that was loses its id.
SpawnsStay ==
    /\ starts' \in [Clients -> Start]
    /\ \A c \in Clients : starts'[c].pc = "spawn" <=> starts[c].pc = "spawn"
    /\ \A c \in Clients : starts[c].pc = "spawn" => starts'[c].id = starts[c].id

\* Calls of start go on, be refused or end.
LEMMA StartsMove ==
    ASSUME Core, SpawnsStay, Pending' \subseteq Pending,
           UNCHANGED <<sessions, sup, stops, sweep, permits, dirs, created, forsaken, lapsed>>
    PROVE  Core'
<1> USE DEF Core, Typed, Owned
<1>1. SessionsOK' /\ SupervisorsOK' /\ MarksOK' /\ Live' = Live /\ Supervised' = Supervised
  BY DEF SessionsOK, SupervisorsOK, MarksOK, Live, Supervised
<1>2. CallsOK'
  BY <1>1, PendingShrinks, TranscodeAssumption DEF CallsOK, SpawnsStay
<1>3. SpawnsOwn'
  BY <1>1 DEF SpawnsOwn, SpawnsStay
<1>4. LiveSupervised' /\ SupervisorsHold' /\ Reclaimed'
  BY <1>1 DEF LiveSupervised, SupervisorsHold, Reclaimed, SpawnsStay
<1> QED
  BY <1>1, <1>2, <1>3, <1>4

\* A session leaves the map and its supervisor gets a Shutdown.
LEMMA StopBegins ==
    ASSUME Core, NEW id \in Live, NEW by, StopBegin(id, by),
           SpawnsStay, Pending' \subseteq Pending, sweep' \subseteq sweep,
           UNCHANGED <<permits, dirs, created, forsaken, lapsed>>
    PROVE  Core'
<1> USE DEF Core, Typed, Owned
<1>1. id \in Supervised /\ sup[id].pc # "teardown"
  BY DEF LiveSupervised
<1>2. [sup[id] EXCEPT !.mail = Append(@, "shutdown")] \in Supervisor
  BY <1>1, MailTyped DEF SupervisorsOK
<1>3. sup' = [sup EXCEPT ![id] = [sup[id] EXCEPT !.mail = Append(@, "shutdown")]]
  BY DEF StopBegin, Mail
<1>4. /\ SupervisorsOK'
      /\ Supervised' = Supervised
      /\ sup'[id] = [sup[id] EXCEPT !.mail = Append(@, "shutdown")]
      /\ \A i \in Supervised \ {id} : sup'[i] = sup[i]
  BY <1>1, <1>2, <1>3, SupMoves, Zenon
<1>5. sup'[id].pc = sup[id].pc
  BY <1>1, <1>4 DEF SupervisorsOK, Supervisor
<1>6. /\ Live' = Live \ {id}
      /\ SessionsOK'
  BY WithoutFacts DEF StopBegin, Live, SessionsOK, Without, Restrict
<1>7. DOMAIN stops' = DOMAIN stops \cup {id}
  BY WithFacts DEF StopBegin
<1>8. CallsOK'
  BY <1>6, <1>7, PendingShrinks, TranscodeAssumption DEF CallsOK, SpawnsStay, SessionsOK
<1>9. MarksOK'
  BY DEF MarksOK
<1>10. SpawnsOwn'
  BY <1>4, <1>6, <1>7 DEF SpawnsOwn, SpawnsStay
<1>11. LiveSupervised'
  BY <1>4, <1>6 DEF LiveSupervised
<1>12. SupervisorsHold'
  BY <1>4, <1>5 DEF SupervisorsHold
<1>13. Reclaimed'
  BY <1>1, <1>4, <1>5, <1>6, <1>7 DEF Reclaimed, SpawnsStay
<1> QED
  BY <1>4, <1>6, <1>8, <1>9, <1>10, <1>11, <1>12, <1>13

\* Stops end without their supervisor's ack: their ids are forsaken.
LEMMA StopsDropped ==
    ASSUME Core, NEW left \in SUBSET DOMAIN stops,
           DOMAIN stops' = DOMAIN stops \ left,
           permits' = permits \ left, forsaken' = forsaken \cup left,
           SpawnsStay, Pending' \subseteq Pending,
           UNCHANGED <<sessions, sup, sweep, dirs, created, lapsed>>
    PROVE  Core'
<1> USE DEF Core, Typed, Owned
<1>1. SessionsOK' /\ SupervisorsOK' /\ Live' = Live /\ Supervised' = Supervised
  BY DEF SessionsOK, SupervisorsOK, Live, Supervised
<1>2. CallsOK'
  BY <1>1, PendingShrinks, TranscodeAssumption DEF CallsOK, SpawnsStay
<1>3. MarksOK'
  BY DEF MarksOK, CallsOK
<1>4. SpawnsOwn'
  BY <1>1 DEF SpawnsOwn, SpawnsStay
<1>5. LiveSupervised' /\ SupervisorsHold' /\ Reclaimed'
  BY <1>1 DEF LiveSupervised, SupervisorsHold, Reclaimed, SpawnsStay
<1> QED
  BY <1>1, <1>2, <1>3, <1>4, <1>5

-----------------------------------------------------------------------------
(* Every step keeps the invariant *)

LEMMA CoreStart ==
    ASSUME Core, NEW c \in Clients, StartNext(c)
    PROVE  Core'
<1> USE DEF Core, Typed, Owned
<1>1. ASSUME NEW title \in Titles, NEW offset \in Offsets, StartAsk(c, title, offset)
      PROVE  Core'
  <2> DEFINE asked == [pc |-> "gate", title |-> title, asked |-> offset, id |-> 0]
  <2>1. asked \in Start
    BY TranscodeAssumption DEF Start
  <2>2. starts' = [starts EXCEPT ![c] = asked] /\ starts[c].pc = "none"
    BY <1>1 DEF StartAsk
  <2>3. starts' \in [Clients -> Start] /\ SpawnsStay
    BY <2>1, <2>2 DEF CallsOK, SpawnsStay
  <2>4. SessionsOK' /\ SupervisorsOK' /\ MarksOK' /\ Live' = Live /\ Supervised' = Supervised
    BY <1>1 DEF StartAsk, SessionsOK, SupervisorsOK, MarksOK, Live, Supervised
  <2>5. Pending' = Pending \cup {c}
    BY <2>2, <2>3 DEF Pending, CallsOK
  <2>6. Cardinality(Pending') <= Cardinality(Pending) + 1
    BY <2>5, PendingFinite, FS_AddElement, FS_CardinalityType
  <2>7. created + Cardinality(Pending') <= MaxSessions
    <3> DEFINE busy == {d \in Clients : starts[d].pc # "none"}
    <3>1. IsFiniteSet(busy) /\ Pending \subseteq busy
      BY FS_Subset, TranscodeAssumption DEF Pending
    <3>2. Cardinality(Pending) <= Cardinality(busy) /\ Cardinality(busy) \in Nat
      BY <3>1, FS_Subset, FS_CardinalityType
    <3>3. created + Cardinality(busy) < MaxSessions
      BY <1>1 DEF StartAsk
    <3> QED
      BY <2>6, <3>2, <3>3, PendingFinite, FS_CardinalityType, TranscodeAssumption DEF CallsOK
  <2>8. CallsOK'
    BY <1>1, <2>3, <2>4, <2>7 DEF StartAsk, CallsOK
  <2>9. Owned'
    BY <1>1, <2>3, <2>4 DEF StartAsk, SpawnsOwn, LiveSupervised, SupervisorsHold, Reclaimed, SpawnsStay
  <2> QED
    BY <2>4, <2>8, <2>9
<1>2. CASE StartGate(c) \/ StartSuperseded(c)
  <2>1. SpawnsStay /\ Pending' \subseteq Pending
    BY <1>2, TranscodeAssumption DEF StartGate, StartSuperseded, CallsOK, Start, SpawnsStay, Pending
  <2> QED
    BY <1>2, <2>1, StartsMove DEF StartGate, StartSuperseded
<1>3. CASE StartFind(c)
  <2>1. NoStart \in Start /\ NoStart.pc = "none"
    BY TranscodeAssumption DEF NoStart, Start
  <2>2. CASE starts' = [starts EXCEPT ![c] = NoStart] /\ UNCHANGED <<sessions, sup, stops>>
    <3>1. SpawnsStay /\ Pending' \subseteq Pending
      BY <1>3, <2>1, <2>2 DEF StartFind, CallsOK, SpawnsStay, Pending
    <3> QED
      BY <1>3, <2>2, <3>1, StartsMove DEF StartFind
  <2>3. CASE starts' = [starts EXCEPT ![c].pc = "admit"] /\ UNCHANGED <<sessions, sup, stops>>
    <3>1. starts[c].pc = "find" /\ starts \in [Clients -> Start]
      BY <1>3 DEF StartFind, CallsOK
    <3>2. /\ starts' = [starts EXCEPT ![c] = starts'[c]]
          /\ starts'[c] \in Start /\ starts'[c].pc = "admit"
      BY <2>3, <3>1 DEF Start
    <3>3. starts' \in [Clients -> Start]
      BY <3>1, <3>2
    <3>4. SpawnsStay
      BY <3>1, <3>2, <3>3 DEF SpawnsStay
    <3>5. Pending' \subseteq Pending
      BY <3>1, <3>2 DEF Pending
    <3> QED
      BY <1>3, <2>3, <3>4, <3>5, StartsMove DEF StartFind
  <2>4. ASSUME NEW id \in Live, StopBegin(id, c),
               starts' = [starts EXCEPT ![c].pc = "supersede", ![c].id = id]
        PROVE  Core'
    <3>1. id \in 0..MaxSessions
      <4>1. created <= MaxSessions
        BY PendingFinite, FS_CardinalityType, TranscodeAssumption DEF CallsOK
      <4> QED
        BY <4>1, TranscodeAssumption DEF SessionsOK, CallsOK
    <3>2. [starts[c] EXCEPT !.pc = "supersede", !.id = id] \in Start
      BY <3>1 DEF CallsOK, Start
    <3>3. starts' = [starts EXCEPT ![c] = [starts[c] EXCEPT !.pc = "supersede", !.id = id]]
      BY <2>4
    <3>4. SpawnsStay /\ Pending' \subseteq Pending
      BY <1>3, <3>2, <3>3 DEF StartFind, CallsOK, Start, SpawnsStay, Pending
    <3> QED
      BY <1>3, <2>4, <3>4, StopBegins DEF StartFind
  <2> QED
    BY <1>3, <2>2, <2>3, <2>4 DEF StartFind, SameTitle
<1>4. CASE StartAdmit(c)
  <2>1. CASE /\ starts' = [starts EXCEPT ![c] = NoStart]
             /\ UNCHANGED <<created, permits, dirs>>
    <3>1. NoStart \in Start /\ NoStart.pc = "none"
      BY TranscodeAssumption DEF NoStart, Start
    <3>2. SpawnsStay /\ Pending' \subseteq Pending
      BY <1>4, <2>1, <3>1 DEF StartAdmit, CallsOK, SpawnsStay, Pending
    <3> QED
      BY <1>4, <2>1, <3>2, StartsMove DEF StartAdmit
  <2>2. CASE /\ created' = created + 1
             /\ permits' = permits \cup {created'}
             /\ dirs' = dirs \cup {created'}
             /\ starts' = [starts EXCEPT ![c].pc = "spawn", ![c].id = created']
    <3>1. Pending' = Pending \ {c} /\ c \in Pending
      BY <1>4, <2>2 DEF StartAdmit, CallsOK, Start, Pending
    <3>2. Cardinality(Pending') = Cardinality(Pending) - 1 /\ Cardinality(Pending) \in Nat
      BY <3>1, PendingFinite, FS_RemoveElement, FS_CardinalityType
    <3>3. created' + Cardinality(Pending') <= MaxSessions /\ created' \in 0..MaxSessions
      BY <2>2, <3>2, PendingFinite, FS_CardinalityType, TranscodeAssumption DEF CallsOK
    <3>4. starts' \in [Clients -> Start]
      BY <2>2, <3>3 DEF CallsOK, Start
    <3>5. Live' = Live /\ Supervised' = Supervised /\ 1..created \subseteq 1..created'
      BY <1>4, <2>2 DEF StartAdmit, Live, Supervised, CallsOK
    <3>6. SessionsOK' /\ SupervisorsOK' /\ MarksOK'
      BY <1>4, <2>2, <3>5 DEF StartAdmit, SessionsOK, SupervisorsOK, MarksOK, CallsOK
    <3>7. CallsOK'
      BY <1>4, <2>2, <3>3, <3>4, <3>5 DEF StartAdmit, CallsOK
    <3>8. created' \notin Live \cup Supervised \cup DOMAIN stops \cup permits
      BY <2>2 DEF SessionsOK, SupervisorsOK, CallsOK, MarksOK
    <3>9. SpawnsOwn'
      BY <1>4, <2>2, <3>5, <3>8 DEF StartAdmit, SpawnsOwn, CallsOK, Start
    <3>10. LiveSupervised' /\ SupervisorsHold'
      BY <1>4, <2>2, <3>5, <3>8 DEF StartAdmit, LiveSupervised, SupervisorsHold
    <3>11. Reclaimed'
      BY <1>4, <2>2, <3>5, <3>8 DEF StartAdmit, Reclaimed, CallsOK, Start
    <3> QED
      BY <3>6, <3>7, <3>9, <3>10, <3>11
  <2> QED
    BY <1>4, <2>1, <2>2 DEF StartAdmit
<1>5. CASE StartSpawn(c)
  <2> DEFINE id == starts[c].id
             child == [pc |-> "running", mode |-> "crash", snap |-> 0,
                       long |-> FALSE, mail |-> << >>]
  <2>1. PICK offset \in Snapped(starts[c].asked) :
           sessions' = With(sessions, id,
              [title |-> starts[c].title, requested |-> starts[c].asked, start |-> offset,
               restarts |-> 0, idle |-> FALSE])
    BY <1>5 DEF StartSpawn
  <2> DEFINE session == [title |-> starts[c].title, requested |-> starts[c].asked,
                         start |-> offset, restarts |-> 0, idle |-> FALSE]
  <2>2. session \in Session
    <3>1. starts[c].title \in Titles /\ starts[c].asked \in Offsets
      BY DEF CallsOK, Start
    <3>2. offset \in 0..Duration
      BY <2>1, <3>1, SnappedTyped, TranscodeAssumption
    <3> QED
      BY <3>1, <3>2, TranscodeAssumption DEF Session
  <2>3. child \in Supervisor /\ child.mail \in Seq({"restart"}) /\ child.pc = "running"
    BY TranscodeAssumption DEF Supervisor
  <2>4. starts[c].pc = "spawn" /\ starts' = [starts EXCEPT ![c] = NoStart]
        /\ sup' = With(sup, id, child) /\ sessions' = With(sessions, id, session)
    BY <1>5, <2>1 DEF StartSpawn
  <2>5. NoStart \in Start /\ NoStart.pc = "none"
    BY TranscodeAssumption DEF NoStart, Start
  <2>6. /\ id \in permits \cap dirs
        /\ id \notin Live \cup Supervised \cup DOMAIN stops
        /\ id \in 1..created
    BY <2>4 DEF SpawnsOwn, MarksOK
  <2> HIDE DEF session, child
  <2>7. /\ Live' = Live \cup {id}
        /\ sessions'[id] = session
        /\ \A i \in Live : sessions'[i] = sessions[i]
    BY <2>4, <2>6 DEF Live, With
  <2>8. /\ Supervised' = Supervised \cup {id}
        /\ sup'[id] = child
        /\ \A i \in Supervised : sup'[i] = sup[i]
    BY <2>4, <2>6 DEF Supervised, With
  <2>9. SessionsOK'
    <3>1. sessions' \in [Live' -> Session]
      BY <2>2, <2>4, <2>7 DEF SessionsOK, With, Live
    <3> QED
      BY <1>5, <2>6, <2>7, <3>1 DEF StartSpawn, SessionsOK
  <2>10. SupervisorsOK'
    <3>1. sup' \in [Supervised' -> Supervisor]
      BY <2>3, <2>4, <2>8 DEF SupervisorsOK, With, Supervised
    <3> QED
      BY <1>5, <2>6, <2>8, <3>1 DEF StartSpawn, SupervisorsOK
  <2>11. Pending' \subseteq Pending /\ starts' \in [Clients -> Start]
    BY <2>4, <2>5 DEF Pending, CallsOK
  <2>12. CallsOK'
    BY <1>5, <2>6, <2>7, <2>11, PendingShrinks, TranscodeAssumption DEF StartSpawn, CallsOK
  <2>13. MarksOK'
    BY <1>5 DEF StartSpawn, MarksOK
  <2>14. SpawnsOwn'
    BY <1>5, <2>4, <2>5, <2>6, <2>7, <2>8 DEF StartSpawn, SpawnsOwn, CallsOK
  <2>15. LiveSupervised'
    BY <2>3, <2>7, <2>8 DEF LiveSupervised
  <2>16. SupervisorsHold'
    BY <1>5, <2>3, <2>6, <2>8 DEF StartSpawn, SupervisorsHold
  <2>17. Reclaimed'
    BY <1>5, <2>4, <2>5, <2>6, <2>7, <2>8 DEF StartSpawn, Reclaimed, CallsOK
  <2> QED
    BY <2>9, <2>10, <2>12, <2>13, <2>14, <2>15, <2>16, <2>17
<1>6. CASE StartFails(c)
  <2>1. NoStart \in Start /\ NoStart.pc = "none"
    BY TranscodeAssumption DEF NoStart, Start
  <2>2. starts' \in [Clients -> Start] /\ Pending' \subseteq Pending
    BY <1>6, <2>1 DEF StartFails, CallsOK, Pending
  <2>3. SessionsOK' /\ SupervisorsOK' /\ MarksOK' /\ Live' = Live /\ Supervised' = Supervised
    BY <1>6 DEF StartFails, SessionsOK, SupervisorsOK, MarksOK, Live, Supervised, SpawnsOwn
  <2>4. CallsOK'
    BY <1>6, <2>2, <2>3, PendingShrinks, TranscodeAssumption DEF StartFails, CallsOK
  <2>5. SpawnsOwn'
    BY <1>6, <2>1, <2>3 DEF StartFails, SpawnsOwn, CallsOK
  <2>6. LiveSupervised' /\ SupervisorsHold'
    BY <1>6, <2>3 DEF StartFails, LiveSupervised, SupervisorsHold
  <2>7. Reclaimed'
    BY <1>6, <2>1, <2>3 DEF StartFails, Reclaimed, CallsOK
  <2> QED
    BY <2>3, <2>4, <2>5, <2>6, <2>7
<1>7. CASE StartDropped(c)
  <2> DEFINE left == {id \in DOMAIN stops : stops[id] = c}
  <2>1. NoStart \in Start /\ NoStart.pc = "none"
    BY TranscodeAssumption DEF NoStart, Start
  <2>2. SpawnsStay /\ Pending' \subseteq Pending
    BY <1>7, <2>1 DEF StartDropped, CallsOK, SpawnsStay, Pending
  <2>3. DOMAIN stops' = DOMAIN stops \ left
    BY <1>7 DEF StartDropped, Restrict
  <2> QED
    BY <1>7, <2>2, <2>3, StopsDropped DEF StartDropped
<1> QED
  BY <1>1, <1>2, <1>3, <1>4, <1>5, <1>6, <1>7 DEF StartNext

LEMMA CorePlayer ==
    ASSUME Core, NEW id \in Ids, PlayerNext(id) \/ StopFinish(id)
    PROVE  Core'
<1> USE DEF Core, Typed, Owned
<1>1. CASE Heartbeat(id) \/ GoIdle(id)
  <2>1. SessionsOK' /\ Live' = Live
    <3>1. PICK idle \in BOOLEAN : sessions' = [sessions EXCEPT ![id].idle = idle]
      BY <1>1 DEF Heartbeat, GoIdle
    <3>2. id \in Live /\ created' = created
      BY <1>1 DEF Heartbeat, GoIdle
    <3>3. [sessions[id] EXCEPT !.idle = idle] \in Session
      BY <3>2 DEF SessionsOK, Session
    <3>4. sessions' = [sessions EXCEPT ![id] = [sessions[id] EXCEPT !.idle = idle]]
      BY <3>1, <3>2 DEF SessionsOK
    <3>5. Live' = Live
      BY <3>4 DEF Live
    <3>6. sessions' \in [Live -> Session]
      BY <3>3, <3>4 DEF SessionsOK
    <3> QED
      BY <3>2, <3>5, <3>6 DEF SessionsOK
  <2>2. SupervisorsOK' /\ Supervised' = Supervised
    BY <1>1 DEF Heartbeat, GoIdle, SupervisorsOK, Supervised
  <2>3. CallsOK'
    BY <1>1, <2>1 DEF Heartbeat, GoIdle, CallsOK, Pending
  <2>4. MarksOK'
    BY <1>1 DEF Heartbeat, GoIdle, MarksOK, SessionsOK, Session
  <2>5. Owned'
    BY <1>1, <2>1, <2>2 DEF Heartbeat, GoIdle, SpawnsOwn, LiveSupervised, SupervisorsHold, Reclaimed
  <2> QED
    BY <2>1, <2>2, <2>3, <2>4, <2>5
<1>2. CASE Delete(id)
  <2>1. SpawnsStay /\ Pending' \subseteq Pending /\ sweep' \subseteq sweep
    BY <1>2 DEF Delete, SpawnsStay, Pending, CallsOK
  <2> QED
    BY <1>2, <2>1, StopBegins DEF Delete
<1>3. CASE DeleteDropped(id)
  <2>1. SpawnsStay /\ Pending' \subseteq Pending
    BY <1>3 DEF DeleteDropped, SpawnsStay, Pending, CallsOK
  <2>2. DOMAIN stops' = DOMAIN stops \ {id}
    BY <1>3 DEF DeleteDropped, Without, Restrict
  <2> QED
    BY <1>3, <2>1, <2>2, StopsDropped DEF DeleteDropped
<1>4. ASSUME NEW to \in Offsets, Seek(id, to)
      PROVE  Core'
  <2> DEFINE v == [sup[id] EXCEPT !.mail = Append(@, "restart")]
  <2>1. id \in Live /\ id \in Supervised /\ sup[id].pc # "teardown"
    BY <1>4 DEF Seek, LiveSupervised
  <2>2. v \in Supervisor
    BY <2>1, MailTyped DEF SupervisorsOK
  <2>3. v.pc = sup[id].pc /\ v.mail = Append(sup[id].mail, "restart")
    BY <2>1 DEF SupervisorsOK, Supervisor
  <2>4. v.mail \in Seq({"restart"})
    BY <2>1, <2>3 DEF LiveSupervised
  <2>5. sup' = [sup EXCEPT ![id] = v]
    BY <1>4 DEF Seek, Mail
  <2>6. Live' = Live /\ sessions' \in [Live -> Session]
    BY <1>4, TranscodeAssumption DEF Seek, SessionsOK, Live, Session
  <2>7. v.pc \in {"running", "check"} => id \in dirs'
    BY <1>4, <2>1, <2>3 DEF Seek, SupervisorsHold
  <2> HIDE DEF v
  <2> QED
    BY <1>4, <2>1, <2>2, <2>3, <2>4, <2>5, <2>6, <2>7, SupStep DEF Seek
<1>5. CASE StopFinish(id)
  <2>1. SessionsOK' /\ SupervisorsOK' /\ Live' = Live /\ Supervised' = Supervised
    BY <1>5 DEF StopFinish, SessionsOK, SupervisorsOK, Live, Supervised
  <2>2. DOMAIN stops' = DOMAIN stops \ {id} /\ id \in DOMAIN stops
    BY <1>5 DEF StopFinish, Without, Restrict
  <2>3. CallsOK' /\ MarksOK'
    BY <1>5, <2>1, <2>2 DEF StopFinish, CallsOK, MarksOK, Pending
  <2>4. Owned'
    BY <1>5, <2>1, <2>2
    DEF StopFinish, SpawnsOwn, LiveSupervised, SupervisorsHold, Reclaimed
  <2> QED
    BY <2>1, <2>3, <2>4
<1> QED
  BY <1>1, <1>2, <1>3, <1>4, <1>5 DEF PlayerNext

LEMMA CoreSweep ==
    ASSUME Core, SweepNext
    PROVE  Core'
<1> USE DEF Core, Typed, Owned
<1>1. CASE SweepRead
  <2>1. SessionsOK' /\ SupervisorsOK' /\ Live' = Live /\ Supervised' = Supervised
    BY <1>1 DEF SweepRead, SessionsOK, SupervisorsOK, Live, Supervised
  <2>2. CallsOK' /\ MarksOK'
    BY <1>1, <2>1 DEF SweepRead, IdleIds, CallsOK, MarksOK, SessionsOK, Pending
  <2>3. Owned'
    BY <1>1, <2>1 DEF SweepRead, SpawnsOwn, LiveSupervised, SupervisorsHold, Reclaimed
  <2> QED
    BY <2>1, <2>2, <2>3
<1>2. ASSUME NEW id \in Ids, SweepStop(id)
      PROVE  Core'
  <2>1. SpawnsStay /\ Pending' \subseteq Pending /\ sweep' \subseteq sweep
    BY <1>2 DEF SweepStop, SpawnsStay, Pending, CallsOK
  <2>2. CASE id \in Live
    BY <1>2, <2>1, <2>2, StopBegins DEF SweepStop
  <2>3. CASE id \notin Live
    <3>1. UNCHANGED <<sessions, sup, stops>>
      BY <1>2, <2>3 DEF SweepStop
    <3>2. SessionsOK' /\ SupervisorsOK' /\ Live' = Live /\ Supervised' = Supervised
      BY <1>2, <3>1 DEF SweepStop, SessionsOK, SupervisorsOK, Live, Supervised
    <3>3. CallsOK' /\ MarksOK'
      BY <1>2, <2>1, <3>1, <3>2 DEF SweepStop, CallsOK, MarksOK, Pending
    <3>4. Owned'
      BY <1>2, <3>1, <3>2 DEF SweepStop, SpawnsOwn, LiveSupervised, SupervisorsHold, Reclaimed
    <3> QED
      BY <3>2, <3>3, <3>4
  <2> QED
    BY <2>2, <2>3
<1> QED
  BY <1>1, <1>2 DEF SweepNext

\* A supervisor that moves with its session's record untouched.
LEMMA SupMovesOn ==
    ASSUME Core, NEW id \in Supervised, NEW v \in Supervisor,
           sup' = [sup EXCEPT ![id] = v],
           sup[id].pc # "teardown", v.pc \notin {"teardown", "check", "running"},
           v.mail = sup[id].mail,
           UNCHANGED <<sessions, starts, stops, sweep, permits, dirs, created, forsaken, lapsed>>
    PROVE  Core'
<1>1. id \in Live => v.mail \in Seq({"restart"})
  BY DEF Core, Owned, LiveSupervised
<1>2. Live' = Live /\ sessions' \in [Live -> Session]
  BY DEF Live, Core, Typed, SessionsOK
<1> QED
  BY <1>1, <1>2, SupStep

LEMMA CoreSupervise ==
    ASSUME Core, NEW id \in Ids, SuperviseNext(id) \/ ChildExits(id)
    PROVE  Core'
<1> USE DEF Core, Typed, Owned
<1>0. /\ id \in Supervised
      /\ sup[id] \in Supervisor
  BY DEF SupervisorsOK, SuperviseNext, ChildExits, Receives, TakeRestart, TakeShutdown, Crashed,
         Teardown, BackoffEnds, RespawnRead, RespawnWrite, RespawnSpawn, RespawnCheck
<1>1. CASE ChildExits(id)
  <2>1. PICK pc \in {"completed", "crashed"}, long \in BOOLEAN :
           sup' = [sup EXCEPT ![id] = [sup[id] EXCEPT !.pc = pc, !.long = long]]
    <3>1. CASE Becomes(id, "completed")
      <4>1. [sup[id] EXCEPT !.pc = "completed", !.long = sup[id].long]
               = [sup[id] EXCEPT !.pc = "completed"] /\ sup[id].long \in BOOLEAN
        BY <1>0 DEF Supervisor
      <4> QED
        BY <3>1, <4>1 DEF Becomes
    <3>2. CASE \E long \in BOOLEAN : sup' = [sup EXCEPT ![id].pc = "crashed", ![id].long = long]
      BY <3>2, <1>0 DEF SupervisorsOK, Supervisor
    <3> QED
      BY <1>1, <3>1, <3>2 DEF ChildExits
  <2> DEFINE v == [sup[id] EXCEPT !.pc = pc, !.long = long]
  <2>2. v \in Supervisor /\ v.pc \notin {"teardown", "check", "running"} /\ v.mail = sup[id].mail
    BY <1>0 DEF Supervisor
  <2> QED
    BY <1>0, <1>1, <2>1, <2>2, SupMovesOn DEF ChildExits
<1>2. CASE TakeRestart(id)
  <2> DEFINE v == [sup[id] EXCEPT !.pc = "read", !.mode = "seek", !.mail = Tail(@)]
  <2>1. sup' = [sup EXCEPT ![id] = v]
    BY <1>2, <1>0 DEF TakeRestart
  <2>2. sup[id].mail \in Seq({"restart", "shutdown"}) /\ sup[id].mail # << >>
    BY <1>0, <1>2 DEF Supervisor, TakeRestart, Receives
  <2>3. Tail(sup[id].mail) \in Seq({"restart", "shutdown"})
    BY <2>2
  <2>4. v \in Supervisor /\ v.pc = "read" /\ v.mail = Tail(sup[id].mail)
    <3> DEFINE mail == Tail(sup[id].mail)
    <3>1. mail \in Seq({"restart", "shutdown"})
      BY <2>3
    <3> HIDE DEF mail
    <3>2. [sup[id] EXCEPT !.pc = "read", !.mode = "seek", !.mail = mail] \in Supervisor
      BY <1>0, <3>1 DEF Supervisor
    <3> QED
      BY <1>0, <3>2 DEF mail, Supervisor
  <2>5. id \in Live => v.mail \in Seq({"restart"})
    BY <2>2, <2>4 DEF LiveSupervised
  <2>6. sup[id].pc # "teardown"
    BY <1>2 DEF TakeRestart, Receives
  <2>7. /\ Live' = Live /\ sessions' \in [Live -> Session]
        /\ UNCHANGED <<sessions, starts, stops, sweep, permits, dirs, created, forsaken, lapsed>>
    BY <1>2 DEF TakeRestart, Live, SessionsOK
  <2> HIDE DEF v
  <2> QED
    BY <1>0, <2>1, <2>4, <2>5, <2>6, <2>7, SupStep
<1>3. CASE TakeShutdown(id)
  <2>1. sup[id].mail \in Seq({"restart", "shutdown"}) /\ sup[id].mail # << >>
        /\ Head(sup[id].mail) = "shutdown" /\ sup[id].pc # "teardown"
    BY <1>0, <1>3 DEF Supervisor, TakeShutdown, Receives
  <2>2. id \notin Live
    <3>1. ASSUME sup[id].mail \in Seq({"restart"}) PROVE Head(sup[id].mail) \in {"restart"}
      BY <2>1, <3>1
    <3> QED
      BY <2>1, <3>1 DEF LiveSupervised
  <2> QED
    BY <1>0, <1>3, <2>1, <2>2, SupEnd DEF TakeShutdown
<1>4. CASE Crashed(id)
  <2>1. CASE id \notin Live
    BY <1>0, <1>4, <2>1, SupEnd DEF Crashed
  <2>2. CASE id \in Live /\ Budget(id) < MaxRestarts
    <3> DEFINE v == [sup[id] EXCEPT !.pc = "backoff", !.long = FALSE]
    <3>0. Budget(id) \in Nat /\ MaxRestarts \in Nat
      BY <2>2, BoundsNat DEF Budget, SessionsOK, Session
    <3>1. /\ sessions' = [sessions EXCEPT ![id].restarts = Budget(id) + 1]
          /\ sup' = [sup EXCEPT ![id].pc = "backoff", ![id].long = FALSE]
          /\ sup[id].pc = "crashed"
          /\ UNCHANGED permits
      BY <1>4, <2>2, <3>0 DEF Crashed
    <3>2. v \in Supervisor /\ v.pc = "backoff" /\ v.mail = sup[id].mail
      BY <1>0 DEF Supervisor
    <3>3. Budget(id) + 1 \in 0..MaxRestarts
      BY <2>2, <3>0
    <3>4. Live' = Live /\ sessions' \in [Live -> Session]
      BY <2>2, <3>1, <3>3 DEF SessionsOK, Session, Live
    <3>5. id \in Live => v.mail \in Seq({"restart"})
      BY <3>2 DEF LiveSupervised
    <3>6. UNCHANGED <<starts, stops, sweep, permits, dirs, created, forsaken, lapsed>>
      BY <1>4, <3>1 DEF Crashed
    <3>7. sup' = [sup EXCEPT ![id] = v]
      BY <1>0, <3>1
    <3> HIDE DEF v
    <3> QED
      BY <1>0, <3>1, <3>2, <3>4, <3>5, <3>6, <3>7, SupStep
  <2>3. CASE /\ id \in Live
             /\ sessions' = Without(sessions, id)
             /\ permits' = permits \ {id}
             /\ Becomes(id, "teardown")
    <3> DEFINE v == [sup[id] EXCEPT !.pc = "teardown"]
    <3>1. v \in Supervisor /\ v.pc = "teardown"
      BY <1>0 DEF Supervisor
    <3>2. sup' = [sup EXCEPT ![id] = v] /\ UNCHANGED created
      BY <1>4, <2>3 DEF Crashed, Becomes
    <3> HIDE DEF v
    <3>3. /\ SupervisorsOK'
          /\ Supervised' = Supervised
          /\ sup'[id] = v
          /\ \A i \in Supervised \ {id} : sup'[i] = sup[i]
      BY <1>0, <3>1, <3>2, SupMoves
    <3>4. /\ Live' = Live \ {id}
          /\ SessionsOK'
      BY <2>3, <3>2 DEF Live, SessionsOK, Without, Restrict
    <3>5. CallsOK' /\ MarksOK'
      BY <1>4, <2>3, <3>4 DEF Crashed, CallsOK, MarksOK, Pending
    <3>6. SpawnsOwn'
      BY <1>4, <2>3, <3>3, <3>4 DEF Crashed, SpawnsOwn
    <3>7. LiveSupervised' /\ SupervisorsHold'
      BY <1>4, <2>3, <3>1, <3>3, <3>4 DEF Crashed, LiveSupervised, SupervisorsHold
    <3>8. Reclaimed'
      BY <1>4, <2>3, <3>1, <3>3, <3>4 DEF Crashed, Reclaimed
    <3> QED
      BY <3>3, <3>4, <3>5, <3>6, <3>7, <3>8
  <2> QED
    BY <1>4, <2>1, <2>2, <2>3 DEF Crashed
<1>5. CASE Teardown(id)
  <2>1. id \notin Live
    BY <1>5 DEF Teardown, LiveSupervised
  <2> QED
    BY <1>0, <1>5, <2>1, SupEnd DEF Teardown
<1>6. CASE BackoffEnds(id)
  <2> DEFINE v == [sup[id] EXCEPT !.pc = "read", !.mode = "crash"]
  <2>1. v \in Supervisor /\ v.pc = "read" /\ v.mail = sup[id].mail
    BY <1>0 DEF Supervisor
  <2>2. sup' = [sup EXCEPT ![id] = v]
    BY <1>0, <1>6 DEF BackoffEnds
  <2> HIDE DEF v
  <2> QED
    BY <1>0, <1>6, <2>1, <2>2, SupMovesOn DEF BackoffEnds
<1>7. CASE RespawnRead(id)
  <2>1. CASE id \notin Live
    BY <1>0, <1>7, <2>1, SupEnd DEF RespawnRead
  <2>2. CASE id \in Live
    <3> DEFINE v == [sup[id] EXCEPT !.pc = "write", !.snap = sessions[id].start]
    <3>1. sessions[id].start \in 0..Duration
      BY <2>2 DEF SessionsOK, Session
    <3>2. v \in Supervisor /\ v.pc = "write" /\ v.mail = sup[id].mail
      BY <1>0, <3>1 DEF Supervisor
    <3>3. sup' = [sup EXCEPT ![id] = v]
      BY <1>0, <1>7, <2>2 DEF RespawnRead
    <3> HIDE DEF v
    <3> QED
      BY <1>0, <1>7, <3>2, <3>3, SupMovesOn DEF RespawnRead
  <2> QED
    BY <2>1, <2>2
<1>8. CASE RespawnWrite(id)
  <2>1. CASE id \notin Live
    BY <1>0, <1>8, <2>1, SupEnd DEF RespawnWrite
  <2>2. CASE id \in Live
    <3> DEFINE v == [sup[id] EXCEPT !.pc = "spawn", !.mode = "crash", !.snap = 0]
    <3>1. v \in Supervisor /\ v.pc = "spawn" /\ v.mail = sup[id].mail
      <4>1. 0 \in 0..Duration
        BY BoundsNat
      <4> QED
        BY <1>0, <4>1 DEF Supervisor
    <3>2. sup' = [sup EXCEPT ![id] = v] /\ sup[id].pc = "write"
      BY <1>0, <1>8, <2>2 DEF RespawnWrite
    <3>3. PICK offset \in SpawnOffsets(id) : sessions' = [sessions EXCEPT ![id].start = offset]
      BY <1>8, <2>2 DEF RespawnWrite
    <3>4. offset \in 0..Duration
      <4>1. sup[id].snap \in 0..Duration
        BY <1>0 DEF Supervisor
      <4> QED
        BY <3>3, <4>1, SnappedTyped DEF SpawnOffsets
    <3>5. Live' = Live /\ sessions' \in [Live -> Session]
      BY <2>2, <3>3, <3>4 DEF SessionsOK, Session, Live
    <3>6. id \in Live => v.mail \in Seq({"restart"})
      BY <3>1 DEF LiveSupervised
    <3> HIDE DEF v
    <3> QED
      BY <1>0, <1>8, <3>1, <3>2, <3>5, <3>6, SupStep DEF RespawnWrite
  <2> QED
    BY <2>1, <2>2
<1>9. CASE RespawnSpawn(id)
  <2>1. PICK pc \in {"check", "crashed"}, long \in BOOLEAN :
           /\ sup' = [sup EXCEPT ![id] = [sup[id] EXCEPT !.pc = pc, !.long = long]]
           /\ pc = "check" => id \in dirs'
    <3>1. CASE dirs' = dirs \cup {id} /\ Becomes(id, "check")
      <4>1. [sup[id] EXCEPT !.pc = "check", !.long = sup[id].long]
               = [sup[id] EXCEPT !.pc = "check"] /\ sup[id].long \in BOOLEAN
        BY <1>0 DEF Supervisor
      <4> QED
        BY <3>1, <4>1 DEF Becomes
    <3>2. CASE sup' = [sup EXCEPT ![id].pc = "crashed", ![id].long = FALSE]
      BY <3>2, <1>0 DEF SupervisorsOK, Supervisor
    <3> QED
      BY <1>9, <3>1, <3>2 DEF RespawnSpawn
  <2> DEFINE v == [sup[id] EXCEPT !.pc = pc, !.long = long]
  <2>2. v \in Supervisor /\ v.pc = pc /\ v.mail = sup[id].mail
    BY <1>0 DEF Supervisor
  <2>3. id \in Live => v.mail \in Seq({"restart"})
    BY <2>2 DEF LiveSupervised
  <2>4. Live' = Live /\ sessions' \in [Live -> Session]
    BY <1>9 DEF RespawnSpawn, Live, SessionsOK
  <2>5. dirs \subseteq dirs' /\ dirs' \subseteq dirs \cup {id}
        /\ sup[id].pc = "spawn"
        /\ UNCHANGED <<starts, stops, sweep, permits, created, forsaken, lapsed>>
    BY <1>9 DEF RespawnSpawn
  <2>6. sup' = [sup EXCEPT ![id] = v] /\ (v.pc \in {"running", "check"} => id \in dirs')
        /\ v.pc # "teardown"
    BY <2>1, <2>2
  <2> HIDE DEF v
  <2> QED
    BY <1>0, <2>2, <2>3, <2>4, <2>5, <2>6, SupStep
<1>10. CASE RespawnCheck(id)
  <2>1. CASE id \notin Live
    BY <1>0, <1>10, <2>1, SupEnd DEF RespawnCheck
  <2>2. CASE id \in Live
    <3> DEFINE v == [sup[id] EXCEPT !.pc = "running"]
    <3>1. v \in Supervisor /\ v.pc = "running" /\ v.mail = sup[id].mail
      BY <1>0 DEF Supervisor
    <3>2. sup' = [sup EXCEPT ![id] = v] /\ sup[id].pc = "check" /\ UNCHANGED dirs
      BY <1>10, <2>2 DEF RespawnCheck, Becomes
    <3>3. Live' = Live /\ sessions' \in [Live -> Session]
      BY <1>10 DEF RespawnCheck, Live, SessionsOK
    <3>4. id \in Live => v.mail \in Seq({"restart"})
      BY <3>1 DEF LiveSupervised
    <3>5. id \in dirs'
      BY <1>0, <3>2 DEF SupervisorsHold
    <3> HIDE DEF v
    <3> QED
      BY <1>0, <1>10, <3>1, <3>2, <3>3, <3>4, <3>5, SupStep DEF RespawnCheck
  <2> QED
    BY <2>1, <2>2
<1> QED
  BY <1>1, <1>2, <1>3, <1>4, <1>5, <1>6, <1>7, <1>8, <1>9, <1>10 DEF SuperviseNext

LEMMA CoreStutter == Core /\ UNCHANGED transcodeVars => Core'
<1> SUFFICES ASSUME Core, UNCHANGED transcodeVars PROVE Core'
  OBVIOUS
<1> USE DEF Core, Typed, Owned, transcodeVars
<1>1. SessionsOK' /\ SupervisorsOK' /\ Live' = Live /\ Supervised' = Supervised
  BY DEF SessionsOK, SupervisorsOK, Live, Supervised
<1>2. CallsOK' /\ MarksOK'
  BY <1>1 DEF CallsOK, MarksOK, Pending
<1>3. Owned'
  BY <1>1 DEF SpawnsOwn, LiveSupervised, SupervisorsHold, Reclaimed
<1> QED
  BY <1>1, <1>2, <1>3

\* What every step of the sessions and supervisors rests on.
THEOREM TranscodeInvariant == TranscodeSpec => []Core
<1>1. Core /\ [TranscodeNext]_transcodeVars => Core'
  BY CoreStart, CorePlayer, CoreSweep, CoreSupervise, CoreStutter DEF TranscodeNext
<1> QED
  BY <1>1, CoreInit, PTL DEF TranscodeSpec

-----------------------------------------------------------------------------
(* One session per title, and one more for every lapse *)

\* The gate of a title lets one start in.
GateAlone ==
    \A c, d \in Clients :
        c # d /\ InGate(c) /\ InGate(d) => starts[c].title # starts[d].title

IdleLapsed ==
    \A id \in Live : sessions[id].idle => id \in lapsed[sessions[id].title]

\* Starts that looked for a session of their title and will add one.
Late == {c \in Clients : starts[c].pc \in {"supersede", "admit", "spawn"}}

\* There is room for what a start is going to add.
RoomLeft ==
    \A c \in Late, t \in Titles :
        starts[c].title = t => Cardinality(OfTitle(t)) <= Cardinality(lapsed[t])

Shared == GateAlone /\ IdleLapsed /\ RoomLeft /\ DuplicateLapsed

LEMMA CountsFinite ==
    ASSUME Typed, NEW t \in Titles
    PROVE  /\ IsFiniteSet(OfTitle(t)) /\ IsFiniteSet(lapsed[t])
           /\ Cardinality(OfTitle(t)) \in Nat /\ Cardinality(lapsed[t]) \in Nat
<1>1. IsFiniteSet(1..created)
  BY FS_Interval DEF Typed, CallsOK
<1>2. OfTitle(t) \subseteq 1..created /\ lapsed[t] \subseteq 1..created
  BY DEF Typed, OfTitle, SessionsOK, MarksOK
<1> QED
  BY <1>1, <1>2, FS_Subset, FS_CardinalityType

\* Sessions end, or live on under their title and become no idler.
SessionsCalm ==
    /\ Live' \subseteq Live
    /\ \A id \in Live' : /\ sessions'[id].title = sessions[id].title
                         /\ sessions'[id].idle => sessions[id].idle

\* No start passes its gate or its search.
GateQuiet ==
    \A c \in Clients :
        /\ InGate(c)' => InGate(c) /\ starts'[c].title = starts[c].title
        /\ c \in Late' => c \in Late

LEMMA CalmCounts ==
    ASSUME Typed, Typed', SessionsCalm, UNCHANGED lapsed, NEW t \in Titles
    PROVE  /\ Cardinality(OfTitle(t)') <= Cardinality(OfTitle(t))
           /\ Cardinality(OfTitle(t)') \in Nat /\ Cardinality(OfTitle(t)) \in Nat
           /\ Cardinality(lapsed[t]) \in Nat
<1>1. OfTitle(t)' \subseteq OfTitle(t)
  BY DEF OfTitle, SessionsCalm
<1>2. Cardinality(OfTitle(t)') \in Nat
  BY <1>1, CountsFinite, FS_Subset, FS_CardinalityType
<1> QED
  BY <1>1, <1>2, CountsFinite, FS_Subset

LEMMA CalmStep ==
    ASSUME Typed, Typed', Shared, SessionsCalm, UNCHANGED lapsed, GateQuiet
    PROVE  Shared'
<1>1. GateAlone'
  BY DEF Shared, GateAlone, GateQuiet
<1>2. IdleLapsed'
  BY DEF Shared, IdleLapsed, SessionsCalm
<1>3. RoomLeft'
  <2> SUFFICES ASSUME NEW c \in Late', NEW t \in Titles, starts'[c].title = t
               PROVE  Cardinality(OfTitle(t)') <= Cardinality(lapsed[t])
    BY DEF RoomLeft
  <2>1. c \in Late /\ starts[c].title = t
    BY DEF GateQuiet, Late, InGate
  <2>2. Cardinality(OfTitle(t)) <= Cardinality(lapsed[t])
    BY <2>1 DEF Shared, RoomLeft
  <2> QED
    BY <2>2, CalmCounts
<1>4. DuplicateLapsed'
  BY CalmCounts DEF Shared, DuplicateLapsed
<1> QED
  BY <1>1, <1>2, <1>3, <1>4 DEF Shared

\* The search of a start: it ends its call, or makes room for its session.
LEMMA SharedFind ==
    ASSUME Typed, Typed', Shared, NEW c \in Clients, StartFind(c),
           NEW t \in Titles, starts[c].title = t
    PROVE  Shared'
<1>1. InGate(c) /\ starts[c].pc = "find" /\ UNCHANGED lapsed
  BY DEF StartFind, InGate, Typed, CallsOK, Start
<1>2. SessionsCalm
  BY DEF StartFind, SessionsCalm, StopBegin, Without, Restrict, Live
<1>3. ASSUME NEW d \in Clients, d # c
      PROVE  starts'[d] = starts[d]
  BY <1>3 DEF StartFind, Typed, CallsOK
<1>4. /\ starts'[c].pc \in {"none", "admit", "supersede"}
      /\ starts'[c].pc # "none" => starts'[c].title = t
      /\ starts'[c].pc # "none" => Cardinality(OfTitle(t)') <= Cardinality(lapsed[t])
  <2>1. CASE SameTitle(t) = {} /\ starts' = [starts EXCEPT ![c].pc = "admit"]
             /\ UNCHANGED sessions
    <3>1. OfTitle(t)' \subseteq lapsed[t]
      BY <2>1 DEF OfTitle, SameTitle, Shared, IdleLapsed, Live
    <3>2. Cardinality(OfTitle(t)') <= Cardinality(lapsed[t])
      BY <1>1, <3>1, CountsFinite, FS_Subset
    <3> QED
      BY <1>1, <2>1, <3>2 DEF Typed, CallsOK, Start
  <2>2. CASE starts' = [starts EXCEPT ![c] = NoStart]
    BY <2>2 DEF NoStart, Typed, CallsOK
  <2>3. ASSUME NEW id \in SameTitle(t), StopBegin(id, c),
               starts' = [starts EXCEPT ![c].pc = "supersede", ![c].id = id]
        PROVE  <1>4!1 /\ <1>4!2 /\ <1>4!3
    <3>1. id \in OfTitle(t) /\ OfTitle(t)' = OfTitle(t) \ {id}
      BY <2>3 DEF OfTitle, SameTitle, StopBegin, Without, Restrict, Live
    <3>2. IsFiniteSet(OfTitle(t))
      BY CountsFinite
    <3>3. Cardinality(OfTitle(t) \ {id}) = Cardinality(OfTitle(t)) - 1
      BY <3>1, <3>2, FS_RemoveElement
    <3>4. Cardinality(OfTitle(t)') = Cardinality(OfTitle(t)) - 1
      BY <3>1, <3>3
    <3>5. Cardinality(OfTitle(t)) <= 1 + Cardinality(lapsed[t])
      BY <1>1 DEF Shared, DuplicateLapsed
    <3>6. Cardinality(OfTitle(t)') <= Cardinality(lapsed[t])
      BY <1>1, <3>4, <3>5, CountsFinite
    <3> QED
      BY <1>1, <2>3, <3>6 DEF Typed, CallsOK, Start
  <2> QED
    BY <2>1, <2>2, <2>3 DEF StartFind
<1>5. GateAlone'
  <2>1. ASSUME NEW d \in Clients, InGate(d)'
        PROVE  InGate(d) /\ starts'[d].title = starts[d].title
    BY <1>1, <1>3, <1>4, <2>1 DEF InGate
  <2> QED
    BY <2>1 DEF GateAlone, Shared
<1>6. IdleLapsed'
  BY <1>1, <1>2 DEF Shared, IdleLapsed, SessionsCalm
<1>7. RoomLeft'
  <2> SUFFICES ASSUME NEW d \in Late', NEW u \in Titles, starts'[d].title = u
               PROVE  Cardinality(OfTitle(u)') <= Cardinality(lapsed[u])
    BY <1>1 DEF RoomLeft
  <2>1. d \in Clients /\ starts'[d].pc # "none"
    BY DEF Late
  <2>2. CASE d = c
    BY <1>4, <2>1, <2>2
  <2>3. CASE d # c
    <3>1. d \in Late /\ starts[d].title = u
      BY <1>3, <2>1, <2>3 DEF Late
    <3>2. Cardinality(OfTitle(u)) <= Cardinality(lapsed[u])
      BY <3>1 DEF Shared, RoomLeft
    <3> QED
      BY <1>1, <1>2, <3>2, CalmCounts
  <2> QED
    BY <2>2, <2>3
<1>8. DuplicateLapsed'
  <2> SUFFICES ASSUME NEW u \in Titles
               PROVE  Cardinality(OfTitle(u)') <= 1 + Cardinality(lapsed[u])
    BY <1>1 DEF DuplicateLapsed
  <2>1. Cardinality(OfTitle(u)) <= 1 + Cardinality(lapsed[u])
    BY DEF Shared, DuplicateLapsed
  <2> QED
    BY <1>1, <1>2, <2>1, CalmCounts
<1> QED
  BY <1>5, <1>6, <1>7, <1>8 DEF Shared

\* The session that takes the room its start found or made.
LEMMA SharedSpawn ==
    ASSUME Core, Typed', Shared, NEW c \in Clients, StartSpawn(c),
           NEW t \in Titles, starts[c].title = t
    PROVE  Shared'
<1> DEFINE id == starts[c].id
<1>1. /\ InGate(c) /\ c \in Late
      /\ starts' = [starts EXCEPT ![c] = NoStart] /\ UNCHANGED lapsed
  BY DEF StartSpawn, InGate, Late, Core, Typed, CallsOK, Start
<1>2. id \notin Live
  BY DEF StartSpawn, Core, Owned, SpawnsOwn
<1>3. /\ Live' = Live \cup {id}
      /\ sessions'[id].title = t /\ sessions'[id].idle = FALSE
      /\ \A i \in Live : sessions'[i] = sessions[i]
  BY <1>2 DEF StartSpawn, With, Live
<1>4. OfTitle(t)' = OfTitle(t) \cup {id} /\ id \notin OfTitle(t)
  BY <1>2, <1>3 DEF OfTitle
<1>5. \A u \in Titles \ {t} : OfTitle(u)' = OfTitle(u)
  BY <1>3 DEF OfTitle
<1>6. Cardinality(OfTitle(t)') = Cardinality(OfTitle(t)) + 1
  BY <1>1, <1>4, CountsFinite, FS_AddElement DEF Core
<1>7. Cardinality(OfTitle(t)) <= Cardinality(lapsed[t])
  BY <1>1 DEF Shared, RoomLeft
<1>8. starts'[c].pc = "none" /\ \A d \in Clients \ {c} : starts'[d] = starts[d]
  BY <1>1 DEF NoStart, Core, Typed, CallsOK
<1>9. GateAlone'
  BY <1>8 DEF GateAlone, InGate, Shared
<1>10. IdleLapsed'
  BY <1>1, <1>3 DEF IdleLapsed, Shared
<1>11. RoomLeft'
  <2> SUFFICES ASSUME NEW d \in Late', NEW u \in Titles, starts'[d].title = u
               PROVE  Cardinality(OfTitle(u)') <= Cardinality(lapsed[u])
    BY <1>1 DEF RoomLeft
  <2>1. d \in Late /\ d \in Clients \ {c} /\ starts[d].title = u /\ InGate(d)
    BY <1>8 DEF Late, InGate
  <2>2. u # t
    BY <1>1, <2>1 DEF Shared, GateAlone
  <2> QED
    BY <1>5, <2>1, <2>2 DEF Shared, RoomLeft
<1>12. DuplicateLapsed'
  <2> SUFFICES ASSUME NEW u \in Titles
               PROVE  Cardinality(OfTitle(u)') <= 1 + Cardinality(lapsed[u])
    BY <1>1 DEF DuplicateLapsed
  <2>1. CASE u = t
    BY <1>1, <1>6, <1>7, <2>1, CountsFinite DEF Core
  <2>2. CASE u # t
    BY <1>5, <2>2 DEF Shared, DuplicateLapsed
  <2> QED
    BY <2>1, <2>2
<1> QED
  BY <1>9, <1>10, <1>11, <1>12 DEF Shared

\* A lapse is counted.
LEMMA SharedLapse ==
    ASSUME Typed, Typed', Shared, NEW id \in Ids, GoIdle(id)
    PROVE  Shared'
<1>1. /\ Live' = Live /\ id \in Live /\ sessions[id].title \in Titles
      /\ \A i \in Live : sessions'[i].title = sessions[i].title
      /\ \A i \in Live \ {id} : sessions'[i].idle = sessions[i].idle
      /\ UNCHANGED starts
  BY DEF GoIdle, Live, Typed, SessionsOK, Session
<1>2. \A t \in Titles : OfTitle(t)' = OfTitle(t)
  BY <1>1 DEF OfTitle
<1>3. /\ id \in lapsed'[sessions[id].title]
      /\ \A t \in Titles : lapsed[t] \subseteq lapsed'[t]
  BY <1>1 DEF GoIdle, Typed, MarksOK
<1>4. \A t \in Titles : Cardinality(lapsed[t]) <= Cardinality(lapsed'[t])
                        /\ Cardinality(lapsed'[t]) \in Nat /\ Cardinality(lapsed[t]) \in Nat
                        /\ Cardinality(OfTitle(t)) \in Nat
  <2> TAKE t \in Titles
  <2>1. IsFiniteSet(lapsed'[t])
    <3>1. IsFiniteSet(1..created') /\ lapsed'[t] \subseteq 1..created'
      BY FS_Interval DEF Typed, CallsOK, MarksOK
    <3> QED
      BY <3>1, FS_Subset
  <2> QED
    BY <1>3, <2>1, CountsFinite, FS_Subset, FS_CardinalityType
<1>5. GateAlone'
  BY <1>1 DEF GateAlone, InGate, Shared
<1>6. IdleLapsed'
  <2> SUFFICES ASSUME NEW i \in Live, sessions'[i].idle
               PROVE  i \in lapsed'[sessions[i].title]
    BY <1>1 DEF IdleLapsed
  <2>1. CASE i = id
    BY <1>3, <2>1
  <2>2. CASE i # id
    BY <1>1, <1>3, <2>2 DEF Shared, IdleLapsed, Typed, SessionsOK, Session
  <2> QED
    BY <2>1, <2>2
<1>7. RoomLeft'
  <2> SUFFICES ASSUME NEW c \in Late, NEW t \in Titles, starts[c].title = t
               PROVE  Cardinality(OfTitle(t)') <= Cardinality(lapsed'[t])
    BY <1>1 DEF RoomLeft, Late
  <2>1. Cardinality(OfTitle(t)) <= Cardinality(lapsed[t])
    BY DEF Shared, RoomLeft
  <2> QED
    BY <1>2, <1>4, <2>1
<1>8. DuplicateLapsed'
  BY <1>2, <1>4 DEF Shared, DuplicateLapsed
<1> QED
  BY <1>5, <1>6, <1>7, <1>8 DEF Shared

LEMMA SharedGate ==
    ASSUME Typed, Typed', Shared, NEW c \in Clients, StartGate(c)
    PROVE  Shared'
<1>1. /\ starts[c].pc = "gate" /\ starts'[c].pc = "find" /\ starts'[c].title = starts[c].title
      /\ \A d \in Clients \ {c} : starts'[d] = starts[d]
      /\ UNCHANGED <<sessions, lapsed>>
  BY DEF StartGate, Typed, CallsOK, Start
<1>2. GateAlone'
  BY <1>1 DEF GateAlone, InGate, Shared, StartGate
<1>3. IdleLapsed' /\ DuplicateLapsed'
  BY <1>1 DEF IdleLapsed, DuplicateLapsed, OfTitle, Live, Shared
<1>4. Late' = Late /\ \A d \in Late : starts'[d].title = starts[d].title
  BY <1>1 DEF Late
<1>5. RoomLeft'
  BY <1>1, <1>4 DEF RoomLeft, OfTitle, Live, Shared
<1> QED
  BY <1>2, <1>3, <1>5 DEF Shared

LEMMA SharedInit == TranscodeInit => Shared
<1> SUFFICES ASSUME TranscodeInit PROVE Shared
  OBVIOUS
<1>1. Live = {} /\ \A c \in Clients : starts[c].pc = "none"
  BY DEF TranscodeInit, Live, NoStart
<1>2. GateAlone /\ IdleLapsed /\ RoomLeft
  BY <1>1 DEF GateAlone, IdleLapsed, RoomLeft, Late, InGate
<1>3. \A t \in Titles : OfTitle(t) = {} /\ lapsed[t] = {}
  BY <1>1 DEF OfTitle, TranscodeInit
<1>4. DuplicateLapsed
  BY <1>3, FS_EmptySet DEF DuplicateLapsed
<1> QED
  BY <1>2, <1>4 DEF Shared

\* Whatever else happens is calm.
LEMMA SharedRest ==
    ASSUME Core, Typed', Shared, SessionsCalm, UNCHANGED lapsed, UNCHANGED starts
    PROVE  Shared'
<1>1. GateQuiet
  BY DEF GateQuiet, InGate, Late
<1> QED
  BY <1>1, CalmStep DEF Core

LEMMA SharedNext ==
    ASSUME Core, Core', Shared, [TranscodeNext]_transcodeVars
    PROVE  Shared'
<1> USE DEF Core
<1>1. ASSUME NEW c \in Clients, StartNext(c)
      PROVE  Shared'
  <2>1. CASE StartGate(c)
    BY <2>1, SharedGate
  <2>0. starts[c].title \in Titles
    BY DEF Typed, CallsOK, Start
  <2>2. CASE StartFind(c)
    BY <2>0, <2>2, SharedFind
  <2>3. CASE StartSpawn(c)
    BY <2>0, <2>3, SharedSpawn
  <2>4. CASE (\E title \in Titles, offset \in Offsets : StartAsk(c, title, offset))
             \/ StartSuperseded(c) \/ StartAdmit(c) \/ StartFails(c) \/ StartDropped(c)
    <3>1. SessionsCalm /\ UNCHANGED lapsed
      BY <2>4 DEF StartAsk, StartSuperseded, StartAdmit, StartFails, StartDropped, SessionsCalm, Live
    <3>2. \A d \in Clients \ {c} : starts'[d] = starts[d]
      BY <2>4 DEF StartAsk, StartSuperseded, StartAdmit, StartFails, StartDropped, Typed, CallsOK
    <3>3. \/ starts'[c].pc \in {"none", "gate"}
          \/ /\ starts[c].pc \in {"supersede", "admit", "spawn"}
             /\ starts'[c].title = starts[c].title
      <4>1. NoStart.pc = "none" /\ starts[c] \in Start
        BY DEF NoStart, Typed, CallsOK
      <4>2. CASE \E title \in Titles, offset \in Offsets : StartAsk(c, title, offset)
        BY <4>2 DEF StartAsk, Typed, CallsOK
      <4>3. CASE StartSuperseded(c) \/ StartAdmit(c)
        BY <4>1, <4>3 DEF StartSuperseded, StartAdmit, Typed, CallsOK, Start
      <4>4. CASE StartFails(c) \/ StartDropped(c)
        BY <4>1, <4>4 DEF StartFails, StartDropped, Typed, CallsOK
      <4> QED
        BY <2>4, <4>2, <4>3, <4>4
    <3>4. GateQuiet
      BY <3>2, <3>3 DEF GateQuiet, InGate, Late
    <3> QED
      BY <3>1, <3>4, CalmStep
  <2> QED
    BY <1>1, <2>1, <2>2, <2>3, <2>4 DEF StartNext
<1>2. ASSUME NEW id \in Ids, PlayerNext(id) \/ StopFinish(id)
      PROVE  Shared'
  <2>1. CASE GoIdle(id)
    BY <2>1, SharedLapse
  <2>2. CASE ~GoIdle(id)
    <3>1. ASSUME Heartbeat(id) \/ \E to \in Offsets : Seek(id, to)
          PROVE  SessionsCalm
      <4>1. CASE Heartbeat(id)
        BY <4>1 DEF Heartbeat, SessionsCalm, Live, Typed, SessionsOK, Session
      <4>2. ASSUME NEW to \in Offsets, Seek(id, to)
            PROVE  SessionsCalm
        <5>1. /\ id \in Live
              /\ sessions' = [sessions EXCEPT ![id] = [sessions[id] EXCEPT !.start = to, !.idle = FALSE]]
          BY <4>2 DEF Seek, Typed, SessionsOK
        <5>2. /\ [sessions[id] EXCEPT !.start = to, !.idle = FALSE].title = sessions[id].title
              /\ [sessions[id] EXCEPT !.start = to, !.idle = FALSE].idle = FALSE
          BY <5>1 DEF Typed, SessionsOK, Session
        <5> QED
          BY <5>1, <5>2 DEF SessionsCalm, Live, Typed, SessionsOK
      <4> QED
        BY <3>1, <4>1, <4>2
    <3>2. ASSUME Delete(id)
          PROVE  SessionsCalm
      BY <3>2 DEF Delete, StopBegin, Without, Restrict, SessionsCalm, Live
    <3>3. ASSUME DeleteDropped(id) \/ StopFinish(id)
          PROVE  SessionsCalm
      BY <3>3 DEF DeleteDropped, StopFinish, SessionsCalm, Live
    <3>4. SessionsCalm
      BY <1>2, <2>2, <3>1, <3>2, <3>3 DEF PlayerNext
    <3>5. UNCHANGED <<starts, lapsed>>
      BY <1>2, <2>2 DEF PlayerNext, StopFinish, Heartbeat, Delete, DeleteDropped, Seek
    <3> QED
      BY <3>4, <3>5, SharedRest
  <2> QED
    BY <2>1, <2>2
<1>3. ASSUME NEW id \in Ids, ChildExits(id) \/ SuperviseNext(id)
      PROVE  Shared'
  <2>1. UNCHANGED <<starts, lapsed>>
    BY <1>3 DEF SuperviseNext, ChildExits, TakeRestart, TakeShutdown, Crashed, Teardown,
                BackoffEnds, RespawnRead, RespawnWrite, RespawnSpawn, RespawnCheck
  <2>2. CASE UNCHANGED sessions
    <3>1. SessionsCalm
      BY <2>2 DEF SessionsCalm, Live
    <3> QED
      BY <2>1, <3>1, SharedRest
  <2>3. CASE Crashed(id)
    <3>1. SessionsCalm
      BY <2>3 DEF Crashed, Without, Restrict, SessionsCalm, Live, Typed, SessionsOK, Session
    <3> QED
      BY <2>1, <3>1, SharedRest
  <2>4. CASE RespawnWrite(id)
    <3>1. SessionsCalm
      BY <2>4 DEF RespawnWrite, SessionsCalm, Live, Typed, SessionsOK, Session
    <3> QED
      BY <2>1, <3>1, SharedRest
  <2> QED
    BY <1>3, <2>2, <2>3, <2>4
    DEF SuperviseNext, ChildExits, TakeRestart, TakeShutdown, Teardown, BackoffEnds, RespawnRead,
        RespawnSpawn, RespawnCheck
<1>4. CASE SweepNext
  <2>1. SessionsCalm /\ UNCHANGED <<starts, lapsed>>
    BY <1>4 DEF SweepNext, SweepRead, SweepStop, StopBegin, Without, Restrict, SessionsCalm, Live
  <2> QED
    BY <2>1, SharedRest
<1>5. CASE UNCHANGED transcodeVars
  <2>1. SessionsCalm /\ UNCHANGED <<starts, lapsed>>
    BY <1>5 DEF transcodeVars, SessionsCalm, Live
  <2> QED
    BY <2>1, SharedRest
<1> QED
  BY <1>1, <1>2, <1>3, <1>4, <1>5 DEF TranscodeNext

-----------------------------------------------------------------------------
(* The limiter *)

PermitsCapped == Cardinality(permits) <= Cap

LEMMA PermitsFinite ==
    ASSUME Core
    PROVE  IsFiniteSet(permits) /\ Cardinality(permits) \in Nat
<1>1. IsFiniteSet(1..created)
  BY FS_Interval DEF Core, Typed, CallsOK
<1>2. permits \subseteq 1..created
  BY DEF Core, Typed, MarksOK
<1> QED
  BY <1>1, <1>2, FS_Subset, FS_CardinalityType

\* A permit is only ever taken below the cap, one at a time.
LEMMA PermitMoves ==
    ASSUME Core, [TranscodeNext]_transcodeVars
    PROVE  \/ permits' \subseteq permits
           \/ Cardinality(permits) < Cap /\ \E id : permits' = permits \cup {id}
<1>1. ASSUME NEW c \in Clients, StartAdmit(c)
      PROVE  \/ permits' \subseteq permits
             \/ Cardinality(permits) < Cap /\ \E id : permits' = permits \cup {id}
  BY <1>1 DEF StartAdmit
<1>2. ASSUME NEW c \in Clients, StartNext(c), ~StartAdmit(c)
      PROVE  permits' \subseteq permits
  BY <1>2 DEF StartNext, StartAsk, StartGate, StartFind, StartSuperseded, StartSpawn, StartFails,
     StartDropped
<1>3. ASSUME NEW id \in Ids, PlayerNext(id) \/ StopFinish(id) \/ ChildExits(id)
      PROVE  permits' \subseteq permits
  BY <1>3 DEF PlayerNext, Heartbeat, GoIdle, Delete, DeleteDropped, Seek, StopFinish, ChildExits
<1>4. ASSUME NEW id \in Ids, SuperviseNext(id)
      PROVE  permits' \subseteq permits
  BY <1>4 DEF SuperviseNext, TakeRestart, TakeShutdown, Crashed, Teardown, BackoffEnds, RespawnRead,
     RespawnWrite, RespawnSpawn, RespawnCheck
<1>5. CASE SweepNext
  BY <1>5 DEF SweepNext, SweepRead, SweepStop
<1>6. CASE UNCHANGED transcodeVars
  BY <1>6 DEF transcodeVars
<1> QED
  BY <1>1, <1>2, <1>3, <1>4, <1>5, <1>6 DEF TranscodeNext

LEMMA PermitsStep ==
    ASSUME Core, PermitsCapped, [TranscodeNext]_transcodeVars
    PROVE  PermitsCapped'
<1>1. CASE permits' \subseteq permits
  <2>1. Cardinality(permits') <= Cardinality(permits) /\ Cardinality(permits') \in Nat
    BY <1>1, PermitsFinite, FS_Subset, FS_CardinalityType
  <2> QED
    BY <2>1, PermitsFinite, TranscodeAssumption DEF PermitsCapped
<1>2. ASSUME NEW id, permits' = permits \cup {id}, Cardinality(permits) < Cap
      PROVE  PermitsCapped'
  <2>1. CASE id \in permits
    <3>1. permits' \subseteq permits
      BY <1>2, <2>1
    <3> QED
      BY <1>1, <3>1
  <2>2. CASE id \notin permits
    <3>1. Cardinality(permits') = Cardinality(permits) + 1
      BY <1>2, <2>2, PermitsFinite, FS_AddElement
    <3> QED
      BY <1>2, <3>1, PermitsFinite, TranscodeAssumption DEF PermitsCapped
  <2> QED
    BY <2>1, <2>2
<1> QED
  BY <1>1, <1>2, PermitMoves

-----------------------------------------------------------------------------
(* The theorems *)

\* The map, the supervisors and the calls in flight stay well formed, and no
\* id is used that was not created.
THEOREM TranscodeTypeOK == TranscodeSpec => []TypeOK
BY TranscodeInvariant, CoreParts, PTL

\* No ffmpeg runs without its directory, nor without a slot unless the client
\* of its stop hung up.
THEOREM TranscodeEncoderBacked == TranscodeSpec => []EncoderBacked
BY TranscodeInvariant, CoreParts, PTL

\* try_acquire: a running ffmpeg holds one of at most Cap slots until it is dead,
\* whatever the number of clients, sessions, respawns and stops in flight.
THEOREM TranscodeEncoderCap == TranscodeSpec => []EncoderCap
<1>1. TranscodeInit => PermitsCapped
  BY FS_EmptySet, TranscodeAssumption DEF TranscodeInit, PermitsCapped
<1>2. Core /\ PermitsCapped /\ [TranscodeNext]_transcodeVars => PermitsCapped'
  BY PermitsStep
<1>3. Core /\ PermitsCapped => EncoderCap
  <2> SUFFICES ASSUME Core, PermitsCapped PROVE EncoderCap
    OBVIOUS
  <2>1. Encoding \ forsaken \subseteq permits
    BY CoreParts DEF EncoderBacked
  <2>2. /\ Cardinality(Encoding \ forsaken) <= Cardinality(permits)
        /\ Cardinality(Encoding \ forsaken) \in Nat /\ Cardinality(permits) \in Nat
    BY <2>1, PermitsFinite, FS_Subset, FS_CardinalityType
  <2> QED
    BY <2>2, TranscodeAssumption DEF PermitsCapped, EncoderCap
<1> QED
  BY <1>1, <1>2, <1>3, TranscodeInvariant, PTL DEF TranscodeSpec

\* stop leaves no directory, slot or supervisor behind, wherever in a respawn
\* it finds the supervisor.
THEOREM TranscodeReclaimed == TranscodeSpec => []Reclaimed
BY TranscodeInvariant, CoreParts, PTL

\* A session in the map has a supervisor that takes its seeks and its stop.
THEOREM TranscodeSessionSupervised == TranscodeSpec => []SessionSupervised
BY TranscodeInvariant, CoreParts, PTL

\* Grants of a title share its session or supersede one; every session more
\* was paid for by a lapse.
THEOREM TranscodeDuplicateLapsed == TranscodeSpec => []DuplicateLapsed
<1>1. Core /\ Core' /\ Shared /\ [TranscodeNext]_transcodeVars => Shared'
  BY SharedNext
<1>2. Shared => DuplicateLapsed
  BY DEF Shared
<1> QED
  BY <1>1, <1>2, SharedInit, TranscodeInvariant, PTL DEF TranscodeSpec

=============================================================================
