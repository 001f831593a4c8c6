------------------------- MODULE RemuxRegistryProofs -------------------------
(***************************************************************************)
(* Theorems of RemuxRegistry, for every set of sessions, feeds and         *)
(* children and every value of the cap and of the timings.                 *)
(*                                                                         *)
(* The argument: the three sets Count adds up partition the children not   *)
(* reaped yet (Partition), so counting slots is counting processes, and    *)
(* every step either keeps the processes, adds one below the cap, drops    *)
(* one that exited, or replaces an exited one.  The same four cases are    *)
(* the stutter, Dial, Free and Redial of the abstract pool.                *)
(***************************************************************************)
EXTENDS RemuxRegistry, FiniteSetTheorems, TLAPS

Partition ==
    /\ DOMAIN procs = SessionChildren \cup draining \cup aux
    /\ draining \cap aux = {}
    /\ SessionChildren \cap (draining \cup aux) = {}
    /\ \A s \in Held : procs[sessions[s].child].owner = s
    /\ \A c \in aux : procs[c].owner = Capture

ProcsCapped ==
    /\ IsFiniteSet(DOMAIN procs)
    /\ Cap > 0 => Cardinality(DOMAIN procs) <= Cap

IInv == TypeOK /\ Partition /\ ProcsCapped

-----------------------------------------------------------------------------
(* Counting slots is counting processes. *)

LEMMA DisjointUnion ==
  ASSUME NEW S, NEW T, IsFiniteSet(S), IsFiniteSet(T), S \cap T = {}
  PROVE  /\ IsFiniteSet(S \cup T)
         /\ Cardinality(S \cup T) = Cardinality(S) + Cardinality(T)
  <1>1. Cardinality(S) \in Nat /\ Cardinality(T) \in Nat
    BY FS_CardinalityType
  <1>2. Cardinality(S \cap T) = 0
    BY FS_EmptySet
  <1>3. /\ IsFiniteSet(S \cup T)
        /\ Cardinality(S \cup T) = Cardinality(S) + Cardinality(T) - Cardinality(S \cap T)
    BY FS_Union
  <1>4. QED
    BY <1>1, <1>2, <1>3

LEMMA CountIsProcs ==
  ASSUME IInv
  PROVE  Count = Cardinality(DOMAIN procs)
  <1> USE DEF IInv
  <1> DEFINE child == [s \in Held |-> sessions[s].child]
  <1>1. SessionChildren \subseteq DOMAIN procs /\ draining \subseteq DOMAIN procs
        /\ aux \subseteq DOMAIN procs
    BY DEF Partition
  <1>2. IsFiniteSet(SessionChildren) /\ IsFiniteSet(draining) /\ IsFiniteSet(aux)
    BY <1>1, FS_Subset DEF ProcsCapped
  <1>3. child \in Bijection(Held, SessionChildren)
    <2>1. child \in [Held -> SessionChildren]
      BY DEF SessionChildren
    <2>2. \A s, o \in Held : child[s] = child[o] => s = o
      BY DEF Partition
    <2>3. \A c \in SessionChildren : \E s \in Held : child[s] = c
      BY DEF SessionChildren
    <2>4. QED
      BY <2>1, <2>2, <2>3 DEF Bijection, Injection, Surjection, IsInjective
  <1>4. child \in Injection(Held, SessionChildren) /\ child \in Surjection(Held, SessionChildren)
    BY <1>3 DEF Bijection
  <1>5. Cardinality(Held) = Cardinality(SessionChildren)
    BY <1>2, <1>4, FS_Injection, Zenon
  <1>6. /\ IsFiniteSet(SessionChildren \cup draining)
        /\ Cardinality(SessionChildren \cup draining)
             = Cardinality(SessionChildren) + Cardinality(draining)
    <2>1. SessionChildren \cap draining = {}
      BY DEF Partition
    <2>2. QED
      BY <1>2, <2>1, DisjointUnion
  <1>7. Cardinality((SessionChildren \cup draining) \cup aux)
          = Cardinality(SessionChildren \cup draining) + Cardinality(aux)
    <2>1. (SessionChildren \cup draining) \cap aux = {}
      BY DEF Partition
    <2>2. QED
      BY <1>2, <1>6, <2>1, DisjointUnion
  <1>8. DOMAIN procs = (SessionChildren \cup draining) \cup aux
    BY DEF Partition
  <1>9. QED
    BY <1>2, <1>5, <1>6, <1>7, <1>8, FS_CardinalityType DEF Count

\* A step that may spawn leaves room for one more process.
LEMMA RoomForOne ==
  ASSUME IInv, ~Full
  PROVE  Cap > 0 => Cardinality(DOMAIN procs) < Cap
  <1>1. Cardinality(DOMAIN procs) \in Nat /\ tracked \in Nat /\ Cap \in Nat
    BY FS_CardinalityType, RegistryAssumption DEF IInv, ProcsCapped, TypeOK
  <1>2. QED
    BY <1>1, CountIsProcs DEF Full

-----------------------------------------------------------------------------
(* What the steps do to the children. *)

\* The processes stay, with their sockets and owners.
SameProcs ==
    /\ DOMAIN procs' = DOMAIN procs
    /\ \A c \in DOMAIN procs : /\ procs'[c].up = procs[c].up
                               /\ procs'[c].owner = procs[c].owner

LEMMA SameProcsCapped ==
  ASSUME ProcsCapped, SameProcs
  PROVE  ProcsCapped'
  BY DEF ProcsCapped, SameProcs

\* Marking one process keeps the partition.
LEMMA MarkKeeps ==
  ASSUME IInv, NEW c \in DOMAIN procs, NEW p \in Proc, SetProc(c, p),
         p.owner = procs[c].owner, UNCHANGED <<sessions, draining, aux, strikes, dead, tracked>>
  PROVE  IInv'
  <1> USE DEF IInv, SetProc
  <1>1. DOMAIN procs' = DOMAIN procs /\ \A d \in DOMAIN procs : procs'[d].owner = procs[d].owner
    BY DEF TypeOK
  <1>2. TypeOK'
    BY <1>1 DEF TypeOK, Held
  <1>3. Partition'
    BY <1>1 DEF Partition, SessionChildren, Held
  <1>4. ProcsCapped'
    BY <1>1 DEF ProcsCapped
  <1>5. QED
    BY <1>2, <1>3, <1>4

\* stop_locked: the children of the stopped sessions move to draining.
LEMMA StoppedKeeps ==
  ASSUME IInv, NEW ids \in SUBSET Held, Stopped(ids),
         UNCHANGED <<aux, strikes, dead, tracked>>
  PROVE  IInv' /\ SameProcs
  <1> USE DEF IInv, Stopped
  <1>1. DOMAIN sessions' = Held \ ids /\ \A s \in Held \ ids : sessions'[s] = sessions[s]
    BY DEF Restrict, Held
  <1>2. SameProcs
    BY DEF SameProcs, TypeOK, Proc
  <1>3. TypeOK'
    <2>1. sessions' \in [Held' -> RemuxSession] /\ Held' \subseteq SessionIds
      BY <1>1 DEF TypeOK, Held, Restrict
    <2>2. draining' \subseteq Children
      BY DEF TypeOK, RemuxSession
    <2>3. procs' \in [DOMAIN procs' -> Proc]
      BY DEF TypeOK, Proc
    <2>4. QED
      BY <2>1, <2>2, <2>3 DEF TypeOK
  <1>4. Partition'
    <2>1. SessionChildren' = {sessions[s].child : s \in Held \ ids}
      BY <1>1 DEF SessionChildren, Held
    <2>2. \A s \in ids, o \in Held \ ids : sessions[s].child # sessions[o].child
      BY DEF Partition
    <2> DEFINE Moved == {sessions[s].child : s \in ids}
    <2> HIDE DEF Moved
    <2>3. /\ SessionChildren = SessionChildren' \cup Moved
          /\ SessionChildren' \cap Moved = {}
          /\ draining' = draining \cup Moved
          /\ aux' = aux
          /\ DOMAIN procs' = DOMAIN procs
      <3>1. SessionChildren = SessionChildren' \cup Moved
        BY <2>1 DEF SessionChildren, Moved
      <3>2. SessionChildren' \cap Moved = {}
        BY <2>1, <2>2 DEF Moved
      <3>3. QED
        BY <3>1, <3>2 DEF Moved
    <2>4. /\ DOMAIN procs' = SessionChildren' \cup draining' \cup aux'
          /\ SessionChildren' \cap (draining' \cup aux') = {}
          /\ draining' \cap aux' = {}
      BY <2>3 DEF Partition
    <2>5. \A s \in Held' : procs'[sessions'[s].child].owner = s
      <3>1. SUFFICES ASSUME NEW s \in Held \ ids
                     PROVE  procs'[sessions[s].child].owner = s
        BY <1>1 DEF Held
      <3>2. sessions[s].child \in DOMAIN procs
        BY DEF Partition, SessionChildren
      <3>3. QED
        BY <1>2, <3>2 DEF Partition, SameProcs
    <2>6. \A c \in aux' : procs'[c].owner = Capture
      BY <1>2 DEF Partition, SameProcs
    <2>7. QED
      BY <2>4, <2>5, <2>6 DEF Partition
  <1>5. QED
    BY <1>2, <1>3, <1>4, SameProcsCapped

LEMMA PreemptedKeeps ==
  ASSUME IInv, Preempted, UNCHANGED <<sessions, procs, strikes, dead, tracked>>
  PROVE  IInv' /\ SameProcs
  BY DEF IInv, Preempted, SameProcs, TypeOK, Partition, ProcsCapped, SessionChildren, Held

\* A process joins, below the cap.
LEMMA SpawnCapped ==
  ASSUME IInv, ~Full, NEW c \in FreshChildren, DOMAIN procs' = DOMAIN procs \cup {c}
  PROVE  ProcsCapped'
  <1>1. IsFiniteSet(DOMAIN procs) /\ Cardinality(DOMAIN procs) \in Nat
    BY FS_CardinalityType DEF IInv, ProcsCapped
  <1>2. /\ IsFiniteSet(DOMAIN procs \cup {c})
        /\ Cardinality(DOMAIN procs \cup {c}) = Cardinality(DOMAIN procs) + 1
    BY <1>1, FS_AddElement DEF FreshChildren
  <1>3. QED
    BY <1>1, <1>2, RoomForOne, RegistryAssumption DEF ProcsCapped

\* A process leaves.
LEMMA ReapCapped ==
  ASSUME IInv, NEW c, DOMAIN procs' = DOMAIN procs \ {c}
  PROVE  ProcsCapped'
  <1>1. IsFiniteSet(DOMAIN procs) /\ Cardinality(DOMAIN procs) \in Nat
    BY FS_CardinalityType DEF IInv, ProcsCapped
  <1>2. /\ IsFiniteSet(DOMAIN procs')
        /\ Cardinality(DOMAIN procs') <= Cardinality(DOMAIN procs)
        /\ Cardinality(DOMAIN procs') \in Nat
    BY <1>1, FS_Subset, FS_CardinalityType
  <1>3. QED
    BY <1>1, <1>2, RegistryAssumption DEF IInv, ProcsCapped

LEMMA NewProcType ==
  ASSUME NEW o \in SessionIds \cup {Capture}
  PROVE  NewProc(o) \in Proc /\ NewProc(o).owner = o /\ NewProc(o).up = TRUE
  <1>1. 0 \in 0..AgeLimit
    BY RegistryAssumption DEF AgeLimit
  <1>2. QED
    BY <1>1 DEF NewProc, Proc

-----------------------------------------------------------------------------
(* The five kinds of step, as the pool sees them. *)

\* Slots and sockets as they stand.
LEMMA SameProcsStutters ==
  ASSUME IInv, IInv', SameProcs
  PROVE  UNCHANGED Pool!poolVars
  BY DEF IInv, Partition, SameProcs, Pool!poolVars, OpenSockets

\* The pool's Cardinality is the library's.
LEMMA PoolCardinality ==
  ASSUME NEW S
  PROVE  Pool!Cardinality(S) = Cardinality(S)
  BY Zenon DEF Pool!Cardinality, Cardinality

LEMMA StartKeeps ==
  ASSUME IInv, NEW s \in SessionIds, NEW c \in Children, Start(s, c)
  PROVE  IInv' /\ Pool!Dial(c)
  <1> USE DEF IInv, Start
  <1>1. /\ DOMAIN procs' = DOMAIN procs \cup {c}
        /\ procs'[c] = NewProc(s)
        /\ \A d \in DOMAIN procs : procs'[d] = procs[d]
        /\ c \notin DOMAIN procs
    BY DEF Spawned, FreshChildren
  <1>2. /\ Held' = Held \cup {s}
        /\ s \notin Held
        /\ sessions'[s].child = c
        /\ \A o \in Held : sessions'[o] = sessions[o]
    BY DEF Held
  <1>3. TypeOK'
    <2>1. Held' \subseteq SessionIds /\ sessions' \in [Held' -> RemuxSession]
      BY <1>2, RegistryAssumption DEF TypeOK, RemuxSession, Held
    <2>2. DOMAIN procs' \subseteq Children /\ procs' \in [DOMAIN procs' -> Proc]
      BY <1>1, NewProcType DEF TypeOK, Spawned
    <2>3. QED
      BY <2>1, <2>2 DEF TypeOK
  <1>4. Partition'
    <2>1. SessionChildren' = SessionChildren \cup {c}
      BY <1>2 DEF SessionChildren
    <2>2. /\ DOMAIN procs' = SessionChildren' \cup draining' \cup aux'
          /\ draining' \cap aux' = {}
          /\ SessionChildren' \cap (draining' \cup aux') = {}
      BY <1>1, <2>1 DEF Partition
    <2>3. \A o \in Held' : procs'[sessions'[o].child].owner = o
      <3>1. \A o \in Held : sessions[o].child \in DOMAIN procs
        BY DEF Partition, SessionChildren
      <3>2. procs'[c].owner = s
        BY <1>1, NewProcType
      <3>3. QED
        BY <1>1, <1>2, <3>1, <3>2 DEF Partition
    <2>4. \A d \in aux' : procs'[d].owner = Capture
      BY <1>1 DEF Partition
    <2>5. QED
      BY <2>2, <2>3, <2>4 DEF Partition
  <1>5. ProcsCapped'
    BY <1>1, SpawnCapped
  <1>6. Pool!Dial(c)
    <2>1. OpenSockets' = OpenSockets \cup {c}
      <3>1. procs'[c].up = TRUE
        BY <1>1, NewProcType
      <3>2. QED
        BY <1>1, <3>1 DEF OpenSockets
    <2>2. Cap > 0 => Cardinality(SessionChildren \cup draining \cup aux) < Cap
      <3>1. DOMAIN procs = SessionChildren \cup draining \cup aux
        BY DEF Partition
      <3>2. QED
        BY <3>1, RoomForOne, Zenon
    <2>3. /\ c \notin SessionChildren \cup draining \cup aux
          /\ SessionChildren' \cup draining' \cup aux'
               = (SessionChildren \cup draining \cup aux) \cup {c}
      BY <1>1, <1>4 DEF Partition
    <2>4. QED
      BY <2>1, <2>2, <2>3, PoolCardinality DEF Pool!Dial
  <1>7. QED
    BY <1>3, <1>4, <1>5, <1>6

LEMMA CaptureStartKeeps ==
  ASSUME IInv, NEW c \in Children, CaptureStart(c)
  PROVE  IInv' /\ Pool!Dial(c)
  <1> USE DEF IInv, CaptureStart
  <1>1. /\ DOMAIN procs' = DOMAIN procs \cup {c}
        /\ procs'[c] = NewProc(Capture)
        /\ \A d \in DOMAIN procs : procs'[d] = procs[d]
        /\ c \notin DOMAIN procs
    BY DEF Spawned, FreshChildren
  <1>2. TypeOK'
    BY <1>1, NewProcType DEF TypeOK, Spawned, Held
  <1>3. Partition'
    <2>1. SessionChildren' = SessionChildren /\ Held' = Held
      BY DEF SessionChildren, Held
    <2>2. /\ DOMAIN procs' = SessionChildren' \cup draining' \cup aux'
          /\ draining' \cap aux' = {}
          /\ SessionChildren' \cap (draining' \cup aux') = {}
      BY <1>1, <2>1 DEF Partition
    <2>3. \A o \in Held' : procs'[sessions'[o].child].owner = o
      BY <1>1, <2>1 DEF Partition, SessionChildren
    <2>4. \A d \in aux' : procs'[d].owner = Capture
      <3>1. aux' = aux \cup {c}
        OBVIOUS
      <3>2. procs'[c].owner = Capture
        BY <1>1, NewProcType
      <3>3. \A d \in aux : d \in DOMAIN procs /\ procs[d].owner = Capture
        BY DEF Partition
      <3>4. QED
        BY <1>1, <3>1, <3>2, <3>3
    <2>5. QED
      BY <2>2, <2>3, <2>4 DEF Partition
  <1>4. ProcsCapped'
    BY <1>1, SpawnCapped
  <1>5. Pool!Dial(c)
    <2>1. OpenSockets' = OpenSockets \cup {c}
      <3>1. procs'[c].up = TRUE
        BY <1>1, NewProcType
      <3>2. QED
        BY <1>1, <3>1 DEF OpenSockets
    <2>2. Cap > 0 => Cardinality(SessionChildren \cup draining \cup aux) < Cap
      <3>1. DOMAIN procs = SessionChildren \cup draining \cup aux
        BY DEF Partition
      <3>2. QED
        BY <3>1, RoomForOne, Zenon
    <2>3. /\ c \notin SessionChildren \cup draining \cup aux
          /\ SessionChildren' \cup draining' \cup aux'
               = (SessionChildren \cup draining \cup aux) \cup {c}
      BY <1>1, <1>3 DEF Partition
    <2>4. QED
      BY <2>1, <2>2, <2>3, PoolCardinality DEF Pool!Dial
  <1>6. QED
    BY <1>2, <1>3, <1>4, <1>5

LEMMA ExitKeeps ==
  ASSUME IInv, NEW c \in Children, Exit(c)
  PROVE  IInv' /\ Pool!Hangup(c)
  <1>1. PICK clean \in BOOLEAN : SetProc(c, [procs[c] EXCEPT !.up = FALSE, !.clean = clean])
    BY DEF Exit
  <1> DEFINE p == [procs[c] EXCEPT !.up = FALSE, !.clean = clean]
  <1>2. c \in DOMAIN procs /\ p \in Proc /\ p.owner = procs[c].owner /\ p.up = FALSE
    BY DEF Exit, IInv, TypeOK, Proc
  <1>3. IInv'
    BY <1>1, <1>2, MarkKeeps DEF Exit
  <1>4. DOMAIN procs' = DOMAIN procs /\ OpenSockets' = OpenSockets \ {c} /\ c \in OpenSockets
    BY <1>1, <1>2 DEF SetProc, OpenSockets, Exit, IInv, TypeOK
  <1>5. Pool!Hangup(c)
    BY <1>3, <1>4 DEF Pool!Hangup, IInv, Partition
  <1>6. QED
    BY <1>3, <1>5

LEMMA ReapCaptureFrees ==
  ASSUME IInv, NEW c \in Children, ReapCapture(c)
  PROVE  IInv' /\ Pool!Free(c)
  <1> USE DEF IInv, ReapCapture
  <1>1. /\ DOMAIN procs' = DOMAIN procs \ {c}
        /\ \A d \in DOMAIN procs \ {c} : procs'[d] = procs[d]
    BY DEF Reaped, Restrict
  <1>2. TypeOK'
    <2>1. procs' \in [DOMAIN procs' -> Proc]
      BY <1>1 DEF TypeOK, Reaped, Restrict
    <2>2. QED
      BY <1>1, <2>1 DEF TypeOK, Held
  <1>3. c \notin SessionChildren
    BY RegistryAssumption DEF Partition, SessionChildren, TypeOK
  <1>4. Partition'
    <2>1. SessionChildren' = SessionChildren /\ Held' = Held
      BY DEF SessionChildren, Held
    <2>2. /\ DOMAIN procs' = SessionChildren' \cup draining' \cup aux'
          /\ draining' \cap aux' = {}
          /\ SessionChildren' \cap (draining' \cup aux') = {}
      BY <1>1, <1>3, <2>1 DEF Partition
    <2>3. \A o \in Held' : procs'[sessions'[o].child].owner = o
      BY <1>1, <1>3, <2>1 DEF Partition, SessionChildren
    <2>4. \A d \in aux' : procs'[d].owner = Capture
      BY <1>1 DEF Partition
    <2>5. QED
      BY <2>2, <2>3, <2>4 DEF Partition
  <1>5. ProcsCapped'
    BY <1>1, ReapCapped
  <1>6. Pool!Free(c)
    <2>1. OpenSockets' = OpenSockets /\ c \notin OpenSockets
      BY <1>1 DEF OpenSockets
    <2>2. QED
      BY <1>1, <1>4, <2>1 DEF Pool!Free, Partition
  <1>7. QED
    BY <1>2, <1>4, <1>5, <1>6

\* The child of a supervisor is its session's or drains; the two exclude each other.
LEMMA SupervisedChild ==
  ASSUME IInv, NEW c, Supervised(c)
  PROVE  /\ c \notin aux
         /\ procs[c].owner \in SessionIds
         /\ Registered(c) <=> c \in SessionChildren
         /\ Registered(c) <=> c \notin draining
         /\ \A s \in Held : sessions[s].child = c => s = procs[c].owner
  BY DEF IInv, Supervised, Registered, Partition, SessionChildren, TypeOK, Proc

LEMMA StrikeType ==
  ASSUME TypeOK, NEW c, procs[c].owner \in SessionIds, Strike(c)
  PROVE  /\ strikes' \in [Feeds -> 0..(StrikesToTag - 1)]
         /\ dead' \subseteq Feeds
  <1>1. FeedOf[procs[c].owner] \in Feeds
    BY RegistryAssumption
  <1>2. QED
    BY <1>1, RegistryAssumption DEF TypeOK, Strike

LEMMA ReapEndKeeps ==
  ASSUME IInv, NEW c \in Children, ReapEnd(c)
  PROVE  IInv' /\ Pool!Free(c)
  <1> USE DEF IInv, ReapEnd
  <1>1. /\ DOMAIN procs' = DOMAIN procs \ {c}
        /\ \A d \in DOMAIN procs \ {c} : procs'[d] = procs[d]
    BY DEF Reaped, Restrict
  <1> DEFINE gone == IF Registered(c) THEN {procs[c].owner} ELSE {}
  <1>2. /\ Held' = Held \ gone
        /\ \A o \in Held \ gone : sessions'[o] = sessions[o]
        /\ sessions' \in [Held' -> RemuxSession]
    BY DEF Held, Restrict, TypeOK
  <1>3. TypeOK'
    <2>1. procs' \in [DOMAIN procs' -> Proc]
      BY <1>1 DEF TypeOK, Reaped, Restrict
    <2>2. strikes' \in [Feeds -> 0..(StrikesToTag - 1)] /\ dead' \subseteq Feeds
      BY SupervisedChild, StrikeType
    <2>3. QED
      BY <1>1, <1>2, <2>1, <2>2 DEF TypeOK
  <1>4. SessionChildren' = SessionChildren \ {c}
    <2>1. \A o \in Held : sessions[o].child = c <=> o \in gone
      BY SupervisedChild DEF Registered
    <2>2. SessionChildren' = {sessions[o].child : o \in Held \ gone}
      BY <1>2 DEF SessionChildren
    <2>3. QED
      BY <2>1, <2>2 DEF SessionChildren
  <1>5. Partition'
    <2>1. /\ DOMAIN procs' = SessionChildren' \cup draining' \cup aux'
          /\ draining' \cap aux' = {}
          /\ SessionChildren' \cap (draining' \cup aux') = {}
      BY <1>1, <1>4, SupervisedChild DEF Partition
    <2>2. \A o \in Held' : procs'[sessions'[o].child].owner = o
      <3>1. \A o \in Held' : sessions[o].child \in DOMAIN procs \ {c}
        <4>1. \A o \in Held : sessions[o].child \in DOMAIN procs
          BY DEF Partition, SessionChildren
        <4>2. \A o \in Held \ gone : sessions[o].child # c
          BY SupervisedChild DEF Registered
        <4>3. QED
          BY <1>2, <4>1, <4>2
      <3>2. SUFFICES ASSUME NEW o \in Held'
                     PROVE  procs'[sessions'[o].child].owner = o
        OBVIOUS
      <3>3. /\ o \in Held
            /\ sessions'[o] = sessions[o]
            /\ procs'[sessions[o].child] = procs[sessions[o].child]
        BY <1>1, <1>2, <3>1
      <3>4. QED
        BY <3>3 DEF Partition
    <2>3. \A d \in aux' : procs'[d].owner = Capture
      BY <1>1, SupervisedChild DEF Partition
    <2>4. QED
      BY <2>1, <2>2, <2>3 DEF Partition
  <1>6. ProcsCapped'
    BY <1>1, ReapCapped
  <1>7. Pool!Free(c)
    <2>1. OpenSockets' = OpenSockets /\ c \notin OpenSockets /\ c \in DOMAIN procs
      BY <1>1 DEF OpenSockets, Supervised
    <2>2. QED
      BY <1>1, <1>5, <2>1 DEF Pool!Free, Partition
  <1>8. QED
    BY <1>3, <1>5, <1>6, <1>7

LEMMA ReapRelaunchKeeps ==
  ASSUME IInv, NEW c \in Children, NEW d \in Children, ReapRelaunch(c, d)
  PROVE  IInv' /\ Pool!Redial(c, d)
  <1> USE DEF IInv, ReapRelaunch
  <1> DEFINE s == procs[c].owner
  <1>1. /\ DOMAIN procs' = (DOMAIN procs \ {c}) \cup {d}
        /\ procs'[d] = NewProc(s)
        /\ \A i \in DOMAIN procs \ {c} : procs'[i] = procs[i]
        /\ d \notin DOMAIN procs
        /\ c \in DOMAIN procs
    BY DEF FreshChildren, Supervised
  <1>2. /\ s \in Held /\ sessions[s].child = c
        /\ Held' = Held
        /\ sessions'[s].child = d
        /\ \A o \in Held \ {s} : sessions'[o] = sessions[o]
        /\ sessions' \in [Held -> RemuxSession]
    <2>1. s \in Held /\ sessions[s].child = c
      BY DEF Registered
    <2>2. sessions' = [sessions EXCEPT ![s].child = d]
      BY <2>1
    <2>3. QED
      BY <2>1, <2>2 DEF Held, TypeOK, RemuxSession
  <1>3. TypeOK'
    <2>1. s \in SessionIds
      BY SupervisedChild
    <2>2. procs' \in [DOMAIN procs' -> Proc]
      BY <1>1, <2>1, NewProcType DEF TypeOK
    <2>3. strikes' \in [Feeds -> 0..(StrikesToTag - 1)] /\ dead' \subseteq Feeds
      BY <2>1, StrikeType
    <2>4. QED
      BY <1>1, <1>2, <2>2, <2>3 DEF TypeOK
  <1>4. SessionChildren' = (SessionChildren \ {c}) \cup {d}
    <2>1. \A o \in Held : sessions[o].child = c => o = s
      BY SupervisedChild
    <2>2. QED
      BY <1>2, <2>1 DEF SessionChildren
  <1>5. Partition'
    <2>1. /\ DOMAIN procs' = SessionChildren' \cup draining' \cup aux'
          /\ draining' \cap aux' = {}
          /\ SessionChildren' \cap (draining' \cup aux') = {}
      BY <1>1, <1>4, SupervisedChild DEF Partition
    <2>2. \A o \in Held' : procs'[sessions'[o].child].owner = o
      <3>1. \A o \in Held \ {s} : sessions[o].child \in DOMAIN procs \ {c}
        BY SupervisedChild DEF SessionChildren, Partition
      <3>2. procs'[d].owner = s
        BY <1>1, SupervisedChild, NewProcType
      <3>3. QED
        BY <1>1, <1>2, <3>1, <3>2 DEF Partition
    <2>3. \A i \in aux' : procs'[i].owner = Capture
      BY <1>1, SupervisedChild DEF Partition
    <2>4. QED
      BY <2>1, <2>2, <2>3 DEF Partition
  <1>6. ProcsCapped'
    <2>1. IsFiniteSet(DOMAIN procs) /\ Cardinality(DOMAIN procs) \in Nat
      BY FS_CardinalityType DEF ProcsCapped
    <2>2. /\ IsFiniteSet(DOMAIN procs \ {c})
          /\ Cardinality(DOMAIN procs \ {c}) = Cardinality(DOMAIN procs) - 1
      BY <1>1, <2>1, FS_RemoveElement
    <2>3. /\ IsFiniteSet(DOMAIN procs')
          /\ Cardinality(DOMAIN procs') = Cardinality(DOMAIN procs \ {c}) + 1
      BY <1>1, <2>2, FS_AddElement
    <2>4. QED
      BY <2>1, <2>2, <2>3 DEF ProcsCapped
  <1>7. Pool!Redial(c, d)
    <2>1. OpenSockets' = OpenSockets \cup {d} /\ c \notin OpenSockets
      <3>1. procs'[d].up = TRUE
        BY <1>1, SupervisedChild, NewProcType
      <3>2. QED
        BY <1>1, <3>1 DEF OpenSockets
    <2>2. QED
      BY <1>1, <1>5, <2>1 DEF Pool!Redial, Partition
  <1>8. QED
    BY <1>3, <1>5, <1>6, <1>7

-----------------------------------------------------------------------------
(* One step of the registry. *)

LEMMA InitHolds == RegistryInit => IInv /\ Pool!PoolInit
  <1> SUFFICES ASSUME RegistryInit PROVE IInv /\ Pool!PoolInit
    OBVIOUS
  <1> USE DEF RegistryInit
  <1>1. Held = {} /\ DOMAIN procs = {}
    BY DEF Held
  <1>2. TypeOK
    BY <1>1, RegistryAssumption DEF TypeOK
  <1>3. Partition
    BY <1>1 DEF Partition, SessionChildren
  <1>4. ProcsCapped
    BY <1>1, FS_EmptySet, RegistryAssumption DEF ProcsCapped
  <1>5. Pool!PoolInit
    BY <1>1 DEF Pool!PoolInit, SessionChildren, OpenSockets
  <1>6. QED
    BY <1>2, <1>3, <1>4, <1>5 DEF IInv

\* Ageing, polling, expiry and the tracker leave every child where it is.
LEMMA QuietKeeps ==
  ASSUME IInv,
         \/ Tick
         \/ TrackerMoves
         \/ \E f \in Feeds : Forget(f)
         \/ \E s \in SessionIds : Heartbeat(s)
         \/ UNCHANGED registryVars
  PROVE  IInv' /\ SameProcs
  <1>1. /\ Held' = Held
        /\ sessions' \in [Held -> RemuxSession]
        /\ \A s \in Held : sessions'[s].child = sessions[s].child
    BY RegistryAssumption
    DEF IInv, TypeOK, RemuxSession, Tick, TrackerMoves, Forget, Heartbeat, registryVars, Held
  <1>2. /\ SameProcs
        /\ procs' \in [DOMAIN procs -> Proc]
    <2>1. AgeLimit \in Nat
      BY RegistryAssumption DEF AgeLimit
    <2>2. CASE Tick
      <3>1. SUFFICES ASSUME NEW c \in DOMAIN procs
                     PROVE  /\ procs'[c] \in Proc
                            /\ procs'[c].up = procs[c].up
                            /\ procs'[c].owner = procs[c].owner
        BY <2>2 DEF Tick, SameProcs
      <3>2. procs[c] \in Proc
        BY DEF IInv, TypeOK
      <3>3. procs'[c] = IF procs[c].age < AgeLimit
                        THEN [procs[c] EXCEPT !.age = @ + 1] ELSE procs[c]
        BY <2>2 DEF Tick
      <3>4. CASE procs[c].age < AgeLimit
        <4>1. procs[c].age + 1 \in 0..AgeLimit
          BY <2>1, <3>2, <3>4 DEF Proc
        <4>2. QED
          BY <3>2, <3>3, <3>4, <4>1 DEF Proc
      <3>5. CASE ~ (procs[c].age < AgeLimit)
        BY <3>2, <3>3, <3>5
      <3>6. QED
        BY <3>4, <3>5
    <2>3. CASE procs' = procs
      BY <2>3 DEF SameProcs, IInv, TypeOK
    <2>4. QED
      BY <2>2, <2>3 DEF TrackerMoves, Forget, Heartbeat, registryVars
  <1>3. draining' = draining /\ aux' = aux
    BY DEF Tick, TrackerMoves, Forget, Heartbeat, registryVars
  <1>4. /\ strikes' \in [Feeds -> 0..(StrikesToTag - 1)]
        /\ dead' \subseteq Feeds
        /\ tracked' \in Nat
    BY RegistryAssumption
    DEF IInv, TypeOK, Tick, TrackerMoves, Forget, Heartbeat, registryVars
  <1>5. TypeOK'
    BY <1>1, <1>2, <1>3, <1>4 DEF TypeOK, IInv, SameProcs
  <1>6. Partition'
    <2>1. SessionChildren' = SessionChildren
      BY <1>1 DEF SessionChildren
    <2>2. \A s \in Held : sessions[s].child \in DOMAIN procs
      BY DEF IInv, Partition, SessionChildren
    <2>3. \A c \in aux : c \in DOMAIN procs
      BY DEF IInv, Partition
    <2>4. QED
      BY <1>1, <1>2, <1>3, <2>1, <2>2, <2>3 DEF Partition, IInv, SameProcs
  <1>7. QED
    BY <1>2, <1>5, <1>6, SameProcsCapped DEF IInv

\* The supervisor's and the capture task's marks on a running child.
LEMMA MarksKeep ==
  ASSUME IInv, NEW c \in Children,
         \/ KillCapture(c)
         \/ \E verdict \in {"end", "relaunch"} : Fault(c, verdict)
         \/ DeliverTerm(c)
         \/ GraceKill(c)
  PROVE  IInv' /\ SameProcs
  <1>1. c \in DOMAIN procs /\ procs[c] \in Proc
    BY DEF KillCapture, Fault, DeliverTerm, GraceKill, Supervised, IInv, TypeOK
  <1>2. \E p \in Proc : /\ SetProc(c, p)
                        /\ p.owner = procs[c].owner
                        /\ p.up = procs[c].up
    <2>1. CASE KillCapture(c) \/ GraceKill(c)
      <3> DEFINE p == [procs[c] EXCEPT !.killed = TRUE]
      <3>1. p \in Proc /\ p.owner = procs[c].owner /\ p.up = procs[c].up
        BY <1>1 DEF Proc
      <3>2. SetProc(c, p)
        BY <2>1 DEF KillCapture, GraceKill
      <3>3. QED
        BY <3>1, <3>2
    <2>2. CASE \E verdict \in {"end", "relaunch"} : Fault(c, verdict)
      <3>1. PICK verdict \in {"end", "relaunch"} : Fault(c, verdict)
        BY <2>2
      <3> DEFINE p == [procs[c] EXCEPT !.fault = verdict, !.killed = TRUE]
      <3>2. p \in Proc /\ p.owner = procs[c].owner /\ p.up = procs[c].up
        BY <1>1 DEF Proc
      <3>3. SetProc(c, p)
        BY <3>1 DEF Fault
      <3>4. QED
        BY <3>2, <3>3
    <2>3. CASE DeliverTerm(c)
      <3> DEFINE p == [procs[c] EXCEPT !.term = "delivered"]
      <3>1. p \in Proc /\ p.owner = procs[c].owner /\ p.up = procs[c].up
        BY <1>1 DEF Proc
      <3>2. SetProc(c, p)
        BY <2>3 DEF DeliverTerm
      <3>3. QED
        BY <3>1, <3>2
    <2>4. QED
      BY <2>1, <2>2, <2>3
  <1>3. UNCHANGED <<sessions, draining, aux, strikes, dead, tracked>>
    BY DEF KillCapture, Fault, DeliverTerm, GraceKill
  <1>4. PICK p \in Proc : SetProc(c, p) /\ p.owner = procs[c].owner /\ p.up = procs[c].up
    BY <1>2
  <1>5. IInv'
    BY <1>1, <1>3, <1>4, MarkKeeps
  <1>6. SameProcs
    BY <1>1, <1>4 DEF SameProcs, SetProc, IInv, TypeOK
  <1>7. QED
    BY <1>5, <1>6

LEMMA RoutesKeep ==
  ASSUME IInv, StartDeferred \/ SweepIdle \/ Drain \/ PreemptAux
               \/ \E s \in SessionIds : Stop(s)
  PROVE  IInv' /\ SameProcs
  <1>1. CASE StartDeferred
    <2>1. CASE Preempted /\ UNCHANGED <<sessions, procs>>
      BY <1>1, <2>1, PreemptedKeeps DEF StartDeferred
    <2>2. CASE /\ \E s \in LeastRecent : Stopped({s})
               /\ UNCHANGED aux
      <3>1. PICK s \in LeastRecent : Stopped({s})
        BY <2>2
      <3>2. {s} \in SUBSET Held
        BY DEF LeastRecent
      <3>3. UNCHANGED <<aux, strikes, dead, tracked>>
        BY <1>1, <2>2 DEF StartDeferred
      <3>4. QED
        BY <3>1, <3>2, <3>3, StoppedKeeps
    <2>3. QED
      BY <1>1, <2>1, <2>2 DEF StartDeferred
  <1>2. CASE SweepIdle
    BY <1>2, StoppedKeeps DEF SweepIdle, IdleSessions
  <1>3. CASE Drain
    BY <1>3, StoppedKeeps DEF Drain
  <1>4. CASE PreemptAux
    BY <1>4, PreemptedKeeps DEF PreemptAux
  <1>5. CASE \E s \in SessionIds : Stop(s)
    BY <1>5, StoppedKeeps DEF Stop
  <1>6. QED
    BY <1>1, <1>2, <1>3, <1>4, <1>5

\* Every step preserves the invariant and is a step of the pool.
LEMMA StepHolds ==
  ASSUME IInv, [RegistryNext]_registryVars
  PROVE  IInv' /\ [Pool!PoolNext]_(Pool!poolVars)
  <1> USE DEF Pool!PoolNext
  <1>1. CASE \/ Tick
             \/ TrackerMoves
             \/ \E f \in Feeds : Forget(f)
             \/ \E s \in SessionIds : Heartbeat(s)
             \/ UNCHANGED registryVars
    BY <1>1, QuietKeeps, SameProcsStutters
  <1>2. CASE \E c \in Children :
               \/ KillCapture(c)
               \/ \E verdict \in {"end", "relaunch"} : Fault(c, verdict)
               \/ DeliverTerm(c)
               \/ GraceKill(c)
    BY <1>2, MarksKeep, SameProcsStutters
  <1>3. CASE StartDeferred \/ SweepIdle \/ Drain \/ PreemptAux
             \/ \E s \in SessionIds : Stop(s)
    BY <1>3, RoutesKeep, SameProcsStutters
  <1>4. CASE \E s \in SessionIds, c \in Children : Start(s, c)
    BY <1>4, StartKeeps
  <1>5. CASE \E c \in Children : CaptureStart(c)
    BY <1>5, CaptureStartKeeps
  <1>6. CASE \E c \in Children : Exit(c)
    BY <1>6, ExitKeeps
  <1>7. CASE \E c \in Children : ReapCapture(c)
    BY <1>7, ReapCaptureFrees
  <1>8. CASE \E c \in Children : ReapEnd(c)
    BY <1>8, ReapEndKeeps
  <1>9. CASE \E c, d \in Children : ReapRelaunch(c, d)
    BY <1>9, ReapRelaunchKeeps
  <1>10. QED
    BY <1>1, <1>2, <1>3, <1>4, <1>5, <1>6, <1>7, <1>8, <1>9
    DEF RegistryNext, RouteNext, CaptureNext, SupervisorNext

-----------------------------------------------------------------------------
(* The theorems. *)

\* The three counted sets partition the children the registry has not
\* reaped, and there are never more of those than the cap.
THEOREM RegistryInvariant == RegistrySpec => []IInv
  <1>1. IInv /\ [RegistryNext]_registryVars => IInv'
    BY StepHolds
  <1>2. QED
    BY InitHolds, <1>1, PTL DEF RegistrySpec

\* Sessions, children and their flags keep their types.
THEOREM RegistryTypeOK == RegistrySpec => []TypeOK
  <1>1. IInv => TypeOK
    BY DEF IInv
  <1>2. QED
    BY RegistryInvariant, <1>1, PTL

\* The provider never sees more of the registry's ffmpegs than the cap.
THEOREM RegistryUpstreamCap == RegistrySpec => []UpstreamCap
  <1>1. IInv => UpstreamCap
    <2> SUFFICES ASSUME IInv, Cap > 0
                 PROVE  Cardinality(OpenSockets) <= Cap
      BY DEF UpstreamCap
    <2>1. OpenSockets \in SUBSET DOMAIN procs
      BY DEF OpenSockets
    <2>2. /\ Cardinality(OpenSockets) <= Cardinality(DOMAIN procs)
          /\ Cardinality(OpenSockets) \in Nat
          /\ Cardinality(DOMAIN procs) \in Nat
      BY <2>1, FS_Subset, FS_CardinalityType DEF IInv, ProcsCapped
    <2>3. QED
      BY <2>2, RegistryAssumption DEF IInv, ProcsCapped
  <1>2. QED
    BY RegistryInvariant, <1>1, PTL

\* Every open socket is counted, and every session has a child of its own.
THEOREM RegistrySocketsCounted == RegistrySpec => []SocketsCounted
  <1>1. IInv => SocketsCounted
    BY DEF IInv, SocketsCounted, Partition, OpenSockets, SessionChildren
  <1>2. QED
    BY RegistryInvariant, <1>1, PTL

\* No slot is counted for a child that was already reaped.
THEOREM RegistryNoLeakedSlot == RegistrySpec => []NoLeakedSlot
  <1>1. IInv => NoLeakedSlot
    BY DEF IInv, NoLeakedSlot, Partition
  <1>2. QED
    BY RegistryInvariant, <1>1, PTL

\* A slot is freed only after its socket closed: the registry implements the
\* connection pool.
THEOREM RegistryImplementsPool == RegistrySpec => ImplementsPool
  <1>1. RegistryInit => Pool!PoolInit
    BY InitHolds
  <1>2. IInv /\ [RegistryNext]_registryVars => [Pool!PoolNext]_(Pool!poolVars)
    BY StepHolds
  <1>3. QED
    BY <1>1, <1>2, RegistryInvariant, PTL DEF RegistrySpec, ImplementsPool, Pool!PoolSpec

\* Reaping a stopped session's child starts no other child, and takes no
\* other session with it, whatever verdict its supervisor had reached.
THEOREM RegistryStopIsFinal == RegistrySpec => StopIsFinal
  <1> DEFINE Final == \A c \in draining :
                        c \notin draining' => /\ DOMAIN procs' = DOMAIN procs \ {c}
                                              /\ sessions' = sessions
  <1>1. IInv /\ [RegistryNext]_registryVars => [Final]_registryVars
    <2> SUFFICES ASSUME IInv, RegistryNext, NEW c \in draining, c \notin draining'
                 PROVE  DOMAIN procs' = DOMAIN procs \ {c} /\ sessions' = sessions
      OBVIOUS
    <2>1. CASE \E d \in Children : ReapCapture(d)
      BY <2>1 DEF ReapCapture, Reaped, Restrict
    <2>2. CASE \E d \in Children : ReapEnd(d)
      <3>1. ReapEnd(c)
        BY <2>2 DEF ReapEnd
      <3>2. ~ Registered(c)
        BY <3>1, SupervisedChild DEF ReapEnd
      <3>3. QED
        BY <3>1, <3>2 DEF ReapEnd, Reaped, Restrict
    <2>3. CASE \E d, e \in Children : ReapRelaunch(d, e)
      <3>1. PICK e \in Children : ReapRelaunch(c, e)
        BY <2>3 DEF ReapRelaunch
      <3>2. QED
        BY <3>1, SupervisedChild DEF ReapRelaunch
    <2>4. \/ draining \subseteq draining'
          \/ \E d \in Children : ReapCapture(d) \/ ReapEnd(d)
          \/ \E d, e \in Children : ReapRelaunch(d, e)
      BY DEF RegistryNext, RouteNext, CaptureNext, SupervisorNext, Tick, TrackerMoves,
             Forget, Heartbeat, Stop, Start, StartDeferred, SweepIdle, Drain, Stopped,
             Preempted, PreemptAux, CaptureStart, KillCapture, Fault, DeliverTerm,
             GraceKill, Exit
    <2>5. QED
      BY <2>1, <2>2, <2>3, <2>4
  <1>2. QED
    BY <1>1, RegistryInvariant, PTL DEF RegistrySpec, StopIsFinal

\* A feed is struck only by the clean end of a session still registered.
THEOREM RegistryStrikeJustified == RegistrySpec => StrikeJustified
  <1> DEFINE Worse(f) == strikes'[f] > strikes[f] \/ f \in dead' \ dead
             Cause(f) == \E s \in Held : /\ FeedOf[s] = f
                                         /\ sessions[s].child \notin DOMAIN procs'
                                         /\ procs[sessions[s].child].clean
  <1>1. IInv /\ [RegistryNext]_registryVars => [\A f \in Feeds : Worse(f) => Cause(f)]_registryVars
    <2> SUFFICES ASSUME IInv, RegistryNext, NEW f \in Feeds, Worse(f)
                 PROVE  Cause(f)
      OBVIOUS
    <2>1. ASSUME NEW c \in Children, Supervised(c), Strike(c), c \notin DOMAIN procs'
          PROVE  Cause(f)
      <3>1. Struck(c) /\ f = FeedOf[procs[c].owner]
        BY <2>1, RegistryAssumption DEF Strike, IInv, TypeOK
      <3>2. procs[c].clean /\ Registered(c)
        BY <2>1, <3>1, SupervisedChild DEF Struck, TornDown
      <3>3. QED
        BY <2>1, <3>1, <3>2 DEF Registered
    <2>2. CASE \E c \in Children : ReapEnd(c)
      BY <2>1, <2>2 DEF ReapEnd, Reaped, Restrict
    <2>3. CASE \E c, d \in Children : ReapRelaunch(c, d)
      <3>1. PICK c \in Children, d \in Children : ReapRelaunch(c, d)
        BY <2>3
      <3>2. Supervised(c) /\ Strike(c)
        BY <3>1 DEF ReapRelaunch
      <3>3. c \notin DOMAIN procs'
        BY <3>1 DEF ReapRelaunch, FreshChildren, Supervised
      <3>4. QED
        BY <2>1, <3>2, <3>3
    <2>4. CASE \E e \in Feeds : Forget(e)
      <3>1. ~ Worse(f)
        BY <2>4, RegistryAssumption DEF Forget, IInv, TypeOK
      <3>2. QED
        BY <3>1
    <2>5. CASE UNCHANGED <<strikes, dead>>
      <3>1. ~ Worse(f)
        BY <2>5, RegistryAssumption DEF IInv, TypeOK
      <3>2. QED
        BY <3>1
    <2>6. QED
      BY <2>2, <2>3, <2>4, <2>5
      DEF RegistryNext, RouteNext, CaptureNext, SupervisorNext, Tick, TrackerMoves,
          Heartbeat, Stop, Start, StartDeferred, SweepIdle, Drain, PreemptAux,
          CaptureStart, ReapCapture, KillCapture, Fault, DeliverTerm, GraceKill, Exit
  <1>2. QED
    BY <1>1, RegistryInvariant, PTL DEF RegistrySpec, StrikeJustified

=============================================================================
