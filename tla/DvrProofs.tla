------------------------------- MODULE DvrProofs -------------------------------
(***************************************************************************)
(* Outcomes stay, no recording gets a second ffmpeg, and completed means   *)
(* finished: for any number of recordings and restarts.                    *)
(***************************************************************************)
EXTENDS Dvr, TLAPS

-----------------------------------------------------------------------------
(* Type correctness *)

TickRecord == [pc : {"idle", "plan", "work", "mark", "fail", "wait", "backstop"},
               starts : SUBSET Recordings, stops : SUBSET Recordings,
               misses : SUBSET Recordings, cur : Recordings \cup {NoRecording}]

DelRecord == [rec : Recordings \cup {NoRecording}, seen : Statuses, path : BOOLEAN,
              current : Statuses \cup {"unread"}]

RowsOK ==
    /\ rows \in [Recordings -> [status : Statuses, path : BOOLEAN]]
    /\ window \in [Recordings -> {"before", "open", "closed"}]
    /\ files \subseteq Recordings

ChildrenOK ==
    /\ Recorded \subseteq Recordings
    /\ children \in [Recorded -> Child]
    /\ \A r \in Recorded : children[r].seen # "unread" => ~Running(r)

TasksOK ==
    /\ tick \in TickRecord
    /\ del \in DelRecord
    /\ stopping \in BOOLEAN
    /\ restarts \in 0..MaxRestarts

TypeInv == RowsOK /\ ChildrenOK /\ TasksOK

LEMMA TypeParts == TypeInv => TypeOK
BY DEF TypeInv, RowsOK, ChildrenOK, TasksOK, TypeOK, TickRecord, DelRecord

LEMMA NoChildren == DOMAIN << >> = {} /\ << >> \in [{} -> Child]
OBVIOUS

LEMMA TypeInit == DvrInit => TypeInv
<1> SUFFICES ASSUME DvrInit PROVE TypeInv
  OBVIOUS
<1>1. RowsOK
  BY DEF DvrInit, RowsOK, Statuses
<1>2. ChildrenOK
  BY NoChildren DEF DvrInit, ChildrenOK, Recorded
<1>3. TickIdle \in TickRecord
  BY DEF TickIdle, TickRecord
<1>4. NoDelete \in DelRecord
  BY DEF NoDelete, DelRecord, Statuses
<1>5. 0 \in 0..MaxRestarts
  BY DvrAssumption
<1>6. TasksOK
  BY <1>3, <1>4, <1>5, Zenon DEF DvrInit, TasksOK
<1> QED
  BY <1>1, <1>2, <1>6 DEF TypeInv

\* A row's status moves within the table's.
LEMMA WithStatusTyped ==
    ASSUME RowsOK, NEW r \in Recordings, NEW status \in Statuses, WithStatus(r, status),
           UNCHANGED window, files' \subseteq Recordings
    PROVE  RowsOK'
BY DEF RowsOK, WithStatus

LEMMA TerminatedTyped ==
    ASSUME ChildrenOK, NEW ids, Terminated(ids)
    PROVE  ChildrenOK'
<1>1. DOMAIN children' = Recorded
  BY DEF Terminated
<1>2. \A r \in Recorded : [children[r] EXCEPT !.term = TRUE] \in Child
  BY DEF ChildrenOK, Child
<1>3. children' \in [Recorded -> Child]
  BY <1>2 DEF Terminated, ChildrenOK
<1>4. \A r \in Recorded : /\ children'[r].exit = children[r].exit
                          /\ children'[r].seen = children[r].seen
  BY DEF Terminated, ChildrenOK, Child
<1> QED
  BY <1>1, <1>3, <1>4 DEF ChildrenOK, Recorded, Running

LEMMA TypeTick ==
    ASSUME TypeInv, TickNext
    PROVE  TypeInv'
<1> USE DEF TypeInv
<1>1. CASE TickRead
  <2>1. /\ Planned.starts \subseteq Recordings
        /\ Planned.stops \subseteq Recordings
        /\ Planned.misses \subseteq Recordings
    BY DEF Planned
  <2>2. tick' \in TickRecord
    BY <1>1, <2>1 DEF TickRead, TickRecord
  <2> QED
    BY <1>1, <2>2 DEF TickRead, RowsOK, ChildrenOK, TasksOK, Recorded, Running
<1>2. CASE TickPlan
  <2>1. tick' \in TickRecord
    BY <1>2 DEF TickPlan, TasksOK, TickRecord
  <2> QED
    BY <1>2, <2>1 DEF TickPlan, RowsOK, ChildrenOK, TasksOK, Recorded, Running
<1>3. ASSUME NEW r \in Recordings, TickStart(r)
      PROVE  TypeInv'
  <2>1. tick' \in TickRecord
    <3>1. tick \in TickRecord
      BY DEF TasksOK
    <3>2. \/ tick' = [tick EXCEPT !.starts = @ \ {r}]
          \/ tick' = [tick EXCEPT !.starts = @ \ {r}, !.pc = "fail", !.cur = r]
          \/ tick' = [tick EXCEPT !.starts = @ \ {r}, !.pc = "mark", !.cur = r]
      BY <1>3 DEF TickStart
    <3> QED
      BY <3>1, <3>2 DEF TickRecord
  <2>2. CASE UNCHANGED children
    BY <1>3, <2>1, <2>2 DEF TickStart, RowsOK, ChildrenOK, TasksOK, Recorded, Running
  <2>3. CASE children' = [i \in Recorded \cup {r} |-> IF i = r THEN NewChild ELSE children[i]]
    <3>1. NewChild \in Child /\ NewChild.seen = "unread"
      BY DEF NewChild, Child
    <3>2. ChildrenOK'
      BY <2>3, <3>1 DEF ChildrenOK, Recorded, Running
    <3> QED
      BY <1>3, <2>1, <3>2 DEF TickStart, RowsOK, TasksOK
  <2> QED
    BY <1>3, <2>2, <2>3 DEF TickStart
<1>4. CASE TickMark
  <2>1. tick' \in TickRecord
    BY <1>4 DEF TickMark, Becomes, TasksOK, TickRecord
  <2>2. rows' \in [Recordings -> [status : Statuses, path : BOOLEAN]]
    BY <1>4 DEF TickMark, RowsOK, Statuses, Active
  <2> QED
    BY <1>4, <2>1, <2>2 DEF TickMark, RowsOK, ChildrenOK, TasksOK, Recorded, Running
<1>5. CASE TickFail \/ TickBackstop
  <2>1. tick' \in TickRecord
    BY <1>5 DEF TickFail, TickBackstop, Becomes, TasksOK, TickRecord
  <2>2. rows' \in [Recordings -> [status : Statuses, path : BOOLEAN]]
    BY <1>5 DEF TickFail, TickBackstop, WithStatus, RowsOK, Statuses, Terminal
  <2> QED
    BY <1>5, <2>1, <2>2 DEF TickFail, TickBackstop, RowsOK, ChildrenOK, TasksOK, Recorded, Running
<1>6. ASSUME NEW r \in Recordings, TickStop(r)
      PROVE  TypeInv'
  <2>1. tick' \in TickRecord
    BY <1>6 DEF TickStop, TasksOK, TickRecord
  <2>2. ChildrenOK'
    BY <1>6, TerminatedTyped DEF TickStop
  <2> QED
    BY <1>6, <2>1, <2>2 DEF TickStop, RowsOK, TasksOK
<1>7. CASE TickWait
  <2>1. tick' \in TickRecord
    BY <1>7 DEF TickWait, Becomes, TasksOK, TickRecord
  <2> QED
    BY <1>7, <2>1 DEF TickWait, RowsOK, ChildrenOK, TasksOK, Recorded, Running
<1>8. ASSUME NEW r \in Recordings, TickMiss(r)
      PROVE  TypeInv'
  <2>1. tick' \in TickRecord
    BY <1>8 DEF TickMiss, TasksOK, TickRecord
  <2>2. RowsOK'
    BY <1>8, WithStatusTyped DEF TickMiss, RowsOK, Statuses, Terminal
  <2> QED
    BY <1>8, <2>1, <2>2 DEF TickMiss, ChildrenOK, TasksOK, Recorded, Running
<1>9. CASE TickEnd
  <2>1. tick' \in TickRecord
    BY <1>9 DEF TickEnd, TickIdle, TickRecord
  <2> QED
    BY <1>9, <2>1 DEF TickEnd, RowsOK, ChildrenOK, TasksOK, Recorded, Running
<1> QED
  BY <1>1, <1>2, <1>3, <1>4, <1>5, <1>6, <1>7, <1>8, <1>9 DEF TickNext

LEMMA TypeSupervise ==
    ASSUME TypeInv, NEW r \in Recordings, SuperviseNext(r)
    PROVE  TypeInv'
<1> USE DEF TypeInv
<1>1. CASE ChildExit(r)
  <2>1. PICK exit \in {"ok", "sigterm", "error"}, opened \in BOOLEAN :
            /\ children' = [children EXCEPT ![r].exit = exit]
            /\ files' = IF opened THEN files \cup {r} ELSE files
    BY <1>1 DEF ChildExit
  <2>2. ChildrenOK'
    BY <1>1, <2>1 DEF ChildExit, ChildrenOK, Recorded, Running, Child
  <2> QED
    BY <1>1, <2>1, <2>2 DEF ChildExit, RowsOK, TasksOK
<1>2. CASE FinalizeRead(r)
  <2>1. rows[r].status \in Statuses
    BY DEF RowsOK
  <2>2. ChildrenOK'
    BY <1>2, <2>1 DEF FinalizeRead, ChildrenOK, Recorded, Running, Child
  <2> QED
    BY <1>2, <2>2 DEF FinalizeRead, RowsOK, TasksOK
<1>3. CASE FinalizeWrite(r)
  <2>1. Outcome(r) \in Statuses
    BY DEF Outcome, RowsOK, Statuses, Terminal
  <2>2. RowsOK'
    BY <1>3, <2>1, WithStatusTyped DEF FinalizeWrite, RowsOK
  <2>3. ChildrenOK'
    BY <1>3 DEF FinalizeWrite, Restrict, ChildrenOK, Recorded, Running
  <2> QED
    BY <1>3, <2>2, <2>3 DEF FinalizeWrite, TasksOK
<1> QED
  BY <1>1, <1>2, <1>3 DEF SuperviseNext

LEMMA TypeDelete ==
    ASSUME TypeInv, DeleteNext
    PROVE  TypeInv'
<1> USE DEF TypeInv
<1>1. ASSUME NEW r \in Recordings, DeleteRead(r)
      PROVE  TypeInv'
  <2>1. del' \in DelRecord
    BY <1>1 DEF DeleteRead, RowsOK, DelRecord
  <2> QED
    BY <1>1, <2>1 DEF DeleteRead, RowsOK, ChildrenOK, TasksOK, Recorded, Running
<1>2. CASE CancelRead
  <2>1. rows[del.rec].status \in Statuses
    BY <1>2 DEF CancelRead, RowsOK, TasksOK, DelRecord
  <2>2. del' \in DelRecord
    BY <1>2, <2>1 DEF CancelRead, TasksOK, DelRecord
  <2> QED
    BY <1>2, <2>2 DEF CancelRead, RowsOK, ChildrenOK, TasksOK, Recorded, Running
<1>3. CASE CancelWrite
  <2>1. del' \in DelRecord
    BY <1>3 DEF CancelWrite, TasksOK, DelRecord, Statuses
  <2>2. rows' \in [Recordings -> [status : Statuses, path : BOOLEAN]]
    <3> DEFINE status == IF del.current \in Active THEN "cancelled" ELSE "deleted"
    <3>1. status \in Statuses
      BY DEF Statuses, Terminal
    <3>2. del.rec \in Recordings => rows[del.rec] \in [status : Statuses, path : BOOLEAN]
      BY DEF RowsOK
    <3>3. rows' = rows \/ rows' = [rows EXCEPT ![del.rec].status = status]
      BY <1>3 DEF CancelWrite, WithStatus
    <3> HIDE DEF status
    <3> QED
      BY <3>1, <3>2, <3>3 DEF RowsOK
  <2> QED
    BY <1>3, <2>1, <2>2 DEF CancelWrite, RowsOK, ChildrenOK, TasksOK, Recorded, Running
<1>4. CASE DeleteAct
  <2>1. del' \in DelRecord
    BY <1>4 DEF DeleteAct, NoDelete, DelRecord, Statuses
  <2>2. ChildrenOK'
    <3>1. CASE Terminated({del.rec})
      BY <3>1, TerminatedTyped
    <3>2. CASE UNCHANGED children
      BY <3>2 DEF ChildrenOK, Recorded, Running
    <3> QED
      BY <1>4, <3>1, <3>2 DEF DeleteAct
  <2> QED
    BY <1>4, <2>1, <2>2 DEF DeleteAct, RowsOK, TasksOK
<1>5. CASE DeleteDropped
  <2>1. del' \in DelRecord
    BY <1>5 DEF DeleteDropped, NoDelete, DelRecord, Statuses
  <2> QED
    BY <1>5, <2>1 DEF DeleteDropped, RowsOK, ChildrenOK, TasksOK, Recorded, Running
<1> QED
  BY <1>1, <1>2, <1>3, <1>4, <1>5 DEF DeleteNext

LEMMA TypeNext ==
    ASSUME TypeInv, [DvrNext]_dvrVars
    PROVE  TypeInv'
<1> USE DEF TypeInv
<1>1. ASSUME NEW r \in Recordings, Schedule(r)
      PROVE  TypeInv'
  <2>1. RowsOK'
    BY <1>1, WithStatusTyped DEF Schedule, RowsOK, Statuses, Active
  <2> QED
    BY <1>1, <2>1 DEF Schedule, ChildrenOK, TasksOK, Recorded, Running
<1>2. ASSUME NEW r \in Recordings, TimePasses(r)
      PROVE  TypeInv'
  BY <1>2 DEF TimePasses, RowsOK, ChildrenOK, TasksOK, Recorded, Running
<1>3. CASE Shutdown
  <2>1. tick' \in TickRecord
    BY <1>3 DEF Shutdown, TickIdle, TickRecord
  <2>2. ChildrenOK'
    BY <1>3, TerminatedTyped DEF Shutdown
  <2> QED
    BY <1>3, <2>1, <2>2 DEF Shutdown, RowsOK, TasksOK
<1>4. CASE Restart
  <2>1. tick' \in TickRecord
    BY <1>4 DEF Restart, TickIdle, TickRecord
  <2>2. del' \in DelRecord
    BY <1>4 DEF Restart, NoDelete, DelRecord, Statuses
  <2>3. restarts' \in 0..MaxRestarts
    BY <1>4, DvrAssumption DEF Restart, TasksOK
  <2>4. ChildrenOK'
    BY <1>4, NoChildren DEF Restart, ChildrenOK, Recorded
  <2> QED
    BY <1>4, <2>1, <2>2, <2>3, <2>4 DEF Restart, RowsOK, TasksOK
<1>5. CASE UNCHANGED dvrVars
  BY <1>5 DEF dvrVars, RowsOK, ChildrenOK, TasksOK, Recorded, Running
<1> QED
  BY <1>1, <1>2, <1>3, <1>4, <1>5, TypeTick, TypeSupervise, TypeDelete DEF DvrNext

LEMMA TypeInvariant == DvrSpec => []TypeInv
BY TypeInit, TypeNext, PTL DEF DvrSpec

\* Rows, children, the pass and the DELETE stay well formed, and a child's
\* outcome is read only after its exit, for any number of recordings.
THEOREM DvrTypeOK == DvrSpec => []TypeOK
BY TypeInvariant, TypeParts, PTL

-----------------------------------------------------------------------------
(* The pass *)

\* Behind TickPlan's back nobody else spawns; a window once closed stays so.
PassInv ==
    /\ tick.pc # "plan" => tick.starts \cap Recorded = {}
    /\ \A r \in tick.stops : window[r] = "closed"
    /\ tick.pc \in {"wait", "backstop"} => /\ tick.cur \in Recordings
                                          /\ window[tick.cur] = "closed"
    /\ tick.pc = "backstop" => tick.cur \notin Recorded

LEMMA PassInit == DvrInit => PassInv
BY DEF DvrInit, PassInv, TickIdle

\* A step that leaves the pass alone and spawns nothing.
LEMMA PassFrame ==
    ASSUME TypeInv, PassInv, UNCHANGED tick, Recorded' \subseteq Recorded,
           \A r \in Recordings : window[r] = "closed" => window'[r] = "closed"
    PROVE  PassInv'
<1>1. tick.stops \subseteq Recordings
  BY DEF TypeInv, TasksOK, TickRecord
<1> QED
  BY <1>1 DEF PassInv

LEMMA PassTick ==
    ASSUME TypeInv, PassInv, TickNext
    PROVE  PassInv'
<1>t. tick \in TickRecord
  BY DEF TypeInv, TasksOK
<1>1. CASE TickRead
  BY <1>1 DEF TickRead, Planned, PassInv
<1>2. CASE TickPlan
  BY <1>2, <1>t DEF TickPlan, PassInv, TickRecord, Recorded
<1>3. ASSUME NEW r \in Recordings, TickStart(r)
      PROVE  PassInv'
  <2>1. /\ tick'.starts = tick.starts \ {r}
        /\ tick'.stops = tick.stops
        /\ tick'.pc \in {"work", "fail", "mark"}
    BY <1>3, <1>t DEF TickStart, At, TickRecord
  <2>2. Recorded' \subseteq Recorded \cup {r}
    BY <1>3 DEF TickStart, Recorded
  <2>3. tick.starts \cap Recorded = {}
    BY <1>3 DEF TickStart, At, PassInv
  <2> QED
    BY <1>3, <2>1, <2>2, <2>3 DEF TickStart, PassInv
<1>4. CASE TickMark \/ TickFail \/ TickBackstop
  <2>1. /\ tick'.pc = "work"
        /\ tick'.starts = tick.starts
        /\ tick'.stops = tick.stops
        /\ tick.pc # "plan"
    BY <1>4, <1>t DEF TickMark, TickFail, TickBackstop, Becomes, At, TickRecord
  <2> QED
    BY <1>4, <2>1 DEF TickMark, TickFail, TickBackstop, PassInv, Recorded
<1>5. ASSUME NEW r \in Recordings, TickStop(r)
      PROVE  PassInv'
  <2>1. /\ tick'.pc = "wait"
        /\ tick'.cur = r
        /\ tick'.starts = {}
        /\ tick'.stops = tick.stops \ {r}
    BY <1>5, <1>t DEF TickStop, TickRecord
  <2> QED
    BY <1>5, <2>1 DEF TickStop, PassInv
<1>6. CASE TickWait
  <2>1. /\ tick'.pc \in {"work", "backstop"}
        /\ tick'.cur = tick.cur
        /\ tick'.starts = tick.starts
        /\ tick'.stops = tick.stops
    BY <1>6, <1>t DEF TickWait, Becomes, TickRecord
  <2> QED
    BY <1>6, <2>1 DEF TickWait, At, PassInv, Recorded
<1>7. ASSUME NEW r \in Recordings, TickMiss(r)
      PROVE  PassInv'
  <2>1. /\ tick'.pc = "work"
        /\ tick'.starts = {}
        /\ tick'.stops = {}
    BY <1>7, <1>t DEF TickMiss, At, TickRecord
  <2> QED
    BY <2>1 DEF PassInv
<1>8. CASE TickEnd
  BY <1>8 DEF TickEnd, TickIdle, PassInv
<1> QED
  BY <1>1, <1>2, <1>3, <1>4, <1>5, <1>6, <1>7, <1>8 DEF TickNext

LEMMA PassNext ==
    ASSUME TypeInv, PassInv, [DvrNext]_dvrVars
    PROVE  PassInv'
<1>1. ASSUME NEW r \in Recordings, Schedule(r) \/ TimePasses(r)
      PROVE  PassInv'
  <2>1. UNCHANGED tick /\ Recorded' = Recorded
    BY <1>1 DEF Schedule, TimePasses, Recorded
  <2>2. \A q \in Recordings : window[q] = "closed" => window'[q] = "closed"
    BY <1>1 DEF Schedule, TimePasses, TypeInv, RowsOK
  <2> QED
    BY <2>1, <2>2, PassFrame
<1>2. ASSUME NEW r \in Recordings, SuperviseNext(r)
      PROVE  PassInv'
  <2>1. UNCHANGED <<tick, window>>
    BY <1>2 DEF SuperviseNext, ChildExit, FinalizeRead, FinalizeWrite
  <2>2. Recorded' \subseteq Recorded
    BY <1>2 DEF SuperviseNext, ChildExit, FinalizeRead, FinalizeWrite, Restrict, Recorded,
                TypeInv, ChildrenOK
  <2> QED
    BY <2>1, <2>2, PassFrame
<1>3. CASE DeleteNext
  <2>1. UNCHANGED <<tick, window>>
    BY <1>3 DEF DeleteNext, DeleteRead, CancelRead, CancelWrite, DeleteAct, DeleteDropped
  <2>2. Recorded' \subseteq Recorded
    BY <1>3 DEF DeleteNext, DeleteRead, CancelRead, CancelWrite, DeleteAct, DeleteDropped,
                Terminated, Recorded
  <2> QED
    BY <2>1, <2>2, PassFrame
<1>4. CASE Shutdown \/ Restart
  BY <1>4 DEF Shutdown, Restart, TickIdle, PassInv
<1>5. CASE UNCHANGED dvrVars
  <2>1. UNCHANGED <<tick, window>> /\ Recorded' = Recorded
    BY <1>5 DEF dvrVars, Recorded
  <2> QED
    BY <2>1, PassFrame
<1> QED
  BY <1>1, <1>2, <1>3, <1>4, <1>5, PassTick DEF DvrNext

LEMMA PassInvariant == DvrSpec => [](TypeInv /\ PassInv)
<1>1. DvrInit => TypeInv /\ PassInv
  BY TypeInit, PassInit
<1>2. TypeInv /\ PassInv /\ [DvrNext]_dvrVars => (TypeInv /\ PassInv)'
  BY TypeNext, PassNext
<1> QED
  BY <1>1, <1>2, PTL DEF DvrSpec

-----------------------------------------------------------------------------
(* Outcomes *)

\* The steps that write a row's status, and what each writes.
LEMMA StatusSteps ==
    ASSUME TypeInv, [DvrNext]_dvrVars, NEW r \in Recordings,
           rows'[r].status # rows[r].status
    PROVE  \/ rows[r].status = "none" /\ rows'[r].status = "scheduled"
           \/ rows[r].status \in Active /\ rows'[r].status = "recording"
           \/ rows'[r].status \in {"failed", "missed", "cancelled", "deleted"}
           \/ TickBackstop /\ r = tick.cur
           \/ FinalizeWrite(r) /\ rows'[r].status = Outcome(r)
<1>r. rows \in [Recordings -> [status : Statuses, path : BOOLEAN]]
  BY DEF TypeInv, RowsOK
<1>1. ASSUME NEW q, NEW status, WithStatus(q, status)
      PROVE  rows'[r].status # rows[r].status => r = q /\ rows'[r].status = status
  BY <1>1, <1>r DEF WithStatus
<1>2. ASSUME NEW q \in Recordings, Schedule(q)
      PROVE  rows[r].status = "none" /\ rows'[r].status = "scheduled"
  BY <1>1, <1>2 DEF Schedule
<1>3. CASE TickNext
  <2>1. CASE TickMark
    BY <1>r, <2>1 DEF TickMark
  <2>2. CASE TickFail
    BY <1>1, <2>2 DEF TickFail
  <2>3. CASE TickBackstop
    BY <1>1, <2>3 DEF TickBackstop
  <2>4. ASSUME NEW q \in Recordings, TickMiss(q)
        PROVE  rows'[r].status = "missed"
    BY <1>1, <2>4 DEF TickMiss
  <2> QED
    BY <1>3, <2>1, <2>2, <2>3, <2>4
       DEF TickNext, TickRead, TickPlan, TickStart, TickStop, TickWait, TickEnd
<1>4. ASSUME NEW q \in Recordings, SuperviseNext(q)
      PROVE  FinalizeWrite(r) /\ rows'[r].status = Outcome(r)
  <2>1. FinalizeWrite(q)
    BY <1>4 DEF SuperviseNext, ChildExit, FinalizeRead
  <2>2. WithStatus(q, Outcome(q))
    BY <2>1 DEF FinalizeWrite
  <2> QED
    BY <1>1, <2>1, <2>2
<1>5. CASE DeleteNext
  <2>1. CancelWrite
    BY <1>5 DEF DeleteNext, DeleteRead, CancelRead, DeleteAct, DeleteDropped
  <2> QED
    BY <1>1, <2>1 DEF CancelWrite
<1>6. CASE (\E q \in Recordings : TimePasses(q)) \/ Shutdown \/ Restart \/ UNCHANGED dvrVars
  BY <1>6 DEF TimePasses, Shutdown, Restart, dvrVars
<1> QED
  BY <1>2, <1>3, <1>4, <1>5, <1>6 DEF DvrNext

\* tick, finalize, delete_route: however the four tasks interleave, a row
\* with an outcome never goes back to scheduled or recording.
THEOREM DvrOutcomeStays == DvrSpec => OutcomeStays
<1>1. ASSUME TypeInv, [DvrNext]_dvrVars, NEW r \in Recordings, rows[r].status \in Terminal
      PROVE  rows'[r].status \in Terminal \cup {"deleted"}
  <2>1. CASE rows'[r].status = rows[r].status
    BY <1>1, <2>1
  <2>2. CASE rows'[r].status # rows[r].status
    <3>1. TickBackstop /\ r = tick.cur => rows'[r].status = "completed"
      BY <1>1, <2>2 DEF TickBackstop, WithStatus, TypeInv, RowsOK
    <3>2. Outcome(r) \in {rows[r].status, "completed", "failed"}
      BY DEF Outcome
    <3> QED
      BY <1>1, <2>2, <3>1, <3>2, StatusSteps DEF Terminal, Active
  <2> QED
    BY <2>1, <2>2
<1>2. TypeInv /\ [DvrNext]_dvrVars
        => [\A r \in Recordings :
              rows[r].status \in Terminal => rows'[r].status \in Terminal \cup {"deleted"}]_dvrVars
  BY <1>1
<1> QED
  BY <1>2, TypeInvariant, PTL DEF DvrSpec, OutcomeStays

\* tick, start: whatever happened since the pass asked which recordings run,
\* it spawns no ffmpeg for one that has one.
THEOREM DvrNoSecondRecorder == DvrSpec => NoSecondRecorder
<1>1. ASSUME TypeInv, PassInv, [DvrNext]_dvrVars, tick.pc = "work", tick'.pc = "mark"
      PROVE  tick'.cur \notin Recorded
  <2>t. tick \in TickRecord
    BY <1>1 DEF TypeInv, TasksOK
  <2>a. ~(TickRead \/ TickPlan \/ TickMark \/ TickFail \/ TickWait \/ TickBackstop \/ TickEnd)
    BY <1>1, <2>t DEF TickRead, TickPlan, TickMark, TickFail, TickWait, TickBackstop,
                      TickEnd, At, Becomes, TickIdle, TickRecord
  <2>b. \A r \in Recordings : ~TickStop(r) /\ ~TickMiss(r)
    BY <1>1, <2>t DEF TickStop, TickMiss, TickRecord
  <2>c. ~(DeleteNext \/ Shutdown \/ Restart \/ UNCHANGED dvrVars)
    BY <1>1 DEF DeleteNext, DeleteRead, CancelRead, CancelWrite, DeleteAct, DeleteDropped,
                Shutdown, Restart, TickIdle, dvrVars
  <2>d. \A r \in Recordings : ~(Schedule(r) \/ TimePasses(r) \/ SuperviseNext(r))
    BY <1>1 DEF Schedule, TimePasses, SuperviseNext, ChildExit, FinalizeRead, FinalizeWrite
  <2>1. PICK r \in Recordings : TickStart(r)
    BY <1>1, <2>a, <2>b, <2>c, <2>d DEF DvrNext, TickNext
  <2>2. tick'.cur = r /\ r \in tick.starts
    BY <1>1, <2>t, <2>1 DEF TickStart, TickRecord
  <2> QED
    BY <1>1, <2>2 DEF PassInv
<1>2. TypeInv /\ PassInv /\ [DvrNext]_dvrVars
        => [(tick.pc = "work" /\ tick'.pc = "mark") => tick'.cur \notin Recorded]_dvrVars
  BY <1>1
<1> QED
  BY <1>2, PassInvariant, PTL DEF DvrSpec, NoSecondRecorder

\* tick's backstop, finalize: completed is written only once ffmpeg let go of
\* the file, although the backstop and the outcome are written by two tasks.
THEOREM DvrCompletedAfterExit == DvrSpec => CompletedAfterExit
<1>1. ASSUME TypeInv, PassInv, [DvrNext]_dvrVars, NEW r \in Recordings,
             rows[r].status # "completed", rows'[r].status = "completed"
      PROVE  ~Running(r)
  <2>1. (TickBackstop /\ r = tick.cur) \/ FinalizeWrite(r)
    BY <1>1, StatusSteps
  <2>2. CASE TickBackstop /\ r = tick.cur
    BY <1>1, <2>2 DEF TickBackstop, At, PassInv, Running
  <2>3. CASE FinalizeWrite(r)
    BY <1>1, <2>3 DEF FinalizeWrite, TypeInv, ChildrenOK
  <2> QED
    BY <2>1, <2>2, <2>3
<1>2. TypeInv /\ PassInv /\ [DvrNext]_dvrVars
        => [\A r \in Recordings :
              rows[r].status # "completed" /\ rows'[r].status = "completed"
                => ~Running(r)]_dvrVars
  BY <1>1
<1> QED
  BY <1>2, PassInvariant, PTL DEF DvrSpec, CompletedAfterExit

\* finalize: a SIGTERM inside the window, a deploy's or our own, never reads
\* as a finished recording; only an ffmpeg that ended by itself does.
THEOREM DvrInterruptionResumes == DvrSpec => InterruptionResumes
<1>1. ASSUME TypeInv, PassInv, [DvrNext]_dvrVars, NEW r \in Recordings,
             rows[r].status = "recording", rows'[r].status = "completed",
             window[r] # "closed"
      PROVE  r \in Recorded /\ children[r].exit = "ok"
  <2>1. \/ TickBackstop /\ r = tick.cur
        \/ FinalizeWrite(r) /\ rows'[r].status = Outcome(r)
    BY <1>1, StatusSteps
  <2>2. ~(TickBackstop /\ r = tick.cur)
    BY <1>1 DEF TickBackstop, At, PassInv
  <2>3. Outcome(r) = "completed" => children[r].exit = "ok"
    BY <1>1 DEF Outcome
  <2> QED
    BY <1>1, <2>1, <2>2, <2>3 DEF FinalizeWrite
<1>2. TypeInv /\ PassInv /\ [DvrNext]_dvrVars
        => [\A r \in Recordings :
              /\ rows[r].status = "recording"
              /\ rows'[r].status = "completed"
              /\ window[r] # "closed"
              => r \in Recorded /\ children[r].exit = "ok"]_dvrVars
  BY <1>1
<1> QED
  BY <1>2, PassInvariant, PTL DEF DvrSpec, InterruptionResumes

-----------------------------------------------------------------------------
(* The life of a recording *)

LEMMA RowsForward ==
    ASSUME TypeInv, [DvrNext]_dvrVars, NEW r \in Recordings
    PROVE  /\ rows[r].status # "none" => rows'[r].status # "none"
           /\ rows[r].status \in Terminal => rows'[r].status \in Terminal \cup {"deleted"}
           /\ rows[r].status = "deleted" => rows'[r].status = "deleted"
<1>r. rows \in [Recordings -> [status : Statuses, path : BOOLEAN]]
  BY DEF TypeInv, RowsOK
<1>1. CASE rows'[r].status = rows[r].status
  BY <1>1
<1>2. CASE rows'[r].status # rows[r].status
  <2>1. TickBackstop /\ r = tick.cur => rows'[r].status = "completed"
    BY <1>r, <1>2 DEF TickBackstop, WithStatus
  <2>2. Outcome(r) \in {rows[r].status, "completed", "failed"}
    BY DEF Outcome
  <2>3. rows[r].status # "deleted"
    <3>1. ASSUME NEW q, NEW status, WithStatus(q, status)
          PROVE  rows[r].status # "deleted"
      BY <1>r, <1>2, <3>1 DEF WithStatus
    <3>2. CASE TickMark
      BY <1>r, <1>2, <3>2 DEF TickMark, Active
    <3>3. CASE \E q \in Recordings : Schedule(q)
      BY <3>1, <3>3 DEF Schedule
    <3>4. CASE TickNext
      BY <1>2, <3>1, <3>2, <3>4
         DEF TickNext, TickRead, TickPlan, TickStart, TickFail, TickStop, TickWait, TickBackstop,
             TickMiss, TickEnd
    <3>5. CASE \E q \in Recordings : SuperviseNext(q)
      BY <1>2, <3>1, <3>5 DEF SuperviseNext, ChildExit, FinalizeRead, FinalizeWrite
    <3>6. CASE DeleteNext
      BY <1>2, <3>1, <3>6
         DEF DeleteNext, DeleteRead, CancelRead, CancelWrite, DeleteAct, DeleteDropped
    <3>7. ~((\E q \in Recordings : TimePasses(q)) \/ Shutdown \/ Restart \/ UNCHANGED dvrVars)
      BY <1>2 DEF TimePasses, Shutdown, Restart, dvrVars
    <3> QED
      BY <3>3, <3>4, <3>5, <3>6, <3>7 DEF DvrNext
  <2> QED
    BY <1>2, <2>1, <2>2, <2>3, StatusSteps DEF Terminal, Active
<1> QED
  BY <1>1, <1>2

\* Whatever a task remembers of a recording, its row exists; and a DELETE
\* that found an outcome still finds one when it acts on it.
Known ==
    /\ \A r \in tick.starts \cup tick.stops \cup tick.misses : rows[r].status # "none"
    /\ tick.pc \in {"mark", "fail", "wait", "backstop"} =>
          tick.cur \in Recordings /\ rows[tick.cur].status # "none"
    /\ \A r \in Recorded : rows[r].status # "none"
    /\ del.rec \in Recordings => rows[del.rec].status # "none"
    /\ del.current # "unread" => del.rec \in Recordings
    /\ del.current \in Terminal => rows[del.rec].status \in Terminal \cup {"deleted"}

LEMMA KnownInit == DvrInit => Known
<1> SUFFICES ASSUME DvrInit PROVE Known
  OBVIOUS
<1>1. /\ tick.starts = {} /\ tick.stops = {} /\ tick.misses = {}
      /\ tick.pc = "idle"
  BY DEF DvrInit, TickIdle
<1>2. Recorded = {}
  BY NoChildren DEF DvrInit, Recorded
<1>3. del.rec \notin Recordings /\ del.current = "unread"
  BY DvrAssumption DEF DvrInit, NoDelete
<1> QED
  BY <1>1, <1>2, <1>3 DEF Known, Terminal

\* The parts of Known, each about what one task remembers.
KnownTick ==
    /\ \A r \in tick.starts \cup tick.stops \cup tick.misses : rows[r].status # "none"
    /\ tick.pc \in {"mark", "fail", "wait", "backstop"} =>
          tick.cur \in Recordings /\ rows[tick.cur].status # "none"

KnownChildren == \A r \in Recorded : rows[r].status # "none"

KnownDelete ==
    /\ del.rec \in Recordings => rows[del.rec].status # "none"
    /\ del.current # "unread" => del.rec \in Recordings
    /\ del.current \in Terminal => rows[del.rec].status \in Terminal \cup {"deleted"}

LEMMA KnownParts == Known <=> KnownTick /\ KnownChildren /\ KnownDelete
BY DEF Known, KnownTick, KnownChildren, KnownDelete

LEMMA KnownTickKept ==
    ASSUME TypeInv, KnownTick, [DvrNext]_dvrVars, UNCHANGED tick
    PROVE  KnownTick'
<1>1. tick \in TickRecord
  BY DEF TypeInv, TasksOK
<1>2. \A r \in Recordings : rows[r].status # "none" => rows'[r].status # "none"
  BY RowsForward
<1> QED
  BY <1>1, <1>2 DEF KnownTick, TickRecord

LEMMA KnownDeleteKept ==
    ASSUME TypeInv, KnownDelete, [DvrNext]_dvrVars, UNCHANGED del
    PROVE  KnownDelete'
<1>1. CASE del.rec \in Recordings
  <2>1. /\ rows[del.rec].status # "none" => rows'[del.rec].status # "none"
        /\ rows[del.rec].status \in Terminal => rows'[del.rec].status \in Terminal \cup {"deleted"}
        /\ rows[del.rec].status = "deleted" => rows'[del.rec].status = "deleted"
    BY <1>1, RowsForward
  <2> QED
    BY <1>1, <2>1 DEF KnownDelete
<1>2. CASE del.rec \notin Recordings
  BY <1>2 DEF KnownDelete, Terminal
<1> QED
  BY <1>1, <1>2

LEMMA KnownChildrenKept ==
    ASSUME TypeInv, KnownChildren, [DvrNext]_dvrVars, Recorded' \subseteq Recorded
    PROVE  KnownChildren'
<1>1. Recorded \subseteq Recordings
  BY DEF TypeInv, ChildrenOK
<1> QED
  BY <1>1, RowsForward DEF KnownChildren

LEMMA KnownNext ==
    ASSUME TypeInv, Known, [DvrNext]_dvrVars
    PROVE  Known'
<1>k. KnownTick /\ KnownChildren /\ KnownDelete
  BY KnownParts
<1>t. tick \in TickRecord /\ del \in DelRecord
  BY DEF TypeInv, TasksOK
<1>f. \A r \in Recordings : rows[r].status # "none" => rows'[r].status # "none"
  BY RowsForward
<1>1. KnownTick'
  <2>1. CASE UNCHANGED tick
    BY <1>k, <2>1, KnownTickKept
  <2>2. CASE TickRead
    BY <1>k, <2>2 DEF TickRead, Planned, Active, KnownTick
  <2>3. CASE TickPlan
    BY <1>k, <1>t, <2>3 DEF TickPlan, KnownTick, TickRecord
  <2>4. ASSUME NEW r \in Recordings, TickStart(r)
        PROVE  KnownTick'
    <3>1. /\ tick'.starts \subseteq tick.starts
          /\ tick'.stops = tick.stops /\ tick'.misses = tick.misses
          /\ tick'.pc \in {"work", "fail", "mark"}
          /\ tick'.pc # "work" => tick'.cur = r
      BY <1>t, <2>4 DEF TickStart, At, TickRecord
    <3> QED
      BY <1>k, <1>t, <2>4, <3>1 DEF TickStart, KnownTick, TickRecord
  <2>5. CASE TickMark \/ TickFail \/ TickBackstop
    <3>1. /\ tick'.pc = "work"
          /\ tick'.starts = tick.starts /\ tick'.stops = tick.stops
          /\ tick'.misses = tick.misses
      BY <1>t, <2>5 DEF TickMark, TickFail, TickBackstop, Becomes, TickRecord
    <3> QED
      BY <1>k, <1>t, <1>f, <3>1 DEF KnownTick, TickRecord
  <2>6. ASSUME NEW r \in Recordings, TickStop(r)
        PROVE  KnownTick'
    <3>1. /\ tick'.pc = "wait" /\ tick'.cur = r
          /\ tick'.starts = tick.starts /\ tick'.stops \subseteq tick.stops
          /\ tick'.misses = tick.misses
      BY <1>t, <2>6 DEF TickStop, TickRecord
    <3> QED
      BY <1>k, <1>t, <1>f, <2>6, <3>1 DEF TickStop, KnownTick, TickRecord
  <2>7. CASE TickWait
    <3>1. /\ tick'.starts = tick.starts /\ tick'.stops = tick.stops
          /\ tick'.misses = tick.misses /\ tick'.cur = tick.cur /\ tick.pc = "wait"
      BY <1>t, <2>7 DEF TickWait, At, Becomes, TickRecord
    <3> QED
      BY <1>k, <1>t, <1>f, <2>7, <3>1 DEF KnownTick, TickRecord
  <2>8. ASSUME NEW r \in Recordings, TickMiss(r)
        PROVE  KnownTick'
    <3>1. /\ tick'.pc = "work"
          /\ tick'.starts = tick.starts /\ tick'.stops = tick.stops
          /\ tick'.misses \subseteq tick.misses
      BY <1>t, <2>8 DEF TickMiss, At, TickRecord
    <3> QED
      BY <1>k, <1>t, <1>f, <3>1 DEF KnownTick, TickRecord
  <2>9. CASE TickEnd \/ Shutdown \/ Restart
    BY <1>k, <2>9 DEF TickEnd, Shutdown, Restart, TickIdle, KnownTick
  <2> QED
    BY <2>1, <2>2, <2>3, <2>4, <2>5, <2>6, <2>7, <2>8, <2>9
       DEF DvrNext, TickNext, DeleteNext, DeleteRead, CancelRead, CancelWrite, DeleteAct,
           DeleteDropped, Schedule, TimePasses, SuperviseNext, ChildExit, FinalizeRead,
           FinalizeWrite, dvrVars
<1>2. KnownChildren'
  <2>1. CASE Recorded' \subseteq Recorded
    BY <1>k, <2>1, KnownChildrenKept
  <2>2. ASSUME NEW r \in Recordings, TickStart(r)
        PROVE  KnownChildren'
    <3>1. Recorded' \subseteq Recorded \cup {r} /\ r \in tick.starts /\ UNCHANGED rows
      BY <2>2 DEF TickStart, Recorded
    <3> QED
      BY <1>k, <3>1 DEF KnownChildren, KnownTick
  <2>3. ASSUME NEW r \in Recordings, SuperviseNext(r)
        PROVE  Recorded' \subseteq Recorded
    BY <2>3 DEF SuperviseNext, ChildExit, FinalizeRead, FinalizeWrite, Restrict, Recorded,
                TypeInv, ChildrenOK
  <2>4. CASE DeleteNext \/ Shutdown \/ Restart
    BY <2>1, <2>4 DEF DeleteNext, DeleteRead, CancelRead, CancelWrite, DeleteAct, DeleteDropped,
                      Shutdown, Restart, Terminated, Recorded
  <2>5. CASE TickNext
    BY <2>1, <2>2, <2>5
       DEF TickNext, TickRead, TickPlan, TickMark, TickFail, TickStop, TickWait, TickBackstop,
           TickMiss, TickEnd, Terminated, Recorded
  <2>6. CASE (\E r \in Recordings : Schedule(r) \/ TimePasses(r)) \/ UNCHANGED dvrVars
    BY <2>1, <2>6 DEF Schedule, TimePasses, dvrVars, Recorded
  <2> QED
    BY <2>1, <2>3, <2>4, <2>5, <2>6 DEF DvrNext
<1>3. KnownDelete'
  <2>1. CASE UNCHANGED del
    BY <1>k, <2>1, KnownDeleteKept
  <2>2. ASSUME NEW r \in Recordings, DeleteRead(r)
        PROVE  KnownDelete'
    BY <1>k, <2>2 DEF DeleteRead, KnownDelete, Terminal
  <2>3. CASE CancelRead
    <3>1. del'.rec = del.rec /\ del'.current = rows[del.rec].status /\ del.rec \in Recordings
      BY <1>t, <2>3 DEF CancelRead, DelRecord
    <3> QED
      BY <1>k, <2>3, <3>1 DEF CancelRead, KnownDelete
  <2>4. CASE CancelWrite
    <3>1. del'.rec = del.rec /\ del'.current \in {"none", "deleted"} /\ del.current # "unread"
      BY <1>t, <2>4 DEF CancelWrite, DelRecord, Active, Terminal
    <3> QED
      BY <1>k, <1>f, <3>1 DEF KnownDelete, Terminal
  <2>5. CASE DeleteAct \/ DeleteDropped \/ Restart
    BY <1>k, <2>5, DvrAssumption DEF DeleteAct, DeleteDropped, Restart, NoDelete, KnownDelete, Terminal
  <2>6. CASE TickNext
    BY <2>1, <2>6
       DEF TickNext, TickRead, TickPlan, TickStart, TickMark, TickFail, TickStop, TickWait,
           TickBackstop, TickMiss, TickEnd
  <2>7. CASE (\E r \in Recordings : Schedule(r) \/ TimePasses(r) \/ SuperviseNext(r))
             \/ Shutdown \/ UNCHANGED dvrVars
    BY <2>1, <2>7 DEF Schedule, TimePasses, SuperviseNext, ChildExit, FinalizeRead, FinalizeWrite,
                      Shutdown, dvrVars
  <2> QED
    BY <2>2, <2>3, <2>4, <2>5, <2>6, <2>7 DEF DvrNext, DeleteNext
<1> QED
  BY <1>1, <1>2, <1>3 DEF Known, KnownTick, KnownChildren, KnownDelete

LEMMA KnownInvariant == DvrSpec => [](TypeInv /\ PassInv /\ Known)
<1>1. DvrInit => TypeInv /\ PassInv /\ Known
  BY TypeInit, PassInit, KnownInit
<1>2. TypeInv /\ PassInv /\ Known /\ [DvrNext]_dvrVars => (TypeInv /\ PassInv /\ Known)'
  BY TypeNext, PassNext, KnownNext
<1> QED
  BY <1>1, <1>2, PTL DEF DvrSpec

\* What a write to a row, and a step of the recorder's map, are in the life.
LEMMA LifeView ==
    ASSUME NEW r \in Recordings
    PROVE  /\ RowStatus[r] = rows[r].status
           /\ r \notin Recorded => Ffmpeg[r] = "none"
           /\ r \in Recorded /\ ~Running(r) => Ffmpeg[r] = "exited"
           /\ Running(r) => Ffmpeg[r] = "running"
BY DEF RowStatus, Ffmpeg, Running

LEMMA StatusWritten ==
    ASSUME TypeInv, NEW r \in Recordings, NEW status, WithStatus(r, status)
    PROVE  /\ rows[r].status = "deleted" => RowStatus' = RowStatus
           /\ rows[r].status # "deleted" => RowStatus' = [RowStatus EXCEPT ![r] = status]
<1>1. rows \in [Recordings -> [status : Statuses, path : BOOLEAN]]
  BY DEF TypeInv, RowsOK
<1>2. CASE rows[r].status = "deleted"
  BY <1>2 DEF WithStatus, RowStatus
<1>3. CASE rows[r].status # "deleted"
  <2>1. rows' = [rows EXCEPT ![r].status = status]
    BY <1>3 DEF WithStatus
  <2>2. \A i \in Recordings : rows'[i].status = IF i = r THEN status ELSE rows[i].status
    BY <1>1, <2>1
  <2> QED
    BY <1>3, <2>2 DEF RowStatus
<1> QED
  BY <1>2, <1>3

LEMMA FfmpegKept ==
    ASSUME Recorded' = Recorded, \A r \in Recorded : children'[r].exit = children[r].exit
    PROVE  Ffmpeg' = Ffmpeg
BY DEF Ffmpeg, Running

LEMMA TerminatedKeeps ==
    ASSUME TypeInv, NEW ids, Terminated(ids)
    PROVE  Ffmpeg' = Ffmpeg
<1>1. children \in [Recorded -> Child]
  BY DEF TypeInv, ChildrenOK
<1>2. Recorded' = Recorded
  BY DEF Terminated, Recorded
<1>3. \A r \in Recorded : children'[r].exit = children[r].exit
  BY <1>1 DEF Terminated, Child
<1> QED
  BY <1>2, <1>3, FfmpegKept

LEMMA ChildrenSame ==
    ASSUME UNCHANGED children
    PROVE  Ffmpeg' = Ffmpeg
BY FfmpegKept DEF Recorded

LEMMA RowsSame ==
    ASSUME UNCHANGED rows
    PROVE  RowStatus' = RowStatus
BY DEF RowStatus

\* A task that settles a row which exists, and completes it only once ffmpeg
\* is gone, settles the recording, or nothing if the row is deleted.
LEMMA Settles ==
    ASSUME TypeInv, NEW r \in Recordings, NEW outcome \in Terminal, WithStatus(r, outcome),
           rows[r].status # "none", outcome = "completed" => r \notin Recorded,
           UNCHANGED children
    PROVE  Life!Settle(r) \/ UNCHANGED <<RowStatus, Ffmpeg>>
<1>1. UNCHANGED Ffmpeg
  BY ChildrenSame
<1>2. outcome = "completed" => Ffmpeg[r] = "none"
  BY LifeView
<1>3. CASE rows[r].status = "deleted"
  BY <1>1, <1>3, StatusWritten
<1>4. CASE rows[r].status # "deleted"
  <2>1. RowStatus' = [RowStatus EXCEPT ![r] = outcome]
    BY <1>4, StatusWritten
  <2>2. RowStatus[r] \notin {"none", "deleted"}
    BY <1>4, LifeView
  <2> QED
    BY <1>1, <1>2, <2>1, <2>2 DEF Life!Settle, Life!Outcomes, Terminal
<1> QED
  BY <1>3, <1>4

LifeStutter == UNCHANGED <<RowStatus, Ffmpeg>>

\* tick: a start spawns, the update begins, the rest settles or is not seen.
LEMMA LifeTick ==
    ASSUME TypeInv, PassInv, Known, TickNext
    PROVE  \/ \E r \in Recordings : Life!Spawn(r) \/ Life!Begin(r) \/ Life!Settle(r)
           \/ LifeStutter
<1>k. KnownTick
  BY KnownParts
<1>t. tick \in TickRecord
  BY DEF TypeInv, TasksOK
<1>r. rows \in [Recordings -> [status : Statuses, path : BOOLEAN]]
  BY DEF TypeInv, RowsOK
<1>1. CASE TickRead \/ TickPlan \/ TickWait \/ TickEnd
  <2>1. UNCHANGED rows /\ UNCHANGED children
    BY <1>1 DEF TickRead, TickPlan, TickWait, TickEnd
  <2> QED
    BY <2>1, RowsSame, ChildrenSame DEF LifeStutter
<1>2. ASSUME NEW r \in Recordings, TickStart(r)
      PROVE  Life!Spawn(r) \/ LifeStutter
  <2>1. RowStatus' = RowStatus
    BY <1>2, RowsSame DEF TickStart
  <2>2. CASE UNCHANGED children
    BY <2>1, <2>2, ChildrenSame DEF LifeStutter
  <2>3. CASE children' = [i \in Recorded \cup {r} |-> IF i = r THEN NewChild ELSE children[i]]
    <3>1. r \in tick.starts /\ tick.pc = "work"
      BY <1>2 DEF TickStart, At
    <3>2. r \notin Recorded /\ rows[r].status # "none"
      BY <1>k, <3>1 DEF PassInv, KnownTick
    <3>3. Recorded' = Recorded \cup {r}
      BY <2>3 DEF Recorded
    <3>4. children'[r].exit = "running"
      BY <2>3 DEF NewChild
    <3>5. \A i \in Recorded : children'[i] = children[i]
      BY <2>3, <3>2
    <3>6. Ffmpeg' = [Ffmpeg EXCEPT ![r] = "running"]
      BY <3>2, <3>3, <3>4, <3>5 DEF Ffmpeg, Running
    <3> QED
      BY <2>1, <3>2, <3>6, LifeView DEF Life!Spawn
  <2> QED
    BY <1>2, <2>2, <2>3 DEF TickStart
<1>3. CASE TickMark
  <2>1. tick.pc = "mark" /\ UNCHANGED children
    BY <1>3 DEF TickMark, At
  <2> DEFINE c == tick.cur
  <2>2. c \in Recordings /\ rows[c].status # "none"
    BY <1>k, <2>1 DEF KnownTick
  <2>3. rows' = [rows EXCEPT ![c] = IF rows[c].status \in Active
                                      THEN [status |-> "recording", path |-> TRUE] ELSE rows[c]]
    BY <1>3 DEF TickMark
  <2>4. Ffmpeg' = Ffmpeg
    BY <2>1, ChildrenSame
  <2>5. CASE rows[c].status = "scheduled"
    <3>1. \A i \in Recordings : rows'[i].status = IF i = c THEN "recording" ELSE rows[i].status
      BY <1>r, <2>2, <2>3, <2>5 DEF Active
    <3>2. RowStatus' = [RowStatus EXCEPT ![c] = "recording"]
      BY <3>1 DEF RowStatus
    <3>3. Life!Begin(c)
      BY <2>2, <2>4, <2>5, <3>2, LifeView DEF Life!Begin
    <3> QED
      BY <2>2, <3>3
  <2>6. CASE rows[c].status # "scheduled"
    <3>1. \A i \in Recordings : rows'[i].status = rows[i].status
      BY <1>r, <2>2, <2>3, <2>6 DEF Active
    <3>2. RowStatus' = RowStatus
      BY <3>1 DEF RowStatus
    <3> QED
      BY <2>4, <3>2 DEF LifeStutter
  <2> QED
    BY <2>5, <2>6
<1>4. CASE TickFail
  <2>1. tick.pc = "fail" /\ UNCHANGED children /\ WithStatus(tick.cur, "failed")
    BY <1>4 DEF TickFail, At
  <2>2. tick.cur \in Recordings /\ rows[tick.cur].status # "none"
    BY <1>k, <2>1 DEF KnownTick
  <2>3. "failed" \in Terminal
    BY DEF Terminal
  <2> QED
    BY <2>1, <2>2, <2>3, Settles DEF LifeStutter
<1>5. ASSUME NEW r \in Recordings, TickStop(r)
      PROVE  LifeStutter
  BY <1>5, RowsSame, TerminatedKeeps DEF TickStop, LifeStutter
<1>6. CASE TickBackstop
  <2>1. tick.pc = "backstop" /\ UNCHANGED children /\ WithStatus(tick.cur, "completed")
    BY <1>6 DEF TickBackstop, At
  <2>2. tick.cur \in Recordings /\ rows[tick.cur].status # "none" /\ tick.cur \notin Recorded
    BY <1>k, <2>1 DEF KnownTick, PassInv
  <2>3. "completed" \in Terminal
    BY DEF Terminal
  <2> QED
    BY <2>1, <2>2, <2>3, Settles DEF LifeStutter
<1>7. ASSUME NEW r \in Recordings, TickMiss(r)
      PROVE  Life!Settle(r) \/ LifeStutter
  <2>1. r \in tick.misses /\ UNCHANGED children /\ WithStatus(r, "missed")
    BY <1>7 DEF TickMiss
  <2>2. rows[r].status # "none"
    BY <1>k, <2>1 DEF KnownTick
  <2>3. "missed" \in Terminal
    BY DEF Terminal
  <2> QED
    BY <2>1, <2>2, <2>3, Settles DEF LifeStutter
<1> QED
  BY <1>1, <1>2, <1>3, <1>4, <1>5, <1>6, <1>7 DEF TickNext

\* supervise: the exit, then the outcome in one step with the map's removal.
LEMMA LifeSupervise ==
    ASSUME TypeInv, Known, NEW r \in Recordings, SuperviseNext(r)
    PROVE  Life!Exit(r) \/ Life!Conclude(r) \/ LifeStutter
<1>c. children \in [Recorded -> Child]
  BY DEF TypeInv, ChildrenOK
<1>1. CASE ChildExit(r)
  <2>1. PICK exit \in {"ok", "sigterm", "error"} :
           children' = [children EXCEPT ![r].exit = exit]
    BY <1>1 DEF ChildExit
  <2>2. r \in Recorded /\ Running(r) /\ Recorded' = Recorded
    BY <1>1, <2>1 DEF ChildExit, Running, Recorded
  <2>3. \A i \in Recorded : children'[i].exit = IF i = r THEN exit ELSE children[i].exit
    BY <1>c, <2>1, <2>2 DEF Child
  <2>4. Ffmpeg' = [Ffmpeg EXCEPT ![r] = "exited"]
    BY <2>2, <2>3 DEF Ffmpeg, Running
  <2>5. RowStatus' = RowStatus
    BY <1>1, RowsSame DEF ChildExit
  <2> QED
    BY <2>2, <2>4, <2>5, LifeView DEF Life!Exit
<1>2. CASE FinalizeRead(r)
  <2>1. Recorded' = Recorded
    BY <1>2 DEF FinalizeRead, Recorded
  <2>2. \A i \in Recorded : children'[i].exit = children[i].exit
    BY <1>2, <1>c DEF FinalizeRead, Child
  <2> QED
    BY <1>2, <2>1, <2>2, FfmpegKept, RowsSame DEF FinalizeRead, LifeStutter
<1>3. CASE FinalizeWrite(r)
  <2>1. r \in Recorded /\ ~Running(r)
    BY <1>3 DEF FinalizeWrite, TypeInv, ChildrenOK
  <2>2. children' = [i \in Recorded \ {r} |-> children[i]]
    BY <1>3 DEF FinalizeWrite, Restrict
  <2>3. Recorded' = Recorded \ {r} /\ \A i \in Recorded' : children'[i] = children[i]
    BY <2>2 DEF Recorded
  <2>4. Ffmpeg' = [Ffmpeg EXCEPT ![r] = "none"]
    BY <2>3 DEF Ffmpeg, Running
  <2>5. Ffmpeg[r] = "exited"
    BY <2>1, LifeView
  <2>6. rows[r].status # "none" /\ RowStatus[r] = rows[r].status
    BY <2>1, KnownParts, LifeView DEF KnownChildren
  <2>7. CASE UNCHANGED RowStatus
    BY <2>4, <2>5, <2>7 DEF Life!Conclude
  <2>8. CASE RowStatus' # RowStatus
    <3>1. WithStatus(r, Outcome(r))
      BY <1>3, <2>8, RowsSame DEF FinalizeWrite
    <3>2. rows[r].status # "deleted" /\ RowStatus' = [RowStatus EXCEPT ![r] = Outcome(r)]
      BY <2>8, <3>1, StatusWritten
    <3>3. Outcome(r) # RowStatus[r]
      BY <2>8, <3>2 DEF RowStatus
    <3>4. Outcome(r) \in {"completed", "failed"}
      BY <2>6, <3>3 DEF Outcome
    <3> QED
      BY <2>4, <2>5, <2>6, <3>2, <3>4 DEF Life!Conclude
  <2> QED
    BY <2>7, <2>8
<1> QED
  BY <1>1, <1>2, <1>3 DEF SuperviseNext

\* delete_route: cancel settles the row or deletes it, by a status read an
\* await before the write.
LEMMA LifeDelete ==
    ASSUME TypeInv, Known, DeleteNext
    PROVE  \/ \E r \in Recordings : Life!Settle(r) \/ Life!Delete(r)
           \/ LifeStutter
<1>1. CASE CancelWrite
  <2> DEFINE c == del.rec
  <2>1. /\ del.current \in Active \cup Terminal /\ UNCHANGED children
        /\ WithStatus(c, IF del.current \in Active THEN "cancelled" ELSE "deleted")
    BY <1>1 DEF CancelWrite
  <2>2. c \in Recordings /\ rows[c].status # "none"
    BY <2>1, KnownParts DEF KnownDelete, Active, Terminal
  <2>3. CASE del.current \in Active
    <3>1. "cancelled" \in Terminal
      BY DEF Terminal
    <3> QED
      BY <2>1, <2>2, <2>3, <3>1, Settles DEF LifeStutter
  <2>4. CASE del.current \notin Active
    <3>1. rows[c].status \in Terminal \cup {"deleted"} /\ WithStatus(c, "deleted")
      BY <2>1, <2>4, KnownParts DEF KnownDelete
    <3>2. Ffmpeg' = Ffmpeg
      BY <2>1, ChildrenSame
    <3>3. CASE rows[c].status = "deleted"
      BY <2>2, <3>1, <3>2, <3>3, StatusWritten DEF LifeStutter
    <3>4. CASE rows[c].status # "deleted"
      <4>1. RowStatus' = [RowStatus EXCEPT ![c] = "deleted"]
        BY <2>2, <3>1, <3>4, StatusWritten
      <4>2. RowStatus[c] \in Life!Outcomes
        BY <2>2, <3>1, <3>4, LifeView DEF Terminal, Life!Outcomes
      <4> QED
        BY <2>2, <3>2, <4>1, <4>2 DEF Life!Delete
    <3> QED
      BY <3>3, <3>4
  <2> QED
    BY <2>3, <2>4
<1>2. CASE (\E r \in Recordings : DeleteRead(r)) \/ CancelRead \/ DeleteDropped
  <2>1. UNCHANGED rows /\ UNCHANGED children
    BY <1>2 DEF DeleteRead, CancelRead, DeleteDropped
  <2> QED
    BY <2>1, RowsSame, ChildrenSame DEF LifeStutter
<1>3. CASE DeleteAct
  <2>1. UNCHANGED rows /\ (UNCHANGED children \/ Terminated({del.rec}))
    BY <1>3 DEF DeleteAct
  <2> QED
    BY <2>1, RowsSame, ChildrenSame, TerminatedKeeps DEF LifeStutter
<1> QED
  BY <1>1, <1>2, <1>3 DEF DeleteNext

LEMMA LifeStep ==
    ASSUME TypeInv, PassInv, Known, [DvrNext]_dvrVars
    PROVE  [Life!LifeNext]_(Life!lifeVars)
<1>s. LifeStutter => UNCHANGED Life!lifeVars
  BY DEF LifeStutter, Life!lifeVars
<1>1. ASSUME NEW r \in Recordings, Schedule(r)
      PROVE  Life!Schedule(r)
  <2>1. rows[r].status = "none" /\ WithStatus(r, "scheduled") /\ UNCHANGED children
    BY <1>1 DEF Schedule
  <2>2. RowStatus' = [RowStatus EXCEPT ![r] = "scheduled"]
    BY <2>1, StatusWritten
  <2> QED
    BY <2>1, <2>2, ChildrenSame, LifeView DEF Life!Schedule
<1>2. ASSUME NEW r \in Recordings, TimePasses(r)
      PROVE  LifeStutter
  BY <1>2, RowsSame, ChildrenSame DEF TimePasses, LifeStutter
<1>3. CASE Shutdown
  BY <1>s, <1>3, RowsSame, TerminatedKeeps DEF Shutdown, LifeStutter
<1>4. CASE Restart
  <2>1. Recorded' = {}
    BY <1>4, NoChildren DEF Restart, Recorded
  <2>2. Ffmpeg' = [r \in Recordings |-> "none"]
    BY <2>1 DEF Ffmpeg
  <2> QED
    BY <1>4, <2>2, RowsSame DEF Restart, Life!Lose, Life!LifeNext
<1>5. CASE UNCHANGED dvrVars
  BY <1>s, <1>5, RowsSame, ChildrenSame DEF dvrVars, LifeStutter
<1>6. CASE TickNext
  BY <1>6, <1>s, LifeTick DEF Life!LifeNext
<1>7. ASSUME NEW r \in Recordings, SuperviseNext(r)
      PROVE  [Life!LifeNext]_(Life!lifeVars)
  BY <1>7, <1>s, LifeSupervise DEF Life!LifeNext
<1>8. CASE DeleteNext
  BY <1>8, <1>s, LifeDelete DEF Life!LifeNext
<1> QED
  BY <1>s, <1>1, <1>2, <1>3, <1>4, <1>5, <1>6, <1>7, <1>8 DEF DvrNext, Life!LifeNext

\* tick, supervise, finalize, delete_route, stop_all: each works on a view of
\* the row some awaits old, and still every step of theirs is a step of the
\* recording's life or not seen in it.
THEOREM DvrImplementsLife == DvrSpec => ImplementsLife
<1>1. DvrInit => Life!LifeInit
  <2> SUFFICES ASSUME DvrInit PROVE Life!LifeInit
    OBVIOUS
  <2>1. Recorded = {}
    BY NoChildren DEF DvrInit, Recorded
  <2>2. \A r \in Recordings : rows[r].status = "none"
    BY DEF DvrInit
  <2> QED
    BY <2>1, <2>2 DEF Life!LifeInit, RowStatus, Ffmpeg
<1>2. TypeInv /\ PassInv /\ Known /\ [DvrNext]_dvrVars => [Life!LifeNext]_(Life!lifeVars)
  BY LifeStep
<1> QED
  BY <1>1, <1>2, KnownInvariant, PTL DEF DvrSpec, ImplementsLife, Life!LifeSpec

=============================================================================
