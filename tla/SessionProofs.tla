--------------------------- MODULE SessionProofs ---------------------------
(***************************************************************************)
(* Theorems about SessionLifecycle and ContinuityGaps, for any number of   *)
(* requests, runs, message counts and edits, and for any clock             *)
(***************************************************************************)
EXTENDS ContinuityGaps, FiniteSetTheorems, TLAPS

USE SessionAssumption, NoneAssumption, GapAssumption

SessionStep == SessionNext \/ \E r \in Runs : RunGoesOn(r)

(* The steps of the session, one disjunct for each action *)
LEMMA Steps ==
  ASSUME [SessionStep]_sessionVars
  PROVE  \/ \E p \in Callers, j \in Jobs, n \in Totals : Call(p, j, n)
         \/ \E p \in Callers : Open(p)
         \/ \E p \in Callers : SkipKnown(p) \/ SkipUnreadable(p) \/ HasNews(p)
         \/ \E p \in Callers : DeleteMarks(p)
         \/ \E p \in Callers : CreateMark(p)
         \/ \E p \in Callers : BeginClose(p)
         \/ \E p \in Callers : Close(p)
         \/ \E p \in Callers : BreakOff(p)
         \/ \E r \in Runs : FindIdle(r)
         \/ \E r \in Runs : FindNoIdle(r) \/ JanitorFails(r) \/ RunGoesOn(r)
         \/ \E r \in Runs : CloseIdle(r)
         \/ Tick
         \/ UNCHANGED sessionVars
BY DEF SessionStep, SessionNext, Request, MoveWatermark, Janitor

-----------------------------------------------------------------------------
(***************************************************************************)
(* The inductive invariant: the types of what resolveRunirSession reads    *)
(* and writes, and that a row, once read, stays: nothing here deletes one. *)
(***************************************************************************)
Places == {"idle", "write", "watermark", "delete", "create", "close", "closing"}

TypeOK ==
  /\ row \in Row \union {None}
  /\ now \in 1..MaxNow
  /\ at \in [Callers -> Places]
  /\ job \in [Callers -> {"open", "store", "end"}]
  /\ read \in [Callers -> Row \union {None}]
  /\ when \in [Callers -> Time]
  /\ cutoff \in [Runs -> Time]

RowStays == \A p \in Callers : read[p] # None => row # None

IndInv == TypeOK /\ RowStays

LEMMA InitInv == ASSUME SessionInit PROVE IndInv
<1>1. 1 \in 1..MaxNow /\ 0 \in Time
  BY DEF Time
<1> QED BY <1>1 DEF SessionInit, IndInv, TypeOK, RowStays, Places

(* A row that is written by the UPDATE or by the UPSERT is a row. *)
LEMMA RowWritten ==
  ASSUME TypeOK, RowStays, NEW p \in Callers, NEW input \in {None, "active", "closed"},
         WriteRow(p, input)
  PROVE  /\ row' \in Row
         /\ (read[p] # None) => row # None /\ row'.last >= row.last
<1>1. StatusFor(p, input) \in {"active", "closed"}
  BY DEF StatusFor, TypeOK, Row
<1>2. when[p] \in Time /\ 0 \in Time
  BY DEF TypeOK, Time
<1> DEFINE status == StatusFor(p, input)
           t == when[p]
<1>3. CASE read[p] # None
  <2>1. row' = Stamped(row, status, t) /\ row \in Row
    BY <1>3 DEF WriteRow, RowStays, TypeOK
  <2> HIDE DEF status, t
  <2>2. Later(t, row.last) \in Time /\ Later(t, row.last) >= row.last
    BY <1>2, <2>1 DEF Later, Row, Time, t
  <2>3. row.last \in Time /\ row.last >= row.last
    BY <2>1 DEF Row, Time
  <2> QED BY <1>1, <1>2, <1>3, <2>1, <2>2, <2>3 DEF Stamped, Row, status, t
<1>4. CASE read[p] = None
  <2>1. row' = Created(status, t)
    BY <1>4 DEF WriteRow
  <2> HIDE DEF status, t
  <2> QED BY <1>1, <1>2, <1>4, <2>1 DEF Created, Row, status, t
<1> QED BY <1>3, <1>4

(* A row the janitor closes is a row, closed no earlier than it was. *)
LEMMA RowClosed ==
  ASSUME TypeOK, NEW r \in Runs, CloseIdle(r)
  PROVE  row' # row => row # None /\ row' \in Row /\ row'.last >= row.last
<1> SUFFICES ASSUME row' # row PROVE row # None /\ row' \in Row /\ row'.last >= row.last
  OBVIOUS
<1>1. /\ row # None
      /\ row' = [row EXCEPT !.status = "closed", !.closed = row.seen,
                            !.last = Later(row.seen, row.last)]
  BY DEF CloseIdle, Idle
<1>2. row \in Row /\ row.seen \in Time /\ row.last \in Time
  BY <1>1 DEF TypeOK, Row
<1>3. Later(row.seen, row.last) \in Time /\ Later(row.seen, row.last) >= row.last
  BY <1>2 DEF Later, Time
<1> QED BY <1>1, <1>2, <1>3 DEF Row

LEMMA InvKept == ASSUME IndInv, [SessionStep]_sessionVars PROVE IndInv'
<1> USE DEF IndInv
<1>1. ASSUME NEW p \in Callers, NEW j \in Jobs, NEW n \in Totals, Call(p, j, n) PROVE IndInv'
  BY <1>1 DEF Call, ReadRow, Goto, TypeOK, RowStays, Places, Time, running
<1>2. ASSUME NEW p \in Callers, Open(p) PROVE IndInv'
  <2>1. row' \in Row /\ row' # None
    BY <1>2, RowWritten DEF Open
  <2> QED BY <1>2, <2>1 DEF Open, Leave, Goto, TypeOK, RowStays, Places, Time, running
<1>3. ASSUME NEW p \in Callers, SkipKnown(p) \/ SkipUnreadable(p) \/ HasNews(p) PROVE IndInv'
  BY <1>3 DEF SkipKnown, SkipUnreadable, HasNews, Leave, Goto, TypeOK, RowStays, Places, Time, running
<1>4. ASSUME NEW p \in Callers, DeleteMarks(p) PROVE IndInv'
  BY <1>4 DEF DeleteMarks, Goto, TypeOK, RowStays, Places, running
<1>5. ASSUME NEW p \in Callers, CreateMark(p) PROVE IndInv'
  BY <1>5 DEF CreateMark, Goto, TypeOK, RowStays, Places, running
<1>6. ASSUME NEW p \in Callers, BeginClose(p) PROVE IndInv'
  BY <1>6 DEF BeginClose, ReadRow, Goto, TypeOK, RowStays, Places, Time, running
<1>7. ASSUME NEW p \in Callers, Close(p) PROVE IndInv'
  <2>1. row' \in Row /\ row' # None
    BY <1>7, RowWritten DEF Close
  <2> QED BY <1>7, <2>1 DEF Close, Leave, Goto, TypeOK, RowStays, Places, Time, running
<1>8. ASSUME NEW p \in Callers, BreakOff(p) PROVE IndInv'
  BY <1>8 DEF BreakOff, Leave, Goto, TypeOK, RowStays, Places, Time, running
<1>9. ASSUME NEW r \in Runs, FindIdle(r) PROVE IndInv'
  <2>1. now - IdleClose \in Time
    BY <1>9 DEF FindIdle, TypeOK, Time
  <2> QED BY <1>9, <2>1 DEF FindIdle, Enter, TypeOK, RowStays, calling
<1>10. ASSUME NEW r \in Runs, FindNoIdle(r) \/ JanitorFails(r) \/ RunGoesOn(r) PROVE IndInv'
  BY <1>10 DEF FindNoIdle, JanitorFails, RunGoesOn, LeaveJanitor, Enter, TypeOK, RowStays, Time, calling
<1>11. ASSUME NEW r \in Runs, CloseIdle(r) PROVE IndInv'
  <2>1. row' = row \/ (row' \in Row /\ row' # None)
    BY <1>11, RowClosed
  <2> QED BY <1>11, <2>1 DEF CloseIdle, LeaveJanitor, TypeOK, RowStays, Time, calling
<1>12. ASSUME Tick PROVE IndInv'
  BY <1>12 DEF Tick, TypeOK, RowStays, calling, running
<1>13. CASE UNCHANGED sessionVars
  BY <1>13 DEF sessionVars, TypeOK, RowStays, calling, running
<1> QED BY Steps, <1>1, <1>2, <1>3, <1>4, <1>5, <1>6, <1>7, <1>8, <1>9, <1>10, <1>11, <1>12, <1>13

-----------------------------------------------------------------------------
(* The time of the last close never goes back while no resolve believes    *)
(* that there is no row, whatever stale reads and idle closes are in       *)
(* flight.                                                                 *)
THEOREM CloseTheorem == SessionSpec => CloseIsMonotone
<1>1. IndInv /\ [SessionStep]_sessionVars =>
        [(row # None /\ \A p \in Callers : ~Creating(p)) => row'.last >= row.last]_row
  <2> SUFFICES ASSUME IndInv, [SessionStep]_sessionVars, row # None,
                      \A p \in Callers : ~Creating(p), row' # row
               PROVE  row'.last >= row.last
    OBVIOUS
  <2> USE DEF IndInv
  <2>1. ASSUME NEW p \in Callers, Open(p) \/ Close(p) PROVE row'.last >= row.last
    <3>1. PICK input \in {None, "active", "closed"} : WriteRow(p, input)
      BY <2>1 DEF Open, Close
    <3>2. read[p] # None
      BY <2>1 DEF Open, Close, Creating
    <3> QED BY <3>1, <3>2, RowWritten
  <2>2. ASSUME NEW r \in Runs, CloseIdle(r) PROVE row'.last >= row.last
    BY <2>2, RowClosed
  <2>3. ASSUME \/ \E p \in Callers, j \in Jobs, n \in Totals : Call(p, j, n)
               \/ \E p \in Callers : SkipKnown(p) \/ SkipUnreadable(p) \/ HasNews(p)
               \/ \E p \in Callers : DeleteMarks(p) \/ CreateMark(p) \/ BeginClose(p) \/ BreakOff(p)
               \/ \E r \in Runs : FindIdle(r) \/ FindNoIdle(r) \/ JanitorFails(r) \/ RunGoesOn(r)
               \/ Tick
               \/ UNCHANGED sessionVars
        PROVE  FALSE
    BY <2>3 DEF Call, SkipKnown, SkipUnreadable, HasNews, DeleteMarks, CreateMark, BeginClose,
       BreakOff, FindIdle, FindNoIdle, JanitorFails, RunGoesOn, Tick, sessionVars
  <2> QED BY Steps, <2>1, <2>2, <2>3
<1> QED BY InitInv, InvKept, <1>1, PTL DEF SessionSpec, CloseIsMonotone, SessionStep

-----------------------------------------------------------------------------
(* A watermark that was set is there, unless a session-end is between the  *)
(* two queries of createWatermark or broke off there.                      *)
MarkInv == IndInv /\ WatermarkNotLost

LEMMA MarkKept == ASSUME MarkInv, [SessionStep]_sessionVars PROVE MarkInv'
<1>1. IndInv'
  BY InvKept DEF MarkInv
<1> USE DEF MarkInv, IndInv
<1>2. ASSUME NEW p \in Callers, CreateMark(p) PROVE WatermarkNotLost'
  BY <1>2 DEF CreateMark, WatermarkNotLost
<1>3. ASSUME NEW p \in Callers, DeleteMarks(p) PROVE WatermarkNotLost'
  <2>1. at'[p] = "create"
    BY <1>3 DEF DeleteMarks, Goto, TypeOK
  <2> QED BY <2>1 DEF WatermarkNotLost
<1>4. ASSUME NEW p \in Callers, BreakOff(p) PROVE WatermarkNotLost'
  BY <1>4 DEF BreakOff, Leave, Goto, WatermarkNotLost, TypeOK
<1>5. ASSUME UNCHANGED marking, NEW p \in Callers, at[p] # "create",
             \A q \in Callers : q # p => at'[q] = at[q]
      PROVE  WatermarkNotLost'
  BY <1>5 DEF WatermarkNotLost, marking
<1>6. ASSUME NEW p \in Callers,
             \/ \E j \in Jobs, n \in Totals : Call(p, j, n)
             \/ Open(p) \/ Close(p) \/ BeginClose(p)
             \/ SkipKnown(p) \/ SkipUnreadable(p) \/ HasNews(p)
      PROVE  WatermarkNotLost'
  <2>1. UNCHANGED marking /\ at[p] # "create" /\ \E place : at' = [at EXCEPT ![p] = place]
    BY <1>6 DEF Call, Open, Close, BeginClose, SkipKnown, SkipUnreadable, HasNews, ReadRow, Leave, Goto
  <2>2. \A q \in Callers : q # p => at'[q] = at[q]
    BY <2>1 DEF TypeOK
  <2> QED BY <1>5, <2>1, <2>2
<1>7. ASSUME \/ \E r \in Runs : FindIdle(r) \/ FindNoIdle(r) \/ JanitorFails(r) \/ RunGoesOn(r) \/ CloseIdle(r)
             \/ Tick
             \/ UNCHANGED sessionVars
      PROVE  WatermarkNotLost'
  <2>1. UNCHANGED <<at, marking>>
    BY <1>7 DEF FindIdle, FindNoIdle, JanitorFails, RunGoesOn, CloseIdle, Tick, sessionVars, calling
  <2> QED BY <2>1 DEF WatermarkNotLost, marking
<1> QED BY Steps, <1>1, <1>2, <1>3, <1>4, <1>6, <1>7

(* The watermark of a session survives any interleaving of session-ends.   *)
THEOREM WatermarkTheorem == SessionSpec => []WatermarkNotLost
<1>1. SessionInit => MarkInv
  BY InitInv DEF MarkInv, SessionInit, WatermarkNotLost
<1>2. MarkInv => WatermarkNotLost
  BY DEF MarkInv
<1> QED BY <1>1, <1>2, MarkKept, PTL DEF SessionSpec, SessionStep

-----------------------------------------------------------------------------
(***************************************************************************)
(* The gaps of the session                                                 *)
(***************************************************************************)
OpenGaps == {g \in Generations : Open_(g)}
AtMostOne(S) == \A g, h \in S : g = h

Stages == {"idle", "closeidle", "detect", "evaluate", "find", "refind", "create",
           "update", "reconcile", "supersede"}
Statuses == {"none", "new", "active", "superseded", "dismissed", "materialized"}

GapTypes ==
  /\ step \in [Runs -> Stages]
  /\ gap \in [Generations -> Statuses]
  /\ gen \in [Runs -> Time]
  /\ prior \in [Runs -> Statuses]
  /\ stale \in [Runs -> SUBSET Generations]

(* A run that upserts or reconciles gaps was given a generation to look at. *)
Listed ==
  \A r \in Runs : step[r] \in {"find", "refind", "create", "update", "reconcile"} => gen[r] # 0

(* At most one gap is open, or a run that has not reconciled yet will see   *)
(* them all, or one holds a list of all the others, or one was cut off.     *)
OneLeft ==
  \/ cutOff
  \/ \E r \in Runs : step[r] = "reconcile"
  \/ AtMostOne(OpenGaps)
  \/ \E r \in Runs : step[r] = "supersede" /\ AtMostOne(OpenGaps \ stale[r])

GapInv == IndInv /\ GapTypes /\ Listed /\ OneLeft

LEMMA GapInit == Init => GapInv
<1> SUFFICES ASSUME Init PROVE GapInv
  OBVIOUS
<1>1. IndInv
  BY InitInv DEF Init
<1>2. GapTypes /\ Listed
  BY DEF Init, SessionInit, GapTypes, Listed, Stages, Statuses, Generations, Time
<1>3. OpenGaps = {}
  BY DEF Init, OpenGaps, Open_
<1> QED BY <1>1, <1>2, <1>3 DEF GapInv, OneLeft, AtMostOne

(* The steps of one run of the detector *)
DetectorStep(r) ==
  \/ NotEvaluated(r)
  \/ ListEnded(r)
  \/ Evaluate(r)
  \/ FindExistingGap(r)
  \/ CreateGap(r)
  \/ UpdateGap(r)
  \/ ListOpenGaps(r)
  \/ \E g \in Generations : SupersedeGap(r, g)
  \/ EndDetection(r)
  \/ DetectionFails(r)

LEMMA GapSteps ==
  ASSUME [Next]_vars
  PROVE  \/ SessionNext /\ UNCHANGED <<gap, content, deciding, cutOff>>
         \/ \E r \in Runs : DetectorStep(r)
         \/ CaptureWork \/ ChangeHandoff \/ FirstBuild
         \/ \E g \in Generations, status \in Decisions : Decide(g, status)
         \/ UNCHANGED vars
BY DEF Next, Detection, DetectorStep

(* The detector and the edits leave the row, the requests and the janitor's *)
(* cutoff alone.                                                            *)
LEMMA SessionsLeftAlone ==
  ASSUME IndInv, UNCHANGED <<sessions, cutoff>>
  PROVE  IndInv'
BY DEF IndInv, TypeOK, RowStays, sessions, calling

LEMMA SessionKept == ASSUME IndInv, [Next]_vars PROVE IndInv'
<1>1. CASE SessionNext
  BY <1>1, InvKept DEF SessionStep
<1>2. ASSUME NEW r \in Runs, DetectorStep(r) PROVE UNCHANGED <<sessions, cutoff>>
  BY <1>2 DEF DetectorStep, ListEnded, Evaluate, FindExistingGap, CreateGap, UpdateGap,
     ListOpenGaps, SupersedeGap, EndDetection, NotEvaluated, DetectionFails, LeaveDetection,
     running
<1>3. CASE CaptureWork \/ ChangeHandoff \/ FirstBuild
           \/ \E g \in Generations, status \in Decisions : Decide(g, status)
  <2>1. UNCHANGED <<sessions, cutoff>>
    BY <1>3 DEF CaptureWork, ChangeHandoff, FirstBuild, Decide, Edit, running
  <2> QED BY <2>1, SessionsLeftAlone
<1>4. CASE UNCHANGED vars
  <2>1. UNCHANGED <<sessions, cutoff>>
    BY <1>4 DEF vars, running
  <2> QED BY <2>1, SessionsLeftAlone
<1> QED BY GapSteps, SessionsLeftAlone, <1>1, <1>2, <1>3, <1>4

(* The janitor works before the detection: its steps touch no run that      *)
(* looks at gaps.                                                           *)
LEMMA JanitorMoves ==
  ASSUME step \in [Runs -> Stages], SessionNext
  PROVE  /\ step' \in [Runs -> Stages]
         /\ \A r \in Runs : \/ step'[r] = step[r]
                            \/ step'[r] \in {"closeidle", "detect"} /\ step[r] \in {"idle", "closeidle"}
<1>1. ASSUME NEW s \in Runs, Janitor(s) \/ JanitorFails(s)
      PROVE  /\ step[s] \in {"idle", "closeidle"}
             /\ \E place \in {"closeidle", "detect"} : step' = [step EXCEPT ![s] = place]
  BY <1>1 DEF Janitor, FindIdle, FindNoIdle, CloseIdle, JanitorFails, LeaveJanitor, Enter
<1>2. CASE UNCHANGED step
  BY <1>2
<1>3. CASE \E s \in Runs : Janitor(s) \/ JanitorFails(s)
  <2>1. PICK s \in Runs : Janitor(s) \/ JanitorFails(s)
    BY <1>3
  <2>2. PICK place \in {"closeidle", "detect"} : step' = [step EXCEPT ![s] = place]
    BY <1>1, <2>1
  <2>3. step[s] \in {"idle", "closeidle"}
    BY <1>1, <2>1
  <2> QED BY <2>2, <2>3 DEF Stages
<1>4. ASSUME NEW p \in Callers, Request(p) \/ BreakOff(p)
             \/ \E j \in Jobs, n \in Totals : Call(p, j, n)
      PROVE  UNCHANGED step
  BY <1>4 DEF Request, BreakOff, Call, Open, SkipKnown, SkipUnreadable, HasNews,
     MoveWatermark, DeleteMarks, CreateMark, BeginClose, Close, running
<1>5. CASE Tick
  BY <1>5, <1>2 DEF Tick, running
<1> QED BY <1>2, <1>3, <1>4, <1>5 DEF SessionNext

LEMMA GapTypesKept == ASSUME GapInv, [Next]_vars PROVE GapTypes' /\ Listed'
<1> USE DEF GapInv, GapTypes, Listed
<1>1. CASE SessionNext /\ UNCHANGED <<gap, content, deciding, cutOff>>
  BY <1>1, JanitorMoves DEF deciding
<1>2. ASSUME NEW r \in Runs, ListEnded(r) PROVE GapTypes' /\ Listed'
  <2>1. (IF row = None THEN 0 ELSE row.last) \in Time
    BY DEF IndInv, TypeOK, Row, Time
  <2>2. gen' \in [Runs -> Time] /\ step' \in [Runs -> Stages]
    BY <1>2, <2>1 DEF ListEnded, Enter, Stages
  <2>3. GapTypes'
    BY <1>2, <2>2 DEF ListEnded
  <2>4. Listed'
    BY <1>2 DEF ListEnded, Enter
  <2> QED BY <2>3, <2>4
<1>3. ASSUME NEW r \in Runs, Evaluate(r) PROVE GapTypes' /\ Listed'
  <2>1. PICK place \in {"supersede", "find", "reconcile"} :
          step' = [step EXCEPT ![r] = place] /\ (place # "supersede" => gen[r] # 0)
    BY <1>3 DEF Evaluate, Enter
  <2> QED BY <1>3, <2>1 DEF Evaluate, Stages
<1>4. ASSUME NEW r \in Runs, FindExistingGap(r) PROVE GapTypes' /\ Listed'
  <2>1. gen[r] # 0 /\ gap[gen[r]] \in Statuses
    BY <1>4 DEF FindExistingGap, Generations, Time
  <2>2. PICK place \in {"create", "update"} : step' = [step EXCEPT ![r] = place]
    BY <1>4 DEF FindExistingGap, Enter
  <2> QED BY <1>4, <2>1, <2>2 DEF FindExistingGap, Stages
<1>5. ASSUME NEW r \in Runs, CreateGap(r) PROVE GapTypes' /\ Listed'
  <2>1. gen[r] # 0
    BY <1>5 DEF CreateGap
  <2>2. PICK place \in {"reconcile", "refind"} : step' = [step EXCEPT ![r] = place]
    BY <1>5 DEF CreateGap, Enter
  <2>3. gap' \in [Generations -> Statuses]
    BY <1>5 DEF CreateGap, Statuses
  <2> QED BY <1>5, <2>1, <2>2, <2>3 DEF CreateGap, deciding, Stages
<1>6. ASSUME NEW r \in Runs, UpdateGap(r) PROVE GapTypes' /\ Listed'
  <2>1. Refired(prior[r]) \in Statuses
    BY DEF Refired, Sticky, Statuses
  <2>2. gap' \in [Generations -> Statuses] /\ prior' \in [Runs -> Statuses]
    BY <1>6, <2>1 DEF UpdateGap, Statuses
  <2>3. gen[r] # 0 /\ step' = [step EXCEPT ![r] = "reconcile"]
    BY <1>6 DEF UpdateGap, Enter
  <2> QED BY <1>6, <2>2, <2>3 DEF UpdateGap, Stages
<1>7. ASSUME NEW r \in Runs, ListOpenGaps(r) PROVE GapTypes' /\ Listed'
  <2>1. stale' \in [Runs -> SUBSET Generations]
    BY <1>7 DEF ListOpenGaps
  <2>2. gen' = [gen EXCEPT ![r] = 0] /\ step' = [step EXCEPT ![r] = "supersede"]
    BY <1>7 DEF ListOpenGaps, Enter
  <2> QED BY <1>7, <2>1, <2>2 DEF ListOpenGaps, Stages, Time
<1>8. ASSUME NEW r \in Runs, NEW g \in Generations, SupersedeGap(r, g) PROVE GapTypes' /\ Listed'
  <2>1. gap' \in [Generations -> Statuses] /\ stale' \in [Runs -> SUBSET Generations]
    BY <1>8 DEF SupersedeGap, Statuses
  <2> QED BY <1>8, <2>1 DEF SupersedeGap, running
<1>9. ASSUME NEW r \in Runs, LeaveDetection(r) PROVE GapTypes' /\ Listed'
  <2>1. step' = [step EXCEPT ![r] = "idle"] /\ gen' = [gen EXCEPT ![r] = 0] /\ gap' = gap
    BY <1>9 DEF LeaveDetection, Enter
  <2>2. prior' \in [Runs -> Statuses] /\ stale' \in [Runs -> SUBSET Generations]
    BY <1>9 DEF LeaveDetection, Statuses
  <2>3. step' \in [Runs -> Stages] /\ gen' \in [Runs -> Time]
    BY <2>1 DEF Stages, Time
  <2>4. step'[r] = "idle" /\ \A s \in Runs : s # r => step'[s] = step[s] /\ gen'[s] = gen[s]
    BY <2>1
  <2>5. Listed'
    BY <2>4
  <2> QED BY <2>1, <2>2, <2>3, <2>5
<1>10. ASSUME NEW r \in Runs, DetectorStep(r) PROVE GapTypes' /\ Listed'
  BY <1>2, <1>3, <1>4, <1>5, <1>6, <1>7, <1>8, <1>9, <1>10
     DEF DetectorStep, EndDetection, NotEvaluated, DetectionFails
<1>11. ASSUME NEW g \in Generations, NEW status \in Decisions, Decide(g, status)
       PROVE  GapTypes' /\ Listed'
  BY <1>11 DEF Decide, Edit, running, deciding, Statuses
<1>12. CASE CaptureWork \/ ChangeHandoff \/ FirstBuild
  BY <1>12 DEF CaptureWork, ChangeHandoff, FirstBuild, Edit, running, deciding
<1>13. CASE UNCHANGED vars
  BY <1>13 DEF vars, running, deciding
<1> QED BY GapSteps, <1>1, <1>10, <1>11, <1>12, <1>13

(* What keeps OneLeft: nothing opens, and the run that is to close the      *)
(* others goes on being there.                                              *)
LEMMA OneLeftStays ==
  ASSUME OneLeft, cutOff' = cutOff, OpenGaps' \subseteq OpenGaps, NEW S \in SUBSET Runs,
         \A r \in Runs \ S : step'[r] = step[r] /\ stale'[r] = stale[r],
         \A r \in S : step[r] \notin {"reconcile", "supersede"}
  PROVE  OneLeft'
<1>1. CASE cutOff
  BY <1>1 DEF OneLeft
<1>2. ASSUME NEW r \in Runs, step[r] = "reconcile" PROVE OneLeft'
  BY <1>2 DEF OneLeft
<1>3. CASE AtMostOne(OpenGaps)
  <2>1. AtMostOne(OpenGaps')
    BY <1>3 DEF AtMostOne
  <2> QED BY <2>1 DEF OneLeft, AtMostOne
<1>4. ASSUME NEW r \in Runs, step[r] = "supersede", AtMostOne(OpenGaps \ stale[r])
      PROVE  OneLeft'
  <2>1. step'[r] = "supersede" /\ stale'[r] = stale[r]
    BY <1>4
  <2>2. AtMostOne(OpenGaps' \ stale'[r])
    BY <1>4, <2>1 DEF AtMostOne
  <2> QED BY <2>1, <2>2 DEF OneLeft, AtMostOne
<1> QED BY <1>1, <1>2, <1>3, <1>4 DEF OneLeft

LEMMA OneLeftKept == ASSUME GapInv, [Next]_vars PROVE OneLeft'
<1> USE DEF GapInv, GapTypes, Listed
<1>1. gap' = gap => OpenGaps' = OpenGaps
  BY DEF OpenGaps, Open_
<1>2. CASE SessionNext /\ UNCHANGED <<gap, content, deciding, cutOff>>
  <2> DEFINE S == {r \in Runs : step'[r] # step[r]}
  <2>1. \A r \in S : step[r] \in {"idle", "closeidle"}
    BY <1>2, JanitorMoves
  <2>2. \A r \in Runs \ S : step'[r] = step[r] /\ stale'[r] = stale[r]
    BY <1>2 DEF deciding
  <2>3. \A r \in S : step[r] \notin {"reconcile", "supersede"}
    BY <2>1
  <2> HIDE DEF S
  <2>4. S \in SUBSET Runs
    BY DEF S
  <2>5. OpenGaps' \subseteq OpenGaps /\ cutOff' = cutOff
    BY <1>1, <1>2
  <2> QED BY <2>2, <2>3, <2>4, <2>5, OneLeftStays
<1>3. ASSUME NEW r \in Runs,
             ListEnded(r) \/ Evaluate(r) \/ FindExistingGap(r) \/ NotEvaluated(r)
      PROVE  OneLeft'
  <2>1. /\ step[r] \notin {"reconcile", "supersede"}
        /\ UNCHANGED <<gap, cutOff>> /\ \A s \in Runs \ {r} : stale'[s] = stale[s]
        /\ \E place : step' = [step EXCEPT ![r] = place]
    BY <1>3 DEF ListEnded, Evaluate, FindExistingGap, NotEvaluated, LeaveDetection, Enter
  <2>2. \A s \in Runs \ {r} : step'[s] = step[s] /\ stale'[s] = stale[s]
    BY <2>1
  <2>3. OpenGaps' \subseteq OpenGaps /\ cutOff' = cutOff
    BY <1>1, <2>1
  <2>4. {r} \in SUBSET Runs /\ \A s \in {r} : step[s] \notin {"reconcile", "supersede"}
    BY <2>1
  <2> QED BY <2>2, <2>3, <2>4, OneLeftStays
<1>4. ASSUME NEW r \in Runs, CreateGap(r) PROVE OneLeft'
  <2>1. CASE gap[gen[r]] = "none"
    <3>1. step'[r] = "reconcile"
      BY <1>4, <2>1 DEF CreateGap, Enter
    <3> QED BY <3>1 DEF OneLeft
  <2>2. CASE gap[gen[r]] # "none"
    <3>1. /\ step[r] = "create" /\ UNCHANGED <<gap, stale, cutOff>>
          /\ step' = [step EXCEPT ![r] = "refind"]
      BY <1>4, <2>2 DEF CreateGap, Enter, deciding
    <3>2. \A s \in Runs \ {r} : step'[s] = step[s] /\ stale'[s] = stale[s]
      BY <3>1
    <3>3. OpenGaps' \subseteq OpenGaps /\ cutOff' = cutOff
      BY <1>1, <3>1
    <3>4. {r} \in SUBSET Runs /\ \A s \in {r} : step[s] \notin {"reconcile", "supersede"}
      BY <3>1
    <3> QED BY <3>2, <3>3, <3>4, OneLeftStays
  <2> QED BY <2>1, <2>2
<1>5. ASSUME NEW r \in Runs, UpdateGap(r) PROVE OneLeft'
  <2>1. step'[r] = "reconcile"
    BY <1>5 DEF UpdateGap, Enter
  <2> QED BY <2>1 DEF OneLeft
<1>6. ASSUME NEW r \in Runs, ListOpenGaps(r) PROVE OneLeft'
  <2>1. step'[r] = "supersede" /\ gen[r] # 0 /\ gap' = gap
    BY <1>6 DEF ListOpenGaps, Enter
  <2>2. stale'[r] = {g \in Generations : Open_(g) /\ ~(fires[r] /\ g = gen[r]) /\ Eligible(r, g)}
    BY <1>6 DEF ListOpenGaps
  <2>3. \A g \in OpenGaps \ stale'[r] : g = gen[r]
    BY <2>1, <2>2 DEF OpenGaps, Eligible
  <2>4. AtMostOne(OpenGaps' \ stale'[r])
    BY <1>1, <2>1, <2>3 DEF AtMostOne
  <2> QED BY <2>1, <2>4 DEF OneLeft, AtMostOne
<1>7. ASSUME NEW r \in Runs, NEW g \in Generations, SupersedeGap(r, g) PROVE OneLeft'
  <2>1. /\ UNCHANGED <<step, cutOff>> /\ gap' = [gap EXCEPT ![g] = "superseded"]
        /\ stale' = [stale EXCEPT ![r] = stale[r] \ {g}]
    BY <1>7 DEF SupersedeGap, running
  <2>2. OpenGaps' = OpenGaps \ {g}
    BY <2>1 DEF OpenGaps, Open_
  <2>3. \A s \in Runs : OpenGaps' \ stale'[s] \subseteq OpenGaps \ stale[s]
    BY <2>1, <2>2
  <2>4. CASE cutOff \/ \E s \in Runs : step[s] = "reconcile"
    BY <2>1, <2>4 DEF OneLeft
  <2>5. CASE AtMostOne(OpenGaps)
    <3>1. AtMostOne(OpenGaps')
      BY <2>2, <2>5 DEF AtMostOne
    <3> QED BY <3>1 DEF OneLeft, AtMostOne
  <2>6. ASSUME NEW s \in Runs, step[s] = "supersede", AtMostOne(OpenGaps \ stale[s])
        PROVE  OneLeft'
    <3>1. AtMostOne(OpenGaps' \ stale'[s])
      BY <2>3, <2>6 DEF AtMostOne
    <3> QED BY <2>1, <2>6, <3>1 DEF OneLeft, AtMostOne
  <2> QED BY <2>4, <2>5, <2>6 DEF OneLeft
<1>8. ASSUME NEW r \in Runs, EndDetection(r) PROVE OneLeft'
  <2>1. /\ step' = [step EXCEPT ![r] = "idle"] /\ stale' = [stale EXCEPT ![r] = {}]
        /\ step[r] = "supersede" /\ stale[r] = {} /\ UNCHANGED <<gap, cutOff>>
    BY <1>8 DEF EndDetection, LeaveDetection, Enter
  <2>2. OpenGaps' = OpenGaps
    BY <1>1, <2>1
  <2>3. CASE AtMostOne(OpenGaps)
    BY <2>2, <2>3 DEF OneLeft, AtMostOne
  <2>4. CASE cutOff
    BY <2>1, <2>4 DEF OneLeft
  <2>5. ASSUME NEW s \in Runs, step[s] = "reconcile" PROVE OneLeft'
    <3>1. step'[s] = "reconcile"
      BY <2>1, <2>5
    <3> QED BY <3>1 DEF OneLeft
  <2>6. ASSUME NEW s \in Runs, step[s] = "supersede", AtMostOne(OpenGaps \ stale[s])
        PROVE  OneLeft'
    <3>1. CASE s = r
      <4>1. OpenGaps \ stale[s] = OpenGaps
        BY <2>1, <3>1
      <4> QED BY <2>3, <2>6, <4>1
    <3>2. CASE s # r
      <4>1. step'[s] = "supersede" /\ stale'[s] = stale[s]
        BY <2>1, <2>6, <3>2
      <4> QED BY <2>2, <2>6, <4>1 DEF OneLeft, AtMostOne
    <3> QED BY <3>1, <3>2
  <2> QED BY <2>3, <2>4, <2>5, <2>6 DEF OneLeft
<1>9. ASSUME NEW r \in Runs, DetectionFails(r) PROVE OneLeft'
  BY <1>9 DEF DetectionFails, OneLeft
<1>10. ASSUME NEW r \in Runs, DetectorStep(r) PROVE OneLeft'
  BY <1>3, <1>4, <1>5, <1>6, <1>7, <1>8, <1>9, <1>10 DEF DetectorStep
<1>11. ASSUME NEW g \in Generations, NEW status \in Decisions, Decide(g, status)
       PROVE  OneLeft'
  <2>1. UNCHANGED <<step, stale, cutOff>> /\ gap' = [gap EXCEPT ![g] = status]
    BY <1>11 DEF Decide, Edit, running, deciding
  <2>2. status \notin {"new", "active"}
    OBVIOUS
  <2>3. OpenGaps' \subseteq OpenGaps
    BY <2>1, <2>2 DEF OpenGaps, Open_
  <2>4. {} \in SUBSET Runs /\ \A s \in {} : step[s] \notin {"reconcile", "supersede"}
    OBVIOUS
  <2>5. \A s \in Runs \ {} : step'[s] = step[s] /\ stale'[s] = stale[s]
    BY <2>1
  <2> QED BY <2>1, <2>3, <2>4, <2>5, OneLeftStays
<1>12. CASE CaptureWork \/ ChangeHandoff \/ FirstBuild \/ UNCHANGED vars
  <2>1. UNCHANGED <<step, stale, cutOff, gap>>
    BY <1>12 DEF CaptureWork, ChangeHandoff, FirstBuild, Edit, running, deciding, vars
  <2>2. OpenGaps' = OpenGaps
    BY <1>1, <2>1
  <2> QED BY <2>1, <2>2 DEF OneLeft, AtMostOne
<1> QED BY GapSteps, <1>2, <1>10, <1>11, <1>12

(* Whatever overlapping runs, decisions, closes and reopened sessions       *)
(* interleave, a session has at most one open gap outside a detection that  *)
(* is about to reconcile them or was cut off (OneOpenGap).                  *)
THEOREM OneGapTheorem == Spec => []OneOpenGap
<1>1. Init => GapInv
  BY GapInit
<1>2. GapInv /\ [Next]_vars => GapInv'
  BY SessionKept, GapTypesKept, OneLeftKept DEF GapInv
<1>3. GapInv => OneOpenGap
  <2> SUFFICES ASSUME OneLeft, ~cutOff, \A r \in Runs : ~Detecting(r)
               PROVE  Cardinality(OpenGaps) <= 1
    BY DEF GapInv, OneOpenGap, OpenGaps
  <2>1. AtMostOne(OpenGaps)
    BY DEF OneLeft, Detecting
  <2>2. CASE OpenGaps = {}
    <3>1. Cardinality(OpenGaps) = 0
      BY <2>2, FS_EmptySet
    <3> QED BY <3>1
  <2>3. CASE OpenGaps # {}
    <3>1. PICK g : g \in OpenGaps
      BY <2>3
    <3>2. OpenGaps = {g}
      BY <2>1, <3>1 DEF AtMostOne
    <3>3. Cardinality({g}) = 1
      BY FS_Singleton
    <3> QED BY <3>2, <3>3
  <2> QED BY <2>2, <2>3
<1> QED BY <1>1, <1>2, <1>3, PTL DEF Spec

-----------------------------------------------------------------------------
(***************************************************************************)
(* The composition: with the whole detector in the place of RunGoesOn, the *)
(* row, its closers and the watermark still live the life SessionLifecycle *)
(* gives them. A run that looks at gaps is there in its stage "detect".    *)
(***************************************************************************)
lifeStep == [r \in Runs |-> IF step[r] \in {"idle", "closeidle"} THEN step[r] ELSE "detect"]

Life == INSTANCE SessionLifecycle WITH step <- lifeStep

LEMMA LifeInit == ASSUME Init PROVE Life!SessionInit
<1>1. lifeStep = [r \in Runs |-> "idle"]
  BY DEF Init, SessionInit, lifeStep
<1> QED BY <1>1 DEF Init, SessionInit, Life!SessionInit

LEMMA LifeMoves ==
  ASSUME step \in [Runs -> Stages], NEW r \in Runs, NEW place \in Stages, Enter(r, place),
         NEW seen, seen = IF place \in {"idle", "closeidle"} THEN place ELSE "detect"
  PROVE  Life!Enter(r, seen)
<1>1. step' = [step EXCEPT ![r] = place]
  BY DEF Enter
<1>2. \A s \in Runs : lifeStep'[s] = IF s = r THEN seen ELSE lifeStep[s]
  BY <1>1 DEF lifeStep
<1>3. lifeStep' = [lifeStep EXCEPT ![r] = seen]
  BY <1>2 DEF lifeStep
<1> QED BY <1>3 DEF Life!Enter

(* A request sees no difference. *)
LEMMA LifeOfRequests ==
  ASSUME UNCHANGED lifeStep, NEW p \in Callers
  PROVE  /\ \A j \in Jobs, n \in Totals : Call(p, j, n) => Life!Call(p, j, n)
         /\ Request(p) => Life!Request(p)
         /\ BreakOff(p) => Life!BreakOff(p)
<1> USE DEF running, Life!running, marking, Life!marking, calling, Life!calling,
            Goto, Life!Goto, Leave, Life!Leave, ReadRow, Life!ReadRow
<1>1. \A j \in Jobs, n \in Totals : Call(p, j, n) => Life!Call(p, j, n)
  BY DEF Call, Life!Call
<1>2. \A input : WriteRow(p, input) => Life!WriteRow(p, input)
  BY DEF WriteRow, Life!WriteRow, Stamped, Life!Stamped, Created, Life!Created,
         StatusFor, Life!StatusFor, Later, Life!Later
<1>3. Open(p) => Life!Open(p)
  BY <1>2 DEF Open, Life!Open
<1>4. SkipKnown(p) => Life!SkipKnown(p)
  BY DEF SkipKnown, Life!SkipKnown, Counts, Life!Counts
<1>5. SkipUnreadable(p) => Life!SkipUnreadable(p)
  BY DEF SkipUnreadable, Life!SkipUnreadable, Counts, Life!Counts
<1>6. HasNews(p) => Life!HasNews(p)
  BY DEF HasNews, Life!HasNews, Counts, Life!Counts
<1>7. MoveWatermark(p) => Life!MoveWatermark(p)
  BY DEF MoveWatermark, Life!MoveWatermark, DeleteMarks, Life!DeleteMarks,
         CreateMark, Life!CreateMark
<1>8. BeginClose(p) => Life!BeginClose(p)
  BY DEF BeginClose, Life!BeginClose
<1>9. Close(p) => Life!Close(p)
  BY <1>2 DEF Close, Life!Close
<1>10. BreakOff(p) => Life!BreakOff(p)
  BY DEF BreakOff, Life!BreakOff
<1> QED BY <1>1, <1>3, <1>4, <1>5, <1>6, <1>7, <1>8, <1>9, <1>10
        DEF Request, Life!Request

LEMMA LifeOfJanitor ==
  ASSUME step \in [Runs -> Stages], NEW r \in Runs
  PROVE  /\ Janitor(r) => Life!Janitor(r)
         /\ JanitorFails(r) => Life!JanitorFails(r)
<1> USE DEF marking, Life!marking, calling, Life!calling, Idle, Life!Idle, Stages
<1>1. step[r] \in {"idle", "closeidle"} => lifeStep[r] = step[r]
  BY DEF lifeStep
<1>2. Enter(r, "detect") => Life!Enter(r, "detect")
  BY LifeMoves
<1>3. Enter(r, "closeidle") => Life!Enter(r, "closeidle")
  BY LifeMoves
<1>4. LeaveJanitor(r) => Life!LeaveJanitor(r)
  BY <1>2 DEF LeaveJanitor, Life!LeaveJanitor
<1>5. FindNoIdle(r) => Life!FindNoIdle(r)
  BY <1>1, <1>2 DEF FindNoIdle, Life!FindNoIdle
<1>6. FindIdle(r) => Life!FindIdle(r)
  BY <1>1, <1>3 DEF FindIdle, Life!FindIdle
<1>7. CloseIdle(r) => Life!CloseIdle(r)
  BY <1>1, <1>4 DEF CloseIdle, Life!CloseIdle, Later, Life!Later
<1>8. JanitorFails(r) => Life!JanitorFails(r)
  BY <1>1, <1>4 DEF JanitorFails, Life!JanitorFails
<1> QED BY <1>5, <1>6, <1>7, <1>8 DEF Janitor, Life!Janitor

(* Inside the detection nothing moves there, and where it ends, broken off *)
(* or not, the run goes on.                                                *)
LEMMA LifeOfDetection ==
  ASSUME step \in [Runs -> Stages], NEW r \in Runs, DetectorStep(r)
  PROVE  UNCHANGED Life!sessionVars \/ Life!RunGoesOn(r)
<1> USE DEF Life!sessionVars, Life!running, marking, Life!marking, calling, Life!calling,
            sessions, running, Stages
<1>1. ASSUME NEW place \in Stages \ {"idle", "closeidle"}, Enter(r, place),
             step[r] \notin {"idle", "closeidle"}
      PROVE  UNCHANGED lifeStep
  <2>1. step' = [step EXCEPT ![r] = place]
    BY <1>1 DEF Enter
  <2> QED BY <1>1, <2>1 DEF lifeStep
<1>2. ASSUME ListEnded(r) \/ Evaluate(r) \/ FindExistingGap(r) \/ CreateGap(r)
             \/ UpdateGap(r) \/ ListOpenGaps(r)
      PROVE  UNCHANGED Life!sessionVars
  <2>1. /\ step[r] \notin {"idle", "closeidle"}
        /\ \E place \in Stages \ {"idle", "closeidle"} : Enter(r, place)
        /\ UNCHANGED <<sessions, cutoff, faults>>
    BY <1>2 DEF ListEnded, Evaluate, FindExistingGap, CreateGap, UpdateGap, ListOpenGaps
  <2> QED BY <1>1, <2>1
<1>3. ASSUME NEW g \in Generations, SupersedeGap(r, g) PROVE UNCHANGED Life!sessionVars
  BY <1>3 DEF SupersedeGap, lifeStep
<1>4. ASSUME EndDetection(r) \/ NotEvaluated(r) \/ DetectionFails(r) PROVE Life!RunGoesOn(r)
  <2>1. step[r] \notin {"idle", "closeidle"} /\ Enter(r, "idle") /\ UNCHANGED <<sessions, cutoff>>
    BY <1>4 DEF EndDetection, NotEvaluated, DetectionFails, LeaveDetection
  <2>2. faults' = faults \/ (faults < MaxFaults /\ faults' = faults + 1)
    BY <1>4 DEF EndDetection, NotEvaluated, DetectionFails
  <2>3. lifeStep[r] = "detect"
    BY <2>1 DEF lifeStep
  <2>4. Life!Enter(r, "idle")
    BY <2>1, LifeMoves
  <2> QED BY <2>1, <2>2, <2>3, <2>4 DEF Life!RunGoesOn
<1> QED BY <1>2, <1>3, <1>4 DEF DetectorStep

(* Every step of the composed system is a step of the session's life.      *)
LEMMA LifeSteps ==
  ASSUME GapInv, [Next]_vars
  PROVE  [Life!SessionNext \/ \E r \in Runs : Life!RunGoesOn(r)]_(Life!sessionVars)
<1>1. step \in [Runs -> Stages]
  BY DEF GapInv, GapTypes
<1>2. UNCHANGED step => UNCHANGED lifeStep
  BY DEF lifeStep
<1>3. CASE SessionNext
  <2>1. ASSUME NEW p \in Callers,
               Request(p) \/ BreakOff(p) \/ \E j \in Jobs, n \in Totals : Call(p, j, n)
        PROVE  Life!SessionNext
    <3>1. UNCHANGED step
      BY <2>1 DEF Request, BreakOff, Call, Open, SkipKnown, SkipUnreadable, HasNews,
         MoveWatermark, DeleteMarks, CreateMark, BeginClose, Close, running
    <3> QED BY <1>2, <2>1, <3>1, LifeOfRequests DEF Life!SessionNext
  <2>2. ASSUME NEW r \in Runs, Janitor(r) \/ JanitorFails(r) PROVE Life!SessionNext
    BY <1>1, <2>2, LifeOfJanitor DEF Life!SessionNext
  <2>3. CASE Tick
    <3>1. UNCHANGED lifeStep
      BY <1>2, <2>3 DEF Tick, running
    <3>2. Life!Tick
      BY <2>3, <3>1 DEF Tick, Life!Tick, running, Life!running, marking, Life!marking,
         calling, Life!calling
    <3> QED BY <3>2 DEF Life!SessionNext
  <2> QED BY <1>3, <2>1, <2>2, <2>3 DEF SessionNext
<1>4. ASSUME NEW r \in Runs, DetectorStep(r)
      PROVE  UNCHANGED Life!sessionVars \/ Life!RunGoesOn(r)
  BY <1>1, <1>4, LifeOfDetection
<1>5. CASE \/ CaptureWork \/ ChangeHandoff \/ FirstBuild \/ UNCHANGED vars
           \/ \E g \in Generations, status \in Decisions : Decide(g, status)
  <2>1. UNCHANGED <<sessions, running, faults>>
    BY <1>5 DEF CaptureWork, ChangeHandoff, FirstBuild, Decide, Edit, vars
  <2> QED BY <1>2, <2>1 DEF sessions, running, Life!sessionVars, Life!running,
          marking, Life!marking, calling, Life!calling
<1> QED BY GapSteps, <1>3, <1>4, <1>5

(* Composed with the gap detector of any number of overlapping runs, the   *)
(* row of a session, its watermark and its closers behave as               *)
(* SessionLifecycle says, so what is proved of it holds here too.          *)
THEOREM ComposedSession == Spec => Life!SessionSpec
<1>1. GapInv /\ [Next]_vars =>
        [Life!SessionNext \/ \E r \in Runs : Life!RunGoesOn(r)]_(Life!sessionVars)
  BY LifeSteps
<1>2. GapInv /\ [Next]_vars => GapInv'
  BY SessionKept, GapTypesKept, OneLeftKept DEF GapInv
<1> QED BY LifeInit, GapInit, <1>1, <1>2, PTL DEF Spec, Life!SessionSpec
=============================================================================
