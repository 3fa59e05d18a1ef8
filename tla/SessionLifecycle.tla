-------------------------- MODULE SessionLifecycle --------------------------
(***************************************************************************)
(* The row runir_session of one session, its watermark and its closers     *)
(* (src/storage/surreal/runir-session-store.ts, session-watermark-store.ts,*)
(* src/lifecycle/semion/session-janitor.ts, POST /hooks/session-end).      *)
(*                                                                         *)
(* Every caller goes through resolveRunirSession, which reads the row, and *)
(* writes it in a second query: an UPDATE when the read found a row, an    *)
(* UPSERT of the whole content when it did not. Openers and hooks resolve  *)
(* with status 'active'; a memory store leaves the status as it read it;   *)
(* session-end resolves 'active', moves the watermark and resolves         *)
(* 'closed'. The janitor of the consolidation run closes idle rows with    *)
(* one UPDATE of its own. Each write carries the clock its caller read.    *)
(***************************************************************************)
EXTENDS Naturals, FiniteSets

CONSTANTS
  Callers,    \* requests that touch the session at the same time
  Runs,       \* consolidation runs of the user's scope 'user'; two overlap
              \* when the lease of one has lapsed
  Jobs,       \* what they are: "open", "store" or "end"
  Totals,     \* the message counts a session-end may report
  IdleClose,  \* RUNIR_SESSION_IDLE_CLOSE_H
  MaxNow,     \* bound: the clock stops
  MaxCalls,   \* bound: requests
  MaxFaults,  \* bound: requests and maintenance runs that break off
  None        \* no row

ASSUME SessionAssumption ==
  /\ Jobs \subseteq {"open", "store", "end"}
  /\ Totals \subseteq Nat \ {0}
  /\ IdleClose \in Nat \ {0}
  /\ MaxNow \in Nat \ {0} /\ MaxCalls \in Nat /\ MaxFaults \in Nat

(* A time is in 1..MaxNow; 0 is the datetime NONE. *)
Time == 0..MaxNow
Row  == [status : {"active", "closed"}, closed : Time, last : Time, seen : Time]
Mark == [count : Totals, by : Callers]

ASSUME NoneAssumption == None \notin Row

VARIABLES
  row,    \* the row of the session, or None
  wm,     \* its rows in session_watermarks
  now,    \* the clock
  at,     \* [Callers -> where the request is]
  job,    \* [Callers -> what the request is, "open" when there is none]
  read,   \* [Callers -> what resolveRunirSession read, or None]
  when,   \* [Callers -> its `now`]
  total,  \* [Callers -> totalMessageCount of a session-end]
  step,   \* [Runs -> where the run is]
  cutoff, \* [Runs -> the janitor's cutoff, 0 outside it]
  marked, \* a session-end has moved the watermark (history)
  torn,   \* one broke off between its DELETE and its CREATE (history)
  calls,  \* requests so far (bound)
  faults  \* breaks so far (bound)

calling == <<at, job, read, when, total>>
marking == <<wm, marked, torn>>
running == <<step, cutoff>>
sessionVars == <<row, marking, calling, running, now, calls, faults>>

SessionInit ==
  /\ row = None
  /\ wm = {}
  /\ now = 1
  /\ at = [p \in Callers |-> "idle"]
  /\ job = [p \in Callers |-> "open"]
  /\ read = [p \in Callers |-> None]
  /\ when = [p \in Callers |-> 0]
  /\ total = [p \in Callers |-> 0]
  /\ step = [r \in Runs |-> "idle"]
  /\ cutoff = [r \in Runs |-> 0]
  /\ marked = FALSE
  /\ torn = FALSE
  /\ calls = 0
  /\ faults = 0

Goto(p, place) == at' = [at EXCEPT ![p] = place]

Later(s, t) == IF s > t THEN s ELSE t

(***************************************************************************)
(* resolveRunirSession                                                     *)
(***************************************************************************)
(* Variant: last_closed_at is written without the guard *)
StampedBlindly(r, status, t) ==
  [status |-> status,
   closed |-> IF status = "closed" THEN t ELSE 0,
   last   |-> IF status = "closed" THEN t ELSE r.last,
   seen   |-> t]

(* The SET clause of a close advances last_closed_at by a guard evaluated  *)
(* in the database, any other resolve leaves the field out.                *)
Stamped(r, status, t) ==
  [status |-> status,
   closed |-> IF status = "closed" THEN t ELSE 0,
   last   |-> IF status = "closed" THEN Later(t, r.last) ELSE r.last,
   seen   |-> t]

Created(status, t) ==
  [status |-> status,
   closed |-> IF status = "closed" THEN t ELSE 0,
   last   |-> IF status = "closed" THEN t ELSE 0,
   seen   |-> t]

(* input.status ?? existing.status ?? "active" *)
StatusFor(p, input) ==
  IF input # None THEN input
  ELSE IF read[p] # None THEN read[p].status
  ELSE "active"

ReadRow(p, from, to) ==
  /\ at[p] = from
  /\ Goto(p, to)
  /\ read' = [read EXCEPT ![p] = row]
  /\ when' = [when EXCEPT ![p] = now]

WriteRow(p, input) ==
  row' = IF read[p] # None
         THEN Stamped(row, StatusFor(p, input), when[p])
         ELSE Created(StatusFor(p, input), when[p])

Leave(p) ==
  /\ Goto(p, "idle")
  /\ job' = [job EXCEPT ![p] = "open"]
  /\ read' = [read EXCEPT ![p] = None]
  /\ when' = [when EXCEPT ![p] = 0]
  /\ total' = [total EXCEPT ![p] = 0]

(***************************************************************************)
(* A request: an opener, a recall or a turn; a store; a session-end        *)
(***************************************************************************)
Call(p, j, n) ==
  /\ calls < MaxCalls
  /\ calls' = calls + 1
  /\ ReadRow(p, "idle", "write")
  /\ job' = [job EXCEPT ![p] = j]
  /\ total' = [total EXCEPT ![p] = IF j = "end" THEN n ELSE 0]
  /\ UNCHANGED <<row, marking, now, running, faults>>

(* An opener or a store is done; a session-end goes on to the watermark. *)
Open(p) ==
  /\ at[p] = "write"
  /\ WriteRow(p, IF job[p] = "store" THEN None ELSE "active")
  /\ IF job[p] = "end"
     THEN Goto(p, "watermark") /\ UNCHANGED <<job, read, when, total>>
     ELSE Leave(p)
  /\ UNCHANGED <<marking, now, running, calls, faults>>

(***************************************************************************)
(* POST /hooks/session-end                                                 *)
(***************************************************************************)
(* getLastWatermark returns the newest row, and which of several that is   *)
(* is left open; no row counts as 0.                                       *)
Counts == {w.count : w \in wm}

(* Nothing new since the watermark: only the close is left. *)
SkipKnown(p) ==
  /\ at[p] = "watermark"
  /\ \E c \in Counts : c >= total[p]
  /\ Goto(p, "close")
  /\ UNCHANGED <<row, marking, job, read, when, total, now, running, calls, faults>>

(* No message of the batch normalizes: the request ends, the row stays     *)
(* 'active'.                                                               *)
SkipUnreadable(p) ==
  /\ at[p] = "watermark"
  /\ wm = {} \/ \E c \in Counts : c < total[p]
  /\ Leave(p)
  /\ UNCHANGED <<row, marking, now, running, calls, faults>>

HasNews(p) ==
  /\ at[p] = "watermark"
  /\ wm = {} \/ \E c \in Counts : c < total[p]
  /\ Goto(p, "delete")
  /\ UNCHANGED <<row, marking, job, read, when, total, now, running, calls, faults>>

(* createWatermark: two queries *)
DeleteMarks(p) ==
  /\ at[p] = "delete"
  /\ wm' = {}
  /\ Goto(p, "create")
  /\ UNCHANGED <<row, job, read, when, total, now, running, marked, torn, calls, faults>>

CreateMark(p) ==
  /\ at[p] = "create"
  /\ wm' = wm \union {[count |-> total[p], by |-> p]}
  /\ marked' = TRUE
  /\ Goto(p, "close")
  /\ UNCHANGED <<row, job, read, when, total, now, running, torn, calls, faults>>

(* Variant: the CREATE first, the DELETE after it *)
CreateThenDelete(p) ==
  \/ /\ at[p] = "delete"
     /\ wm' = wm \union {[count |-> total[p], by |-> p]}
     /\ marked' = TRUE
     /\ Goto(p, "create")
     /\ UNCHANGED <<row, job, read, when, total, now, running, torn, calls, faults>>
  \/ /\ at[p] = "create"
     /\ wm' = {[count |-> total[p], by |-> p]} \intersect wm
     /\ Goto(p, "close")
     /\ UNCHANGED <<row, job, read, when, total, now, running, marked, torn, calls, faults>>

MoveWatermark(p) == DeleteMarks(p) \/ CreateMark(p)

BeginClose(p) ==
  /\ ReadRow(p, "close", "closing")
  /\ UNCHANGED <<row, marking, job, total, now, running, calls, faults>>

Close(p) ==
  /\ at[p] = "closing"
  /\ WriteRow(p, "closed")
  /\ Leave(p)
  /\ UNCHANGED <<marking, now, running, calls, faults>>

(* A query throws or the process ends. session-end answers 200 anyway and  *)
(* no client calls again.                                                  *)
BreakOff(p) ==
  /\ at[p] # "idle"
  /\ faults < MaxFaults
  /\ faults' = faults + 1
  /\ torn' = (torn \/ at[p] = "create")
  /\ Leave(p)
  /\ UNCHANGED <<row, wm, marked, now, running, calls>>

(***************************************************************************)
(* runSessionIdleJanitorStep: the preflight count, then the UPDATE, which  *)
(* looks at the rows again. A failure of either is logged, the run goes on *)
(* to the detection of gaps.                                               *)
(***************************************************************************)
Enter(r, place) == step' = [step EXCEPT ![r] = place]

Idle(limit) == row # None /\ row.status = "active" /\ row.seen < limit

(* The preflight finds no idle row: the step is over. *)
FindNoIdle(r) ==
  /\ step[r] = "idle"
  /\ now > IdleClose => ~Idle(now - IdleClose)
  /\ Enter(r, "detect")
  /\ UNCHANGED <<row, marking, calling, now, cutoff, calls, faults>>

FindIdle(r) ==
  /\ step[r] = "idle"
  /\ now > IdleClose
  /\ Idle(now - IdleClose)
  /\ Enter(r, "closeidle")
  /\ cutoff' = [cutoff EXCEPT ![r] = now - IdleClose]
  /\ UNCHANGED <<row, marking, calling, now, calls, faults>>

LeaveJanitor(r) ==
  /\ Enter(r, "detect")
  /\ cutoff' = [cutoff EXCEPT ![r] = 0]

CloseIdle(r) ==
  /\ step[r] = "closeidle"
  /\ row' = IF Idle(cutoff[r])
            THEN [row EXCEPT !.status = "closed", !.closed = row.seen,
                             !.last = Later(row.seen, row.last)]
            ELSE row
  /\ LeaveJanitor(r)
  /\ UNCHANGED <<marking, calling, now, calls, faults>>

JanitorFails(r) ==
  /\ step[r] \in {"idle", "closeidle"}
  /\ faults < MaxFaults
  /\ faults' = faults + 1
  /\ LeaveJanitor(r)
  /\ UNCHANGED <<row, marking, calling, now, calls>>

Tick ==
  /\ now < MaxNow
  /\ now' = now + 1
  /\ UNCHANGED <<row, marking, calling, running, calls, faults>>

Request(p) ==
  \/ Open(p)
  \/ SkipKnown(p)
  \/ SkipUnreadable(p)
  \/ HasNews(p)
  \/ MoveWatermark(p)
  \/ BeginClose(p)
  \/ Close(p)

Janitor(r) == FindIdle(r) \/ FindNoIdle(r) \/ CloseIdle(r)

(* What the rest of the run does is ContinuityGaps; it reads this row and  *)
(* writes others, and may break off itself.                                *)
RunGoesOn(r) ==
  /\ step[r] = "detect"
  /\ Enter(r, "idle")
  /\ faults' = faults \/ (faults < MaxFaults /\ faults' = faults + 1)
  /\ UNCHANGED <<row, marking, calling, now, cutoff, calls>>

SessionNext ==
  \/ \E p \in Callers :
       \/ \E j \in Jobs, n \in Totals : Call(p, j, n)
       \/ Request(p)
       \/ BreakOff(p)
  \/ \E r \in Runs : Janitor(r) \/ JanitorFails(r)
  \/ Tick

SessionSpec ==
  SessionInit /\ [][SessionNext \/ \E r \in Runs : RunGoesOn(r)]_sessionVars

(***************************************************************************)
(* Properties                                                              *)
(***************************************************************************)
(* A resolve that read no row is on its way to an UPSERT of one. *)
Creating(p) == at[p] \in {"write", "closing"} /\ read[p] = None

(***************************************************************************)
(* last_closed_at never goes back, whatever stale reads, idle closes and   *)
(* clocks are in flight (the monotone guards of resolveRunirSession and of *)
(* the janitor), as long as no resolve still believes there is no row.     *)
(***************************************************************************)
CloseIsMonotone ==
  [][(row # None /\ \A p \in Callers : ~Creating(p)) => row'.last >= row.last]_row

(***************************************************************************)
(* runir-session-store.ts:170-173: "a concurrent non-closed resolve        *)
(* computed from a stale read must NEVER be able to clobber a newer close".*)
(***************************************************************************)
StaleResolveKeepsClose ==
  [][(row # None /\ row'.status = "active") => row'.last >= row.last]_row

(***************************************************************************)
(* Once a session-end has moved the watermark there is a watermark, except *)
(* while another one is between the two queries of createWatermark or was  *)
(* cut off there: the floor of the session is not lost to concurrency.     *)
(***************************************************************************)
WatermarkNotLost ==
  (marked /\ ~torn) => (wm # {} \/ \E p \in Callers : at[p] = "create")
=============================================================================
