--------------------------- MODULE ContinuityGaps ---------------------------
(***************************************************************************)
(* The missing_handoff gaps of one session                                 *)
(* (src/lifecycle/semion/continuity-gaps.ts,                               *)
(* src/storage/surreal/continuity-gap-store.ts), composed with the life of *)
(* its row: after its janitor step a consolidation run looks for sessions  *)
(* that ended with work and without a handoff, upserts a gap per close (the*)
(* generation last_closed_at is part of its key), and supersedes the gaps  *)
(* of the sessions it looked at that did not fire. Meanwhile the session is*)
(* opened, closed and written to, and the user dismisses gaps.             *)
(***************************************************************************)
EXTENDS SessionLifecycle

CONSTANTS
  Decisions, \* what a user may make of an open gap
  MaxEdits   \* bound: captures, retired handoffs and decisions

ASSUME GapAssumption ==
  Decisions \subseteq {"dismissed", "materialized"} /\ MaxEdits \in Nat

VARIABLES
  built,   \* the project has a continuity state row
  gap,     \* [generation -> status of its row, or "none"]
  work,    \* the session has an active memory
  handoff, \* one of them is, or reads like, a handoff
  gen,     \* [Runs -> the generation it evaluates, 0 when not listed]
  fires,   \* [Runs -> that generation fired]
  prior,   \* [Runs -> the status findExistingGap read]
  stale,   \* [Runs -> open gaps to be superseded]
  cutOff,  \* a detection broke off since gaps were last reconciled (history)
  edits    \* edits so far (bound)

Generations == 1..MaxNow
Open_(g) == gap[g] \in {"new", "active"}

deciding == <<gen, fires, prior, stale>>
content  == <<built, work, handoff, edits>>
sessions == <<row, marking, calling, now, calls>>
vars == <<sessions, running, faults, gap, content, deciding, cutOff>>

Init ==
  /\ SessionInit
  /\ gap = [g \in Generations |-> "none"]
  /\ built \in BOOLEAN
  /\ work \in BOOLEAN
  /\ handoff \in {FALSE, work}
  /\ gen = [r \in Runs |-> 0]
  /\ fires = [r \in Runs |-> FALSE]
  /\ prior = [r \in Runs |-> "none"]
  /\ stale = [r \in Runs |-> {}]
  /\ cutOff = FALSE
  /\ edits = 0

(***************************************************************************)
(* detectForProject                                                        *)
(***************************************************************************)
(* Variant: by status and closed_at, which a resume erases *)
ListClosed(r) ==
  /\ step[r] = "detect"
  /\ built
  /\ gen' = [gen EXCEPT ![r] = IF row = None THEN 0 ELSE row.closed]
  /\ Enter(r, "evaluate")
  /\ UNCHANGED <<sessions, cutoff, faults, gap, content, fires, prior, stale, cutOff>>

(* fetchRecentlyEndedSessions: by last_closed_at, whatever the status *)
ListEnded(r) ==
  /\ step[r] = "detect"
  /\ built
  /\ gen' = [gen EXCEPT ![r] = IF row = None THEN 0 ELSE row.last]
  /\ Enter(r, "evaluate")
  /\ UNCHANGED <<sessions, cutoff, faults, gap, content, fires, prior, stale, cutOff>>

(* sessionDidWork and sessionHasHandoff. A session that was not listed     *)
(* fires nothing and makes no gap eligible.                                *)
Evaluate(r) ==
  /\ step[r] = "evaluate"
  /\ fires' = [fires EXCEPT ![r] = gen[r] # 0 /\ work /\ ~handoff]
  /\ Enter(r, IF gen[r] = 0 THEN "supersede" ELSE IF work /\ ~handoff THEN "find" ELSE "reconcile")
  /\ UNCHANGED <<sessions, cutoff, faults, gap, content, gen, prior, stale, cutOff>>

(* upsertContinuityGap: the status is read, *)
FindExistingGap(r) ==
  /\ step[r] \in {"find", "refind"}
  /\ prior' = [prior EXCEPT ![r] = gap[gen[r]]]
  /\ Enter(r, IF step[r] = "find" /\ gap[gen[r]] = "none" THEN "create" ELSE "update")
  /\ UNCHANGED <<sessions, cutoff, faults, gap, content, gen, fires, stale, cutOff>>

(* a row that is missing created, unless somebody was faster, *)
CreateGap(r) ==
  /\ step[r] = "create"
  /\ IF gap[gen[r]] = "none"
     THEN gap' = [gap EXCEPT ![gen[r]] = "new"] /\ Enter(r, "reconcile")
     ELSE Enter(r, "refind") /\ UNCHANGED gap
  /\ UNCHANGED <<sessions, cutoff, faults, content, deciding, cutOff>>

(* and a row that was there gets the status computed from the one read.    *)
(* reopenIfSuperseded is set for this kind.                                *)
Sticky == {"dismissed", "materialized"}

Refired(status) ==
  CASE status \in Sticky       -> status
    [] status = "superseded"   -> "new"
    [] OTHER                   -> "active"

UpdateGap(r) ==
  /\ step[r] = "update"
  /\ gap' = [gap EXCEPT ![gen[r]] = Refired(prior[r])]
  /\ prior' = [prior EXCEPT ![r] = "none"]
  /\ Enter(r, "reconcile")
  /\ UNCHANGED <<sessions, cutoff, faults, content, gen, fires, stale, cutOff>>

(* buildMissingHandoffEligibility: any generation of a session that was    *)
(* evaluated                                                               *)
(* Variant: only the key of this very generation *)
EligibleExactly(r, g) == g = gen[r]
Eligible(r, g) == gen[r] # 0 /\ g \in Generations

(* reconcileKind: list, *)
ListOpenGaps(r) ==
  /\ step[r] = "reconcile"
  /\ stale' = [stale EXCEPT ![r] =
                 {g \in Generations : /\ Open_(g)
                                      /\ ~(fires[r] /\ g = gen[r])
                                      /\ Eligible(r, g)}]
  /\ Enter(r, "supersede")
  /\ gen' = [gen EXCEPT ![r] = 0]
  /\ fires' = [fires EXCEPT ![r] = FALSE]
  /\ cutOff' = FALSE
  /\ UNCHANGED <<sessions, cutoff, faults, gap, content, prior>>

(* then setGapStatus, gap by gap and whatever its status is by then *)
SupersedeGap(r, g) ==
  /\ step[r] = "supersede"
  /\ g \in stale[r]
  /\ gap' = [gap EXCEPT ![g] = "superseded"]
  /\ stale' = [stale EXCEPT ![r] = @ \ {g}]
  /\ UNCHANGED <<sessions, running, faults, content, gen, fires, prior, cutOff>>

LeaveDetection(r) ==
  /\ Enter(r, "idle")
  /\ gen' = [gen EXCEPT ![r] = 0]
  /\ fires' = [fires EXCEPT ![r] = FALSE]
  /\ prior' = [prior EXCEPT ![r] = "none"]
  /\ stale' = [stale EXCEPT ![r] = {}]
  /\ UNCHANGED <<sessions, cutoff, gap, content>>

(* A project no builder has committed a state for is not looked at. *)
NotEvaluated(r) ==
  /\ step[r] = "detect"
  /\ ~built
  /\ LeaveDetection(r)
  /\ UNCHANGED <<faults, cutOff>>

(* writeGapEvaluatedThrough, and the end of the run's steps *)
EndDetection(r) ==
  /\ step[r] = "supersede"
  /\ stale[r] = {}
  /\ LeaveDetection(r)
  /\ UNCHANGED <<faults, cutOff>>

(* A query throws: the project is left until the next run. *)
DetectionFails(r) ==
  /\ step[r] \notin {"idle", "closeidle"}
  /\ faults < MaxFaults
  /\ faults' = faults + 1
  /\ cutOff' = TRUE
  /\ LeaveDetection(r)

(***************************************************************************)
(* Memories of the session, and the user's word on a gap                   *)
(***************************************************************************)
Edit ==
  /\ edits < MaxEdits
  /\ edits' = edits + 1
  /\ UNCHANGED <<sessions, running, faults, deciding, cutOff>>

CaptureWork ==
  /\ work' = TRUE
  /\ Edit
  /\ UNCHANGED <<gap, built, handoff>>

(* A handoff is captured, which is work, or one is superseded. *)
ChangeHandoff ==
  /\ handoff' = ~handoff
  /\ work' = TRUE
  /\ Edit
  /\ UNCHANGED <<gap, built>>

(* setGapStatus by the report's reader *)
Decide(g, status) ==
  /\ Open_(g)
  /\ gap' = [gap EXCEPT ![g] = status]
  /\ Edit
  /\ UNCHANGED <<built, work, handoff>>

(* A run's builder (ContinuityBuild) commits the project's first state. *)
FirstBuild ==
  /\ ~built
  /\ built' = TRUE
  /\ UNCHANGED <<sessions, running, faults, gap, work, handoff, edits, deciding, cutOff>>

Detection(r) ==
  \/ NotEvaluated(r)
  \/ ListEnded(r)
  \/ Evaluate(r)
  \/ FindExistingGap(r)
  \/ CreateGap(r)
  \/ UpdateGap(r)
  \/ ListOpenGaps(r)
  \/ \E g \in Generations : SupersedeGap(r, g)
  \/ EndDetection(r)

RunStep(r) ==
  \/ Detection(r)
  \/ /\ Janitor(r)
     /\ UNCHANGED <<gap, content, deciding, cutOff>>

Next ==
  \/ SessionNext /\ UNCHANGED <<gap, content, deciding, cutOff>>
  \/ \E r \in Runs : Detection(r) \/ DetectionFails(r)
  \/ CaptureWork
  \/ ChangeHandoff
  \/ FirstBuild
  \/ \E g \in Generations, status \in Decisions : Decide(g, status)

Spec == Init /\ [][Next]_vars

(***************************************************************************)
(* Consolidation runs of the user keep coming (StalenessBacklog says when) *)
(* and one of them gets on. Requests and the clock may stop anywhere.      *)
(***************************************************************************)
FairSpec == Spec /\ WF_vars(\E r \in Runs : RunStep(r))

(***************************************************************************)
(* Properties                                                              *)
(***************************************************************************)
Detecting(r) == step[r] \in {"reconcile", "supersede"}

(***************************************************************************)
(* A session is reported as missing a handoff once, not once per close:    *)
(* outside the detection that is about to reconcile them (or was cut off   *)
(* before it could) at most one generation has an open gap.                *)
(***************************************************************************)
OneOpenGap ==
  \/ Cardinality({g \in Generations : Open_(g)}) <= 1
  \/ cutOff
  \/ \E r \in Runs : Detecting(r)

(***************************************************************************)
(* When things settle, a session that ended, by its client or by going     *)
(* idle, with work and without a handoff, has a gap for its last close that*)
(* is open or was decided by the user, also when the session was opened    *)
(* again before the detector came by, once its project has a state row.    *)
(***************************************************************************)
EndedWorkIsReported ==
  <>[](/\ ~(row # None /\ now > IdleClose /\ Idle(now - IdleClose))
       /\ (built /\ row # None /\ row.last # 0 /\ work /\ ~handoff)
            => gap[row.last] \notin {"none", "superseded"})
=============================================================================
