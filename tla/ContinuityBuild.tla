---------------------------- MODULE ContinuityBuild ----------------------------
(***************************************************************************)
(* The continuity builder (src/lifecycle/semion/continuity-build.ts, step  *)
(* 4.5 of a consolidation run) for one enrolled project, among those that  *)
(* a run's cap of projects and its time budget reach: a build folds the    *)
(* project's memories newer than a cursor into project_continuity_state by *)
(* compare-and-swap and then moves the cursor.  Captures and users write   *)
(* memories meanwhile; two builds overlap when the first run's lease has   *)
(* lapsed (ConsolidationLock says when).                                   *)
(*                                                                         *)
(* What a synthesis makes of the texts is left out: the state is the set   *)
(* of memories that were put before a synthesis and carried forward since. *)
(* Its version is compared for equality only and grows with every write,   *)
(* so the model records whether it has moved since a build read it.        *)
(***************************************************************************)
EXTENDS Naturals, FiniteSets

CONSTANTS
  MaxId,    \* bound: memories ever bound to the project
  MaxTime,  \* bound: distinct values of payload.createdAt
  MaxEdits, \* bound: memories withdrawn or captured out of order
  MaxFails, \* bound: lapsed leases, failed model calls, lost answers, dead runs
  Textless, \* memories whose text is empty
  Limit,    \* NEW_TEXT_CAP
  Builders  \* runs that may build at the same time

Ids   == 1 .. MaxId
Times == 1 .. MaxTime

ASSUME BuildAssumption ==
  /\ MaxId \in Nat /\ MaxTime \in Nat
  /\ MaxEdits \in Nat /\ MaxFails \in Nat
  /\ Limit \in Nat \ {0}
  /\ Textless \subseteq Ids

VARIABLES
  status,  \* [Ids -> "absent", "active" or "inactive"]
  created, \* [Ids -> payload.createdAt, 0 while absent]
  cursor,  \* continuity_build_state.built_through, 0 when there is none
  folded,  \* what project_continuity_state rests on
  at,      \* [Builders -> the step a build is about to make]
  seen,    \* [Builders -> cursor]
  batch,   \* [Builders -> bounded]
  through, \* [Builders -> builtThrough, 0 for null]
  prior,   \* [Builders -> folded as of priorState]
  moved,   \* [Builders -> whether the version has moved since priorState was read]
  edits,   \* of these, so far
  fails,   \* failures so far
  unseen   \* memories no build can be blamed for (see Unnoticed and CutOff)

buildVars == <<at, seen, batch, through, prior, moved>>
vars == <<status, created, cursor, folded, buildVars, edits, fails, unseen>>

Active == {x \in Ids : status[x] = "active"}

Init ==
  /\ status = [x \in Ids |-> "absent"] /\ created = [x \in Ids |-> 0]
  /\ cursor = 0 /\ folded = {}
  /\ at = [b \in Builders |-> "idle"]
  /\ seen = [b \in Builders |-> 0] /\ batch = [b \in Builders |-> {}]
  /\ through = [b \in Builders |-> 0] /\ prior = [b \in Builders |-> {}]
  /\ moved = [b \in Builders |-> FALSE]
  /\ edits = 0 /\ fails = 0 /\ unseen = {}

-----------------------------------------------------------------------------
(* Captures and users *)

(* A memory of time t that becomes active now is behind the cursor, or     *)
(* will be when a build that has made its fetch, or whose fetch starts     *)
(* after t, moves it.  payload.createdAt is drawn before the write commits *)
(* and a caller may supply it; a restored memory keeps it.                 *)
Unnoticed(t) ==
  \/ t <= cursor
  \/ \E b \in Builders : \/ at[b] = "fetch" /\ t <= seen[b]
                         \/ at[b] \notin {"idle", "fetch"} /\ t <= through[b]

Capture(x, t) ==
  /\ status[x] = "absent" /\ (x > 1 => status[x - 1] # "absent")
  /\ IF \E y \in Ids : created[y] > t
     THEN edits < MaxEdits /\ edits' = edits + 1
     ELSE UNCHANGED edits
  /\ status' = [status EXCEPT ![x] = "active"]
  /\ created' = [created EXCEPT ![x] = t]
  /\ unseen' = IF Unnoticed(t) THEN unseen \union {x} ELSE unseen
  /\ UNCHANGED <<cursor, folded, buildVars, fails>>

Withdraw(x) ==
  /\ status[x] = "active"
  /\ edits < MaxEdits /\ edits' = edits + 1
  /\ status' = [status EXCEPT ![x] = "inactive"]
  /\ UNCHANGED <<created, cursor, folded, buildVars, fails, unseen>>

Restore(x) ==
  /\ status[x] = "inactive"
  /\ status' = [status EXCEPT ![x] = "active"]
  /\ unseen' = IF Unnoticed(created[x]) THEN unseen \union {x} ELSE unseen
  /\ UNCHANGED <<created, cursor, folded, buildVars, edits, fails>>

-----------------------------------------------------------------------------
(* A build *)

Newer(c) == {x \in Active : created[x] > c}

(* ORDER BY created_at ASC LIMIT NEW_TEXT_CAP, ties in any order           *)
Fetched(S, E) ==
  /\ S \subseteq E
  /\ S = E \/ Cardinality(S) = Limit
  /\ Cardinality(S) <= Limit
  /\ \A x \in S, y \in E \ S : created[x] <= created[y]

Latest(t, S) == t \in {created[x] : x \in S} /\ \A x \in S : created[x] <= t

(* Variant: always the tail, also where the LIMIT may have cut a tie *)
BuiltThroughTail(t, B) == Latest(t, B)

(* Variant: a full batch never moves the cursor *)
BuiltThroughParked(t, B) == IF Cardinality(B) < Limit THEN Latest(t, B) ELSE t = 0

(* A batch B lets the cursor move to its tail or, if it is full, to the    *)
(* last time strictly before the tail, if there is one                     *)
BuiltThrough(t, B) == \E tail \in Times : LET before == {x \in B : created[x] < tail} IN
  /\ Latest(tail, B)
  /\ IF Cardinality(B) < Limit THEN t = tail
     ELSE IF before = {} THEN t = 0 ELSE Latest(t, before)

(* Memories the LIMIT cut off although the batch, when rows without text   *)
(* have left it, no longer looks full: its tail may share their time       *)
CutOff(S, E, t) ==
  IF S \intersect Textless = {} THEN {} ELSE {y \in E \ S : created[y] <= t}

(* A run starts while another is at work only when the lease has lapsed    *)
ReadCursor(b) ==
  /\ at[b] = "idle"
  /\ IF \E c \in Builders : at[c] # "idle"
     THEN fails < MaxFails /\ fails' = fails + 1
     ELSE UNCHANGED fails
  /\ at' = [at EXCEPT ![b] = "fetch"]
  /\ seen' = [seen EXCEPT ![b] = cursor]
  /\ UNCHANGED <<status, created, cursor, folded, batch, through, prior, moved, edits, unseen>>

Fetch(b) == \E S \in SUBSET Newer(seen[b]), t \in Times \union {0} :
  /\ at[b] = "fetch" /\ Fetched(S, Newer(seen[b]))
  /\ S \ Textless # {} /\ BuiltThrough(t, S \ Textless)
  /\ at' = [at EXCEPT ![b] = "prior"]
  /\ seen' = [seen EXCEPT ![b] = 0]
  /\ batch' = [batch EXCEPT ![b] = S \ Textless]
  /\ through' = [through EXCEPT ![b] = t]
  /\ unseen' = unseen \union CutOff(S, Newer(seen[b]), t)
  /\ UNCHANGED <<status, created, cursor, folded, prior, moved, edits, fails>>

ReadPrior(b) ==
  /\ at[b] = "prior"
  /\ at' = [at EXCEPT ![b] = "synthesis"]
  /\ prior' = [prior EXCEPT ![b] = folded]
  /\ UNCHANGED <<status, created, cursor, folded, seen, batch, through, moved, edits, fails, unseen>>

(* A build is over, and what it held is gone                               *)
Leave(b) ==
  /\ at' = [at EXCEPT ![b] = "idle"]
  /\ seen' = [seen EXCEPT ![b] = 0]
  /\ batch' = [batch EXCEPT ![b] = {}]
  /\ through' = [through EXCEPT ![b] = 0]
  /\ prior' = [prior EXCEPT ![b] = {}]

SkipNoEvidence(b) == \E S \in SUBSET Newer(seen[b]) :
  /\ at[b] = "fetch" /\ Fetched(S, Newer(seen[b]))
  /\ S \subseteq Textless
  /\ Leave(b)
  /\ UNCHANGED <<status, created, cursor, folded, moved, edits, fails, unseen>>

(* Variant: a write without its condition on the version *)
SwapBlindly(b, content) ==
  /\ at[b] = "synthesis"
  /\ folded' = content
  /\ moved' = [c \in Builders |-> c # b /\ at[c] = "synthesis"]
  /\ UNCHANGED <<status, created, cursor, edits, unseen>>

(* compareAndSwapProjectContinuityState: an UPDATE guarded by the version, *)
(* or a CREATE that fails once another build has created the row.  Builds  *)
(* that have read the state by then hold a version that has moved.         *)
Swap(b, content) ==
  /\ at[b] = "synthesis" /\ ~moved[b]
  /\ folded' = content
  /\ moved' = [c \in Builders |-> c # b /\ at[c] = "synthesis"]
  /\ UNCHANGED <<status, created, cursor, edits, unseen>>

Commit(b) ==
  /\ Swap(b, prior[b] \union batch[b])
  /\ IF through[b] = 0
     THEN Leave(b)
     ELSE /\ at' = [at EXCEPT ![b] = "stamp"]
          /\ prior' = [prior EXCEPT ![b] = {}]
          /\ UNCHANGED <<seen, batch, through>>
  /\ UNCHANGED fails

(* The model call failed or its answer does not parse: the prior lists are *)
(* carried forward and the cursor stays where it is                        *)
CommitPrior(b) ==
  /\ fails < MaxFails /\ fails' = fails + 1
  /\ Swap(b, prior[b])
  /\ Leave(b)

(* The write is executed and its answer lost: read back, or sent again, it *)
(* is taken for another run's                                              *)
CommitUnacknowledged(b) ==
  /\ fails < MaxFails /\ fails' = fails + 1
  /\ Swap(b, prior[b] \union batch[b])
  /\ Leave(b)

CasLost(b) ==
  /\ at[b] = "synthesis" /\ moved[b]
  /\ moved' = [moved EXCEPT ![b] = FALSE]
  /\ Leave(b)
  /\ UNCHANGED <<status, created, cursor, folded, edits, fails, unseen>>

WriteCursor(b) ==
  /\ at[b] = "stamp"
  /\ cursor' = through[b]
  /\ Leave(b)
  /\ UNCHANGED <<status, created, folded, moved, edits, fails, unseen>>

(* A query throws, or the process dies                                     *)
BuildFails(b) ==
  /\ at[b] # "idle" /\ fails < MaxFails
  /\ fails' = fails + 1
  /\ moved' = [moved EXCEPT ![b] = FALSE]
  /\ Leave(b)
  /\ UNCHANGED <<status, created, cursor, folded, edits, unseen>>

-----------------------------------------------------------------------------
Write == \E x \in Ids : (\E t \in Times : Capture(x, t)) \/ Withdraw(x) \/ Restore(x)

BuildStep(b) ==
  \/ ReadCursor(b) \/ Fetch(b) \/ SkipNoEvidence(b)
  \/ ReadPrior(b) \/ Commit(b) \/ CasLost(b) \/ WriteCursor(b)

Failure(b) == CommitPrior(b) \/ CommitUnacknowledged(b) \/ BuildFails(b)

Next == Write \/ (\E b \in Builders : BuildStep(b) \/ Failure(b))

Spec     == Init /\ [][Next]_vars
FairSpec == Spec /\ WF_vars(\E b \in Builders : BuildStep(b))

-----------------------------------------------------------------------------
(* Every variable has its type.                                            *)
TypeOK ==
  /\ status \in [Ids -> {"absent", "active", "inactive"}]
  /\ created \in [Ids -> Nat]
  /\ cursor \in Nat /\ folded \subseteq Ids
  /\ at \in [Builders -> {"idle", "fetch", "prior", "synthesis", "stamp"}]
  /\ seen \in [Builders -> Nat] /\ batch \in [Builders -> SUBSET Ids]
  /\ through \in [Builders -> Nat] /\ prior \in [Builders -> SUBSET Ids]
  /\ moved \in [Builders -> BOOLEAN]
  /\ edits \in Nat /\ fails \in Nat /\ unseen \subseteq Ids

(* The cursor burns no evidence: an active memory with text that it has    *)
(* passed went into a synthesis whose state was committed and is carried   *)
(* forward, whatever calls fail, runs die or overlap, and also where the   *)
(* cursor falls back because a slow build writes an older one.  Excepted   *)
(* are memories that appeared behind the cursor or a fetch, and those cut  *)
(* off by a batch that text-less memories have shortened.                  *)
Evidence == Active \ (Textless \union unseen)

NoEvidenceBurned == \A x \in Evidence : created[x] <= cursor => x \in folded

(* No build undoes another's: what the state rests on is never dropped by  *)
(* a write that was computed from an earlier state (the compare-and-swap). *)
NoBuildUndone == [][folded \subseteq folded']_folded

(* Once the writing stops and no run fails any more, every active memory   *)
(* with text is folded, overlapping builds notwithstanding, unless as many *)
(* memories share one timestamp, or are without text, as a batch holds.    *)
FitsBatch ==
  /\ Cardinality(Textless) < Limit
  /\ \A t \in Times : Cardinality({x \in Ids \ Textless : created[x] = t}) < Limit

EvidenceIsFolded == <>[](FitsBatch => Evidence \subseteq folded)
=============================================================================
