------------------------------ MODULE DedupSweep ------------------------------
(***************************************************************************)
(* The dedup sweep of a consolidation run and what it feeds to the         *)
(* stored-memory staleness pass (src/lifecycle/semion/consolidation.ts,    *)
(* steps 1, 3.4 and 4), with captures and users writing to the same user   *)
(* and scope meanwhile.  The lease admits one run at a time.  What backlog *)
(* replay and the staleness pass supersede counts among the writes of      *)
(* others; scope "global", which is not fed, is left out.                  *)
(*                                                                         *)
(* Every two memories are similar (cosine >= 0.90), so only the values of  *)
(* their texts tell whether a pair may be merged.  A supersede is one step *)
(* that succeeds or throws; SupersedeStore has its inside.                 *)
(***************************************************************************)
EXTENDS Naturals, FiniteSets

CONSTANTS
  MaxId,    \* bound: memories ever created
  MaxTime,  \* bound: timestamps drawn by captures, users and promotions
  MaxFails, \* bound: thrown merges, thrown feeds and failed runs
  Values,   \* value tokens (exactValueTokens) a text may carry
  Budget,   \* candidates a run processes at least before DEDUP_BUDGET_MS is over
  Limit,    \* CONSOLIDATION_STALENESS_RECENT_LIMIT
  Late      \* whether a write may carry the timestamp of an earlier one: the
            \* clock has milliseconds and is read before the write commits

Ids == 1 .. MaxId

ASSUME SweepAssumption ==
  /\ MaxId \in Nat /\ MaxTime \in Nat /\ MaxFails \in Nat
  /\ Budget \in Nat /\ Limit \in Nat
  /\ Late \in BOOLEAN

Row   == [status : {"absent", "active", "inactive"}, created : Nat, written : Nat,
          values : SUBSET Values, into : Ids \union {0}]
Blank == [status |-> "absent", created |-> 0, written |-> 0, values |-> {}, into |-> 0]

VARIABLES
  row,       \* [Ids -> Row]; written is payload.updatedAt ?? payload.createdAt,
             \* into is superseded_by where a sweep has set it
  clock,     \* the latest timestamp drawn
  watermark, \* dedup_state.swept_through, 0 when there is none
  phase,     \* "idle", "sweep", "swept" (the watermark has moved) or "fed"
  snap,      \* [Ids -> Row] allMemories
  cands,     \* candidates
  todo,      \* candidates not yet taken
  current,   \* the candidate under comparison, 0 between two
  others,    \* rows of the snapshot it is still to be compared with
  merged,    \* dedupedIds
  failed,    \* candidateFailed
  unswept,   \* firstUnsweptW, 0 for null
  processed, \* processedCandidates
  fails,     \* failures so far
  compared,  \* pairs whose present versions have been compared
  fed,       \* rows whose present version was fed to the staleness pass
  missed     \* rows whose present version the watermark has passed and no run will
             \* feed: the cap left them out, the feed threw or the run ended (history)

runVars == <<phase, snap, cands, todo, current, others, merged, failed, unswept, processed>>
vars    == <<row, clock, watermark, runVars, fails, compared, fed, missed>>

Active == {x \in Ids : row[x].status = "active"}
Born   == {x \in Ids : row[x].status # "absent"}

Init ==
  /\ row = [x \in Ids |-> Blank]
  /\ clock = 0 /\ watermark = 0
  /\ phase = "idle"
  /\ snap = [x \in Ids |-> Blank]
  /\ cands = {} /\ todo = {} /\ current = 0 /\ others = {} /\ merged = {}
  /\ failed = FALSE /\ unswept = 0 /\ processed = 0
  /\ fails = 0 /\ compared = {} /\ fed = {} /\ missed = {}

Stamps == {clock + 1} \union (IF Late /\ clock > 0 THEN {clock} ELSE {})

(* The rows of X are written with timestamp t *)
Written(X, t) ==
  /\ clock' = t
  /\ compared' = {p \in compared : p \intersect X = {}}
  /\ fed' = fed \ X
  /\ missed' = missed \ X

-----------------------------------------------------------------------------
(* Captures and users *)

Create(x, values, t) ==
  /\ clock < MaxTime
  /\ x \notin Born /\ \A y \in Ids : y < x => y \in Born
  /\ row' = [row EXCEPT ![x] = [Blank EXCEPT !.status = "active", !.created = t,
                                             !.written = t, !.values = values]]
  /\ Written({x}, t)
  /\ UNCHANGED <<watermark, runVars, fails>>

Writable(x) == clock < MaxTime /\ x \in Born

(* updateMemoryText: a new text, and the row is active again *)
MergeUpdate(x, values, t) ==
  /\ Writable(x)
  /\ row' = [row EXCEPT ![x] = [@ EXCEPT !.status = "active", !.written = t,
                                         !.values = values]]
  /\ Written({x}, t)
  /\ UNCHANGED <<watermark, runVars, fails>>

(* soft-inactivate, restore, or a capture's supersede of x *)
SetStatus(x, status, t) ==
  /\ Writable(x)
  /\ row[x].status # status
  /\ row' = [row EXCEPT ![x] = [@ EXCEPT !.status = status, !.written = t]]
  /\ Written({x}, t)
  /\ UNCHANGED <<watermark, runVars, fails>>

-----------------------------------------------------------------------------
(* Step 1: the sweep *)

(* fetchAllActiveMemoriesForScope, then readDedupWatermark *)
StartSweep ==
  /\ phase = "idle"
  /\ phase' = "sweep"
  /\ snap' = [x \in Ids |-> IF x \in Active THEN row[x] ELSE Blank]
  /\ cands' = {x \in Active : row[x].written > watermark}
  /\ todo' = cands'
  /\ current' = 0 /\ others' = {} /\ merged' = {}
  /\ failed' = FALSE /\ unswept' = 0 /\ processed' = 0
  /\ UNCHANGED <<row, clock, watermark, fails, compared, fed, missed>>

(* The candidates are sorted by timestamp; ties keep the order of the      *)
(* query, which nothing fixes                                              *)
First(c) == c \in todo /\ \A x \in todo : snap[c].written <= snap[x].written

(* Variant: rows already merged away are compared again *)
TakeCandidateOfAll(c) ==
  /\ phase = "sweep" /\ current = 0 /\ First(c)
  /\ current' = c
  /\ todo' = todo \ {c}
  /\ others' = {x \in Ids : snap[x].status = "active"} \ {c}
  /\ failed' = FALSE
  /\ UNCHANGED <<row, clock, watermark, phase, snap, cands, merged, unswept, processed,
                 fails, compared, fed, missed>>

TakeCandidate(c) ==
  /\ phase = "sweep" /\ current = 0 /\ First(c)
  /\ current' = c
  /\ todo' = todo \ {c}
  /\ others' = IF c \in merged THEN {}
               ELSE {x \in Ids : snap[x].status = "active"} \ (merged \union {c})
  /\ failed' = FALSE
  /\ UNCHANGED <<row, clock, watermark, phase, snap, cands, merged, unswept, processed,
                 fails, compared, fed, missed>>

Older(c, o) == IF snap[c].created <= snap[o].created THEN c ELSE o
Newer(c, o) == IF snap[c].created <= snap[o].created THEN o ELSE c

(* Variant: the guard asks the wrong way round *)
PreservedReversed(c, o) == snap[Newer(c, o)].values \subseteq snap[Older(c, o)].values

Preserved(c, o) == snap[Older(c, o)].values \subseteq snap[Newer(c, o)].values

Current(x) == row[x] = snap[x]

KeepBoth(o) ==
  /\ current # 0 /\ o \in others
  /\ ~Preserved(current, o)
  /\ others' = others \ {o}
  /\ compared' = IF Current(current) /\ Current(o) THEN compared \union {{current, o}}
                 ELSE compared
  /\ UNCHANGED <<row, clock, watermark, phase, snap, cands, todo, current, merged,
                 failed, unswept, processed, fails, fed, missed>>

(* supersedeMemory stamps both rows; a candidate that is superseded ends   *)
(* its inner loop                                                          *)
Merge(o, t) ==
  LET old == Older(current, o)
      new == Newer(current, o) IN
  /\ current # 0 /\ o \in others
  /\ Preserved(current, o)
  /\ row' = [row EXCEPT ![old] = [@ EXCEPT !.status = "inactive", !.into = new,
                                           !.written = t],
                        ![new] = [@ EXCEPT !.written = t]]
  /\ Written({old, new}, t)
  /\ merged' = merged \union {old}
  /\ others' = IF old = current THEN {} ELSE others \ {o}
  /\ UNCHANGED <<watermark, phase, snap, cands, todo, current, failed, unswept,
                 processed, fails>>

MergeThrows(o) ==
  /\ current # 0 /\ o \in others
  /\ Preserved(current, o)
  /\ fails < MaxFails
  /\ fails' = fails + 1
  /\ failed' = TRUE
  /\ others' = others \ {o}
  /\ UNCHANGED <<row, clock, watermark, phase, snap, cands, todo, current, merged,
                 unswept, processed, compared, fed, missed>>

FirstUnswept(c) == IF unswept = 0 THEN snap[c].written ELSE unswept

(* Variant: a thrown merge does not hold the watermark back *)
FinishCandidateForgetting ==
  /\ current # 0 /\ others = {}
  /\ current' = 0
  /\ processed' = processed + 1
  /\ UNCHANGED <<row, clock, watermark, phase, snap, cands, todo, others, merged, failed,
                 unswept, fails, compared, fed, missed>>

FinishCandidate ==
  /\ current # 0 /\ others = {}
  /\ current' = 0
  /\ processed' = processed + 1
  /\ unswept' = IF failed THEN FirstUnswept(current) ELSE unswept
  /\ UNCHANGED <<row, clock, watermark, phase, snap, cands, todo, others, merged, failed,
                 fails, compared, fed, missed>>

(* The deadline is checked before every candidate *)
BudgetExhausted(c) ==
  /\ phase = "sweep" /\ current = 0 /\ First(c)
  /\ processed >= Budget
  /\ todo' = {}
  /\ unswept' = FirstUnswept(c)
  /\ UNCHANGED <<row, clock, watermark, phase, snap, cands, current, others, merged,
                 failed, processed, fails, compared, fed, missed>>

(* Variant: up to the first unswept timestamp, ties included *)
SweptWithTies == {x \in cands : unswept = 0 \/ snap[x].written <= unswept}

(* The candidates strictly below the first unswept timestamp *)
Swept == {x \in cands : unswept = 0 \/ snap[x].written < unswept}

AdvanceWatermark ==
  /\ phase = "sweep" /\ current = 0 /\ todo = {}
  /\ \/ Swept = {} /\ phase' = "fed" /\ UNCHANGED watermark
     \/ \E x \in Swept :
          /\ \A y \in Swept : snap[y].written <= snap[x].written
          /\ watermark' = snap[x].written
          /\ phase' = "swept"
  /\ UNCHANGED <<row, clock, snap, cands, todo, current, others, merged, failed, unswept,
                 processed, fails, compared, fed, missed>>

-----------------------------------------------------------------------------
(* Step 3.4: the swept rows, and step 4: decay and promotion *)

(* Variants: all candidates; without the boundary's own timestamp *)
RecentAll     == cands \ merged
RecentBelow   == {x \in cands : snap[x].written < watermark} \ merged

Recent == {x \in cands : snap[x].written <= watermark} \ merged

PresentOf(X) == {x \in X : Current(x)}

(* slice(-Limit): the newest ones. The rest of the swept rows lies behind  *)
(* the watermark all the same.                                             *)
FeedStaleness(F) ==
  /\ phase = "swept"
  /\ Cardinality(F) = IF Cardinality(Recent) <= Limit THEN Cardinality(Recent) ELSE Limit
  /\ \A x \in F, y \in Recent \ F : snap[y].written <= snap[x].written
  /\ fed' = fed \union PresentOf(F)
  /\ missed' = missed \union PresentOf(Recent \ F)
  /\ phase' = "fed"
  /\ UNCHANGED <<row, clock, watermark, snap, cands, todo, current, others, merged,
                 failed, unswept, processed, fails, compared>>

(* The staleness core throws: that is logged, and the run goes on *)
FeedThrows ==
  /\ phase = "swept"
  /\ Recent # {} /\ Limit > 0
  /\ fails < MaxFails
  /\ fails' = fails + 1
  /\ missed' = missed \union PresentOf(Recent)
  /\ phase' = "fed"
  /\ UNCHANGED <<row, clock, watermark, snap, cands, todo, current, others, merged,
                 failed, unswept, processed, compared, fed>>

Reset ==
  /\ phase' = "idle"
  /\ snap' = [x \in Ids |-> Blank]
  /\ cands' = {} /\ todo' = {} /\ current' = 0 /\ others' = {} /\ merged' = {}
  /\ failed' = FALSE /\ unswept' = 0 /\ processed' = 0

(* runDecayPass prunes D without a timestamp, runPromotionPass writes the  *)
(* rows of P with one timestamp                                            *)
FinishRun(D, P, t) ==
  /\ phase = "fed"
  /\ P # {} => clock < MaxTime
  /\ row' = [x \in Ids |-> IF x \in D THEN [row[x] EXCEPT !.status = "inactive"]
                           ELSE IF x \in P THEN [row[x] EXCEPT !.written = t] ELSE row[x]]
  /\ IF P = {} THEN UNCHANGED <<clock, compared, fed, missed>> ELSE Written(P, t)
  /\ Reset
  /\ UNCHANGED <<watermark, fails>>

(* A query outside the inner try throws, or the process dies *)
RunFails ==
  /\ phase # "idle"
  /\ fails < MaxFails
  /\ fails' = fails + 1
  /\ missed' = IF phase = "swept" THEN missed \union PresentOf(Recent) ELSE missed
  /\ Reset
  /\ UNCHANGED <<row, clock, watermark, compared, fed>>

-----------------------------------------------------------------------------
Write == \E t \in Stamps :
  \/ \E x \in Ids, values \in SUBSET Values :
       Create(x, values, t) \/ MergeUpdate(x, values, t)
  \/ \E x \in Ids, status \in {"active", "inactive"} : SetStatus(x, status, t)

RunStep ==
  \/ StartSweep
  \/ \E c \in todo : TakeCandidate(c) \/ BudgetExhausted(c)
  \/ \E o \in others : KeepBoth(o) \/ \E t \in Stamps : Merge(o, t)
  \/ FinishCandidate
  \/ AdvanceWatermark
  \/ \E F \in SUBSET Recent : FeedStaleness(F)
  \/ \E D \in SUBSET Active, t \in Stamps : \E P \in SUBSET (Active \ D) : FinishRun(D, P, t)

Failure == RunFails \/ FeedThrows \/ \E o \in others : MergeThrows(o)

Next == Write \/ RunStep \/ Failure

Spec     == Init /\ [][Next]_vars
FairSpec == Spec /\ WF_vars(RunStep)

-----------------------------------------------------------------------------
(* Every variable has its type, and the loop's sets are parts of the       *)
(* snapshot.                                                               *)
TypeOK ==
  /\ row \in [Ids -> Row] /\ snap \in [Ids -> Row]
  /\ clock \in Nat /\ watermark \in Nat
  /\ phase \in {"idle", "sweep", "swept", "fed"}
  /\ cands \subseteq Ids /\ todo \subseteq cands
  /\ current \in cands \union {0}
  /\ others \subseteq Ids \ (merged \union {current})
  /\ merged \subseteq Ids
  /\ failed \in BOOLEAN /\ unswept \in Nat /\ processed \in Nat /\ fails \in Nat
  /\ compared \subseteq SUBSET Ids
  /\ fed \subseteq Ids /\ missed \subseteq Ids

(* No pair is lost below the watermark: two active memories that no later  *)
(* sweep takes as candidates have been compared as they are, whatever      *)
(* merges threw, runs died or budgets ended before that.                   *)
NoPairSkipped ==
  \A x, y \in Active :
    x # y /\ row[x].written <= watermark /\ row[y].written <= watermark
    => {x, y} \in compared

(* The survivor of a merge is active and carries every value token of the  *)
(* memory it replaces (the dnpp guard), unless a capture or a user gave    *)
(* one of the two a new text, or retired the survivor, after the snapshot. *)
AsInSnapshot(x) ==
  row[x].values = snap[x].values /\ (row[x].status = "active" \/ x \in merged)

SurvivorCarriesValues ==
  [][\A x \in Ids : LET y == row'[x].into IN
       y # row[x].into /\ AsInSnapshot(x) /\ AsInSnapshot(y)
       => row'[y].status = "active" /\ row[x].values \subseteq row'[y].values]_vars

(* A memory fed to the staleness pass is behind the watermark: no later    *)
(* run feeds it again unless it is written again.                          *)
FedIsBehindWatermark == \A x \in fed : row[x].written <= watermark

(* Once the writing stops, every two active memories are compared, unless  *)
(* more of them share one timestamp than a run's budget admits.            *)
FitsBudget ==
  \A x \in Active : Cardinality({y \in Active : row[y].written = row[x].written}) <= Budget

EveryPairCompared ==
  <>[](FitsBudget => \A x, y \in Active : x = y \/ {x, y} \in compared)

(* "Unswept rows are fed by whichever future run sweeps them"              *)
(* (consolidation.ts:394): no active memory gets behind the watermark      *)
(* without being fed to the staleness pass, or being about to be. A sweep  *)
(* that stopped early, a merge that threw, timestamps that tie and writes  *)
(* beside the sweep lose none. Lost are only those the cap of Limit rows   *)
(* leaves out, and those of a run whose feed threw or that ended before it.*)
AboutToBeFed == IF phase = "swept" THEN PresentOf(Recent) ELSE {}

SweptRowsAreFed ==
  \A x \in Active : row[x].written <= watermark => x \in fed \union missed \union AboutToBeFed

=============================================================================
