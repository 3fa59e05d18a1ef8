---------------------------- MODULE SupersedeStore ----------------------------
(***************************************************************************)
(* Supersession in the memory table                                        *)
(* (src/storage/surreal/memory-crud-store.ts), written by captures         *)
(* (write-arbitrator.ts), by the consolidation run that holds the scope's  *)
(* lease (consolidation.ts, staleness-pass.ts) and by a user who forgets,  *)
(* restores and erases memories (app/routes/memory/index.ts).              *)
(*                                                                         *)
(* One user, one scope, generic rows (processing_lineage = NONE).  A       *)
(* memory is its position in creation order: createdAt orders ids, ties    *)
(* do not occur.  Text, embeddings and scores are abstracted away: which   *)
(* candidate is similar, and what the judge or the staleness model answer, *)
(* is a free choice.                                                       *)
(***************************************************************************)
EXTENDS Naturals, FiniteSets

CONSTANTS
  MaxId,       \* bound: at most MaxId memories are ever created
  Writers,     \* capture requests running at the same time
  Maintainers, \* consolidation runs: at most one, the holder of the lease
  Staleness,   \* scope # "global" and CONSOLIDATION_STALENESS_RECENT_LIMIT > 0
  Backlog,     \* sets of fact ids that pending staleness_backlog rows carry
  Ceiling,     \* CORRUPTION_CEILING of the dag guard
  ReadsFail,   \* whether a read of the dag guard may fail
  Requests     \* bound: the kinds of user requests that arrive

Ids    == 1 .. MaxId
NoId   == 0      \* a NONE pointer; as a replacement: a UUID not yet stored
Actors == Writers \union Maintainers

ASSUME StoreAssumption ==
  /\ MaxId \in Nat
  /\ Ceiling \in Nat
  /\ Staleness \in BOOLEAN
  /\ ReadsFail \in BOOLEAN
  /\ Backlog \subseteq SUBSET Ids
  /\ Requests \subseteq {"forget", "restore", "erase"}
  /\ Writers \intersect Maintainers = {}
  /\ \A m, n \in Maintainers : m = n

Status == {"absent", "active", "superseded", "forgotten"}
Row    == [status : Status, succ : Ids \union {NoId},
           pred : Ids \union {NoId}, root : Ids \union {NoId}]
Blank  == [status |-> "absent", succ |-> NoId, pred |-> NoId, root |-> NoId]

VARIABLES
  row,      \* [Ids -> Row]: active and inactive_reason as status,
            \* superseded_by as succ, supersedes as pred, lineage_root_id as root
  born,     \* ids 1..born have been created
  pc,       \* [Actors -> step of the write under way]
  prev,     \* [Actors -> id to be superseded or merged into]
  repl,     \* [Actors -> replacement id, NoId for a fresh UUID]
  plan,     \* [Actors -> lineageRootId of the prepared supersede]
  cursor,   \* [Actors -> currentId of the dag guard's walk]
  visited,  \* [Actors -> ids the walk has visited]
  witnessed, \* plans whose prev and repl were not written since they were read
  phase,    \* [Maintainers -> part of the consolidation run]
  snap,     \* [Maintainers -> rows of the sweep's snapshot not merged away]
  facts,    \* [Maintainers -> replacementMemoryIds of the staleness core]
  cands     \* [Maintainers -> candidates the staleness core has read]

planVars == <<prev, repl, plan, cursor, visited>>
runVars  == <<phase, snap, facts, cands>>
vars     == <<row, born, pc, planVars, witnessed, runVars>>

Present(x) == row[x].status # "absent"
Active     == {x \in Ids : row[x].status = "active"}

Init ==
  /\ row = [x \in Ids |-> Blank]
  /\ born = 0
  /\ pc = [a \in Actors |-> "idle"]
  /\ prev = [a \in Actors |-> NoId]
  /\ repl = [a \in Actors |-> NoId]
  /\ plan = [a \in Actors |-> NoId]
  /\ cursor = [a \in Actors |-> NoId]
  /\ visited = [a \in Actors |-> {}]
  /\ witnessed = {}
  /\ phase = [m \in Maintainers |-> "idle"]
  /\ snap = [m \in Maintainers |-> {}]
  /\ facts = [m \in Maintainers |-> {}]
  /\ cands = [m \in Maintainers |-> {}]

(***************************************************************************)
(* Every write changes updated_at, so the witness of a plan that names a   *)
(* written row no longer matches.                                          *)
(***************************************************************************)
Touched(X) == {a \in witnessed : prev[a] \notin X /\ repl[a] \notin X}

Plan(a, step, p, r, root) ==
  /\ pc' = [pc EXCEPT ![a] = step]
  /\ prev' = [prev EXCEPT ![a] = p]
  /\ repl' = [repl EXCEPT ![a] = r]
  /\ plan' = [plan EXCEPT ![a] = root]
  /\ cursor' = [cursor EXCEPT ![a] = p]
  /\ visited' = [visited EXCEPT ![a] = {}]

Drop(a) == Plan(a, "idle", NoId, NoId, NoId)

-----------------------------------------------------------------------------
(* Captures: arbitrateWrite *)

(* outcome "create": upsertMemory under a UUID drawn for it *)
Create ==
  /\ born < MaxId
  /\ born' = born + 1
  /\ row' = [row EXCEPT ![born + 1] = [Blank EXCEPT !.status = "active"]]
  /\ UNCHANGED <<pc, planVars, witnessed, runVars>>

(* previous.lineageRootId ?? previous.id, of the row as findSimilarMemories reads it *)
RootOf(x) == IF row[x].root = NoId THEN x ELSE row[x].root

(* Variant: every supersede starts a lineage of its own *)
FindCandidateRestartingRoot(w, x) ==
  /\ pc[w] = "idle"
  /\ x \in Active
  /\ Plan(w, "judged", x, NoId, x)
  /\ UNCHANGED <<row, born, witnessed, runVars>>

(* findSimilarMemories; the judge and the embedder are awaited after it *)
FindCandidate(w, x) ==
  /\ pc[w] = "idle"
  /\ x \in Active
  /\ Plan(w, "judged", x, NoId, RootOf(x))
  /\ UNCHANGED <<row, born, witnessed, runVars>>

Skip(w) ==
  /\ pc[w] = "judged"
  /\ Drop(w)
  /\ UNCHANGED <<row, born, witnessed, runVars>>

(* Variant: the merge upserts the row it names *)
MergeUpdateUpserting(w) ==
  LET x == prev[w] IN
  /\ pc[w] = "judged"
  /\ row' = [row EXCEPT ![x].status = "active"]
  /\ witnessed' = Touched({x})
  /\ Drop(w)
  /\ UNCHANGED <<born, runVars>>

(* updateMemoryText writes the row by id, active or not, and activates it; *)
(* no row matches an erased id and the merge is refused                    *)
MergeUpdate(w) ==
  LET x == prev[w] IN
  /\ pc[w] = "judged"
  /\ row' = IF Present(x) THEN [row EXCEPT ![x].status = "active"] ELSE row
  /\ witnessed' = Touched({x})
  /\ Drop(w)
  /\ UNCHANGED <<born, runVars>>

DecideSupersede(w) ==
  /\ pc[w] = "judged"
  /\ pc' = [pc EXCEPT ![w] = "prepare"]
  /\ UNCHANGED <<row, born, planVars, witnessed, runVars>>

-----------------------------------------------------------------------------
(* supersedeMemory: prepareSupersedeMemory, then one transaction *)

(* Both rows' eligibility and witness reads; previous must exist *)
Witness(a) ==
  /\ pc[a] = "prepare"
  /\ Present(prev[a])
  /\ pc' = [pc EXCEPT ![a] = "walk"]
  /\ cursor' = [cursor EXCEPT ![a] = prev[a]]
  /\ visited' = [visited EXCEPT ![a] = {}]
  /\ witnessed' = witnessed \union {a}
  /\ UNCHANGED <<row, born, prev, repl, plan, runVars>>

(* wouldCreateCycle: one query per hop.  The staleness core walks once     *)
(* before it calls supersedeMemory ("screen"), supersedeMemory once more   *)
Walking(a) == pc[a] \in {"screen", "walk"}

(* Variant: the walk looks for a revisited id and forgets the new one *)
LoopFoundOnRevisit(a) ==
  \/ cursor[a] \in visited[a]
  \/ Cardinality(visited[a]) + 1 >= Ceiling

LoopFound(a) ==
  \/ cursor[a] = repl[a]
  \/ cursor[a] \in visited[a]
  \/ Cardinality(visited[a]) + 1 >= Ceiling
  \/ row[cursor[a]].pred # NoId /\ row[cursor[a]].pred = repl[a]

ChainEnds(a) == ~Present(cursor[a]) \/ row[cursor[a]].pred = NoId

Hop(a) ==
  /\ Walking(a) /\ ~LoopFound(a) /\ ~ChainEnds(a)
  /\ visited' = [visited EXCEPT ![a] = @ \union {cursor[a]}]
  /\ cursor' = [cursor EXCEPT ![a] = row[cursor[a]].pred]
  /\ UNCHANGED <<row, born, pc, prev, repl, plan, witnessed, runVars>>

(* The guard answers false: the chain ends, is orphaned, or a read failed *)
PassGuard(a) ==
  /\ Walking(a)
  /\ (~LoopFound(a) /\ ChainEnds(a)) \/ ReadsFail
  /\ pc' = [pc EXCEPT ![a] = IF pc[a] = "screen" THEN "prepare" ELSE "commit"]
  /\ visited' = [visited EXCEPT ![a] = @ \union {cursor[a]}]
  /\ UNCHANGED <<row, born, prev, repl, plan, cursor, witnessed, runVars>>

(* Variants: a status outside the four; superseded_by set to its own id *)
RetiredArchived(p, r, root) ==
  [row[p] EXCEPT !.status = "archived", !.succ = r, !.root = root]
RetiredIntoItself(p, r, root) ==
  [row[p] EXCEPT !.status = "superseded", !.succ = p, !.root = root]

(* The row a committed supersede leaves behind it, and the one it points to *)
Retired(p, r, root) ==
  [row[p] EXCEPT !.status = "superseded", !.succ = r, !.root = root]

Replacement(p, r, root) ==
  IF Present(r) THEN [row[r] EXCEPT !.pred = p, !.root = root]
  ELSE [Blank EXCEPT !.status = "active", !.pred = p, !.root = root]

Supersede(a, p, r, root) ==
  /\ row' = [row EXCEPT ![p] = Retired(p, r, root), ![r] = Replacement(p, r, root)]
  /\ witnessed' = Touched({p, r}) \ {a}

(* The guards compare both rows with their witnesses; otherwise it THROWs *)
CommitCapture(w) ==
  /\ w \in Writers
  /\ pc[w] = "commit" /\ w \in witnessed
  /\ born < MaxId
  /\ born' = born + 1
  /\ Supersede(w, prev[w], born + 1, plan[w])
  /\ Drop(w)
  /\ UNCHANGED runVars

(* Only the dedup sweep takes the row it merged away out of its snapshot *)
CommitMaintenance(m) ==
  /\ m \in Maintainers
  /\ pc[m] = "commit" /\ m \in witnessed
  /\ Supersede(m, prev[m], repl[m], plan[m])
  /\ snap' = IF phase[m] = "dedup" THEN [snap EXCEPT ![m] = @ \ {prev[m]}] ELSE snap
  /\ Drop(m)
  /\ UNCHANGED <<born, phase, facts, cands>>

(* Any await may throw, a changed witness and a cycle always do: the       *)
(* write is given up and nothing of it is stored                           *)
GiveUp(a) ==
  /\ pc[a] \in {"screen", "prepare", "walk", "commit"}
  /\ Drop(a)
  /\ witnessed' = witnessed \ {a}
  /\ UNCHANGED <<row, born, runVars>>

-----------------------------------------------------------------------------
(* The consolidation run: sweep, backlog replay, stored-memory staleness *)

StartSweep(m) ==
  /\ phase[m] = "idle"
  /\ phase' = [phase EXCEPT ![m] = "dedup"]
  /\ snap' = [snap EXCEPT ![m] = Active]
  /\ UNCHANGED <<row, born, pc, planVars, witnessed, facts, cands>>

(* The pair comes from the snapshot, without its lineageRootId *)
DedupPair(m, older, newer) ==
  /\ phase[m] = "dedup" /\ pc[m] = "idle"
  /\ older < newer
  /\ Plan(m, "prepare", older, newer, older)
  /\ UNCHANGED <<row, born, witnessed, runVars>>

ReadCandidates(m, F, next) ==
  /\ pc[m] = "idle"
  /\ phase' = [phase EXCEPT ![m] = next]
  /\ facts' = [facts EXCEPT ![m] = F]
  /\ cands' = [cands EXCEPT ![m] = Active \ F]
  /\ UNCHANGED <<row, born, pc, planVars, witnessed>>

ReplayEntry(m, F) ==
  /\ phase[m] \in {"dedup", "replay"}
  /\ F \subseteq 1 .. born
  /\ ReadCandidates(m, F, "replay")
  /\ UNCHANGED snap

StoredStaleness(m, F) ==
  /\ Staleness
  /\ phase[m] \in {"dedup", "replay"}
  /\ F # {}
  /\ ReadCandidates(m, F, "stale")
  /\ snap' = [snap EXCEPT ![m] = {}]   \* not read again

(* The model calls candidate c stale because of fact f *)
Verdict(m, c, f) ==
  /\ phase[m] \in {"replay", "stale"} /\ pc[m] = "idle"
  /\ c # f
  /\ Plan(m, "screen", c, f, c)
  /\ UNCHANGED <<row, born, witnessed, runVars>>

EndRun(m) ==
  /\ phase[m] # "idle" /\ pc[m] = "idle"
  /\ phase' = [phase EXCEPT ![m] = "idle"]
  /\ snap' = [snap EXCEPT ![m] = {}]
  /\ facts' = [facts EXCEPT ![m] = {}]
  /\ cands' = [cands EXCEPT ![m] = {}]
  /\ UNCHANGED <<row, born, pc, planVars, witnessed>>

-----------------------------------------------------------------------------
(* The user *)

SetRow(x, r) ==
  /\ row' = [row EXCEPT ![x] = r]
  /\ witnessed' = Touched({x})
  /\ UNCHANGED <<born, pc, planVars, runVars>>

(* soft-inactivate has no active = true condition *)
Forget(x)     == Present(x) /\ SetRow(x, [row[x] EXCEPT !.status = "forgotten"])
Restore(x)    == /\ row[x].status \in {"superseded", "forgotten"}
                 /\ SetRow(x, [row[x] EXCEPT !.status = "active"])
HardDelete(x) == IF Present(x) THEN SetRow(x, Blank) ELSE UNCHANGED vars

-----------------------------------------------------------------------------
CaptureStep ==
  \/ Create
  \/ \E w \in Writers :
       \/ \E x \in Ids : FindCandidate(w, x)
       \/ Skip(w)
       \/ MergeUpdate(w)
       \/ DecideSupersede(w)

SupersedeStep == \E a \in Actors :
  \/ Witness(a)
  \/ Hop(a)
  \/ PassGuard(a)
  \/ CommitCapture(a)
  \/ CommitMaintenance(a)
  \/ GiveUp(a)

RunStep == \E m \in Maintainers :
  \/ StartSweep(m)
  \/ \E older, newer \in snap[m] : DedupPair(m, older, newer)
  \/ \E F \in Backlog : ReplayEntry(m, F)
  \/ \E F \in SUBSET snap[m] : StoredStaleness(m, F)
  \/ \E c \in cands[m], f \in facts[m] : Verdict(m, c, f)
  \/ EndRun(m)

UserStep == \E x \in Ids :
  \/ "forget" \in Requests /\ Forget(x)
  \/ "restore" \in Requests /\ Restore(x)
  \/ "erase" \in Requests /\ HardDelete(x)

Next == CaptureStep \/ SupersedeStep \/ RunStep \/ UserStep

Spec == Init /\ [][Next]_vars

-----------------------------------------------------------------------------
IdOrNone == Ids \union {NoId}

(* Every variable has its type; a pointer names an id or is NONE.          *)
TypeOK ==
  /\ row \in [Ids -> Row]
  /\ born \in 0 .. MaxId
  /\ pc \in [Actors -> {"idle", "judged", "screen", "prepare", "walk", "commit"}]
  /\ prev \in [Actors -> IdOrNone] /\ repl \in [Actors -> IdOrNone]
  /\ plan \in [Actors -> IdOrNone] /\ cursor \in [Actors -> IdOrNone]
  /\ visited \in [Actors -> SUBSET IdOrNone]
  /\ witnessed \subseteq Actors
  /\ phase \in [Maintainers -> {"idle", "dedup", "replay", "stale"}]
  /\ snap \in [Maintainers -> SUBSET Ids]
  /\ facts \in [Maintainers -> SUBSET Ids]
  /\ cands \in [Maintainers -> SUBSET Ids]

(* The supersedes pointers form no cycle, although the guard reads them    *)
(* one query at a time while captures, merges and erasures go on, and the  *)
(* last supersede of a row overwrites its only pointer: every non-empty    *)
(* set of memories has one whose predecessor is outside it.                *)
SupersedesAcyclic ==
  \A S \in SUBSET Ids : S # {} => \E x \in S : row[x].pred \notin S

(* Following superseded_by from a superseded memory leads out of the       *)
(* superseded ones: no set of superseded memories refers only to itself,   *)
(* so supersession alone never leaves a fact with no surviving version.    *)
SupersededHasSurvivor ==
  \A S \in SUBSET Ids : S # {} =>
    \E x \in S : row[x].status # "superseded" \/ row[x].succ \notin S

(* getMemoryLineage: the rows that share the seed's lineage root, and the  *)
(* root itself                                                             *)
Lineage(s) == {r \in Ids : Present(r) /\ (row[r].root = RootOf(s) \/ r = RootOf(s))}

(* A memory and the one that superseded it are in each other's lineage.    *)
LineageIntact ==
  \A x \in Ids : LET y == row[x].succ IN
    Present(x) /\ y # NoId /\ Present(y) => y \in Lineage(x) /\ x \in Lineage(y)

(* No step brings back a memory that was hard-deleted ("unrecoverable").   *)
HardDeleteIsFinal ==
  [][\A x \in Ids : x <= born /\ ~Present(x) => ~(Present(x)')]_vars
=============================================================================
