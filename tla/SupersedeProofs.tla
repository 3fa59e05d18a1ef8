---------------------------- MODULE SupersedeProofs ----------------------------
(***************************************************************************)
(* Proofs about SupersedeStore, for any number of memories, captures and   *)
(* facts: types, acyclicity of the supersedes pointers under the dag guard *)
(* and, when no staleness pass runs, survival of a newer version.          *)
(***************************************************************************)
EXTENDS SupersedeStore, TLAPS, FiniteSetTheorems

Born == 1 .. born

(* Whatever a plan, a run or a row names has been created.                 *)
PlansNamed ==
  /\ \A a \in Actors : pc[a] # "idle" => prev[a] \in Born
  /\ \A a \in Actors : pc[a] \in {"screen", "walk"} => cursor[a] \in Born
  /\ \A m \in Maintainers : pc[m] # "idle" => repl[m] \in Born
  /\ \A w \in Writers : repl[w] = NoId

RunsNamed == \A m \in Maintainers :
  snap[m] \subseteq Born /\ facts[m] \subseteq Born /\ cands[m] \subseteq Born

RowsNamed == \A x \in Ids :
  /\ row[x].pred \in Born \union {NoId}
  /\ row[x].status = "absent" => row[x] = Blank
  /\ x \notin Born => row[x] = Blank

NamedInv == TypeOK /\ PlansNamed /\ RunsNamed /\ RowsNamed

USE StoreAssumption DEF Ids, NoId

LEMMA NamedInit == Init => NamedInv
BY DEF Init, NamedInv, TypeOK, PlansNamed, RunsNamed, RowsNamed, Actors, IdOrNone,
       Row, Status, Blank, Born

(* The updates of single rows keep the type and the other fields           *)
LEMMA WithStatus ==
  ASSUME NEW y \in Row, NEW s \in Status, NEW z, z = [y EXCEPT !.status = s]
  PROVE  z \in Row /\ z.status = s /\ z.pred = y.pred /\ z.succ = y.succ
BY DEF Row

LEMMA RetiredFields ==
  TypeOK => \A p \in Ids, r, root \in IdOrNone :
    /\ Retired(p, r, root) \in Row
    /\ Retired(p, r, root).status = "superseded"
    /\ Retired(p, r, root).pred = row[p].pred
    /\ Retired(p, r, root).succ = r
<1> SUFFICES ASSUME TypeOK, NEW p \in Ids, NEW r \in IdOrNone, NEW root \in IdOrNone
             PROVE  /\ Retired(p, r, root) \in Row
                    /\ Retired(p, r, root).status = "superseded"
                    /\ Retired(p, r, root).pred = row[p].pred
                    /\ Retired(p, r, root).succ = r
  OBVIOUS
<1>1. PICK y \in Row : y = row[p]
  BY DEF TypeOK
<1>2. Retired(p, r, root) = [y EXCEPT !.status = "superseded", !.succ = r, !.root = root]
  BY <1>1 DEF Retired
<1> QED BY <1>1, <1>2 DEF Row, Status, IdOrNone

LEMMA ReplacementFields ==
  TypeOK => \A p, r \in Ids, root \in IdOrNone :
    /\ Replacement(p, r, root) \in Row
    /\ Replacement(p, r, root).pred = p
    /\ Present(r) => /\ Replacement(p, r, root).status = row[r].status
                     /\ Replacement(p, r, root).succ = row[r].succ
    /\ ~Present(r) => /\ Replacement(p, r, root).status = "active"
                      /\ Replacement(p, r, root).succ = NoId
<1> SUFFICES ASSUME TypeOK, NEW p \in Ids, NEW r \in Ids, NEW root \in IdOrNone
    PROVE /\ Replacement(p, r, root) \in Row
          /\ Replacement(p, r, root).pred = p
          /\ Present(r) => /\ Replacement(p, r, root).status = row[r].status
                           /\ Replacement(p, r, root).succ = row[r].succ
          /\ ~Present(r) => /\ Replacement(p, r, root).status = "active"
                            /\ Replacement(p, r, root).succ = NoId
  OBVIOUS
<1>1. PICK y \in Row : y = row[r]
  BY DEF TypeOK
<1>2. CASE Present(r)
  <2>1. Replacement(p, r, root) = [y EXCEPT !.pred = p, !.root = root]
    BY <1>1, <1>2 DEF Replacement
  <2> QED BY <1>1, <1>2, <2>1 DEF Row, IdOrNone
<1>3. CASE ~Present(r)
  <2>1. Replacement(p, r, root) = [Blank EXCEPT !.status = "active", !.pred = p, !.root = root]
    BY <1>3 DEF Replacement
  <2> QED BY <1>3, <2>1 DEF Row, Blank, Status, IdOrNone
<1> QED BY <1>2, <1>3

(* Replacing an existing row by another that names only what exists        *)
LEMMA RowReplaced ==
  ASSUME TypeOK, RowsNamed, NEW x \in Ids, NEW r \in Row, born' = born,
         x \in Born, r.pred \in Born \union {NoId}, r.status = "absent" => r = Blank,
         row' = [row EXCEPT ![x] = r]
  PROVE  row' \in [Ids -> Row] /\ RowsNamed'
BY DEF TypeOK, RowsNamed, Born

(* Changing only the status of an existing row                             *)
LEMMA Reactivated ==
  ASSUME TypeOK, RowsNamed, NEW x \in Ids, NEW s \in Status \ {"absent"}, born' = born,
         x \in Born, row' = [row EXCEPT ![x] = [row[x] EXCEPT !.status = s]]
  PROVE  row' \in [Ids -> Row] /\ RowsNamed'
<1> DEFINE r == [row[x] EXCEPT !.status = s]
<1>1. r \in Row /\ r.pred = row[x].pred /\ r.status = s
  BY WithStatus DEF TypeOK
<1>2. r.pred \in Born \union {NoId}
  BY <1>1 DEF RowsNamed
<1>3. row' = [row EXCEPT ![x] = r]
  BY DEF r
<1> HIDE DEF r
<1> QED BY <1>1, <1>2, <1>3, RowReplaced

(* A step of a capture that stores nothing, or creates or merges a row     *)
LEMMA NamedCapture == NamedInv /\ CaptureStep => NamedInv'
<1> SUFFICES ASSUME NamedInv, CaptureStep PROVE NamedInv'
  OBVIOUS
<1> USE DEF NamedInv, Born, Actors, IdOrNone, planVars, runVars
<1>1. CASE Create
  <2>1. born + 1 \in Ids /\ born \in Nat
    BY <1>1 DEF Create, TypeOK
  <2>2. TypeOK'
    BY <1>1, <2>1 DEF Create, TypeOK, Row, Status, Blank
  <2>3. PlansNamed' /\ RunsNamed'
    BY <1>1, <2>1 DEF Create, PlansNamed, RunsNamed
  <2>4. RowsNamed'
    BY <1>1, <2>1 DEF Create, TypeOK, RowsNamed, Row, Status, Blank
  <2> QED BY <2>2, <2>3, <2>4
<1>2. ASSUME NEW w \in Writers, NEW x \in Ids, FindCandidate(w, x) PROVE NamedInv'
  <2>1. x \in Born /\ RootOf(x) \in IdOrNone /\ w \notin Maintainers
    BY <1>2 DEF FindCandidate, Active, RowsNamed, Blank, RootOf, TypeOK, Row
  <2>2. TypeOK'
    BY <1>2, <2>1 DEF FindCandidate, Plan, TypeOK
  <2>3. PlansNamed'
    BY <1>2, <2>1 DEF FindCandidate, Plan, TypeOK, PlansNamed
  <2>4. RunsNamed' /\ RowsNamed'
    BY <1>2 DEF FindCandidate, RunsNamed, RowsNamed
  <2> QED BY <2>2, <2>3, <2>4
<1>3. ASSUME NEW w \in Writers, Skip(w) PROVE NamedInv'
  <2>1. TypeOK' /\ PlansNamed'
    BY <1>3 DEF Skip, Drop, Plan, TypeOK, PlansNamed
  <2>2. RunsNamed' /\ RowsNamed'
    BY <1>3 DEF Skip, RunsNamed, RowsNamed
  <2> QED BY <2>1, <2>2
<1>4. ASSUME NEW w \in Writers, MergeUpdate(w) PROVE NamedInv'
  <2>1. prev[w] \in Born /\ prev[w] \in Ids
    BY <1>4 DEF MergeUpdate, PlansNamed, TypeOK
  <2>2. row' \in [Ids -> Row] /\ RowsNamed'
    <3>1. born' = born
      BY <1>4 DEF MergeUpdate
    <3>2. CASE Present(prev[w])
      <4>1. row' = [row EXCEPT ![prev[w]] = [row[prev[w]] EXCEPT !.status = "active"]]
        BY <1>4, <3>2 DEF MergeUpdate
      <4>2. "active" \in Status \ {"absent"}
        BY DEF Status
      <4> QED BY <4>1, <4>2, <3>1, <2>1, Reactivated
    <3>3. CASE ~Present(prev[w])
      BY <1>4, <3>1, <3>3 DEF MergeUpdate, RowsNamed, TypeOK
    <3> QED BY <3>2, <3>3
  <2>3. TypeOK' /\ PlansNamed'
    BY <1>4, <2>2 DEF MergeUpdate, Drop, Plan, TypeOK, PlansNamed, Touched
  <2>4. RunsNamed'
    BY <1>4 DEF MergeUpdate, RunsNamed
  <2> QED BY <2>2, <2>3, <2>4
<1>5. ASSUME NEW w \in Writers, DecideSupersede(w) PROVE NamedInv'
  <2>1. TypeOK' /\ PlansNamed'
    BY <1>5 DEF DecideSupersede, TypeOK, PlansNamed
  <2>2. RunsNamed' /\ RowsNamed'
    BY <1>5 DEF DecideSupersede, RunsNamed, RowsNamed
  <2> QED BY <2>1, <2>2
<1> QED BY <1>1, <1>2, <1>3, <1>4, <1>5 DEF CaptureStep

(* A step of the dag guard or of the supersede transaction                 *)
LEMMA NamedSupersede == NamedInv /\ SupersedeStep => NamedInv'
<1> SUFFICES ASSUME NamedInv, NEW a \in Actors,
                    \/ Witness(a) \/ Hop(a) \/ PassGuard(a)
                    \/ CommitCapture(a) \/ CommitMaintenance(a) \/ GiveUp(a)
             PROVE  NamedInv'
  BY DEF SupersedeStep
<1> USE DEF NamedInv, Born, Actors, IdOrNone, planVars, runVars
<1>1. CASE Witness(a)
  <2>1. TypeOK' /\ PlansNamed'
    BY <1>1 DEF Witness, TypeOK, PlansNamed
  <2>2. RunsNamed' /\ RowsNamed'
    BY <1>1 DEF Witness, RunsNamed, RowsNamed
  <2> QED BY <2>1, <2>2
<1>2. CASE Hop(a)
  <2>1. cursor[a] \in Ids /\ row[cursor[a]].pred \in Born
    BY <1>2 DEF Hop, Walking, ChainEnds, PlansNamed, RowsNamed, TypeOK
  <2>2. TypeOK' /\ PlansNamed'
    BY <1>2, <2>1 DEF Hop, TypeOK, PlansNamed
  <2>3. RunsNamed' /\ RowsNamed'
    BY <1>2 DEF Hop, RunsNamed, RowsNamed
  <2> QED BY <2>2, <2>3
<1>3. CASE PassGuard(a)
  <2>1. TypeOK' /\ PlansNamed'
    BY <1>3 DEF PassGuard, Walking, TypeOK, PlansNamed
  <2>2. RunsNamed' /\ RowsNamed'
    BY <1>3 DEF PassGuard, RunsNamed, RowsNamed
  <2> QED BY <2>1, <2>2
<1>4. CASE CommitCapture(a)
  <2> DEFINE p == prev[a]
             r == born + 1
             root == plan[a]
             rp == Retired(p, r, root)
             rr == Replacement(p, r, root)
  <2>1. p \in Born /\ p \in Ids /\ r \in Ids /\ p # r /\ root \in IdOrNone /\ born \in Nat
    BY <1>4 DEF CommitCapture, PlansNamed, TypeOK
  <2>4. ~Present(r)
    BY <2>1 DEF RowsNamed, Present, Blank
  <2>2. rp \in Row /\ rp.pred = row[p].pred /\ rp.status = "superseded"
    <3>1. TypeOK /\ p \in Ids /\ r \in IdOrNone /\ root \in IdOrNone
      BY <2>1
    <3> HIDE DEF p, r, root
    <3> QED BY <3>1, RetiredFields
  <2>3. rr \in Row /\ rr.pred = p /\ rr.status = "active"
    <3>1. TypeOK /\ p \in Ids /\ r \in Ids /\ root \in IdOrNone
      BY <2>1
    <3> HIDE DEF p, r, root
    <3> QED BY <2>4, <3>1, ReplacementFields
  <2>5. row' = [row EXCEPT ![p] = rp, ![r] = rr] /\ born' = r
    BY <1>4 DEF CommitCapture, Supersede
  <2>6. pc' = [pc EXCEPT ![a] = "idle"] /\ prev' = [prev EXCEPT ![a] = NoId]
        /\ repl' = [repl EXCEPT ![a] = NoId] /\ plan' = [plan EXCEPT ![a] = NoId]
        /\ cursor' = [cursor EXCEPT ![a] = NoId] /\ visited' = [visited EXCEPT ![a] = {}]
        /\ witnessed' \subseteq witnessed /\ UNCHANGED runVars
    BY <1>4 DEF CommitCapture, Supersede, Drop, Plan, Touched
  <2> HIDE DEF p, r, root, rp, rr
  <2>7. row' \in [Ids -> Row]
    BY <2>1, <2>2, <2>3, <2>5 DEF TypeOK
  <2>8. RowsNamed'
    BY <2>1, <2>2, <2>3, <2>5 DEF TypeOK, RowsNamed, r
  <2>9. TypeOK' /\ PlansNamed' /\ RunsNamed'
    BY <2>1, <2>5, <2>6, <2>7 DEF TypeOK, PlansNamed, RunsNamed, r
  <2> QED BY <2>8, <2>9
<1>5. CASE CommitMaintenance(a)
  <2> DEFINE p == prev[a]
             r == repl[a]
             root == plan[a]
             rp == Retired(p, r, root)
             rr == Replacement(p, r, root)
  <2>1. p \in Born /\ p \in Ids /\ r \in Ids /\ r \in Born /\ root \in IdOrNone /\ born \in Nat
    BY <1>5 DEF CommitMaintenance, PlansNamed, TypeOK
  <2>2. rp \in Row /\ rp.pred = row[p].pred /\ rp.status = "superseded"
    <3>1. TypeOK /\ p \in Ids /\ r \in IdOrNone /\ root \in IdOrNone
      BY <2>1
    <3> HIDE DEF p, r, root
    <3> QED BY <3>1, RetiredFields
  <2>3. rr \in Row /\ rr.pred = p /\ rr.status # "absent"
    <3>1. TypeOK /\ p \in Ids /\ r \in Ids /\ root \in IdOrNone
      BY <2>1
    <3> HIDE DEF p, r, root
    <3>2. "active" # "absent"
      OBVIOUS
    <3> QED BY <3>1, <3>2, ReplacementFields DEF Present
  <2>5. row' = [row EXCEPT ![p] = rp, ![r] = rr] /\ born' = born
    BY <1>5 DEF CommitMaintenance, Supersede
  <2>6. pc' = [pc EXCEPT ![a] = "idle"] /\ prev' = [prev EXCEPT ![a] = NoId]
        /\ repl' = [repl EXCEPT ![a] = NoId] /\ plan' = [plan EXCEPT ![a] = NoId]
        /\ cursor' = [cursor EXCEPT ![a] = NoId] /\ visited' = [visited EXCEPT ![a] = {}]
        /\ witnessed' \subseteq witnessed /\ UNCHANGED <<phase, facts, cands>>
        /\ snap' \in [Maintainers -> SUBSET Ids]
        /\ \A m \in Maintainers : snap'[m] \subseteq snap[m]
    BY <1>5 DEF CommitMaintenance, Supersede, Drop, Plan, Touched, TypeOK
  <2> HIDE DEF p, r, root, rp, rr
  <2>7. row' \in [Ids -> Row]
    BY <2>1, <2>2, <2>3, <2>5 DEF TypeOK
  <2>8. RowsNamed'
    BY <2>1, <2>2, <2>3, <2>5 DEF TypeOK, RowsNamed
  <2>9. TypeOK' /\ PlansNamed' /\ RunsNamed'
    BY <2>1, <2>5, <2>6, <2>7 DEF TypeOK, PlansNamed, RunsNamed
  <2> QED BY <2>8, <2>9
<1>6. CASE GiveUp(a)
  <2>1. TypeOK' /\ PlansNamed'
    BY <1>6 DEF GiveUp, Drop, Plan, TypeOK, PlansNamed
  <2>2. RunsNamed' /\ RowsNamed'
    BY <1>6 DEF GiveUp, RunsNamed, RowsNamed
  <2> QED BY <2>1, <2>2
<1> QED BY <1>1, <1>2, <1>3, <1>4, <1>5, <1>6

(* A step of the consolidation run                                         *)
LEMMA NamedRun == NamedInv /\ RunStep => NamedInv'
<1> SUFFICES ASSUME NamedInv, NEW m \in Maintainers,
                    \/ StartSweep(m)
                    \/ \E older, newer \in snap[m] : DedupPair(m, older, newer)
                    \/ \E F \in Backlog : ReplayEntry(m, F)
                    \/ \E F \in SUBSET snap[m] : StoredStaleness(m, F)
                    \/ \E c \in cands[m], f \in facts[m] : Verdict(m, c, f)
                    \/ EndRun(m)
             PROVE  NamedInv'
  BY DEF RunStep
<1> USE DEF NamedInv, Born, Actors, IdOrNone, planVars, runVars
<1>0. Active \subseteq Born /\ Active \subseteq Ids
  BY DEF Active, RowsNamed, Blank
<1>1. CASE StartSweep(m)
  <2>1. TypeOK' /\ RunsNamed'
    BY <1>0, <1>1 DEF StartSweep, TypeOK, RunsNamed
  <2>2. PlansNamed' /\ RowsNamed'
    BY <1>1 DEF StartSweep, PlansNamed, RowsNamed
  <2> QED BY <2>1, <2>2
<1>2. ASSUME NEW older \in snap[m], NEW newer \in snap[m], DedupPair(m, older, newer)
      PROVE NamedInv'
  <2>1. older \in Born /\ newer \in Born /\ older \in Ids /\ newer \in Ids /\ m \notin Writers
    BY <1>2 DEF RunsNamed, TypeOK
  <2>2. TypeOK' /\ PlansNamed'
    BY <1>2, <2>1 DEF DedupPair, Plan, TypeOK, PlansNamed
  <2>3. RunsNamed' /\ RowsNamed'
    BY <1>2 DEF DedupPair, RunsNamed, RowsNamed
  <2> QED BY <2>2, <2>3
<1>3. ASSUME NEW F \in Backlog, ReplayEntry(m, F) PROVE NamedInv'
  <2>1. TypeOK' /\ RunsNamed'
    BY ZenonT(60), <1>0, <1>3 DEF ReplayEntry, ReadCandidates, TypeOK, RunsNamed
  <2>2. PlansNamed' /\ RowsNamed'
    BY <1>3 DEF ReplayEntry, ReadCandidates, PlansNamed, RowsNamed
  <2> QED BY <2>1, <2>2
<1>4. ASSUME NEW F \in SUBSET snap[m], StoredStaleness(m, F) PROVE NamedInv'
  <2>1. F \subseteq Born /\ F \subseteq Ids
    BY DEF RunsNamed, TypeOK
  <2>2. /\ phase' = [phase EXCEPT ![m] = "stale"] /\ snap' = [snap EXCEPT ![m] = {}]
        /\ facts' = [facts EXCEPT ![m] = F] /\ cands' = [cands EXCEPT ![m] = Active \ F]
        /\ UNCHANGED <<row, born, pc, prev, repl, plan, cursor, visited, witnessed>>
    BY <1>4 DEF StoredStaleness, ReadCandidates
  <2>4. TypeOK'
    BY <1>0, <2>1, <2>2 DEF TypeOK
  <2>5. RunsNamed'
    BY ZenonT(60), <1>0, <2>1, <2>2 DEF RunsNamed, TypeOK
  <2>3. PlansNamed' /\ RowsNamed'
    BY <1>4 DEF StoredStaleness, ReadCandidates, PlansNamed, RowsNamed
  <2> QED BY <2>3, <2>4, <2>5
<1>5. ASSUME NEW c \in cands[m], NEW f \in facts[m], Verdict(m, c, f) PROVE NamedInv'
  <2>1. c \in Born /\ f \in Born /\ c \in Ids /\ f \in Ids /\ m \notin Writers
    BY <1>5 DEF RunsNamed, TypeOK
  <2>2. TypeOK' /\ PlansNamed'
    BY <1>5, <2>1 DEF Verdict, Plan, TypeOK, PlansNamed
  <2>3. RunsNamed' /\ RowsNamed'
    BY <1>5 DEF Verdict, RunsNamed, RowsNamed
  <2> QED BY <2>2, <2>3
<1>6. CASE EndRun(m)
  <2>1. TypeOK' /\ RunsNamed'
    BY <1>6 DEF EndRun, TypeOK, RunsNamed
  <2>2. PlansNamed' /\ RowsNamed'
    BY <1>6 DEF EndRun, PlansNamed, RowsNamed
  <2> QED BY <2>1, <2>2
<1> QED BY <1>1, <1>2, <1>3, <1>4, <1>5, <1>6

(* A request of the user                                                   *)
LEMMA NamedUser == NamedInv /\ UserStep => NamedInv'
<1> SUFFICES ASSUME NamedInv, NEW x \in Ids, Forget(x) \/ Restore(x) \/ HardDelete(x)
             PROVE  NamedInv'
  BY DEF UserStep
<1> USE DEF NamedInv
<1>1. ASSUME NEW r \in Row, SetRow(x, r), Present(x),
             r.pred \in Born \union {NoId}, r.status = "absent" => r = Blank
      PROVE  NamedInv'
  <2>1. x \in Born /\ born' = born /\ row' = [row EXCEPT ![x] = r]
    BY <1>1 DEF RowsNamed, Present, Blank, SetRow
  <2>2. row' \in [Ids -> Row] /\ RowsNamed'
    BY <1>1, <2>1, RowReplaced
  <2>3. TypeOK'
    BY <1>1, <2>2 DEF SetRow, TypeOK, Touched, planVars, runVars
  <2>4. PlansNamed' /\ RunsNamed'
    BY <1>1 DEF SetRow, PlansNamed, RunsNamed, Born, planVars, runVars
  <2> QED BY <2>2, <2>3, <2>4
<1>2. ASSUME NEW s \in Status \ {"absent"}, Present(x),
             SetRow(x, [row[x] EXCEPT !.status = s])
      PROVE  NamedInv'
  <2> DEFINE r == [row[x] EXCEPT !.status = s]
  <2>1. row[x] \in Row /\ s \in Status
    BY DEF TypeOK
  <2>2. r \in Row /\ r.status = s /\ r.pred = row[x].pred
    BY <2>1, WithStatus
  <2>3. SetRow(x, r)
    BY <1>2
  <2> HIDE DEF r
  <2>4. r.pred \in Born \union {NoId}
    BY <2>2 DEF RowsNamed
  <2> QED BY <1>1, <1>2, <2>2, <2>3, <2>4
<1>3. CASE Forget(x)
  BY <1>2, <1>3 DEF Forget, Status
<1>4. CASE Restore(x)
  BY <1>2, <1>4 DEF Restore, Status, Present
<1>5. CASE HardDelete(x)
  <2>1. Blank \in Row /\ Blank.pred = NoId
    BY DEF Blank, Row, Status
  <2>2. CASE Present(x)
    BY <1>1, <1>5, <2>1, <2>2 DEF HardDelete
  <2>3. CASE ~Present(x)
    BY <1>5, <2>3 DEF HardDelete, vars, planVars, runVars, TypeOK, PlansNamed, RunsNamed,
                      RowsNamed, Born
  <2> QED BY <2>2, <2>3
<1> QED BY <1>3, <1>4, <1>5

LEMMA NamedStep == NamedInv /\ [Next]_vars => NamedInv'
<1>1. NamedInv /\ UNCHANGED vars => NamedInv'
  BY DEF vars, planVars, runVars, NamedInv, TypeOK, PlansNamed, RunsNamed, RowsNamed, Born
<1> QED BY <1>1, NamedCapture, NamedSupersede, NamedRun, NamedUser DEF Next

LEMMA Named == Spec => []NamedInv
BY NamedInit, NamedStep, PTL DEF Spec

(* Every variable of the supersession store keeps its type: a pointer, a   *)
(* plan, a snapshot and a candidate list name memories of the table.       *)
THEOREM TypeCorrect == Spec => []TypeOK
<1>1. NamedInv => TypeOK
  BY DEF NamedInv
<1> QED BY <1>1, Named, PTL

-----------------------------------------------------------------------------
(***************************************************************************)
(* The dag guard.  While it walks, the visited rows refer only to visited  *)
(* rows, to the row it is at, or to none; once it has passed, they are     *)
(* closed under supersedes, hold the row to be superseded and not its      *)
(* replacement.  Other actors store only fresh rows or cut pointers, so    *)
(* this survives until the commit.                                         *)
(***************************************************************************)
Guard(m) ==
  /\ pc[m] = "walk" =>
       /\ visited[m] \subseteq Born /\ repl[m] \notin visited[m]
       /\ prev[m] \in visited[m] \union {cursor[m]}
       /\ \A v \in visited[m] : row[v].pred \in visited[m] \union {cursor[m], NoId}
  /\ pc[m] = "commit" =>
       /\ visited[m] \subseteq Born /\ repl[m] \notin visited[m]
       /\ prev[m] \in visited[m]
       /\ \A v \in visited[m] : row[v].pred \in visited[m] \union {NoId}

GuardInv == \A m \in Maintainers : Guard(m)

AcyclicInv == NamedInv /\ GuardInv /\ SupersedesAcyclic

(* Pointers of existing rows are kept or cut                               *)
PointersKept == \A x \in Born : row'[x].pred \in {row[x].pred, NoId}
SamePlan(m)  == /\ pc'[m] = pc[m] /\ prev'[m] = prev[m] /\ repl'[m] = repl[m]
                /\ cursor'[m] = cursor[m] /\ visited'[m] = visited[m]

LEMMA GuardKept ==
  ASSUME NamedInv, NamedInv', PointersKept, born' >= born,
         NEW m \in Maintainers, Guard(m), SamePlan(m)
  PROVE  Guard(m)'
<1> DEFINE V == visited[m]
<1>1. Born \subseteq Born' /\ born \in Nat /\ born' \in Nat
  BY DEF NamedInv, TypeOK, Born
<1>2. ASSUME pc[m] \in {"walk", "commit"}, NEW W, NoId \in W,
             V \subseteq Born, \A v \in V : row[v].pred \in W
      PROVE  V \subseteq Born' /\ \A v \in V : row'[v].pred \in W
  BY <1>1, <1>2 DEF PointersKept
<1>3. visited'[m] = V
  BY DEF SamePlan
<1> HIDE DEF V
<1>4. CASE pc[m] = "walk"
  <2>1. /\ V \subseteq Born /\ repl[m] \notin V /\ prev[m] \in V \union {cursor[m]}
        /\ \A v \in V : row[v].pred \in V \union {cursor[m], NoId}
    BY <1>4 DEF Guard, V
  <2>2. V \subseteq Born' /\ \A v \in V : row'[v].pred \in V \union {cursor[m], NoId}
    BY <1>2, <1>4, <2>1
  <2> QED BY <1>3, <1>4, <2>1, <2>2 DEF Guard, SamePlan
<1>5. CASE pc[m] = "commit"
  <2>1. /\ V \subseteq Born /\ repl[m] \notin V /\ prev[m] \in V
        /\ \A v \in V : row[v].pred \in V \union {NoId}
    BY <1>5 DEF Guard, V
  <2>2. V \subseteq Born' /\ \A v \in V : row'[v].pred \in V \union {NoId}
    BY <1>2, <1>5, <2>1
  <2> QED BY <1>3, <1>5, <2>1, <2>2 DEF Guard, SamePlan
<1>6. CASE pc[m] \notin {"walk", "commit"}
  BY <1>6 DEF Guard, SamePlan
<1> QED BY <1>4, <1>5, <1>6

LEMMA CutKeepsAcyclic ==
  ASSUME NamedInv, SupersedesAcyclic, PointersKept,
         \A x \in Ids \ Born : row'[x].pred = NoId
  PROVE  SupersedesAcyclic'
<1> SUFFICES ASSUME NEW S \in SUBSET Ids, S # {}
             PROVE  \E x \in S : row'[x].pred \notin S
  BY DEF SupersedesAcyclic
<1>1. PICK x \in S : row[x].pred \notin S
  BY DEF SupersedesAcyclic
<1> QED BY <1>1 DEF PointersKept

(* A capture stores a row no pointer names yet                             *)
LEMMA FreshKeepsAcyclic ==
  ASSUME NamedInv, SupersedesAcyclic, PointersKept, born + 1 \in Ids,
         row'[born + 1].pred \in Born,
         \A x \in Ids \ Born : x # born + 1 => row'[x].pred = NoId
  PROVE  SupersedesAcyclic'
<1> SUFFICES ASSUME NEW S \in SUBSET Ids, S # {}
             PROVE  \E x \in S : row'[x].pred \notin S
  BY DEF SupersedesAcyclic
<1>0. born \in Nat
  BY DEF NamedInv, TypeOK
<1>1. CASE \E x \in S : x \notin Born /\ x # born + 1
  BY <1>1
<1>2. CASE S = {born + 1}
  BY <1>0, <1>2 DEF Born
<1>3. CASE S # {born + 1} /\ \A x \in S : x \in Born \/ x = born + 1
  <2> DEFINE T == S \ {born + 1}
  <2>1. T \in SUBSET Ids /\ T # {} /\ T \subseteq Born
    BY <1>3
  <2>2. PICK x \in T : row[x].pred \notin T
    BY <2>1 DEF SupersedesAcyclic
  <2>3. row[x].pred \in Born \union {NoId} /\ x \in Born /\ x \in S
    BY <2>1, <2>2 DEF NamedInv, RowsNamed
  <2>4. row[x].pred # born + 1 /\ NoId \notin S
    BY <1>0, <2>3 DEF Born
  <2>5. row[x].pred \notin S
    BY <2>2, <2>4
  <2>6. row'[x].pred = row[x].pred \/ row'[x].pred = NoId
    <3> HIDE DEF T
    <3> QED BY <2>3 DEF PointersKept
  <2>7. row'[x].pred \notin S
    <3> HIDE DEF T
    <3> QED BY <2>4, <2>5, <2>6
  <2> HIDE DEF T
  <2> QED BY <2>3, <2>7
<1> QED BY <1>1, <1>2, <1>3

(* The guard's visited set separates the superseded row from its           *)
(* replacement: a cycle through the new pointer would have to lie in it    *)
LEMMA GuardedKeepsAcyclic ==
  ASSUME SupersedesAcyclic, NEW V \in SUBSET Ids, NEW p \in V, NEW r \in Ids \ V,
         \A v \in V : row[v].pred \in V \union {NoId},
         row'[r].pred = p, \A x \in Ids \ {r} : row'[x].pred = row[x].pred
  PROVE  SupersedesAcyclic'
<1> SUFFICES ASSUME NEW S \in SUBSET Ids, S # {}, \A x \in S : row'[x].pred \in S
             PROVE  FALSE
  BY DEF SupersedesAcyclic
<1>1. CASE r \notin S
  BY <1>1 DEF SupersedesAcyclic
<1>2. CASE r \in S
  <2> DEFINE T == S \intersect V
  <2>1. T \in SUBSET Ids /\ p \in T
    BY <1>2
  <2>2. PICK x \in T : row[x].pred \notin T
    BY <2>1 DEF SupersedesAcyclic
  <2>3. row'[x].pred = row[x].pred /\ row[x].pred \in S
    BY <2>2
  <2>4. x \in V /\ 0 \notin S
    BY <2>2
  <2>5. row[x].pred \in V
    BY <2>3, <2>4
  <2> QED BY <2>2, <2>3, <2>5
<1> QED BY <1>1, <1>2

-----------------------------------------------------------------------------
LEMMA AcyclicInit == Init => AcyclicInv
<1> SUFFICES ASSUME Init PROVE AcyclicInv
  OBVIOUS
<1>1. GuardInv
  BY DEF Init, GuardInv, Guard, Actors
<1>2. SupersedesAcyclic
  <2> USE DEF SupersedesAcyclic
  <2> TAKE S \in SUBSET Ids
  <2> HAVE S # {}
  <2>1. PICK x \in S : TRUE
    OBVIOUS
  <2>2. row[x].pred = NoId
    BY <2>1 DEF Init, Blank
  <2> QED BY <2>1, <2>2
<1> QED BY <1>1, <1>2, NamedInit DEF AcyclicInv

(* A step that commits nothing and moves no maintainer's plan              *)
LEMMA QuietStep ==
  ASSUME AcyclicInv, NamedInv', PointersKept, born' >= born,
         \A x \in Ids \ Born : row'[x].pred = NoId,
         \A m \in Maintainers : SamePlan(m)
  PROVE  AcyclicInv'
<1>1. GuardInv'
  BY GuardKept DEF AcyclicInv, GuardInv
<1>2. SupersedesAcyclic'
  BY CutKeepsAcyclic DEF AcyclicInv
<1> QED BY <1>1, <1>2 DEF AcyclicInv

(* A step that leaves the rows alone and guards the plans it moves         *)
LEMMA PlanStep ==
  ASSUME AcyclicInv, NamedInv', UNCHANGED <<row, born>>,
         \A m \in Maintainers : SamePlan(m) \/ Guard(m)'
  PROVE  AcyclicInv'
<1>1. PointersKept /\ born' >= born
  BY DEF PointersKept, AcyclicInv, NamedInv, TypeOK
<1>2. GuardInv'
  BY <1>1, GuardKept DEF AcyclicInv, GuardInv
<1>3. SupersedesAcyclic'
  BY DEF AcyclicInv, SupersedesAcyclic
<1> QED BY <1>2, <1>3 DEF AcyclicInv

LEMMA AcyclicCapture == AcyclicInv /\ NamedInv' /\ CaptureStep => AcyclicInv'
<1> SUFFICES ASSUME AcyclicInv, NamedInv', CaptureStep PROVE AcyclicInv'
  OBVIOUS
<1> USE DEF planVars, runVars
<1>0. NamedInv /\ \A x \in Ids \ Born : row[x].pred = NoId
  BY DEF AcyclicInv, NamedInv, RowsNamed, Blank
<1>1. CASE Create
  <2>1. PointersKept /\ \A x \in Ids \ Born : row'[x].pred = NoId
    BY <1>0, <1>1 DEF Create, PointersKept, NamedInv, TypeOK, Blank, Born
  <2>2. born' >= born /\ \A m \in Maintainers : SamePlan(m)
    BY <1>0, <1>1 DEF Create, SamePlan, NamedInv, TypeOK
  <2> QED BY <2>1, <2>2, QuietStep
<1>2. ASSUME NEW w \in Writers, UNCHANGED <<row, born>>,
             \A m \in Maintainers : SamePlan(m)
      PROVE  AcyclicInv'
  BY <1>2, PlanStep
<1>3. ASSUME NEW w \in Writers, NEW x \in Ids, FindCandidate(w, x) PROVE AcyclicInv'
  <2>1. \A m \in Maintainers : SamePlan(m)
    BY <1>0, <1>3 DEF FindCandidate, Plan, SamePlan, NamedInv, TypeOK, Actors
  <2> QED BY <1>2, <1>3, <2>1 DEF FindCandidate
<1>4. ASSUME NEW w \in Writers, Skip(w) PROVE AcyclicInv'
  <2>1. \A m \in Maintainers : SamePlan(m)
    BY <1>0, <1>4 DEF Skip, Drop, Plan, SamePlan, NamedInv, TypeOK, Actors
  <2> QED BY <1>2, <1>4, <2>1 DEF Skip
<1>5. ASSUME NEW w \in Writers, MergeUpdate(w) PROVE AcyclicInv'
  <2>1. prev[w] \in Ids
    BY <1>0, <1>5 DEF MergeUpdate, NamedInv, PlansNamed, TypeOK, Actors, Born
  <2>2. \A x \in Ids : row'[x].pred = row[x].pred
    <3>1. row[prev[w]] \in Row /\ "active" \in Status
      BY <1>0, <2>1 DEF NamedInv, TypeOK, Status
    <3>2. [row[prev[w]] EXCEPT !.status = "active"].pred = row[prev[w]].pred
      BY <3>1, WithStatus
    <3> QED BY <1>0, <1>5, <3>2 DEF MergeUpdate, NamedInv, TypeOK
  <2>3. PointersKept /\ born' >= born
    BY <1>0, <1>5, <2>2 DEF MergeUpdate, PointersKept, NamedInv, TypeOK, Born
  <2>4. \A m \in Maintainers : SamePlan(m)
    BY <1>0, <1>5 DEF MergeUpdate, Drop, Plan, SamePlan, NamedInv, TypeOK, Actors
  <2> QED BY <1>0, <2>2, <2>3, <2>4, QuietStep
<1>6. ASSUME NEW w \in Writers, DecideSupersede(w) PROVE AcyclicInv'
  <2>1. \A m \in Maintainers : SamePlan(m)
    BY <1>0, <1>6 DEF DecideSupersede, SamePlan, NamedInv, TypeOK, Actors
  <2> QED BY <1>2, <1>6, <2>1 DEF DecideSupersede
<1> QED BY <1>1, <1>3, <1>4, <1>5, <1>6 DEF CaptureStep

LEMMA AcyclicSupersede ==
  ~ReadsFail /\ AcyclicInv /\ NamedInv' /\ SupersedeStep => AcyclicInv'
<1> SUFFICES ASSUME ~ReadsFail, AcyclicInv, NamedInv', NEW a \in Actors,
                    \/ Witness(a) \/ Hop(a) \/ PassGuard(a)
                    \/ CommitCapture(a) \/ CommitMaintenance(a) \/ GiveUp(a)
             PROVE  AcyclicInv'
  BY DEF SupersedeStep
<1>0. NamedInv /\ GuardInv /\ SupersedesAcyclic
      /\ \A x \in Ids \ Born : row[x].pred = NoId
  BY DEF AcyclicInv, NamedInv, RowsNamed, Blank
<1>1. CASE Witness(a)
  <2>1. \A m \in Maintainers : m # a => SamePlan(m)
    BY <1>0, <1>1 DEF Witness, SamePlan, NamedInv, TypeOK, Actors
  <2>2. \A m \in Maintainers : m = a => Guard(m)'
    BY <1>0, <1>1 DEF Witness, Guard, NamedInv, TypeOK, Actors
  <2> QED BY <1>1, <2>1, <2>2, PlanStep DEF Witness
<1>2. CASE Hop(a)
  <2>1. \A m \in Maintainers : m # a => SamePlan(m)
    BY <1>0, <1>2 DEF Hop, SamePlan, NamedInv, TypeOK, Actors
  <2>2. ASSUME a \in Maintainers PROVE Guard(a)'
    <3>1. CASE pc[a] = "screen"
      BY <1>2, <3>1 DEF Hop, Guard
    <3>2. CASE pc[a] = "walk"
      <4>1. cursor[a] \in Born /\ cursor[a] # repl[a]
        BY <1>0, <1>2, <3>2 DEF Hop, LoopFound, NamedInv, PlansNamed
      <4>2. /\ visited'[a] = visited[a] \union {cursor[a]}
            /\ cursor'[a] = row[cursor[a]].pred /\ pc'[a] = "walk"
            /\ UNCHANGED <<row, born, prev, repl>>
        BY <1>0, <1>2, <3>2 DEF Hop, NamedInv, TypeOK
      <4>3. /\ visited[a] \subseteq Born /\ repl[a] \notin visited[a]
            /\ prev[a] \in visited[a] \union {cursor[a]}
            /\ \A v \in visited[a] : row[v].pred \in visited[a] \union {cursor[a], NoId}
        BY <1>0, <2>2, <3>2 DEF GuardInv, Guard
      <4> QED BY <4>1, <4>2, <4>3 DEF Guard, Born
    <3> QED BY <1>2, <3>1, <3>2 DEF Hop, Walking
  <2> QED BY <1>2, <2>1, <2>2, PlanStep DEF Hop
<1>3. CASE PassGuard(a)
  <2>1. \A m \in Maintainers : m # a => SamePlan(m)
    BY <1>0, <1>3 DEF PassGuard, SamePlan, NamedInv, TypeOK, Actors
  <2>2. ASSUME a \in Maintainers PROVE Guard(a)'
    <3>1. CASE pc[a] = "screen"
      BY <1>0, <1>3, <3>1 DEF PassGuard, Guard, NamedInv, TypeOK
    <3>2. CASE pc[a] = "walk"
      <4>1. cursor[a] \in Born /\ cursor[a] # repl[a] /\ row[cursor[a]].pred = NoId
        BY <1>0, <1>3, <3>2
        DEF PassGuard, LoopFound, ChainEnds, Present, NamedInv, PlansNamed, RowsNamed,
            Blank, TypeOK, Born
      <4>2. /\ visited'[a] = visited[a] \union {cursor[a]}
            /\ pc'[a] = "commit" /\ UNCHANGED <<row, born, prev, repl>>
        BY <1>0, <1>3, <3>2 DEF PassGuard, NamedInv, TypeOK
      <4>3. /\ visited[a] \subseteq Born /\ repl[a] \notin visited[a]
            /\ prev[a] \in visited[a] \union {cursor[a]}
            /\ \A v \in visited[a] : row[v].pred \in visited[a] \union {cursor[a], NoId}
        BY <1>0, <2>2, <3>2 DEF GuardInv, Guard
      <4> QED BY <4>1, <4>2, <4>3 DEF Guard, Born
    <3> QED BY <1>3, <3>1, <3>2 DEF PassGuard, Walking
  <2> QED BY <1>3, <2>1, <2>2, PlanStep DEF PassGuard
<1>4. CASE CommitCapture(a)
  <2>1. prev[a] \in Born /\ prev[a] \in Ids /\ born + 1 \in Ids /\ plan[a] \in IdOrNone
        /\ born \in Nat /\ born + 1 \in IdOrNone /\ born + 1 \notin Born
    BY <1>0, <1>4 DEF CommitCapture, NamedInv, PlansNamed, TypeOK, Actors, Born, IdOrNone
  <2>2. Retired(prev[a], born + 1, plan[a]).pred = row[prev[a]].pred
    BY <1>0, <2>1, RetiredFields DEF NamedInv
  <2>3. Replacement(prev[a], born + 1, plan[a]).pred = prev[a]
    BY <1>0, <2>1, ReplacementFields DEF NamedInv
  <2>4. row' = [row EXCEPT ![prev[a]] = Retired(prev[a], born + 1, plan[a]),
                           ![born + 1] = Replacement(prev[a], born + 1, plan[a])]
        /\ born' = born + 1
    BY <1>4 DEF CommitCapture, Supersede
  <2>5. /\ row'[born + 1].pred = prev[a]
        /\ \A x \in Ids \ {born + 1} : row'[x].pred = row[x].pred
    BY <1>0, <2>1, <2>2, <2>3, <2>4 DEF NamedInv, TypeOK
  <2>5b. \A x \in Ids \ Born : row[x].pred = NoId
    BY <1>0 DEF NamedInv, RowsNamed, Blank
  <2>5c. Born \subseteq Ids
    BY <1>0 DEF NamedInv, TypeOK, Born, Ids
  <2>5d. /\ PointersKept /\ row'[born + 1].pred \in Born
        /\ \A x \in Ids \ Born : x # born + 1 => row'[x].pred = NoId
    BY <2>1, <2>5, <2>5b, <2>5c DEF PointersKept
  <2>6. SupersedesAcyclic'
    BY <1>0, <2>1, <2>5d, FreshKeepsAcyclic
  <2>7. ASSUME NEW m \in Maintainers PROVE Guard(m)'
    <3>1. a # m
      BY <1>4 DEF CommitCapture
    <3>2. SamePlan(m)
      BY <1>0, <1>4, <3>1 DEF CommitCapture, Drop, Plan, SamePlan, NamedInv, TypeOK, Actors
    <3> QED BY <1>0, <2>1, <2>4, <2>5d, <3>2, GuardKept DEF GuardInv
  <2> QED BY <2>6, <2>7 DEF AcyclicInv, GuardInv
<1>5. CASE CommitMaintenance(a)
  <2>1. prev[a] \in Ids /\ repl[a] \in Ids /\ plan[a] \in IdOrNone /\ repl[a] \in IdOrNone
    BY <1>0, <1>5 DEF CommitMaintenance, NamedInv, PlansNamed, TypeOK, Actors, Born, IdOrNone
  <2>2. Retired(prev[a], repl[a], plan[a]).pred = row[prev[a]].pred
    BY <1>0, <2>1, RetiredFields DEF NamedInv
  <2>3. Replacement(prev[a], repl[a], plan[a]).pred = prev[a]
    BY <1>0, <2>1, ReplacementFields DEF NamedInv
  <2>4. row' = [row EXCEPT ![prev[a]] = Retired(prev[a], repl[a], plan[a]),
                           ![repl[a]] = Replacement(prev[a], repl[a], plan[a])]
    BY <1>5 DEF CommitMaintenance, Supersede
  <2>5. row'[repl[a]].pred = prev[a] /\ \A x \in Ids \ {repl[a]} : row'[x].pred = row[x].pred
    BY <1>0, <2>1, <2>2, <2>3, <2>4 DEF NamedInv, TypeOK
  <2>6. /\ visited[a] \in SUBSET Ids /\ repl[a] \notin visited[a] /\ prev[a] \in visited[a]
        /\ \A v \in visited[a] : row[v].pred \in visited[a] \union {NoId}
    BY <1>0, <1>5 DEF CommitMaintenance, GuardInv, Guard, NamedInv, TypeOK, Born
  <2>7. SupersedesAcyclic'
    BY <1>0, <2>1, <2>5, <2>6, GuardedKeepsAcyclic
  <2>8. ASSUME NEW m \in Maintainers PROVE Guard(m)'
    <3>1. m = a
      BY <1>5 DEF CommitMaintenance
    <3>2. pc'[m] = "idle"
      BY <1>0, <1>5, <3>1 DEF CommitMaintenance, Drop, Plan, NamedInv, TypeOK
    <3> QED BY <3>2 DEF Guard
  <2> QED BY <2>7, <2>8 DEF AcyclicInv, GuardInv
<1>6. CASE GiveUp(a)
  <2>1. \A m \in Maintainers : m # a => SamePlan(m)
    BY <1>0, <1>6 DEF GiveUp, Drop, Plan, SamePlan, NamedInv, TypeOK, Actors
  <2>2. \A m \in Maintainers : m = a => Guard(m)'
    BY <1>0, <1>6 DEF GiveUp, Drop, Plan, Guard, NamedInv, TypeOK, Actors
  <2> QED BY <1>6, <2>1, <2>2, PlanStep DEF GiveUp
<1> QED BY <1>1, <1>2, <1>3, <1>4, <1>5, <1>6

LEMMA AcyclicRun == AcyclicInv /\ NamedInv' /\ RunStep => AcyclicInv'
<1> SUFFICES ASSUME AcyclicInv, NamedInv', NEW m \in Maintainers,
                    \/ StartSweep(m)
                    \/ \E older, newer \in snap[m] : DedupPair(m, older, newer)
                    \/ \E F \in Backlog : ReplayEntry(m, F)
                    \/ \E F \in SUBSET snap[m] : StoredStaleness(m, F)
                    \/ \E c \in cands[m], f \in facts[m] : Verdict(m, c, f)
                    \/ EndRun(m)
             PROVE  AcyclicInv'
  BY DEF RunStep
<1>0. UNCHANGED <<row, born>> /\ TypeOK
  BY DEF StartSweep, DedupPair, ReplayEntry, StoredStaleness, ReadCandidates, Verdict, EndRun,
         AcyclicInv, NamedInv
<1>1. \A n \in Maintainers : n = m
  OBVIOUS
<1>2. SamePlan(m) \/ pc'[m] \in {"prepare", "screen"}
  BY <1>0 DEF StartSweep, DedupPair, ReplayEntry, StoredStaleness, ReadCandidates, Verdict,
              EndRun, Plan, SamePlan, planVars, TypeOK, Actors
<1>3. pc'[m] \in {"prepare", "screen"} => Guard(m)'
  BY DEF Guard
<1> QED BY <1>0, <1>1, <1>2, <1>3, PlanStep

LEMMA AcyclicUser == AcyclicInv /\ NamedInv' /\ UserStep => AcyclicInv'
<1> SUFFICES ASSUME AcyclicInv, NamedInv', NEW x \in Ids,
                    Forget(x) \/ Restore(x) \/ HardDelete(x)
             PROVE  AcyclicInv'
  BY DEF UserStep
<1>0. TypeOK /\ \A y \in Ids \ Born : row[y].pred = NoId
  BY DEF AcyclicInv, NamedInv, RowsNamed, Blank
<1>1. ASSUME NEW r, SetRow(x, r), r.pred \in {row[x].pred, NoId} PROVE AcyclicInv'
  <2>1. row' = [row EXCEPT ![x] = r] /\ born' = born /\ \A m \in Maintainers : SamePlan(m)
    BY <1>1 DEF SetRow, SamePlan, planVars
  <2>2. PointersKept /\ \A y \in Ids \ Born : row'[y].pred = NoId
    BY <1>0, <1>1, <2>1 DEF PointersKept, TypeOK, Born
  <2>3. born' >= born
    BY <1>0, <2>1 DEF TypeOK
  <2> QED BY <2>1, <2>2, <2>3, QuietStep
<1>2. ASSUME NEW s \in Status, SetRow(x, [row[x] EXCEPT !.status = s]) PROVE AcyclicInv'
  <2>1. row[x] \in Row
    BY <1>0 DEF TypeOK
  <2>2. [row[x] EXCEPT !.status = s].pred = row[x].pred
    BY <2>1, WithStatus
  <2> QED BY <1>1, <1>2, <2>2
<1>3. CASE Forget(x)
  BY <1>2, <1>3 DEF Forget, Status
<1>4. CASE Restore(x)
  BY <1>2, <1>4 DEF Restore, Status
<1>5. CASE HardDelete(x)
  <2>1. CASE Present(x)
    BY <1>1, <1>5, <2>1 DEF HardDelete, Blank
  <2>2. CASE ~Present(x)
    <3>1. UNCHANGED <<row, born>> /\ \A m \in Maintainers : SamePlan(m)
      BY <1>5, <2>2 DEF HardDelete, vars, planVars, SamePlan
    <3> QED BY <3>1, PlanStep
  <2> QED BY <2>1, <2>2
<1> QED BY <1>3, <1>4, <1>5

(* With one consolidation run at a time and no failing guard reads, the    *)
(* supersedes pointers never form a cycle: the walk of the dag guard,      *)
(* one query per hop, is enough although captures, merges, restores and    *)
(* erasures interleave with it and run before the commit.                  *)
THEOREM NoSupersedesCycle == ~ReadsFail /\ Spec => []SupersedesAcyclic
<1> SUFFICES ASSUME ~ReadsFail PROVE Spec => []SupersedesAcyclic
  OBVIOUS
<1>1. AcyclicInv /\ NamedInv' /\ [Next]_vars => AcyclicInv'
  <2>1. AcyclicInv /\ NamedInv' /\ UNCHANGED vars => AcyclicInv'
    <3> SUFFICES ASSUME AcyclicInv, NamedInv', UNCHANGED vars PROVE AcyclicInv'
      OBVIOUS
    <3>1. UNCHANGED <<row, born>> /\ \A m \in Maintainers : SamePlan(m)
      BY DEF vars, planVars, SamePlan
    <3> QED BY <3>1, PlanStep
  <2> QED BY <2>1, AcyclicCapture, AcyclicSupersede, AcyclicRun, AcyclicUser DEF Next
<1>2. AcyclicInv /\ [Next]_vars => AcyclicInv'
  BY <1>1, NamedStep DEF AcyclicInv
<1>3. AcyclicInv => SupersedesAcyclic
  BY DEF AcyclicInv
<1> QED BY <1>2, <1>3, AcyclicInit, PTL DEF Spec
-----------------------------------------------------------------------------
(***************************************************************************)
(* Survival.  The dedup sweep and the captures only supersede a memory by  *)
(* a newer one, so superseded_by leads upwards in creation order.  The     *)
(* staleness core does not keep this: its facts may be older.              *)
(***************************************************************************)
Upward(x, r) == /\ r.succ # NoId => x < r.succ
                /\ r.status = "superseded" => r.succ # NoId
RowsUpward  == \A x \in Ids : Upward(x, row[x])
PlansUpward == \A m \in Maintainers :
  /\ pc[m] # "idle" => prev[m] < repl[m]
  /\ phase[m] \in {"idle", "dedup"}

UpwardInv == NamedInv /\ RowsUpward /\ PlansUpward

LEMMA UpwardInit == Init => UpwardInv
<1>1. Init => RowsUpward /\ PlansUpward
  BY DEF Init, RowsUpward, Upward, PlansUpward, Blank, Actors
<1> QED BY <1>1, NamedInit DEF UpwardInv

LEMMA UpwardCapture == UpwardInv /\ CaptureStep => RowsUpward' /\ PlansUpward'
<1> SUFFICES ASSUME UpwardInv, CaptureStep PROVE RowsUpward' /\ PlansUpward'
  OBVIOUS
<1>0. TypeOK /\ NamedInv /\ RowsUpward /\ PlansUpward
  BY DEF UpwardInv, NamedInv
<1>1. CASE Create
  <2>1. \A x \in Ids : row'[x] = row[x] \/ row'[x] = [Blank EXCEPT !.status = "active"]
    BY <1>0, <1>1 DEF Create, TypeOK
  <2>2. RowsUpward'
    BY <1>0, <2>1 DEF RowsUpward, Upward, Blank
  <2> QED BY <1>0, <1>1, <2>2 DEF Create, PlansUpward, planVars, runVars
<1>2. ASSUME NEW w \in Writers, \/ \E x \in Ids : FindCandidate(w, x)
                                \/ Skip(w) \/ DecideSupersede(w)
      PROVE  RowsUpward' /\ PlansUpward'
  <2>1. row' = row /\ phase' = phase
        /\ \A m \in Maintainers : pc'[m] = pc[m] /\ prev'[m] = prev[m] /\ repl'[m] = repl[m]
    BY <1>0, <1>2 DEF FindCandidate, Skip, DecideSupersede, Drop, Plan, TypeOK, Actors,
                      planVars, runVars
  <2> QED BY <1>0, <2>1 DEF RowsUpward, PlansUpward
<1>3. ASSUME NEW w \in Writers, MergeUpdate(w) PROVE RowsUpward' /\ PlansUpward'
  <2>1. phase' = phase
        /\ \A m \in Maintainers : pc'[m] = pc[m] /\ prev'[m] = prev[m] /\ repl'[m] = repl[m]
    BY <1>0, <1>3 DEF MergeUpdate, Drop, Plan, TypeOK, Actors, planVars, runVars
  <2>2. CASE Present(prev[w])
    <3>1. prev[w] \in Ids /\ row[prev[w]] \in Row
      BY <1>0, <1>3 DEF MergeUpdate, NamedInv, PlansNamed, TypeOK, Actors, Born
    <3>2. PICK r : r = [row[prev[w]] EXCEPT !.status = "active"]
      OBVIOUS
    <3>3. r.status = "active" /\ r.succ = row[prev[w]].succ
      BY <3>1, <3>2, WithStatus DEF Status
    <3>4. row' = [row EXCEPT ![prev[w]] = r]
      BY <1>3, <2>2, <3>2 DEF MergeUpdate
    <3>5. \A x \in Ids : row'[x] = row[x] \/ (x = prev[w] /\ row'[x] = r)
      BY <1>0, <3>1, <3>4 DEF TypeOK
    <3> QED BY <1>0, <2>1, <3>1, <3>3, <3>5 DEF RowsUpward, Upward, PlansUpward
  <2>3. CASE ~Present(prev[w])
    <3>1. row' = row
      BY <1>3, <2>3 DEF MergeUpdate
    <3> QED BY <1>0, <2>1, <3>1 DEF RowsUpward, PlansUpward
  <2> QED BY <2>2, <2>3
<1> QED BY <1>1, <1>2, <1>3 DEF CaptureStep

(* A supersede of an older memory by a newer one                           *)
LEMMA UpwardRows ==
  ASSUME TypeOK, RowsUpward, NEW a, NEW p \in Ids, NEW r \in Ids, NEW root \in IdOrNone,
         p < r, Supersede(a, p, r, root)
  PROVE  RowsUpward'
<1>1. r \in IdOrNone
  BY DEF IdOrNone
<1>2. PICK u : u = Retired(p, r, root)
  OBVIOUS
<1>3. PICK v : v = Replacement(p, r, root)
  OBVIOUS
<1>4. u.succ = r /\ u.status = "superseded"
  BY <1>1, <1>2, RetiredFields
<1>5. \/ v.status = row[r].status /\ v.succ = row[r].succ
      \/ v.status = "active" /\ v.succ = NoId
  BY <1>3, ReplacementFields
<1>6. row' = [row EXCEPT ![p] = u, ![r] = v]
  BY <1>2, <1>3 DEF Supersede
<1>7. \A x \in Ids : row'[x] = row[x] \/ (x = p /\ row'[x] = u) \/ (x = r /\ row'[x] = v)
  BY <1>6 DEF TypeOK
<1> QED BY <1>4, <1>5, <1>7 DEF RowsUpward, Upward

LEMMA UpwardSupersede == UpwardInv /\ SupersedeStep => RowsUpward' /\ PlansUpward'
<1> SUFFICES ASSUME UpwardInv, NEW a \in Actors,
                    \/ Witness(a) \/ Hop(a) \/ PassGuard(a) \/ CommitCapture(a)
                    \/ CommitMaintenance(a) \/ GiveUp(a)
             PROVE  RowsUpward' /\ PlansUpward'
  BY DEF SupersedeStep
<1>0. TypeOK /\ NamedInv /\ RowsUpward /\ PlansUpward
  BY DEF UpwardInv, NamedInv
<1>1. CASE Witness(a) \/ Hop(a) \/ PassGuard(a) \/ GiveUp(a)
  <2>1. row' = row /\ phase' = phase
    BY <1>1 DEF Witness, Hop, PassGuard, GiveUp, runVars
  <2>2. \A m \in Maintainers : pc'[m] # "idle" =>
          pc[m] # "idle" /\ prev'[m] = prev[m] /\ repl'[m] = repl[m]
    BY <1>0, <1>1 DEF Witness, Hop, PassGuard, GiveUp, Walking, Drop, Plan, TypeOK, Actors
  <2> QED BY <1>0, <2>1, <2>2 DEF RowsUpward, PlansUpward
<1>2. ASSUME CommitCapture(a) \/ CommitMaintenance(a) PROVE PlansUpward'
  <2>1. phase' = phase /\ Drop(a)
    BY <1>2 DEF CommitCapture, CommitMaintenance, runVars
  <2>2. \A m \in Maintainers : pc'[m] # "idle" =>
          pc[m] # "idle" /\ prev'[m] = prev[m] /\ repl'[m] = repl[m]
    BY <1>0, <2>1 DEF Drop, Plan, TypeOK, Actors
  <2> QED BY <1>0, <2>1, <2>2 DEF PlansUpward
<1>3. CASE CommitCapture(a)
  <2>1. prev[a] \in Ids /\ born + 1 \in Ids /\ prev[a] < born + 1 /\ plan[a] \in IdOrNone
    BY <1>0, <1>3 DEF CommitCapture, NamedInv, PlansNamed, TypeOK, Actors, Born, IdOrNone
  <2> QED BY <1>0, <1>2, <1>3, <2>1, UpwardRows DEF CommitCapture
<1>4. CASE CommitMaintenance(a)
  <2>1. prev[a] \in Ids /\ repl[a] \in Ids /\ prev[a] < repl[a] /\ plan[a] \in IdOrNone
    BY <1>0, <1>4 DEF CommitMaintenance, NamedInv, PlansNamed, PlansUpward, TypeOK, Actors,
                      Born, IdOrNone
  <2> QED BY <1>0, <1>2, <1>4, <2>1, UpwardRows DEF CommitMaintenance
<1> QED BY <1>1, <1>3, <1>4

LEMMA UpwardRun ==
  ~Staleness /\ Backlog = {} /\ UpwardInv /\ RunStep => RowsUpward' /\ PlansUpward'
<1> SUFFICES ASSUME ~Staleness, Backlog = {}, UpwardInv, NEW m \in Maintainers,
                    \/ StartSweep(m)
                    \/ \E older, newer \in snap[m] : DedupPair(m, older, newer)
                    \/ \E F \in Backlog : ReplayEntry(m, F)
                    \/ \E F \in SUBSET snap[m] : StoredStaleness(m, F)
                    \/ \E c \in cands[m], f \in facts[m] : Verdict(m, c, f)
                    \/ EndRun(m)
             PROVE  RowsUpward' /\ PlansUpward'
  BY DEF RunStep
<1>0. TypeOK /\ RowsUpward /\ PlansUpward
  BY DEF UpwardInv, NamedInv
<1>1. \A n \in Maintainers : n = m
  OBVIOUS
<1>2. CASE StartSweep(m)
  BY <1>0, <1>1, <1>2 DEF StartSweep, RowsUpward, PlansUpward, planVars, TypeOK
<1>3. CASE \E older, newer \in snap[m] : DedupPair(m, older, newer)
  <2>1. PICK older \in snap[m], newer \in snap[m] : DedupPair(m, older, newer)
    BY <1>3
  <2>2. row' = row /\ phase' = phase /\ prev'[m] = older /\ repl'[m] = newer /\ older < newer
    BY <1>0, <2>1 DEF DedupPair, Plan, TypeOK, Actors, runVars
  <2> QED BY <1>0, <1>1, <2>2 DEF RowsUpward, PlansUpward
<1>4. ~(\E F \in Backlog : ReplayEntry(m, F))
      /\ ~(\E F \in SUBSET snap[m] : StoredStaleness(m, F))
  BY DEF StoredStaleness
<1>5. ~(\E c \in cands[m], f \in facts[m] : Verdict(m, c, f))
  BY <1>0 DEF Verdict, PlansUpward
<1>6. CASE EndRun(m)
  BY <1>0, <1>1, <1>6 DEF EndRun, RowsUpward, PlansUpward, planVars, TypeOK
<1> QED BY <1>2, <1>3, <1>4, <1>5, <1>6

LEMMA UpwardUser == UpwardInv /\ UserStep => RowsUpward' /\ PlansUpward'
<1> SUFFICES ASSUME UpwardInv, NEW x \in Ids, Forget(x) \/ Restore(x) \/ HardDelete(x)
             PROVE  RowsUpward' /\ PlansUpward'
  BY DEF UserStep
<1>0. TypeOK /\ RowsUpward /\ PlansUpward
  BY DEF UpwardInv, NamedInv
<1>1. ASSUME NEW r, SetRow(x, r), Upward(x, r) PROVE RowsUpward' /\ PlansUpward'
  <2>1. \A y \in Ids : row'[y] = row[y] \/ (y = x /\ row'[y] = r)
    BY <1>0, <1>1 DEF SetRow, TypeOK
  <2> QED BY <1>0, <1>1, <2>1 DEF SetRow, RowsUpward, PlansUpward, planVars, runVars
<1>2. ASSUME NEW s \in Status \ {"superseded"}, SetRow(x, [row[x] EXCEPT !.status = s])
      PROVE  RowsUpward' /\ PlansUpward'
  <2>1. row[x] \in Row
    BY <1>0 DEF TypeOK
  <2>2. PICK r : r = [row[x] EXCEPT !.status = s]
    OBVIOUS
  <2>3. r.status = s /\ r.succ = row[x].succ
    BY <2>1, <2>2, WithStatus
  <2>4. Upward(x, r)
    BY <1>0, <2>3 DEF Upward, RowsUpward
  <2> QED BY <1>1, <1>2, <2>2, <2>4
<1>3. CASE Forget(x)
  BY <1>2, <1>3 DEF Forget, Status
<1>4. CASE Restore(x)
  BY <1>2, <1>4 DEF Restore, Status
<1>5. CASE HardDelete(x)
  <2>1. CASE Present(x)
    BY <1>1, <1>5, <2>1 DEF HardDelete, Blank, Upward
  <2>2. CASE ~Present(x)
    BY <1>0, <1>5, <2>2 DEF HardDelete, vars, planVars, runVars, RowsUpward, PlansUpward
  <2> QED BY <2>1, <2>2
<1> QED BY <1>3, <1>4, <1>5

(* A non-empty set of numbers up to n has a greatest one: of the intervals *)
(* x .. n, one is minimal by inclusion.                                    *)
LEMMA Greatest ==
  ASSUME NEW n \in Nat, NEW T \in SUBSET (1 .. n), T # {}
  PROVE  \E x \in T : \A y \in T : y <= x
<1> DEFINE Up(x) == x .. n
           U == {Up(x) : x \in T}
<1>1. \A x \in T : Up(x) \in FiniteSubsetsOf(Nat)
  <2> TAKE x \in T
  <2>1. x \in Int /\ n \in Int /\ Up(x) \subseteq Nat
    OBVIOUS
  <2>2. IsFiniteSet(x .. n)
    BY <2>1, FS_Interval
  <2> QED BY <2>1, <2>2 DEF FiniteSubsetsOf
<1>2. U \subseteq FiniteSubsetsOf(Nat) /\ U # {}
  BY <1>1
<1>3. PICK d \in U : \A e \in U : ~(<<e, d>> \in StrictSubsetOrdering(Nat))
  <2> HIDE DEF U
  <2> QED BY <1>2, WFMin, FS_StrictSubsetOrderingWellFounded, Zenon
<1>4. PICK x \in T : d = Up(x)
  BY <1>3
<1>5. ASSUME NEW y \in T, ~(y <= x) PROVE FALSE
  <2>1. Up(y) \in SUBSET Nat /\ Up(x) \in SUBSET Nat
    OBVIOUS
  <2>2. Up(y) \subseteq Up(x)
    BY <1>5
  <2>3. x \in Up(x) /\ x \notin Up(y)
    BY <1>5
  <2>4. Up(y) \in U
    OBVIOUS
  <2>5. <<Up(y), Up(x)>> \in StrictSubsetOrdering(Nat)
    <3> HIDE DEF Up
    <3> QED BY <2>1, <2>2, <2>3 DEF StrictSubsetOrdering
  <2> QED BY <2>4, <2>5, <1>3, <1>4
<1> QED BY <1>5

(* Where no staleness pass runs (scope "global" or no recent limit, and an *)
(* empty backlog), every set of superseded memories has one whose          *)
(* superseded_by leads out of it: captures and dedup sweeps together never *)
(* supersede all versions of a fact.                                       *)
THEOREM SurvivorWithoutStaleness ==
  ~Staleness /\ Backlog = {} /\ Spec => []SupersededHasSurvivor
<1> SUFFICES ASSUME ~Staleness, Backlog = {} PROVE Spec => []SupersededHasSurvivor
  OBVIOUS
<1>1. UpwardInv /\ UNCHANGED vars => RowsUpward' /\ PlansUpward'
  BY DEF vars, planVars, runVars, UpwardInv, RowsUpward, PlansUpward
<1>2. UpwardInv /\ [Next]_vars => UpwardInv'
  BY <1>1, NamedStep, UpwardCapture, UpwardSupersede, UpwardRun, UpwardUser
  DEF Next, UpwardInv
<1>3. UpwardInv => SupersededHasSurvivor
  <2> SUFFICES ASSUME UpwardInv, NEW S \in SUBSET Ids, S # {}
               PROVE  \E x \in S : row[x].status # "superseded" \/ row[x].succ \notin S
    BY DEF SupersededHasSurvivor
  <2>1. PICK x \in S : \A y \in S : y <= x
    BY Greatest
  <2>2. x \in Ids /\ Upward(x, row[x])
    BY DEF UpwardInv, RowsUpward
  <2>3. ASSUME row[x].status = "superseded", row[x].succ \in S PROVE FALSE
    <3>1. row[x].succ # NoId /\ x < row[x].succ /\ row[x].succ <= x
      BY <2>1, <2>2, <2>3 DEF Upward
    <3>2. PICK y \in S : y = row[x].succ
      BY <2>3
    <3>3. x \in Int /\ y \in Int
      BY <2>2, <3>2
    <3> QED BY <3>1, <3>2, <3>3
  <2> QED BY <2>3
<1> QED BY <1>2, <1>3, UpwardInit, PTL DEF Spec

-----------------------------------------------------------------------------
(***************************************************************************)
(* Erasure and lineage.  A plan whose witness still stands names a present *)
(* row, so a supersede never revives the row it retires; what it replaces  *)
(* it with may be gone, which only a consolidation run does not look at.   *)
(***************************************************************************)
WitnessedPresent == \A a \in witnessed : /\ pc[a] \in {"walk", "commit"}
                                         /\ Present(prev[a])

WitnessInv == NamedInv /\ WitnessedPresent

(* What a step does to one row: nothing, erases it, or keeps what it names *)
RowKept(x) == \/ row'[x] = row[x]
              \/ row'[x] = Blank
              \/ /\ Present(x) /\ Present(x)'
                 /\ row'[x].succ = row[x].succ /\ row'[x].root = row[x].root

(* The steps by their effect on the rows; `touched` are those changed      *)
Keeps(touched) ==
  /\ born' = born
  /\ \A x \in Ids : RowKept(x) /\ (x \notin touched => row'[x] = row[x])

Creates == /\ born' = born + 1 /\ born + 1 \in Ids
           /\ row' = [row EXCEPT ![born + 1] = [Blank EXCEPT !.status = "active"]]

LEMMA CreatesEffect ==
  ASSUME TypeOK, Creates
  PROVE  /\ row'[born + 1].status # "absent" /\ row'[born + 1].succ = NoId
         /\ \A x \in Ids \ {born + 1} : row'[x] = row[x]
<1>1. PICK r : r = [Blank EXCEPT !.status = "active"]
  OBVIOUS
<1>2. r.status = "active" /\ r.succ = NoId
  BY <1>1 DEF Blank
<1>3. row' = [row EXCEPT ![born + 1] = r] /\ born + 1 \in Ids
  BY <1>1 DEF Creates
<1>4. row'[born + 1] = r /\ \A x \in Ids \ {born + 1} : row'[x] = row[x]
  BY <1>3 DEF TypeOK
<1> QED BY <1>2, <1>4

LEMMA RowEffects ==
  ASSUME NamedInv, [Next]_vars
  PROVE  \/ Keeps({}) /\ witnessed' \ witnessed \subseteq
                           {a \in Actors : Witness(a)}
         \/ Creates /\ UNCHANGED <<pc, planVars, witnessed>>
         \/ \E w \in Writers : Keeps({prev[w]}) /\ MergeUpdate(w)
         \/ \E w \in Writers : CommitCapture(w)
         \/ \E m \in Maintainers : CommitMaintenance(m)
         \/ \E x \in Ids : /\ Keeps({x}) /\ UNCHANGED <<pc, planVars>>
                           /\ witnessed' = Touched({x})
<1> DEFINE Goal ==
         \/ Keeps({}) /\ witnessed' \ witnessed \subseteq {a \in Actors : Witness(a)}
         \/ Creates /\ UNCHANGED <<pc, planVars, witnessed>>
         \/ \E w \in Writers : Keeps({prev[w]}) /\ MergeUpdate(w)
         \/ \E w \in Writers : CommitCapture(w)
         \/ \E m \in Maintainers : CommitMaintenance(m)
         \/ \E x \in Ids : /\ Keeps({x}) /\ UNCHANGED <<pc, planVars>>
                           /\ witnessed' = Touched({x})
<1> SUFFICES Goal
  OBVIOUS
<1>0. TypeOK /\ born \in Nat
  BY DEF NamedInv, TypeOK
<1>1. ASSUME UNCHANGED <<row, born>>, witnessed' \subseteq witnessed PROVE Goal
  BY <1>1 DEF Keeps, RowKept
<1>2. ASSUME NEW x \in Ids, NEW s \in Status \ {"absent"}, Present(x), born' = born,
             row' = [row EXCEPT ![x] = [row[x] EXCEPT !.status = s]]
      PROVE  Keeps({x})
  <2>1. PICK r : r = [row[x] EXCEPT !.status = s]
    OBVIOUS
  <2>2. r.status = s /\ r.succ = row[x].succ /\ r.root = row[x].root
    BY <1>0, <2>1 DEF TypeOK, Row
  <2>3. row' = [row EXCEPT ![x] = r]
    BY <1>2, <2>1
  <2>4. row'[x] = r /\ \A y \in Ids : y # x => row'[y] = row[y]
    BY <1>0, <2>3 DEF TypeOK
  <2>5. RowKept(x)
    BY <1>2, <2>2, <2>4 DEF RowKept, Present
  <2> QED BY <1>2, <2>4, <2>5 DEF Keeps, RowKept
<1>3. CASE Create
  BY <1>0, <1>3 DEF Create, Creates
<1>4. ASSUME NEW w \in Writers, MergeUpdate(w) PROVE Goal
  <2>1. prev[w] \in Ids /\ born' = born
    BY <1>0, <1>4 DEF MergeUpdate, NamedInv, PlansNamed, Actors, Born, TypeOK
  <2>2. CASE Present(prev[w])
    <3>1. row' = [row EXCEPT ![prev[w]] = [row[prev[w]] EXCEPT !.status = "active"]]
      BY <1>4, <2>2 DEF MergeUpdate
    <3>2. "active" \in Status \ {"absent"}
      BY DEF Status
    <3>3. Keeps({prev[w]})
      BY <1>2, <2>1, <2>2, <3>1, <3>2
    <3> QED BY <1>4, <3>3
  <2>3. CASE ~Present(prev[w])
    <3>1. Keeps({prev[w]})
      BY <1>4, <2>1, <2>3 DEF MergeUpdate, Keeps, RowKept
    <3> QED BY <1>4, <3>1
  <2> QED BY <2>2, <2>3
<1>5. ASSUME NEW a \in Actors, Witness(a) PROVE Goal
  <2>1. Keeps({}) /\ witnessed' = witnessed \union {a}
    BY <1>5 DEF Witness, Keeps, RowKept
  <2> QED BY <1>5, <2>1
<1>6. CASE CaptureStep
  <2>1. \/ Create
        \/ \E w \in Writers : MergeUpdate(w)
        \/ UNCHANGED <<row, born, witnessed>>
    BY <1>6 DEF CaptureStep, FindCandidate, Skip, DecideSupersede
  <2> HIDE DEF Goal
  <2>2. CASE UNCHANGED <<row, born, witnessed>>
    BY <1>1, <2>2
  <2>3. CASE Create
    BY <1>3, <2>3 DEF Goal
  <2> QED BY <1>4, <2>1, <2>2, <2>3
<1>7. CASE SupersedeStep
  <2>1. \/ \E a \in Actors : Witness(a)
        \/ \E w \in Writers : CommitCapture(w)
        \/ \E m \in Maintainers : CommitMaintenance(m)
        \/ UNCHANGED <<row, born>> /\ witnessed' \subseteq witnessed
    BY <1>7 DEF SupersedeStep, Hop, PassGuard, CommitCapture, CommitMaintenance, GiveUp
  <2>2. CASE UNCHANGED <<row, born>> /\ witnessed' \subseteq witnessed
    BY <1>1, <2>2
  <2> QED BY <1>5, <2>1, <2>2
<1>8. CASE RunStep
  <2>1. UNCHANGED <<row, born, witnessed>>
    BY <1>8 DEF RunStep, StartSweep, DedupPair, ReplayEntry, StoredStaleness, ReadCandidates,
                Verdict, EndRun
  <2> HIDE DEF Goal
  <2> QED BY <1>1, <2>1
<1>9. CASE UserStep
  <2>1. PICK x \in Ids : Forget(x) \/ Restore(x) \/ HardDelete(x)
    BY <1>9 DEF UserStep
  <2>2. ASSUME NEW s \in Status \ {"absent"}, Present(x),
               SetRow(x, [row[x] EXCEPT !.status = s])
        PROVE  Goal
    <3>1. Keeps({x})
      BY <1>2, <2>2 DEF SetRow
    <3> QED BY <2>2, <3>1 DEF SetRow, planVars
  <2>3. CASE Forget(x)
    BY <2>2, <2>3 DEF Forget, Status
  <2>4. CASE Restore(x)
    BY <2>2, <2>4 DEF Restore, Status, Present
  <2>5. CASE HardDelete(x)
    <3>1. CASE Present(x)
      <4>1. SetRow(x, Blank)
        BY <2>5, <3>1 DEF HardDelete
      <4>2. Keeps({x})
        BY <1>0, <4>1 DEF SetRow, Keeps, RowKept, TypeOK
      <4> QED BY <4>1, <4>2 DEF SetRow, planVars
    <3>2. CASE ~Present(x)
      <4>1. UNCHANGED <<row, born, witnessed>>
        BY <2>5, <3>2 DEF HardDelete, vars
      <4> HIDE DEF Goal
      <4> QED BY <1>1, <4>1
    <3> QED BY <3>1, <3>2
  <2> QED BY <2>1, <2>3, <2>4, <2>5
<1>10. CASE UNCHANGED vars
  <2>1. UNCHANGED <<row, born, witnessed>>
    BY <1>10 DEF vars
  <2> HIDE DEF Goal
  <2> QED BY <1>1, <2>1
<1> QED BY <1>6, <1>7, <1>8, <1>9, <1>10 DEF Next

(* A plan keeps its place while its witness stands                         *)
LEMMA WitnessedPlans ==
  ASSUME NamedInv, WitnessedPresent, [Next]_vars, NEW a \in witnessed, a \in witnessed'
  PROVE  pc'[a] \in {"walk", "commit"} /\ prev'[a] = prev[a]
<1>0. TypeOK /\ a \in Actors /\ pc[a] \in {"walk", "commit"}
  BY DEF NamedInv, TypeOK, WitnessedPresent
<1>1. ASSUME pc'[a] = pc[a], prev'[a] = prev[a]
      PROVE  pc'[a] \in {"walk", "commit"} /\ prev'[a] = prev[a]
  BY <1>0, <1>1
<1>2. ASSUME NEW b \in Actors, NEW step, NEW p, NEW r, NEW root, Plan(b, step, p, r, root),
             pc[b] \notin {"walk", "commit"}
      PROVE  pc'[a] \in {"walk", "commit"} /\ prev'[a] = prev[a]
  BY <1>0, <1>2 DEF Plan, TypeOK
<1>3. CASE CaptureStep
  <2>1. CASE Create
    BY <1>1, <2>1 DEF Create, planVars
  <2>2. ASSUME NEW w \in Writers, NEW x \in Ids, FindCandidate(w, x)
        PROVE  pc'[a] \in {"walk", "commit"} /\ prev'[a] = prev[a]
    BY <1>2, <2>2 DEF FindCandidate, Actors
  <2>3. ASSUME NEW w \in Writers, Skip(w) \/ MergeUpdate(w)
        PROVE  pc'[a] \in {"walk", "commit"} /\ prev'[a] = prev[a]
    BY <1>2, <2>3 DEF Skip, MergeUpdate, Drop, Actors
  <2>4. ASSUME NEW w \in Writers, DecideSupersede(w)
        PROVE  pc'[a] \in {"walk", "commit"} /\ prev'[a] = prev[a]
    BY <1>0, <2>4 DEF DecideSupersede, planVars, TypeOK, Actors
  <2> QED BY <1>3, <2>1, <2>2, <2>3, <2>4 DEF CaptureStep
<1>4. CASE SupersedeStep
  <2>1. PICK b \in Actors : \/ Witness(b) \/ Hop(b) \/ PassGuard(b)
                            \/ CommitCapture(b) \/ CommitMaintenance(b) \/ GiveUp(b)
    BY <1>4 DEF SupersedeStep
  <2>2. CASE Witness(b) \/ Hop(b) \/ PassGuard(b)
    BY <1>0, <2>2 DEF Witness, Hop, PassGuard, TypeOK
  <2>3. CASE CommitCapture(b) \/ CommitMaintenance(b) \/ GiveUp(b)
    <3>1. a # b /\ Drop(b)
      BY <2>3 DEF CommitCapture, CommitMaintenance, GiveUp, Supersede, Touched
    <3> QED BY <1>0, <3>1 DEF Drop, Plan, TypeOK
  <2> QED BY <2>1, <2>2, <2>3
<1>5. CASE RunStep
  <2>1. PICK m \in Maintainers :
          \/ StartSweep(m)
          \/ \E older, newer \in snap[m] : DedupPair(m, older, newer)
          \/ \E F \in Backlog : ReplayEntry(m, F)
          \/ \E F \in SUBSET snap[m] : StoredStaleness(m, F)
          \/ \E c \in cands[m], f \in facts[m] : Verdict(m, c, f)
          \/ EndRun(m)
    BY <1>5 DEF RunStep
  <2>2. ASSUME NEW older, NEW newer, DedupPair(m, older, newer)
        PROVE  pc'[a] \in {"walk", "commit"} /\ prev'[a] = prev[a]
    BY <1>2, <2>2 DEF DedupPair, Actors
  <2>3. ASSUME NEW c, NEW f, Verdict(m, c, f)
        PROVE  pc'[a] \in {"walk", "commit"} /\ prev'[a] = prev[a]
    BY <1>2, <2>3 DEF Verdict, Actors
  <2>4. CASE UNCHANGED <<pc, prev>>
    BY <1>1, <2>4
  <2> QED BY <2>1, <2>2, <2>3, <2>4
          DEF StartSweep, ReplayEntry, StoredStaleness, ReadCandidates, EndRun, planVars
<1>6. CASE UserStep
  <2>1. UNCHANGED <<pc, prev>>
    BY <1>6 DEF UserStep, Forget, Restore, HardDelete, SetRow, planVars, vars
  <2> QED BY <1>1, <2>1
<1>7. CASE UNCHANGED vars
  BY <1>1, <1>7 DEF vars, planVars
<1> QED BY <1>3, <1>4, <1>5, <1>6, <1>7 DEF Next

(* What a committed supersede does to the rows                             *)
LEMMA SupersedeEffect ==
  ASSUME TypeOK, NEW a, NEW p \in Ids, NEW r \in Ids, p # r, NEW root \in IdOrNone,
         Supersede(a, p, r, root)
  PROVE  /\ row'[p].succ = r /\ row'[p].root = root /\ Present(p)'
         /\ row'[r].root = root /\ Present(r)'
         /\ row'[r].succ = IF Present(r) THEN row[r].succ ELSE NoId
         /\ \A x \in Ids \ {p, r} : row'[x] = row[x]
<1>1. PICK u, v : u = Retired(p, r, root) /\ v = Replacement(p, r, root)
  OBVIOUS
<1>2. row[p] \in Row /\ row[r] \in Row
  BY DEF TypeOK
<1>3. u.succ = r /\ u.root = root /\ u.status = "superseded"
  BY <1>1, <1>2 DEF Retired, Row
<1>4. v.root = root /\ v.status # "absent"
      /\ v.succ = IF Present(r) THEN row[r].succ ELSE NoId
  <2>1. CASE Present(r)
    <3>1. v = [row[r] EXCEPT !.pred = p, !.root = root]
      BY <1>1, <2>1 DEF Replacement
    <3> QED BY <1>2, <2>1, <3>1 DEF Present, Row
  <2>2. CASE ~Present(r)
    <3>1. v = [Blank EXCEPT !.status = "active", !.pred = p, !.root = root]
      BY <1>1, <2>2 DEF Replacement
    <3> QED BY <2>2, <3>1 DEF Blank
  <2> QED BY <2>1, <2>2
<1>5. row' = [row EXCEPT ![p] = u, ![r] = v]
  BY <1>1 DEF Supersede
<1>6. row'[p] = u /\ row'[r] = v /\ \A x \in Ids \ {p, r} : row'[x] = row[x]
  BY <1>5 DEF TypeOK
<1> QED BY <1>3, <1>4, <1>6 DEF Present

(* The two rows of a commit                                                *)
LEMMA CaptureCommits ==
  ASSUME WitnessInv, NEW w \in Writers, CommitCapture(w)
  PROVE  /\ prev[w] \in Born /\ prev[w] \in Ids /\ born + 1 \in Ids /\ prev[w] # born + 1
         /\ plan[w] \in IdOrNone /\ Present(prev[w]) /\ ~Present(born + 1)
         /\ Supersede(w, prev[w], born + 1, plan[w])
<1>1. TypeOK /\ pc[w] = "commit" /\ w \in witnessed /\ w \in Actors
  BY DEF WitnessInv, NamedInv, CommitCapture, Actors
<1>2. prev[w] \in Born /\ prev[w] \in Ids /\ born + 1 \in Ids /\ born + 1 \notin Born
  BY <1>1 DEF WitnessInv, NamedInv, PlansNamed, TypeOK, CommitCapture, Born
<1> QED BY <1>1, <1>2 DEF WitnessInv, NamedInv, RowsNamed, WitnessedPresent, TypeOK,
                          CommitCapture, Present, Blank

LEMMA RunCommits ==
  ASSUME WitnessInv, NEW m \in Maintainers, CommitMaintenance(m)
  PROVE  /\ prev[m] \in Ids /\ repl[m] \in Ids /\ Present(prev[m]) /\ born' = born
         /\ Supersede(m, prev[m], repl[m], plan[m])
         /\ \A x \in Ids \ {prev[m], repl[m]} : row'[x] = row[x]
<1>1. TypeOK /\ pc[m] = "commit" /\ m \in witnessed /\ m \in Actors
  BY DEF WitnessInv, NamedInv, CommitMaintenance, Actors
<1>2. /\ prev[m] \in Ids /\ repl[m] \in Ids /\ Present(prev[m]) /\ born' = born
      /\ Supersede(m, prev[m], repl[m], plan[m])
  BY <1>1 DEF WitnessInv, NamedInv, PlansNamed, WitnessedPresent, TypeOK,
              CommitMaintenance, Born
<1>3. \A x \in Ids \ {prev[m], repl[m]} : row'[x] = row[x]
  BY <1>1, <1>2 DEF Supersede, TypeOK
<1> QED BY <1>2, <1>3

LEMMA WitnessNext == WitnessInv /\ [Next]_vars => WitnessInv'
<1> SUFFICES ASSUME WitnessInv, [Next]_vars PROVE WitnessInv'
  OBVIOUS
<1>0. NamedInv /\ NamedInv' /\ TypeOK /\ WitnessedPresent
  BY NamedStep DEF WitnessInv, NamedInv
<1>1. ASSUME NEW X, witnessed' \subseteq Touched(X), \A x \in Ids \ X : row'[x] = row[x]
      PROVE  WitnessedPresent'
  <2> SUFFICES ASSUME NEW a \in witnessed'
               PROVE  pc'[a] \in {"walk", "commit"} /\ Present(prev[a])'
    BY DEF WitnessedPresent
  <2>1. a \in witnessed /\ prev[a] \notin X
    BY <1>1 DEF Touched
  <2>2. pc'[a] \in {"walk", "commit"} /\ prev'[a] = prev[a]
    BY <1>0, <2>1, WitnessedPlans
  <2>3. a \in Actors /\ prev[a] \in Ids /\ Present(prev[a])
    BY <1>0, <2>1 DEF WitnessedPresent, NamedInv, PlansNamed, TypeOK, Born
  <2> QED BY <1>1, <2>1, <2>2, <2>3 DEF Present
<1>2. ASSUME Keeps({}), witnessed' \ witnessed \subseteq {a \in Actors : Witness(a)}
      PROVE  WitnessedPresent'
  <2> SUFFICES ASSUME NEW a \in witnessed'
               PROVE  pc'[a] \in {"walk", "commit"} /\ Present(prev[a])'
    BY DEF WitnessedPresent
  <2>1. \A x \in Ids : row'[x] = row[x]
    BY <1>2 DEF Keeps
  <2>2. CASE a \in witnessed
    <3>1. pc'[a] \in {"walk", "commit"} /\ prev'[a] = prev[a]
      BY <1>0, <2>2, WitnessedPlans
    <3>2. a \in Actors /\ prev[a] \in Ids /\ Present(prev[a])
      BY <1>0, <2>2 DEF WitnessedPresent, NamedInv, PlansNamed, TypeOK, Born
    <3> QED BY <2>1, <3>1, <3>2 DEF Present
  <2>3. CASE a \notin witnessed
    BY <1>0, <1>2, <2>3 DEF Witness, TypeOK, Present
  <2> QED BY <2>2, <2>3
<1>3. ASSUME Creates, UNCHANGED <<pc, planVars, witnessed>> PROVE WitnessedPresent'
  <2>1. \A x \in Ids : Present(x) => Present(x)'
    BY <1>0, <1>3, CreatesEffect DEF Present
  <2>2. ASSUME NEW a \in witnessed PROVE prev[a] \in Ids
    <3>1. a \in Actors /\ prev[a] \in Born
      BY <1>0 DEF WitnessedPresent, NamedInv, PlansNamed, TypeOK
    <3> QED BY <1>0, <3>1 DEF Born, TypeOK
  <2>3. \A a \in witnessed' : pc'[a] = pc[a] /\ prev'[a] = prev[a] /\ a \in witnessed
    BY <1>3 DEF planVars
  <2> QED BY <1>0, <2>1, <2>2, <2>3 DEF WitnessedPresent, Present
<1>4. ASSUME NEW w \in Writers, Keeps({prev[w]}), MergeUpdate(w) PROVE WitnessedPresent'
  BY <1>1, <1>4 DEF MergeUpdate, Keeps
<1>5. ASSUME NEW w \in Writers, CommitCapture(w) PROVE WitnessedPresent'
  <2>1. \A x \in Ids \ {prev[w], born + 1} : row'[x] = row[x]
    BY <1>0, <1>5, SupersedeEffect, CaptureCommits
  <2> QED BY <1>1, <1>5, <2>1 DEF CommitCapture, Supersede
<1>6. ASSUME NEW m \in Maintainers, CommitMaintenance(m) PROVE WitnessedPresent'
  BY <1>1, <1>6, RunCommits DEF Supersede
<1>7. ASSUME NEW x \in Ids, Keeps({x}), witnessed' = Touched({x}) PROVE WitnessedPresent'
  BY <1>1, <1>7 DEF Keeps
<1>8. WitnessedPresent'
  BY <1>0, <1>2, <1>3, <1>4, <1>5, <1>6, <1>7, RowEffects
<1> QED BY <1>0, <1>8 DEF WitnessInv

LEMMA Witnessed == Spec => []WitnessInv
<1>1. Init => WitnessInv
  BY NamedInit DEF Init, WitnessInv, WitnessedPresent
<1> QED BY <1>1, WitnessNext, PTL DEF Spec

(* An erased memory comes back only as the replacement a consolidation run *)
(* is about to commit: no merge, restore, backlog or capture revives one.  *)
ErasedReturnsByRunOnly ==
  [][\A x \in Ids : x <= born /\ ~Present(x) /\ Present(x)'
       => \E m \in Maintainers : CommitMaintenance(m) /\ x = repl[m]]_vars

LEMMA ReturnStep ==
  ASSUME WitnessInv, [Next]_vars, NEW x \in Ids, x <= born, ~Present(x), Present(x)'
  PROVE  \E m \in Maintainers : CommitMaintenance(m) /\ x = repl[m]
<1>0. NamedInv /\ TypeOK /\ born \in Nat
  BY DEF WitnessInv, NamedInv, TypeOK
<1>1. ASSUME NEW X, Keeps(X) PROVE FALSE
  BY <1>1 DEF Keeps, RowKept, Present, Blank
<1>2. ASSUME Creates PROVE FALSE
  BY <1>0, <1>2 DEF Creates, TypeOK, Present
<1>3. ASSUME NEW w \in Writers, CommitCapture(w) PROVE FALSE
  <2>1. x # prev[w] /\ x # born + 1
    BY <1>0, <1>3, CaptureCommits
  <2> QED BY <1>0, <1>3, <2>1, SupersedeEffect, CaptureCommits DEF Present
<1>4. ASSUME NEW m \in Maintainers, CommitMaintenance(m) PROVE x = repl[m]
  BY <1>4, RunCommits DEF Present
<1> QED BY <1>0, <1>1, <1>2, <1>3, <1>4, RowEffects

THEOREM ErasedReturns == Spec => ErasedReturnsByRunOnly
<1>1. WitnessInv /\ [Next]_vars =>
        [\A x \in Ids : x <= born /\ ~Present(x) /\ Present(x)'
           => \E m \in Maintainers : CommitMaintenance(m) /\ x = repl[m]]_vars
  BY ReturnStep
<1> QED BY <1>1, Witnessed, PTL DEF Spec, ErasedReturnsByRunOnly

(* Without a consolidation run, hard deletion is final: captures that had  *)
(* judged or witnessed the memory, merges and restores do not revive it.   *)
THEOREM HardDeleteFinal == Maintainers = {} /\ Spec => HardDeleteIsFinal
<1> SUFFICES ASSUME Maintainers = {} PROVE Spec => HardDeleteIsFinal
  OBVIOUS
<1>1. WitnessInv /\ [Next]_vars =>
        [\A x \in Ids : x <= born /\ ~Present(x) => ~(Present(x)')]_vars
  BY ReturnStep
<1> QED BY <1>1, Witnessed, PTL DEF Spec, HardDeleteIsFinal

-----------------------------------------------------------------------------
(***************************************************************************)
(* Lineage.  Where only captures supersede, a memory and its successor     *)
(* carry one root: the root a plan took from the row it judged is still    *)
(* that row's, since a row's root changes only from none to itself.        *)
(***************************************************************************)
SuccNamed == \A x \in Ids : row[x].succ \in Born \union {NoId}

OneRoot == \A x \in Ids : LET y == row[x].succ IN
  Present(x) /\ y # NoId /\ Present(y) => row[x].root # NoId /\ row[y].root = row[x].root

RootPlanned == \A w \in Writers :
  pc[w] # "idle" /\ Present(prev[w]) => plan[w] = RootOf(prev[w])

LineageInv == WitnessInv /\ SuccNamed /\ OneRoot /\ RootPlanned

(* Steps that keep or erase rows                                           *)
LEMMA RootsKept ==
  ASSUME NamedInv, SuccNamed, OneRoot, NEW X, Keeps(X)
  PROVE  /\ SuccNamed' /\ OneRoot'
         /\ \A x \in Ids : Present(x)' => Present(x) /\ RootOf(x)' = RootOf(x)
<1>1. \A x \in Ids : Present(x)' => /\ Present(x) /\ row'[x].succ = row[x].succ
                                    /\ row'[x].root = row[x].root
  BY DEF Keeps, RowKept, Present, Blank
<1>2. \A x \in Ids : row'[x].succ \in {row[x].succ, NoId}
  BY DEF Keeps, RowKept, Blank
<1>3. SuccNamed'
  BY <1>2 DEF SuccNamed, Keeps, Born
<1>4. \A x \in Ids : row[x].succ # NoId => row[x].succ \in Ids
  BY DEF NamedInv, TypeOK, Row
<1>5. OneRoot'
  BY <1>1, <1>4 DEF OneRoot
<1>6. \A x \in Ids : Present(x)' => RootOf(x)' = RootOf(x)
  BY <1>1 DEF RootOf
<1> QED BY <1>1, <1>3, <1>5, <1>6

LEMMA LineageNext ==
  Maintainers = {} /\ LineageInv /\ [Next]_vars => SuccNamed' /\ OneRoot' /\ RootPlanned'
<1> SUFFICES ASSUME Maintainers = {}, LineageInv, [Next]_vars
             PROVE  SuccNamed' /\ OneRoot' /\ RootPlanned'
  OBVIOUS
<1>0. /\ WitnessInv /\ NamedInv /\ TypeOK /\ SuccNamed /\ OneRoot /\ RootPlanned
      /\ born \in Nat /\ Actors = Writers
  BY DEF LineageInv, WitnessInv, NamedInv, TypeOK, Actors
<1>1. \A x \in Ids : row[x].succ \in Born \union {NoId} /\ row[x].root \in IdOrNone
  BY <1>0 DEF SuccNamed, TypeOK, Row, IdOrNone
<1>2. \A w \in Writers : pc[w] # "idle" => prev[w] \in Born /\ prev[w] \in Ids
  BY <1>0 DEF NamedInv, PlansNamed, TypeOK, Born
<1>3. born' = born \/ born' = born + 1
  BY <1>0, RowEffects DEF Keeps, Creates, CommitCapture
(* The plans: a step takes the root of the row it reads, or keeps or ends a plan *)
<1>4. \A w \in Writers : \/ pc'[w] = "idle"
                         \/ /\ pc[w] # "idle" /\ prev'[w] = prev[w] /\ plan'[w] = plan[w]
                         \/ /\ UNCHANGED <<row, born>>
                            /\ prev'[w] \in Ids /\ plan'[w] = RootOf(prev'[w])
  <2>1. ASSUME NEW w \in Writers, NEW x \in Ids, FindCandidate(w, x)
        PROVE  /\ UNCHANGED <<row, born>> /\ prev'[w] = x /\ plan'[w] = RootOf(x)
               /\ \A v \in Writers \ {w} :
                    pc'[v] = pc[v] /\ prev'[v] = prev[v] /\ plan'[v] = plan[v]
    BY <1>0, <2>1 DEF FindCandidate, Plan, TypeOK
  <2>2. ASSUME NEW w \in Writers, Drop(w)
        PROVE  /\ pc'[w] = "idle"
               /\ \A v \in Writers \ {w} :
                    pc'[v] = pc[v] /\ prev'[v] = prev[v] /\ plan'[v] = plan[v]
    BY <1>0, <2>2 DEF Drop, Plan, TypeOK
  <2>3. ASSUME NEW w \in Writers, DecideSupersede(w) \/ Witness(w) \/ Hop(w) \/ PassGuard(w)
        PROVE  /\ pc[w] # "idle" /\ UNCHANGED <<prev, plan>>
               /\ \A v \in Writers \ {w} : pc'[v] = pc[v]
    BY <1>0, <2>3 DEF DecideSupersede, Witness, Hop, PassGuard, Walking, planVars, TypeOK
  <2>4. \/ \E w \in Writers, x \in Ids : FindCandidate(w, x)
        \/ \E w \in Writers : Drop(w)
        \/ \E w \in Writers : DecideSupersede(w) \/ Witness(w) \/ Hop(w) \/ PassGuard(w)
        \/ UNCHANGED <<pc, prev, plan>>
    BY <1>0 DEF Next, CaptureStep, SupersedeStep, RunStep, UserStep, Create, Skip, MergeUpdate,
                CommitCapture, CommitMaintenance, GiveUp, Forget, Restore, HardDelete, SetRow,
                vars, planVars
  <2>5. CASE \E w \in Writers, x \in Ids : FindCandidate(w, x)
    BY <2>1, <2>5
  <2>6. CASE \E w \in Writers : Drop(w)
    BY <2>2, <2>6
  <2>7. CASE \E w \in Writers : DecideSupersede(w) \/ Witness(w) \/ Hop(w) \/ PassGuard(w)
    BY <2>3, <2>7
  <2>8. CASE UNCHANGED <<pc, prev, plan>>
    BY <2>8
  <2> QED BY <2>4, <2>5, <2>6, <2>7, <2>8
<1>5. ASSUME \A x \in Born : (row'[x].status # "absent") =>
               Present(x) /\ (IF row'[x].root = NoId THEN x ELSE row'[x].root) = RootOf(x)
      PROVE  RootPlanned'
  <2> SUFFICES ASSUME NEW w \in Writers, pc'[w] # "idle", Present(prev[w])'
               PROVE  plan'[w] = RootOf(prev[w])'
    BY DEF RootPlanned
  <2>1. CASE pc[w] # "idle" /\ prev'[w] = prev[w] /\ plan'[w] = plan[w]
    BY <1>0, <1>2, <1>5, <2>1 DEF RootPlanned, Present, RootOf
  <2>2. CASE UNCHANGED <<row, born>> /\ prev'[w] \in Ids /\ plan'[w] = RootOf(prev'[w])
    BY <2>2 DEF RootOf
  <2> QED BY <1>4, <2>1, <2>2
<1>6. ASSUME NEW X, Keeps(X) PROVE SuccNamed' /\ OneRoot' /\ RootPlanned'
  <2>1. /\ SuccNamed' /\ OneRoot'
        /\ \A x \in Ids : Present(x)' => Present(x) /\ RootOf(x)' = RootOf(x)
    BY <1>0, <1>6, RootsKept
  <2>2. Born \subseteq Ids
    BY <1>0 DEF Born, TypeOK
  <2> QED BY <1>5, <2>1, <2>2 DEF Present, RootOf
<1>7. ASSUME Creates PROVE SuccNamed' /\ OneRoot' /\ RootPlanned'
  <2>1. /\ row'[born + 1].succ = NoId /\ born' = born + 1
        /\ \A x \in Ids \ {born + 1} : row'[x] = row[x]
    BY <1>0, <1>7, CreatesEffect DEF Creates
  <2>2. \A x \in Born : x \in Ids /\ x # born + 1
    BY <1>0 DEF Born, TypeOK
  <2>3. SuccNamed'
    BY <1>0, <1>1, <2>1 DEF SuccNamed, Born
  <2>4. OneRoot'
    BY <1>0, <1>1, <2>1, <2>2 DEF OneRoot, Present
  <2> QED BY <1>5, <2>1, <2>2, <2>3, <2>4 DEF Present, RootOf
<1>8. ASSUME NEW w \in Writers, CommitCapture(w) PROVE SuccNamed' /\ OneRoot' /\ RootPlanned'
  <2>1. PICK p \in Ids, r \in Ids, root \in IdOrNone :
          /\ p = prev[w] /\ r = born + 1 /\ root = plan[w] /\ p # r /\ p \in Born
          /\ Present(p) /\ ~Present(r) /\ Supersede(w, p, r, root)
    BY <1>0, <1>8, CaptureCommits
  <2>2. /\ row'[p].succ = r /\ row'[p].root = root /\ Present(p)'
        /\ row'[r].root = root /\ Present(r)' /\ row'[r].succ = NoId
        /\ \A x \in Ids \ {p, r} : row'[x] = row[x]
    BY <1>0, <2>1, SupersedeEffect
  <2>3. root = RootOf(p) /\ root # NoId /\ born' = born + 1
    BY <1>0, <1>8, <2>1 DEF RootPlanned, CommitCapture, RootOf
  <2>4. \A x \in Born : x \in Ids /\ x # r
    BY <1>0, <2>1 DEF Born, TypeOK
  <2>5. SuccNamed'
    BY <1>0, <1>1, <2>1, <2>2, <2>3 DEF SuccNamed, Born
  <2>6. OneRoot'
    <3> SUFFICES ASSUME NEW x \in Ids, NEW y, y = row'[x].succ, Present(x)', y # NoId,
                        row'[y].status # "absent"
                 PROVE  row'[x].root # NoId /\ row'[y].root = row'[x].root
      BY DEF OneRoot, Present
    <3>1. CASE x = p
      BY <2>2, <2>3, <3>1
    <3>2. CASE x # p
      <4>1. x # r /\ row'[x] = row[x] /\ Present(x) /\ y = row[x].succ
        BY <2>2, <3>2 DEF Present
      <4>2. y \in Born /\ y \in Ids /\ y # r
        BY <1>1, <2>4, <4>1
      <4>3. CASE y = p
        <5>1. row[x].root # NoId /\ row[p].root = row[x].root
          BY <1>0, <2>1, <4>1, <4>3 DEF OneRoot
        <5>2. root = row[p].root
          BY <2>3, <5>1 DEF RootOf
        <5> QED BY <2>2, <4>1, <4>3, <5>1, <5>2
      <4>4. CASE y # p
        BY <1>0, <2>2, <4>1, <4>2, <4>4 DEF OneRoot, Present
      <4> QED BY <4>3, <4>4
    <3> QED BY <3>1, <3>2
  <2>7. RootPlanned'
    <3>1. RootOf(p) = IF row'[p].root = NoId THEN p ELSE row'[p].root
      BY <2>2, <2>3
    <3> QED BY <1>5, <2>1, <2>2, <2>4, <3>1 DEF Present, RootOf
  <2> QED BY <2>5, <2>6, <2>7
<1> QED BY <1>0, <1>6, <1>7, <1>8, RowEffects

(* Where captures alone supersede, a memory and the one that superseded it *)
(* are in each other's lineage as getMemoryLineage reads it, whatever      *)
(* captures judged and superseded it at the same time and whichever rows   *)
(* were merged into, restored or erased meanwhile.                         *)
THEOREM LineageKept == Maintainers = {} /\ Spec => []LineageIntact
<1> SUFFICES ASSUME Maintainers = {} PROVE Spec => []LineageIntact
  OBVIOUS
<1>1. Init => LineageInv
  BY NamedInit DEF Init, LineageInv, WitnessInv, WitnessedPresent, SuccNamed, OneRoot,
                   RootPlanned, Blank, Actors
<1>2. LineageInv /\ [Next]_vars => LineageInv'
  BY WitnessNext, LineageNext DEF LineageInv
<1>3. LineageInv => LineageIntact
  <2> SUFFICES ASSUME LineageInv, NEW x \in Ids, NEW y, y = row[x].succ,
                      Present(x), y # NoId, Present(y)
               PROVE  y \in Lineage(x) /\ x \in Lineage(y)
    BY DEF LineageIntact
  <2>1. row[x].root # NoId /\ row[y].root = row[x].root /\ y \in Ids
    BY DEF LineageInv, OneRoot, WitnessInv, NamedInv, TypeOK, Row
  <2> QED BY <2>1 DEF Lineage, RootOf
<1> QED BY <1>1, <1>2, <1>3, PTL DEF Spec
=============================================================================
