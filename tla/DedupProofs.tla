------------------------------ MODULE DedupProofs ------------------------------
(***************************************************************************)
(* Proofs about DedupSweep, for any number of memories, values and         *)
(* timestamps and any budget: the watermark stays ahead of what was fed,   *)
(* and no pair is lost below it as long as every write carries a later     *)
(* timestamp than those before it.                                         *)
(***************************************************************************)
EXTENDS DedupSweep, TLAPS

USE SweepAssumption DEF Ids

(* Timestamps only grow, and the watermark is one of them                  *)
Bounds == /\ watermark <= clock
          /\ \A x \in Ids : row[x].written <= clock /\ snap[x].written <= clock

(* What was written after the snapshot is later than all of it             *)
SnapInv == phase # "idle" =>
  \A x \in Active : \/ row[x] = snap[x]
                    \/ /\ row[x].written > watermark
                       /\ \A y \in Ids : snap[y].written < row[x].written

MergedInv == \A x \in merged : row[x].written > snap[x].written

LoopInv ==
  /\ phase # "sweep" => current = 0
  /\ phase = "sweep" =>
       cands = {x \in Ids : snap[x].status = "active" /\ snap[x].written > watermark}

(* Candidates are taken in the order of their timestamps, and the first    *)
(* unswept one is not after those to come                                  *)
SortInv == LET ahead == todo \union ({current} \ {0}) IN
  /\ current # 0 => \A y \in todo : snap[current].written <= snap[y].written
  /\ unswept # 0 => \A y \in ahead : unswept <= snap[y].written

Settled(c, o) == Current(c) /\ Current(o) => {c, o} \in compared

SettledWith(c, S) == \A o \in S \ {c} : snap[o].status = "active" => Settled(c, o)

(* Candidates done without a failure have been compared with all others    *)
DoneInv == phase = "sweep" =>
  /\ \A c \in cands \ (todo \union {current}) :
       unswept = 0 \/ snap[c].written < unswept => SettledWith(c, Ids)
  /\ current # 0 /\ ~failed => SettledWith(current, Ids \ others)

-----------------------------------------------------------------------------
(* Rows under the updates of the actions                                   *)
LEMMA Stamped == \A y \in Row, t \in Nat :
  LET r == [y EXCEPT !.written = t]
  IN  r \in Row /\ r.written = t /\ r.status = y.status
BY DEF Row

LEMMA Changed == \A y \in Row, s \in {"active", "inactive"}, t \in Nat :
  LET r == [y EXCEPT !.status = s, !.written = t] IN r \in Row /\ r.written = t
BY DEF Row

LEMMA Updated == \A y \in Row, t \in Nat, v \in SUBSET Values :
  LET r == [y EXCEPT !.status = "active", !.written = t, !.values = v]
  IN  r \in Row /\ r.written = t
BY DEF Row

LEMMA Superseded == \A y \in Row, t \in Nat, i \in Ids :
  LET r == [y EXCEPT !.status = "inactive", !.into = i, !.written = t]
  IN  r \in Row /\ r.written = t /\ r.status = "inactive"
BY DEF Row

LEMMA Pruned == \A y \in Row :
  LET r == [y EXCEPT !.status = "inactive"]
  IN  r \in Row /\ r.written = y.written /\ r.status = "inactive"
BY DEF Row

LEMMA NewRow ==
  \A t \in Nat, v \in SUBSET Values :
    LET r == [Blank EXCEPT !.status = "active", !.created = t, !.written = t, !.values = v]
    IN  r \in Row /\ r.written = t
BY DEF Row, Blank

LEMMA BlankRow == Blank \in Row /\ Blank.written = 0 /\ Blank.status = "absent"
BY DEF Row, Blank

LEMMA StampsInNat == TypeOK => Stamps \subseteq Nat
BY DEF TypeOK, Stamps

(* What a step that writes the rows of X does to the rest of the state     *)
Rewrites(X, t) ==
  /\ row' \in [Ids -> Row] /\ Written(X, t)
  /\ \A x \in Ids \ X : row'[x] = row[x]
  /\ \A x \in X : row'[x].written = t

LEMMA WriteRewrites ==
  TypeOK /\ Write => /\ UNCHANGED <<watermark, runVars, fails>>
                     /\ \E x \in Ids, t \in Stamps : Rewrites({x}, t)
<1> SUFFICES ASSUME TypeOK, Write
             PROVE  /\ UNCHANGED <<watermark, runVars, fails>>
                    /\ \E x \in Ids, t \in Stamps : Rewrites({x}, t)
  OBVIOUS
<1>1. PICK t \in Stamps :
        \/ \E x \in Ids, values \in SUBSET Values : Create(x, values, t) \/ MergeUpdate(x, values, t)
        \/ \E x \in Ids, status \in {"active", "inactive"} : SetStatus(x, status, t)
  BY DEF Write
<1>2. t \in Nat
  BY StampsInNat
<1>3. ASSUME NEW x \in Ids, NEW r \in Row, r.written = t, Written({x}, t),
             row' = [row EXCEPT ![x] = r]
      PROVE  Rewrites({x}, t)
  BY <1>3 DEF Rewrites, TypeOK
<1>4. \A x \in Ids : row[x] \in Row
  BY DEF TypeOK
<1>5. ASSUME NEW x \in Ids, NEW values \in SUBSET Values, Create(x, values, t)
      PROVE  UNCHANGED <<watermark, runVars, fails>> /\ Rewrites({x}, t)
  BY <1>2, <1>3, <1>5, NewRow DEF Create
<1>6. ASSUME NEW x \in Ids, NEW values \in SUBSET Values, MergeUpdate(x, values, t)
      PROVE  UNCHANGED <<watermark, runVars, fails>> /\ Rewrites({x}, t)
  BY <1>2, <1>3, <1>4, <1>6, Updated DEF MergeUpdate
<1>7. ASSUME NEW x \in Ids, NEW status \in {"active", "inactive"}, SetStatus(x, status, t)
      PROVE  UNCHANGED <<watermark, runVars, fails>> /\ Rewrites({x}, t)
  <2>1. [row[x] EXCEPT !.status = status, !.written = t] \in Row
        /\ [row[x] EXCEPT !.status = status, !.written = t].written = t
    BY ZenonT(60), <1>2, <1>4, Changed
  <2> QED BY <1>3, <1>7, <2>1 DEF SetStatus
<1> QED BY <1>1, <1>5, <1>6, <1>7

LEMMA MergeRewrites ==
  ASSUME TypeOK, NEW o \in others, NEW t \in Stamps, Merge(o, t)
  PROVE  /\ Older(current, o) \in Ids /\ Newer(current, o) \in Ids
         /\ Older(current, o) # Newer(current, o)
         /\ {Older(current, o), Newer(current, o)} = {current, o}
         /\ Rewrites({Older(current, o), Newer(current, o)}, t)
<1>1. o \in Ids /\ current \in Ids /\ o # current
  BY DEF TypeOK, Merge
<1>2. PICK old \in Ids, new \in Ids : /\ old = Older(current, o) /\ new = Newer(current, o)
                                    /\ old # new /\ {old, new} = {current, o}
  BY <1>1 DEF Older, Newer
<1>3. t \in Nat /\ row[old] \in Row /\ row[new] \in Row
  BY <1>2, StampsInNat DEF TypeOK
<1>4. PICK r, s : /\ r = [row[old] EXCEPT !.status = "inactive", !.into = new, !.written = t]
                  /\ s = [row[new] EXCEPT !.written = t]
  OBVIOUS
<1> HIDE DEF Ids
<1>5. r \in Row /\ s \in Row /\ r.written = t /\ s.written = t
  <2>1. r \in Row /\ r.written = t
    BY <1>3, <1>4, Superseded, Zenon
  <2>2. s \in Row /\ s.written = t
    BY <1>3, <1>4, Stamped
  <2> QED BY <2>1, <2>2
<1>6. row' = [row EXCEPT ![old] = r, ![new] = s]
  BY <1>2, <1>4 DEF Merge
<1>7. Written({old, new}, t)
  BY <1>2 DEF Merge
<1>8. Rewrites({old, new}, t)
  BY <1>2, <1>5, <1>6, <1>7 DEF Rewrites, TypeOK
<1> QED BY <1>2, <1>8

LEMMA WrittenTypes ==
  ASSUME TypeOK, NEW X, NEW t \in Stamps, Written(X, t)
  PROVE  /\ clock' \in Nat /\ compared' \subseteq SUBSET Ids
         /\ fed' \subseteq Ids /\ missed' \subseteq Ids
BY StampsInNat DEF TypeOK, Written

LEMMA TypeInit == Init => TypeOK
<1>1. [x \in Ids |-> Blank] \in [Ids -> Row]
  BY BlankRow
<1>2. 0 \in Nat /\ FALSE \in BOOLEAN
  OBVIOUS
<1> QED BY <1>1, <1>2, Zenon DEF Init, TypeOK

LEMMA TypeWrite == TypeOK /\ Write => TypeOK'
<1> SUFFICES ASSUME TypeOK, Write PROVE TypeOK'
  OBVIOUS
<1>1. UNCHANGED <<watermark, runVars, fails>>
  BY WriteRewrites
<1>2. PICK x \in Ids, t \in Stamps : Rewrites({x}, t)
  BY WriteRewrites
<1>3. /\ row' \in [Ids -> Row] /\ clock' \in Nat /\ compared' \subseteq SUBSET Ids
      /\ fed' \subseteq Ids /\ missed' \subseteq Ids
  BY <1>2, WrittenTypes DEF Rewrites
<1> QED BY <1>1, <1>3 DEF TypeOK, runVars

LEMMA TypeReset == ASSUME TypeOK, Reset, row' \in [Ids -> Row], clock' \in Nat,
                          watermark' = watermark, fails' \in Nat,
                          compared' \subseteq SUBSET Ids, fed' \subseteq Ids, missed' \subseteq Ids
                   PROVE  TypeOK'
BY BlankRow DEF TypeOK, Reset

LEMMA TypeRun == TypeOK /\ (RunStep \/ Failure) => TypeOK'
<1> SUFFICES ASSUME TypeOK, RunStep \/ Failure PROVE TypeOK'
  OBVIOUS
<1>1. CASE StartSweep
  BY <1>1, BlankRow DEF StartSweep, TypeOK, Active
<1>2. ASSUME NEW c \in todo, TakeCandidate(c) PROVE TypeOK'
  BY <1>2 DEF TakeCandidate, TypeOK
<1>3. ASSUME NEW c \in todo, BudgetExhausted(c) PROVE TypeOK'
  <2>1. snap[c].written \in Nat
    BY DEF TypeOK, Row
  <2> QED BY <1>3, <2>1 DEF BudgetExhausted, FirstUnswept, TypeOK
<1>4. ASSUME NEW o \in others, KeepBoth(o) PROVE TypeOK'
  BY <1>4 DEF KeepBoth, TypeOK
<1>5. ASSUME NEW o \in others, NEW t \in Stamps, Merge(o, t) PROVE TypeOK'
  <2>1. row' \in [Ids -> Row] /\ Written({Older(current, o), Newer(current, o)}, t)
        /\ Older(current, o) \in Ids /\ Older(current, o) \in {current, o}
    BY <1>5, MergeRewrites DEF Rewrites
  <2>2. /\ clock' \in Nat /\ compared' \subseteq SUBSET Ids
        /\ fed' \subseteq Ids /\ missed' \subseteq Ids
    BY <2>1, WrittenTypes
  <2>3. others' \subseteq Ids \ (merged' \union {current})
    BY <1>5, <2>1 DEF Merge, TypeOK
  <2> QED BY <1>5, <2>1, <2>2, <2>3 DEF Merge, TypeOK
<1>6. CASE FinishCandidate
  <2>1. snap[current].written \in Nat
    BY <1>6 DEF TypeOK, Row, FinishCandidate
  <2> QED BY <1>6, <2>1 DEF FinishCandidate, FirstUnswept, TypeOK
<1>7. CASE AdvanceWatermark
  <2>1. watermark' \in Nat /\ phase' \in {"swept", "fed"}
    BY <1>7 DEF AdvanceWatermark, Swept, TypeOK, Row
  <2> QED BY <1>7, <2>1 DEF AdvanceWatermark, TypeOK
<1>8. ASSUME NEW F \in SUBSET Recent, FeedStaleness(F) PROVE TypeOK'
  BY <1>8 DEF FeedStaleness, Recent, PresentOf, TypeOK
<1>9. ASSUME NEW D \in SUBSET Active, NEW P \in SUBSET (Active \ D), NEW t \in Stamps,
             FinishRun(D, P, t)
      PROVE  TypeOK'
  <2>1. \A x \in Ids : row[x] \in Row /\ t \in Nat
    BY StampsInNat DEF TypeOK
  <2>2. row' \in [Ids -> Row]
    BY <1>9, <2>1, Pruned, Stamped DEF FinishRun
  <2>3. /\ clock' \in Nat /\ compared' \subseteq SUBSET Ids
        /\ fed' \subseteq Ids /\ missed' \subseteq Ids
    BY <1>9, WrittenTypes DEF FinishRun, TypeOK
  <2> QED BY <1>9, <2>2, <2>3, TypeReset DEF FinishRun, TypeOK
<1>10. CASE RunFails
  <2>1. missed' \subseteq Ids
    BY <1>10 DEF RunFails, Recent, PresentOf, TypeOK
  <2> QED BY <1>10, <2>1, TypeReset DEF RunFails, TypeOK
<1>11. ASSUME NEW o \in others, MergeThrows(o) PROVE TypeOK'
  BY <1>11 DEF MergeThrows, TypeOK
<1>12. CASE FeedThrows
  <2>1. missed' \subseteq Ids
    BY <1>12 DEF FeedThrows, Recent, PresentOf, TypeOK
  <2> QED BY <1>12, <2>1 DEF FeedThrows, TypeOK
<1> QED BY <1>1, <1>2, <1>3, <1>4, <1>5, <1>6, <1>7, <1>8, <1>9, <1>10, <1>11, <1>12
        DEF RunStep, Failure

(* Every variable of the sweep keeps its type.                             *)
THEOREM TypeCorrect == Spec => []TypeOK
<1>1. Init => TypeOK
  BY TypeInit
<1>2. TypeOK /\ [Next]_vars => TypeOK'
  <2>1. TypeOK /\ UNCHANGED vars => TypeOK'
    BY DEF vars, runVars, TypeOK
  <2> QED BY <2>1, TypeWrite, TypeRun DEF Next
<1> QED BY <1>1, <1>2, PTL DEF Spec

-----------------------------------------------------------------------------
(* What a step with a later timestamp leaves of the invariant              *)
LEMMA RewritesKeep ==
  ASSUME TypeOK, Bounds, ~Late, NEW X \in SUBSET Ids, NEW t \in Stamps, Rewrites(X, t),
         snap' = snap, watermark' = watermark
  PROVE  /\ Bounds'
         /\ \A x \in X : /\ row'[x].written > watermark
                        /\ \A y \in Ids : snap[y].written < row'[x].written
         /\ \A x \in Ids : Current(x)' => x \notin X /\ Current(x)
         /\ \A c, o \in Ids : Settled(c, o) => Settled(c, o)'
         /\ phase' = phase /\ SnapInv => SnapInv'
         /\ NoPairSkipped => NoPairSkipped'
<1>1. t = clock + 1 /\ clock \in Nat /\ clock' = t /\ watermark \in Nat
  BY DEF Stamps, TypeOK, Rewrites, Written
<1>2. \A x \in Ids : row[x].written \in Nat /\ snap[x].written \in Nat
  BY DEF TypeOK, Row
<1>3. Bounds'
  BY <1>1, <1>2 DEF Bounds, Rewrites
<1>4. \A x \in X : /\ row'[x].written > watermark
                  /\ \A y \in Ids : snap[y].written < row'[x].written
  BY <1>1, <1>2 DEF Bounds, Rewrites
<1>5. \A x \in Ids : Current(x)' => x \notin X /\ Current(x)
  <2>1. ASSUME NEW x \in X PROVE row'[x] # snap[x]
    <3>1. snap[x].written < row'[x].written /\ snap[x].written \in Nat
      BY <1>2, <1>4
    <3>2. ~(snap[x].written < snap[x].written)
      BY <3>1
    <3> QED BY <3>1, <3>2, Zenon
  <2> QED BY <2>1 DEF Current, Rewrites
<1>6. \A c, o \in Ids : Settled(c, o) => Settled(c, o)'
  <2>1. \A p \in compared : p \intersect X = {} => p \in compared'
    BY DEF Rewrites, Written
  <2> QED BY <1>5, <2>1 DEF Settled
<1>7. \A x \in Ids \ X : x \in Active' => x \in Active /\ row'[x] = row[x]
  BY DEF Active, Rewrites
<1>8. phase' = phase /\ SnapInv => SnapInv'
  BY <1>4, <1>7 DEF SnapInv, Active
<1>9. NoPairSkipped => NoPairSkipped'
  <2> SUFFICES ASSUME NoPairSkipped, NEW x \in Active', NEW y \in Active', x # y,
                      row'[x].written <= watermark, row'[y].written <= watermark
               PROVE  {x, y} \in compared'
    BY DEF NoPairSkipped
  <2>1. x \in Ids \ X /\ y \in Ids \ X
    <3>1. x \in Ids /\ y \in Ids
      BY DEF Active
    <3>2. \A z \in X : row'[z].written = t
      BY DEF Rewrites
    <3>3. ~(t <= watermark)
      BY <1>1 DEF Bounds
    <3> QED BY <3>1, <3>2, <3>3, Zenon
  <2>2. {x, y} \in compared
    BY <1>7, <2>1 DEF NoPairSkipped
  <2> QED BY <2>1, <2>2 DEF Rewrites, Written
<1> QED BY <1>3, <1>4, <1>5, <1>6, <1>8, <1>9

LEMMA MergedIsStale == TypeOK /\ MergedInv => \A x \in merged : ~Current(x)
<1> SUFFICES ASSUME TypeOK, MergedInv, NEW x \in merged PROVE row[x] # snap[x]
  BY DEF Current
<1>1. row[x].written > snap[x].written /\ snap[x].written \in Nat
  BY DEF TypeOK, MergedInv, Row
<1>2. ~(snap[x].written > snap[x].written)
  BY <1>1
<1> QED BY <1>1, <1>2, Zenon

LEMMA LoopNext == TypeOK /\ LoopInv /\ [Next]_vars => LoopInv'
<1> SUFFICES ASSUME TypeOK, LoopInv, [Next]_vars PROVE LoopInv'
  OBVIOUS
<1>1. CASE UNCHANGED runVars /\ UNCHANGED watermark
  BY <1>1 DEF LoopInv, runVars
<1>2. CASE StartSweep
  BY <1>2 DEF StartSweep, LoopInv, Active, Blank
<1>3. CASE Reset
  BY <1>3 DEF Reset, LoopInv
<1>4. CASE AdvanceWatermark
  BY <1>4 DEF AdvanceWatermark, LoopInv
<1>5. ASSUME phase = "sweep", UNCHANGED <<phase, snap, cands, watermark>> PROVE LoopInv'
  BY <1>5 DEF LoopInv
<1>6. CASE Write
  BY <1>1, <1>6, WriteRewrites
<1>7. CASE RunStep
  <2>1. ASSUME NEW c \in todo, TakeCandidate(c) \/ BudgetExhausted(c) PROVE LoopInv'
    BY <1>5, <2>1 DEF TakeCandidate, BudgetExhausted
  <2>2. ASSUME NEW o \in others, NEW t \in Stamps, KeepBoth(o) \/ Merge(o, t) PROVE LoopInv'
    BY <1>5, <2>2 DEF KeepBoth, Merge, LoopInv
  <2>3. ASSUME NEW o \in others, KeepBoth(o) PROVE LoopInv'
    BY <1>5, <2>3 DEF KeepBoth, LoopInv
  <2>4. CASE FinishCandidate
    BY <1>5, <2>4 DEF FinishCandidate, LoopInv
  <2>5. ASSUME NEW F \in SUBSET Recent, FeedStaleness(F) PROVE LoopInv'
    BY <2>5 DEF FeedStaleness, LoopInv
  <2>6. ASSUME NEW D \in SUBSET Active, NEW P \in SUBSET (Active \ D), NEW t \in Stamps,
               FinishRun(D, P, t)
        PROVE  LoopInv'
    BY <1>3, <2>6 DEF FinishRun
  <2> QED BY <1>2, <1>4, <1>7, <2>1, <2>2, <2>3, <2>4, <2>5, <2>6 DEF RunStep
<1>8. CASE Failure
  <2>1. CASE RunFails
    BY <1>3, <2>1 DEF RunFails
  <2>2. ASSUME NEW o \in others, MergeThrows(o) PROVE LoopInv'
    BY <1>5, <2>2 DEF MergeThrows, LoopInv
  <2>3. CASE FeedThrows
    BY <2>3 DEF FeedThrows, LoopInv
  <2> QED BY <1>8, <2>1, <2>2, <2>3 DEF Failure
<1> QED BY <1>1, <1>6, <1>7, <1>8 DEF Next, vars

Kept == Bounds /\ SnapInv /\ MergedInv /\ SortInv /\ DoneInv /\ NoPairSkipped

(* The invariant without its types, step by step.  LoopNext has LoopInv.   *)
LEMMA SweepWrite ==
  ASSUME TypeOK, LoopInv, Kept, ~Late, Write PROVE Kept'
<1>1. UNCHANGED <<watermark, runVars, fails>>
  BY WriteRewrites
<1>2. PICK x \in Ids, t \in Stamps : Rewrites({x}, t)
  BY WriteRewrites
<1>3. snap' = snap /\ watermark' = watermark /\ phase' = phase /\ merged' = merged
      /\ cands' = cands /\ todo' = todo /\ current' = current /\ others' = others
      /\ failed' = failed /\ unswept' = unswept
  BY <1>1 DEF runVars
<1>4. {x} \in SUBSET Ids
  OBVIOUS
<1>5. Bounds' /\ SnapInv' /\ NoPairSkipped'
  BY <1>2, <1>3, <1>4, RewritesKeep DEF Kept
<1>6. \A c, o \in Ids : Settled(c, o) => Settled(c, o)'
  BY <1>2, <1>3, <1>4, RewritesKeep DEF Kept
<1>7. MergedInv'
  <2>1. \A y \in Ids : snap[y].written < row'[x].written
    BY <1>2, <1>3, <1>4, RewritesKeep DEF Kept
  <2>2. \A y \in Ids \ {x} : row'[y] = row[y]
    BY <1>2 DEF Rewrites
  <2> QED BY <1>3, <2>1, <2>2 DEF Kept, MergedInv, TypeOK
<1>8. SortInv'
  BY <1>3 DEF Kept, SortInv
<1>9. DoneInv'
  <2>1. \A c \in Ids, S \in SUBSET Ids : SettledWith(c, S) => SettledWith(c, S)'
    BY <1>3, <1>6 DEF SettledWith
  <2>2. cands \subseteq Ids /\ (current # 0 => current \in Ids)
    BY DEF TypeOK
  <2>3. SettledWith(current, Ids \ others) /\ current # 0 => SettledWith(current, Ids \ others)'
    BY <1>3, <1>6, <2>2 DEF SettledWith
  <2>4. \A c \in cands : SettledWith(c, Ids) => SettledWith(c, Ids)'
    BY <1>3, <1>6, <2>2 DEF SettledWith
  <2> QED BY <1>3, <2>3, <2>4 DEF Kept, DoneInv
<1> QED BY <1>5, <1>7, <1>8, <1>9 DEF Kept

LEMMA SweepSteps ==
  ASSUME TypeOK, LoopInv, Kept, ~Late, RunStep \/ Failure PROVE Kept'
<1> USE DEF Kept
<1>0. /\ \A x \in Ids : row[x] \in Row /\ row[x].written \in Nat
                        /\ snap[x] \in Row /\ snap[x].written \in Nat
      /\ 0 \notin Ids /\ cands \subseteq Ids /\ todo \subseteq cands /\ others \subseteq Ids
      /\ merged \subseteq Ids /\ current \in cands \union {0}
      /\ clock \in Nat /\ watermark \in Nat /\ unswept \in Nat
  <2>1. 0 \notin Ids
    OBVIOUS
  <2>2. \A x \in Ids : /\ row[x] \in Row /\ row[x].written \in Nat
                      /\ snap[x] \in Row /\ snap[x].written \in Nat
    BY DEF TypeOK, Row
  <2> QED BY <2>1, <2>2 DEF TypeOK
<1>1. CASE StartSweep
  <2>1. Bounds' /\ MergedInv'
    BY <1>0, <1>1, BlankRow DEF StartSweep, Bounds, MergedInv
  <2>2. SnapInv'
    BY <1>1 DEF StartSweep, SnapInv, Active
  <2>3. SortInv' /\ DoneInv'
    BY <1>1 DEF StartSweep, SortInv, DoneInv
  <2>4. NoPairSkipped'
    BY <1>1 DEF StartSweep, NoPairSkipped, Active
  <2> QED BY <2>1, <2>2, <2>3, <2>4
<1>2. ASSUME NEW c \in todo, TakeCandidate(c) PROVE Kept'
  <2>1. Bounds' /\ SnapInv' /\ MergedInv' /\ NoPairSkipped'
    BY <1>2 DEF TakeCandidate, Bounds, SnapInv, MergedInv, NoPairSkipped, Active
  <2>2. SortInv'
    BY <1>0, <1>2 DEF TakeCandidate, First, SortInv
  <2>3. SettledWith(c, Ids \ others)'
    <3>1. \A x \in merged : ~Current(x)'
      BY <1>2, MergedIsStale DEF TakeCandidate, Current
    <3>2. ASSUME NEW o \in (Ids \ others') \ {c}, snap[o].status = "active"
          PROVE  Settled(c, o)'
      <4>1. c \in merged \/ o \in merged
        BY <1>2, <3>2 DEF TakeCandidate
      <4> QED BY <3>1, <4>1 DEF Settled
    <3> QED BY <1>2, <3>2 DEF TakeCandidate, SettledWith
  <2>4. DoneInv'
    <3>1. ASSUME NEW d \in cands, d \notin todo' \union {c},
                 unswept = 0 \/ snap[d].written < unswept
          PROVE  SettledWith(d, Ids)
      BY <1>0, <1>2, <3>1 DEF TakeCandidate, DoneInv
    <3>2. \A d : SettledWith(d, Ids) => SettledWith(d, Ids)'
      BY <1>2 DEF TakeCandidate, SettledWith, Settled, Current
    <3> QED BY <1>2, <2>3, <3>1, <3>2 DEF TakeCandidate, DoneInv
  <2> QED BY <2>1, <2>2, <2>4
<1>3. ASSUME NEW c \in todo, BudgetExhausted(c) PROVE Kept'
  <2>1. Bounds' /\ SnapInv' /\ MergedInv' /\ NoPairSkipped'
    BY <1>3 DEF BudgetExhausted, Bounds, SnapInv, MergedInv, NoPairSkipped, Active
  <2>2. SortInv'
    BY <1>3 DEF BudgetExhausted, SortInv
  <2>3. DoneInv'
    <3>1. snap[c].written > 0 /\ unswept' # 0 /\ unswept' <= snap[c].written
      BY <1>0, <1>3 DEF BudgetExhausted, LoopInv, SortInv, FirstUnswept
    <3>2. ASSUME NEW d \in cands, snap[d].written < unswept' PROVE d \notin todo
      <4>1. d \in todo => snap[c].written <= snap[d].written
        BY <1>3 DEF BudgetExhausted, First
      <4>2. unswept' \in Nat /\ snap[c].written \in Nat /\ snap[d].written \in Nat
        BY <1>0, <1>3 DEF BudgetExhausted, FirstUnswept
      <4> QED BY <3>1, <3>2, <4>1, <4>2
    <3>3. ASSUME NEW d \in cands, snap[d].written < unswept'
          PROVE  unswept = 0 \/ snap[d].written < unswept
      BY <1>3, <3>3 DEF BudgetExhausted, FirstUnswept
    <3> QED BY <1>3, <3>1, <3>2, <3>3 DEF BudgetExhausted, DoneInv, SettledWith, Settled, Current
  <2> QED BY <2>1, <2>2, <2>3
<1>4. ASSUME NEW o \in others, KeepBoth(o) PROVE Kept'
  <2>1. Bounds' /\ SnapInv' /\ MergedInv' /\ SortInv'
    BY <1>4 DEF KeepBoth, Bounds, SnapInv, MergedInv, SortInv, Active
  <2>2. compared \subseteq compared' /\ (Current(current) /\ Current(o) => {current, o} \in compared')
    BY <1>4 DEF KeepBoth
  <2>3. NoPairSkipped'
    BY <1>4, <2>2 DEF KeepBoth, NoPairSkipped, Active
  <2>4. \A x, y \in Ids : Settled(x, y) => Settled(x, y)'
    BY <1>4, <2>2 DEF KeepBoth, Settled, Current
  <2>5. Settled(current, o)'
    BY <1>4, <2>2 DEF KeepBoth, Settled, Current
  <2>6. DoneInv'
    BY <1>0, <1>4, <2>4, <2>5 DEF KeepBoth, DoneInv, SettledWith
  <2> QED BY <2>1, <2>3, <2>6
<1>5. ASSUME NEW o \in others, NEW t \in Stamps, Merge(o, t) PROVE Kept'
  <2>1. PICK old \in Ids, new \in Ids : /\ old = Older(current, o) /\ new = Newer(current, o)
                                      /\ {old, new} = {current, o}
    BY <1>5, MergeRewrites
  <2>2. /\ Rewrites({old, new}, t) /\ {old, new} \in SUBSET Ids
        /\ snap' = snap /\ watermark' = watermark
    BY <1>5, <2>1, MergeRewrites DEF Merge
  <2>3. Bounds' /\ SnapInv' /\ NoPairSkipped'
    BY <1>5, <2>2, RewritesKeep DEF Merge
  <2>4. \A x \in {old, new}, y \in Ids : snap[y].written < row'[x].written
    BY <2>2, RewritesKeep
  <2>5. \A x, y \in Ids : Settled(x, y) => Settled(x, y)'
    BY <2>2, RewritesKeep
  <2>6. ~Current(current)'
    <3>1. current \in Ids /\ current \in {old, new}
      BY <1>0, <1>5, <2>1 DEF Merge
    <3>2. \A x \in Ids : Current(x)' => x \notin {old, new}
      BY <2>2, RewritesKeep
    <3> QED BY <1>5, <3>1, <3>2 DEF Merge, Current
  <2>7. MergedInv'
    <3>1. \A y \in Ids \ {old, new} : row'[y] = row[y]
      BY <2>2 DEF Rewrites
    <3>2. merged' = merged \union {old}
      BY <1>5, <2>1 DEF Merge
    <3> QED BY <1>0, <2>2, <2>4, <3>1, <3>2 DEF MergedInv
  <2>8. SortInv'
    BY <1>5 DEF Merge, SortInv
  <2>9. DoneInv'
    BY <1>0, <1>5, <2>5, <2>6 DEF Merge, DoneInv, SettledWith, Settled
  <2> QED BY <2>3, <2>7, <2>8, <2>9
<1>6. CASE FinishCandidate
  <2>1. Bounds' /\ SnapInv' /\ MergedInv' /\ NoPairSkipped'
    BY <1>6 DEF FinishCandidate, Bounds, SnapInv, MergedInv, NoPairSkipped, Active
  <2>2. /\ current \in cands /\ snap[current].written > 0
        /\ unswept # 0 => unswept <= snap[current].written
    BY <1>0, <1>6 DEF FinishCandidate, LoopInv, SortInv
  <2>3. SortInv'
    BY <1>0, <1>6, <2>2 DEF FinishCandidate, SortInv, FirstUnswept
  <2>4. ASSUME NEW c \in cands \ todo, phase = "sweep",
               unswept' = 0 \/ snap[c].written < unswept'
        PROVE  SettledWith(c, Ids)
    <3>1. CASE c = current
      <4>1. ~failed
        BY <1>6, <2>2, <2>4, <3>1, <1>0 DEF FinishCandidate, FirstUnswept
      <4> QED BY <1>6, <2>4, <3>1, <4>1 DEF FinishCandidate, DoneInv, SettledWith
    <3>2. CASE c # current
      <4>1. unswept = 0 \/ snap[c].written < unswept
        BY <1>6, <2>4 DEF FinishCandidate, FirstUnswept
      <4> QED BY <2>4, <3>2, <4>1 DEF DoneInv
    <3> QED BY <3>1, <3>2
  <2>5. DoneInv'
    BY <1>6, <2>4 DEF FinishCandidate, DoneInv, SettledWith, Settled, Current
  <2> QED BY <2>1, <2>3, <2>5
<1>7. CASE AdvanceWatermark
  <2>1. /\ row' = row /\ snap' = snap /\ clock' = clock /\ merged' = merged /\ todo = {} /\ todo' = {}
        /\ current = 0 /\ current' = 0 /\ phase = "sweep" /\ phase' \in {"swept", "fed"}
        /\ compared' = compared
    BY <1>7 DEF AdvanceWatermark
  <2>2. MergedInv' /\ SortInv' /\ DoneInv'
    BY <2>1 DEF MergedInv, SortInv, DoneInv
  <2>3. CASE watermark' = watermark
    BY <2>1, <2>2, <2>3 DEF Bounds, SnapInv, NoPairSkipped, Active
  <2>4. ASSUME NEW m \in Swept, watermark' = snap[m].written PROVE Kept'
    <3>1. m \in Ids /\ m \in cands /\ (unswept = 0 \/ snap[m].written < unswept)
      BY <1>0 DEF Swept
    <3>2. Bounds'
      BY <2>1, <2>4, <3>1 DEF Bounds
    <3>3. SnapInv'
      BY <2>1, <2>4, <3>1 DEF SnapInv, Active
    <3>4. \A x \in Active : row[x].written <= watermark' => row[x] = snap[x]
      BY <1>0, <2>1, <2>4, <3>1 DEF SnapInv, Active
    <3>5. ASSUME NEW a \in Active, NEW b \in Active, a # b, row[a] = snap[a], row[b] = snap[b],
                 row[a].written <= watermark', row[a].written > watermark
          PROVE  {a, b} \in compared
      <4>1. a \in Ids /\ b \in Ids /\ snap[a].status = "active" /\ snap[b].status = "active"
        BY <3>5 DEF Active
      <4>2. a \in cands
        BY <2>1, <3>5, <4>1 DEF LoopInv
      <4>3. unswept = 0 \/ snap[a].written < unswept
        BY <1>0, <2>4, <3>1, <3>5, <4>1
      <4>4. SettledWith(a, Ids)
        BY <1>0, <2>1, <4>2, <4>3 DEF DoneInv
      <4> QED BY <3>5, <4>1, <4>4 DEF SettledWith, Settled, Current
    <3>6. NoPairSkipped'
      <4> SUFFICES ASSUME NEW x \in Active, NEW y \in Active, x # y,
                          row[x].written <= watermark', row[y].written <= watermark'
                   PROVE  {x, y} \in compared
        BY <2>1 DEF NoPairSkipped, Active
      <4>1. row[x] = snap[x] /\ row[y] = snap[y]
        BY <3>4
      <4>2. CASE row[x].written > watermark
        BY <3>5, <4>1, <4>2
      <4>3. CASE row[y].written > watermark
        <5>1. {y, x} \in compared
          BY <3>5, <4>1, <4>3
        <5>2. {y, x} = {x, y}
          OBVIOUS
        <5> QED BY <5>1, <5>2
      <4>4. row[x].written \in Nat /\ row[y].written \in Nat
        BY <1>0 DEF Active
      <4>5. CASE row[x].written <= watermark /\ row[y].written <= watermark
        BY <4>5 DEF NoPairSkipped
      <4> QED BY <1>0, <4>2, <4>3, <4>4, <4>5
    <3> QED BY <2>2, <3>2, <3>3, <3>6
  <2> QED BY <1>7, <2>3, <2>4 DEF AdvanceWatermark
<1>8. ASSUME NEW F \in SUBSET Recent, FeedStaleness(F) PROVE Kept'
  <2>1. Bounds' /\ SnapInv' /\ MergedInv' /\ SortInv' /\ NoPairSkipped'
    BY <1>8 DEF FeedStaleness, Bounds, SnapInv, MergedInv, SortInv, NoPairSkipped, Active
  <2> QED BY <1>8, <2>1 DEF FeedStaleness, DoneInv
<1>9. CASE Reset /\ Bounds' /\ NoPairSkipped'
  BY <1>9 DEF Reset, SnapInv, MergedInv, SortInv, DoneInv
<1>10. ASSUME NEW D \in SUBSET Active, NEW P \in SUBSET (Active \ D), NEW t \in Stamps,
              FinishRun(D, P, t)
       PROVE  Kept'
  <2>1. t = clock + 1
    BY DEF Stamps
  <2>2. \A x \in Ids : \/ x \in D /\ row'[x].status = "inactive" /\ row'[x].written = row[x].written
                       \/ x \in P /\ row'[x].written = t
                       \/ x \notin D \union P /\ row'[x] = row[x]
    BY <1>0, <1>10, <2>1, Pruned, Stamped DEF FinishRun
  <2>3. \/ P = {} /\ clock' = clock /\ compared' = compared
        \/ P # {} /\ clock' = t /\ compared' = {p \in compared : p \intersect P = {}}
    BY <1>10 DEF FinishRun, Written
  <2>4. Bounds'
    BY <1>0, <1>10, <2>1, <2>2, <2>3, BlankRow DEF Bounds, FinishRun, Reset
  <2>5. NoPairSkipped'
    <3> SUFFICES ASSUME NEW x \in Active', NEW y \in Active', x # y,
                        row'[x].written <= watermark, row'[y].written <= watermark
                 PROVE  {x, y} \in compared'
      BY <1>10 DEF NoPairSkipped, FinishRun
    <3>1. ASSUME NEW z \in Active', row'[z].written <= watermark
          PROVE  z \in Active \ P /\ row'[z] = row[z]
      <4>1. z \in Ids /\ row'[z].status = "active"
        BY DEF Active
      <4>2. z \notin D
        BY <2>2, <4>1
      <4>3. ~(t <= watermark)
        BY <1>0, <2>1 DEF Bounds
      <4>4. z \notin P
        BY <2>2, <3>1, <4>1, <4>2, <4>3
      <4> QED BY <2>2, <4>1, <4>2, <4>4 DEF Active
    <3>2. x \in Active \ P /\ y \in Active \ P /\ row'[x] = row[x] /\ row'[y] = row[y]
      BY <3>1
    <3>3. {x, y} \in compared
      BY <3>2 DEF NoPairSkipped
    <3>4. {x, y} \intersect P = {}
      BY <3>2
    <3> QED BY <2>3, <3>3, <3>4
  <2> QED BY <1>9, <1>10, <2>4, <2>5 DEF FinishRun
<1>11. CASE RunFails
  <2>1. Bounds' /\ NoPairSkipped'
    BY <1>0, <1>11, BlankRow DEF RunFails, Reset, Bounds, NoPairSkipped, Active
  <2> QED BY <1>9, <1>11, <2>1 DEF RunFails
<1>12. ASSUME NEW o \in others, MergeThrows(o) PROVE Kept'
  <2>1. Bounds' /\ SnapInv' /\ MergedInv' /\ SortInv' /\ NoPairSkipped'
    BY <1>12 DEF MergeThrows, Bounds, SnapInv, MergedInv, SortInv, NoPairSkipped, Active
  <2> QED BY <1>12, <2>1 DEF MergeThrows, DoneInv, SettledWith, Settled, Current
<1>13. CASE FeedThrows
  <2>1. Bounds' /\ SnapInv' /\ MergedInv' /\ SortInv' /\ NoPairSkipped'
    BY <1>13 DEF FeedThrows, Bounds, SnapInv, MergedInv, SortInv, NoPairSkipped, Active
  <2> QED BY <1>13, <2>1 DEF FeedThrows, DoneInv
<1> HIDE DEF Kept
<1> QED BY <1>1, <1>2, <1>3, <1>4, <1>5, <1>6, <1>7, <1>8, <1>10, <1>11, <1>12, <1>13
        DEF RunStep, Failure

KeptInv == TypeOK /\ LoopInv /\ Kept

LEMMA KeptInit == Init => KeptInv
<1>1. Init => TypeOK
  BY TypeInit
<1>2. Init => LoopInv /\ MergedInv /\ SnapInv /\ SortInv /\ DoneInv
  BY DEF Init, LoopInv, MergedInv, SnapInv, SortInv, DoneInv
<1>3. Init => Bounds /\ NoPairSkipped
  BY BlankRow DEF Init, Bounds, NoPairSkipped, Active
<1> QED BY <1>1, <1>2, <1>3 DEF KeptInv, Kept

LEMMA KeptNext == ~Late /\ KeptInv /\ [Next]_vars => KeptInv'
<1> SUFFICES ASSUME ~Late, TypeOK, LoopInv, Kept, [Next]_vars PROVE (TypeOK /\ LoopInv /\ Kept)'
  BY DEF KeptInv
<1>1. CASE UNCHANGED vars
  BY <1>1 DEF vars, runVars, TypeOK, LoopInv, Kept, Bounds, SnapInv, MergedInv, SortInv,
              DoneInv, SettledWith, Settled, Current, NoPairSkipped, Active
<1>2. CASE Next
  BY <1>2, TypeWrite, TypeRun, LoopNext, SweepWrite, SweepSteps DEF Next
<1> QED BY <1>1, <1>2

(* No pair of active memories is lost below the watermark, as long as      *)
(* every write carries a later timestamp than the ones before it.          *)
THEOREM NoPairLost == ~Late /\ Spec => []NoPairSkipped
<1> SUFFICES ASSUME ~Late PROVE Spec => []NoPairSkipped
  OBVIOUS
<1>1. KeptInv /\ [Next]_vars => KeptInv'
  BY KeptNext
<1>2. KeptInv => NoPairSkipped
  BY DEF KeptInv, Kept
<1> QED BY KeptInit, <1>1, <1>2, PTL DEF Spec

(* A memory fed to the staleness pass is behind the watermark, whatever    *)
(* the clock does: the watermark never moves back and a write takes the    *)
(* memory out of the fed ones.                                             *)
THEOREM FedIsBehind == Spec => []FedIsBehindWatermark
<1>1. Init => TypeOK /\ LoopInv /\ FedIsBehindWatermark
  BY TypeInit DEF Init, LoopInv, FedIsBehindWatermark
<1>2. TypeOK /\ LoopInv /\ FedIsBehindWatermark /\ [Next]_vars => FedIsBehindWatermark'
  <2> SUFFICES ASSUME TypeOK, LoopInv, FedIsBehindWatermark, [Next]_vars
               PROVE  FedIsBehindWatermark'
    OBVIOUS
  <2>0. /\ \A x \in Ids : row[x] \in Row /\ row[x].written \in Nat /\ snap[x].written \in Nat
        /\ watermark \in Nat /\ cands \subseteq Ids /\ fed \subseteq Ids
    BY DEF TypeOK, Row
  <2>1. CASE UNCHANGED <<row, watermark, fed>>
    BY <2>1 DEF FedIsBehindWatermark
  <2>2. ASSUME NEW X \in SUBSET Ids, NEW t, Rewrites(X, t), UNCHANGED watermark
        PROVE  FedIsBehindWatermark'
    BY <2>0, <2>2 DEF Rewrites, Written, FedIsBehindWatermark
  <2>3. CASE Write
    <3>1. PICK x \in Ids, t \in Stamps : Rewrites({x}, t)
      BY <2>3, WriteRewrites
    <3> QED BY <2>2, <2>3, <3>1, WriteRewrites
  <2>4. ASSUME NEW o \in others, NEW t \in Stamps, Merge(o, t) PROVE FedIsBehindWatermark'
    <3>1. {Older(current, o), Newer(current, o)} \in SUBSET Ids
      BY <2>4, MergeRewrites
    <3> QED BY <2>2, <2>4, <3>1, MergeRewrites DEF Merge
  <2>5. CASE AdvanceWatermark
    <3>1. watermark <= watermark'
      BY <2>0, <2>5 DEF AdvanceWatermark, Swept, LoopInv
    <3>2. watermark' \in Nat
      BY <2>0, <2>5 DEF AdvanceWatermark, Swept
    <3> QED BY <2>0, <2>5, <3>1, <3>2 DEF AdvanceWatermark, FedIsBehindWatermark
  <2>6. ASSUME NEW F \in SUBSET Recent, FeedStaleness(F) PROVE FedIsBehindWatermark'
    BY <2>6 DEF FeedStaleness, Recent, PresentOf, Current, FedIsBehindWatermark
  <2>7. ASSUME NEW D \in SUBSET Active, NEW P \in SUBSET (Active \ D), NEW t \in Stamps,
               FinishRun(D, P, t)
        PROVE  FedIsBehindWatermark'
    <3>1. \A x \in Ids : row'[x].written = row[x].written \/ x \in P
      BY <2>0, <2>7, Pruned DEF FinishRun
    <3>2. fed' \subseteq fed \ P
      BY <2>7 DEF FinishRun, Written
    <3> QED BY <2>0, <2>7, <3>1, <3>2 DEF FinishRun, FedIsBehindWatermark
  <2>8. CASE RunStep
    <3>1. \/ \E o \in others, t \in Stamps : Merge(o, t)
          \/ AdvanceWatermark
          \/ \E F \in SUBSET Recent : FeedStaleness(F)
          \/ \E D \in SUBSET Active, t \in Stamps :
               \E P \in SUBSET (Active \ D) : FinishRun(D, P, t)
          \/ UNCHANGED <<row, watermark, fed>>
      BY <2>8 DEF RunStep, StartSweep, TakeCandidate, BudgetExhausted, KeepBoth, FinishCandidate
    <3> QED BY <2>1, <2>4, <2>5, <2>6, <2>7, <3>1
  <2>9. CASE Failure
    BY <2>1, <2>9 DEF Failure, RunFails, FeedThrows, MergeThrows
  <2> QED BY <2>1, <2>3, <2>8, <2>9 DEF Next, vars
<1>3. TypeOK /\ LoopInv /\ [Next]_vars => TypeOK' /\ LoopInv'
  <2>1. TypeOK /\ UNCHANGED vars => TypeOK'
    BY DEF vars, runVars, TypeOK
  <2> QED BY <2>1, TypeWrite, TypeRun, LoopNext DEF Next
<1> QED BY <1>1, <1>2, <1>3, PTL DEF Spec

-----------------------------------------------------------------------------
(***************************************************************************)
(* What the watermark passes is fed.  When it moves over the swept         *)
(* candidates, every active row it passes is one of them and as it was in  *)
(* the snapshot (SnapInv), so it is not a merged one and among the recent; *)
(* the feed then splits the recent ones into fed and missed.               *)
(***************************************************************************)
LEMMA FeedSteps ==
  ASSUME TypeOK, LoopInv, Kept, SweptRowsAreFed, ~Late, [Next]_vars
  PROVE  SweptRowsAreFed'
<1> DEFINE Safe == fed \union missed \union AboutToBeFed
<1>0. /\ \A x \in Ids : /\ row[x].written \in Nat /\ snap[x].written \in Nat
      /\ clock \in Nat /\ watermark \in Nat /\ cands \subseteq Ids
      /\ watermark <= clock
  BY DEF TypeOK, Row, Kept, Bounds
(* Nothing written moves: the rows below the watermark are those of before *)
<1>1. ASSUME UNCHANGED <<row, watermark>>, Safe \subseteq Safe' PROVE SweptRowsAreFed'
  BY <1>1 DEF SweptRowsAreFed, Active
(* The rows of X get a timestamp ahead of the watermark                    *)
<1>2. ASSUME NEW X \in SUBSET Ids, NEW t \in Stamps, watermark' = watermark,
             \A x \in X : row'[x].written = t,
             \A x \in Ids \ X : x \in Active' =>
               x \in Active /\ row'[x] = row[x] /\ (x \in Safe => x \in Safe')
      PROVE  SweptRowsAreFed'
  <2>1. \A x \in Ids : row'[x].written <= watermark => x \notin X
    BY <1>0, <1>2 DEF Stamps
  <2> QED BY <1>2, <2>1 DEF SweptRowsAreFed, Active
<1>3. CASE UNCHANGED vars
  BY <1>1, <1>3 DEF vars, runVars, AboutToBeFed, PresentOf, Recent, Current
<1>4. CASE Write
  <2>1. PICK x \in Ids, t \in Stamps : Rewrites({x}, t)
    BY <1>4, WriteRewrites
  <2>2. UNCHANGED <<watermark, phase, snap, cands, merged>>
    BY <1>4, WriteRewrites DEF runVars
  <2>3. \A y \in Ids \ {x} : y \in PresentOf(Recent) => y \in PresentOf(Recent)'
    BY <2>1, <2>2 DEF Rewrites, PresentOf, Recent, Current
  <2>4. \A y \in Ids \ {x} : y \in AboutToBeFed => y \in AboutToBeFed'
    BY <2>2, <2>3 DEF AboutToBeFed
  <2>5. \A y \in Ids \ {x} : row'[y] = row[y] /\ (y \in Safe => y \in Safe')
    BY <2>1, <2>4 DEF Rewrites, Written
  <2>6. \A y \in Ids \ {x} : y \in Active' => y \in Active
    BY <2>5 DEF Active
  <2>7. row'[x].written = t /\ {x} \in SUBSET Ids /\ watermark' = watermark
    BY <2>1, <2>2 DEF Rewrites
  <2> QED BY <1>2, <2>5, <2>6, <2>7
<1>5. ASSUME NEW o \in others, NEW t \in Stamps, Merge(o, t) PROVE SweptRowsAreFed'
  <2>1. PICK X \in SUBSET Ids : Rewrites(X, t)
    <3>1. {Older(current, o), Newer(current, o)} \in SUBSET Ids
      BY <1>5, MergeRewrites
    <3> QED BY <1>5, <3>1, MergeRewrites
  <2>2. phase = "sweep" /\ phase' = phase /\ watermark' = watermark
    BY <1>5 DEF Merge, LoopInv
  <2>3. \A y \in Ids \ X : row'[y] = row[y] /\ (y \in Safe => y \in Safe')
    BY <2>1, <2>2 DEF Rewrites, Written, AboutToBeFed
  <2> QED BY <1>2, <2>1, <2>2, <2>3 DEF Rewrites, Active
<1>6. CASE AdvanceWatermark
  <2>1. /\ phase = "sweep" /\ AboutToBeFed = {}
        /\ UNCHANGED <<row, snap, cands, merged, fed, missed>>
    BY <1>6 DEF AdvanceWatermark, AboutToBeFed
  <2>2. CASE watermark' = watermark
    BY <1>1, <2>1, <2>2
  <2>3. ASSUME NEW m \in Swept, watermark' = snap[m].written, phase' = "swept"
        PROVE  SweptRowsAreFed'
    <3> SUFFICES ASSUME NEW x \in Active, row[x].written <= watermark',
                        row[x].written > watermark
                 PROVE  x \in AboutToBeFed'
      BY <1>0, <2>1, <2>3 DEF SweptRowsAreFed, Active
    <3>1. x \in Ids /\ m \in Ids
      BY <1>0 DEF Active, Swept
    <3>2. row[x] = snap[x]
      BY <1>0, <2>1, <2>3, <3>1 DEF Kept, SnapInv
    <3>3. x \in cands
      BY <2>1, <3>1, <3>2 DEF LoopInv, Active
    <3>4. x \notin merged
      BY <3>2, MergedIsStale DEF Kept, Current
    <3>5. Current(x)' /\ snap'[x].written <= watermark'
      BY <2>1, <3>2 DEF Current
    <3> QED BY <2>1, <2>3, <3>3, <3>4, <3>5 DEF AboutToBeFed, PresentOf, Recent
  <2> QED BY <1>6, <2>2, <2>3 DEF AdvanceWatermark
<1>7. ASSUME NEW F \in SUBSET Recent, FeedStaleness(F) PROVE SweptRowsAreFed'
  <2>1. PresentOf(Recent) = PresentOf(F) \union PresentOf(Recent \ F)
    BY DEF PresentOf
  <2> QED BY <1>1, <1>7, <2>1 DEF FeedStaleness, AboutToBeFed
<1>8. ASSUME NEW D \in SUBSET Active, NEW P \in SUBSET (Active \ D), NEW t \in Stamps,
             FinishRun(D, P, t)
      PROVE  SweptRowsAreFed'
  <2>1. \A x \in Ids : /\ x \in P => row'[x].written = t
                       /\ x \in D => row'[x].status = "inactive"
                       /\ x \notin D \union P => row'[x] = row[x]
    BY <1>8, Stamped, Pruned, StampsInNat DEF FinishRun, TypeOK, Active
  <2>2. /\ watermark' = watermark /\ AboutToBeFed = {}
        /\ fed \ P \subseteq fed' /\ missed \ P \subseteq missed'
    BY <1>8 DEF FinishRun, Written, AboutToBeFed
  <2>3. P \in SUBSET Ids
    BY DEF Active
  <2>4. \A x \in Ids \ P : x \in Active' => x \in Active /\ row'[x] = row[x]
    BY <2>1 DEF Active
  <2>5. \A x \in Ids \ P : x \in Safe => x \in Safe'
    BY <2>2
  <2> QED BY <1>2, <2>1, <2>2, <2>3, <2>4, <2>5
<1>9. CASE RunFails \/ FeedThrows
  BY <1>1, <1>9 DEF RunFails, FeedThrows, Reset, AboutToBeFed
<1>10. ASSUME UNCHANGED <<row, watermark, fed, missed>>, phase # "swept" PROVE SweptRowsAreFed'
  BY <1>1, <1>10 DEF AboutToBeFed
<1>11. ASSUME NEW o \in others, MergeThrows(o) PROVE SweptRowsAreFed'
  BY <1>10, <1>11 DEF MergeThrows, LoopInv
<1>12. CASE RunStep
  <2>1. \/ \E o \in others, t \in Stamps : Merge(o, t)
        \/ AdvanceWatermark
        \/ \E F \in SUBSET Recent : FeedStaleness(F)
        \/ \E D \in SUBSET Active, t \in Stamps :
             \E P \in SUBSET (Active \ D) : FinishRun(D, P, t)
        \/ UNCHANGED <<row, watermark, fed, missed>> /\ phase # "swept"
    BY <1>12 DEF RunStep, StartSweep, TakeCandidate, BudgetExhausted, KeepBoth,
                 FinishCandidate, LoopInv
  <2> QED BY <1>5, <1>6, <1>7, <1>8, <1>10, <2>1
<1> QED BY <1>3, <1>4, <1>9, <1>11, <1>12 DEF Next, Failure

(* No active memory gets behind the watermark without being fed to the     *)
(* staleness pass, but for those the cap leaves out and those of a feed    *)
(* that threw or a run that ended before it, as long as every write        *)
(* carries a later timestamp than the ones before it.                      *)
THEOREM SweptRowsFed == ~Late /\ Spec => []SweptRowsAreFed
<1> SUFFICES ASSUME ~Late PROVE Spec => []SweptRowsAreFed
  OBVIOUS
<1>1. Init => KeptInv /\ SweptRowsAreFed
  BY KeptInit DEF Init, SweptRowsAreFed, Active, Blank
<1>2. KeptInv /\ [Next]_vars => KeptInv'
  BY KeptNext
<1>3. KeptInv /\ SweptRowsAreFed /\ [Next]_vars => SweptRowsAreFed'
  BY FeedSteps DEF KeptInv
<1> QED BY <1>1, <1>2, <1>3, PTL DEF Spec

-----------------------------------------------------------------------------
(***************************************************************************)
(* The survivor of a merge.  A memory that was merged away is compared no  *)
(* more: the loop ends when the candidate itself was, so both rows of a    *)
(* merge are unmerged, and what they had in the snapshot was active.  A    *)
(* row that was never created refers to nothing.                           *)
(***************************************************************************)
PairUnmerged == others # {} => current \notin merged
AbsentBlank  == \A x \in Ids : row[x].status = "absent" => row[x].into = 0

PairInv == TypeOK /\ PairUnmerged /\ AbsentBlank

LEMMA UnmergedNext == TypeOK /\ PairUnmerged /\ [Next]_vars => PairUnmerged'
<1> SUFFICES ASSUME TypeOK, PairUnmerged, [Next]_vars PROVE PairUnmerged'
  OBVIOUS
<1> USE DEF PairUnmerged
<1>1. CASE UNCHANGED runVars
  BY <1>1 DEF runVars
<1>2. CASE StartSweep \/ Reset
  BY <1>2 DEF StartSweep, Reset
<1>3. ASSUME NEW c \in todo, TakeCandidate(c) PROVE PairUnmerged'
  BY <1>3 DEF TakeCandidate
<1>4. ASSUME NEW o \in others, KeepBoth(o) \/ MergeThrows(o) PROVE PairUnmerged'
  BY <1>4 DEF KeepBoth, MergeThrows
<1>5. ASSUME NEW o \in others, NEW t \in Stamps, Merge(o, t) PROVE PairUnmerged'
  BY <1>5 DEF Merge
<1>6. CASE FinishCandidate
  BY <1>6 DEF FinishCandidate
<1>7. CASE UNCHANGED <<current, others, merged>>
  BY <1>7
<1>8. CASE Write
  BY <1>1, <1>8, WriteRewrites
<1>9. CASE RunStep
  BY <1>2, <1>3, <1>4, <1>5, <1>6, <1>7, <1>9
  DEF RunStep, BudgetExhausted, AdvanceWatermark, FeedStaleness, FinishRun
<1>10. CASE Failure
  BY <1>2, <1>4, <1>7, <1>10 DEF Failure, RunFails, FeedThrows
<1> QED BY <1>1, <1>8, <1>9, <1>10 DEF Next, vars

(* Only a merge points a memory at another one, and only at the newer of   *)
(* the two; every other step leaves into alone.                            *)
LEMMA OnlyMergePoints ==
  ASSUME TypeOK, AbsentBlank, [Next]_vars
  PROVE  /\ AbsentBlank'
         /\ \/ \A x \in Ids : row'[x].into = row[x].into
            \/ \E o \in others, t \in Stamps : Merge(o, t)
<1> DEFINE Same == /\ \A x \in Ids : row'[x].into = row[x].into
                   /\ \A x \in Ids : row'[x].status = "absent" => row[x].status = "absent"
<1>0. Same => AbsentBlank' /\ \A x \in Ids : row'[x].into = row[x].into
  BY DEF AbsentBlank
<1>1. \A x \in Ids : row[x] \in Row
  BY DEF TypeOK
<1>2. CASE UNCHANGED row
  BY <1>0, <1>2
<1>3. ASSUME NEW x \in Ids, NEW r, row' = [row EXCEPT ![x] = r], r.into = row[x].into,
             r.status = "absent" => row[x].status = "absent"
      PROVE  Same
  BY <1>3 DEF TypeOK
<1>4. ASSUME NEW x \in Ids, NEW values \in SUBSET Values, NEW t \in Stamps,
             Create(x, values, t)
      PROVE  Same
  <2>1. row[x].into = 0
    BY <1>4 DEF Create, Born, AbsentBlank
  <2>2. PICK r : r = [Blank EXCEPT !.status = "active", !.created = t, !.written = t,
                                   !.values = values]
    OBVIOUS
  <2>3. r.into = 0 /\ r.status = "active"
    BY <2>2 DEF Blank
  <2>4. row' = [row EXCEPT ![x] = r]
    BY <1>4, <2>2 DEF Create
  <2> HIDE DEF Same
  <2> QED BY <1>3, <2>1, <2>3, <2>4
<1>5. ASSUME NEW x \in Ids, NEW values \in SUBSET Values, NEW t \in Stamps,
             MergeUpdate(x, values, t)
      PROVE  Same
  <2>1. PICK r : r = [row[x] EXCEPT !.status = "active", !.written = t, !.values = values]
    OBVIOUS
  <2>2. r.into = row[x].into /\ r.status = "active"
    BY <1>1, <2>1 DEF Row
  <2>3. row' = [row EXCEPT ![x] = r]
    BY <1>5, <2>1 DEF MergeUpdate
  <2> HIDE DEF Same
  <2> QED BY <1>3, <2>2, <2>3
<1>6. ASSUME NEW x \in Ids, NEW status \in {"active", "inactive"}, NEW t \in Stamps,
             SetStatus(x, status, t)
      PROVE  Same
  <2>1. PICK r : r = [row[x] EXCEPT !.status = status, !.written = t]
    OBVIOUS
  <2>2. r.into = row[x].into /\ r.status = status
    BY <1>1, <2>1 DEF Row
  <2>3. row' = [row EXCEPT ![x] = r]
    BY <1>6, <2>1 DEF SetStatus
  <2> HIDE DEF Same
  <2> QED BY <1>3, <2>2, <2>3
<1>7. ASSUME NEW D \in SUBSET Active, NEW P \in SUBSET (Active \ D), NEW t \in Stamps,
             FinishRun(D, P, t)
      PROVE  Same
  <2>1. \A x \in Ids : /\ [row[x] EXCEPT !.status = "inactive"].into = row[x].into
                       /\ [row[x] EXCEPT !.status = "inactive"].status = "inactive"
                       /\ [row[x] EXCEPT !.written = t].into = row[x].into
                       /\ [row[x] EXCEPT !.written = t].status = row[x].status
    BY <1>1 DEF Row
  <2> QED BY <1>7, <2>1 DEF FinishRun
<1>8. ASSUME NEW o \in others, NEW t \in Stamps, Merge(o, t) PROVE AbsentBlank'
  <2>1. PICK old \in Ids, new \in Ids : /\ old = Older(current, o) /\ new = Newer(current, o)
                                      /\ old # new
    BY <1>8, MergeRewrites
  <2>2. PICK r, s : /\ r = [row[old] EXCEPT !.status = "inactive", !.into = new, !.written = t]
                    /\ s = [row[new] EXCEPT !.written = t]
    OBVIOUS
  <2>3. r.status = "inactive" /\ s.status = row[new].status /\ s.into = row[new].into
    BY <1>1, <2>1, <2>2 DEF Row
  <2>4. row' = [row EXCEPT ![old] = r, ![new] = s]
    BY <1>8, <2>1, <2>2 DEF Merge
  <2>5. \A x \in Ids : row'[x] = row[x] \/ row'[x] = r \/ (x = new /\ row'[x] = s)
    BY <2>1, <2>4 DEF TypeOK
  <2> QED BY <2>1, <2>3, <2>5 DEF AbsentBlank
<1> HIDE DEF Same
<1>9. CASE Write
  BY <1>0, <1>4, <1>5, <1>6, <1>9 DEF Write
<1>10. CASE RunStep \/ Failure
  <2>1. \/ UNCHANGED row
        \/ \E D \in SUBSET Active, t \in Stamps : \E P \in SUBSET (Active \ D) : FinishRun(D, P, t)
        \/ \E o \in others, t \in Stamps : Merge(o, t)
    BY <1>10 DEF RunStep, Failure, StartSweep, TakeCandidate, BudgetExhausted, KeepBoth,
                 FinishCandidate, AdvanceWatermark, FeedStaleness, FeedThrows, RunFails, MergeThrows
  <2> QED BY <1>0, <1>2, <1>7, <1>8, <2>1
<1> QED BY <1>2, <1>9, <1>10 DEF Next, vars

(* The survivor of a merge is active and carries the values of the memory  *)
(* it replaces, where capture and user left the two alone since the        *)
(* snapshot: the dnpp guard compares snapshots, and the pair was unmerged. *)
THEOREM SurvivorKeepsValues == Spec => SurvivorCarriesValues
<1> DEFINE Carries == \A x \in Ids : LET y == row'[x].into IN
             y # row[x].into /\ AsInSnapshot(x) /\ AsInSnapshot(y)
             => row'[y].status = "active" /\ row[x].values \subseteq row'[y].values
<1>1. Init => PairInv
  BY TypeInit DEF Init, PairInv, PairUnmerged, AbsentBlank, Blank
<1>2. PairInv /\ [Next]_vars => PairInv'
  <2>1. TypeOK /\ UNCHANGED vars => TypeOK'
    BY DEF vars, runVars, TypeOK
  <2> QED BY <2>1, TypeWrite, TypeRun, UnmergedNext, OnlyMergePoints DEF Next, PairInv
<1>3. PairInv /\ [Next]_vars => [Carries]_vars
  <2> SUFFICES ASSUME PairInv, [Next]_vars, NEW x \in Ids, NEW y, y = row'[x].into,
                      y # row[x].into, AsInSnapshot(x), AsInSnapshot(y)
               PROVE  row'[y].status = "active" /\ row[x].values \subseteq row'[y].values
    OBVIOUS
  <2>0. TypeOK /\ PairUnmerged /\ AbsentBlank
    BY DEF PairInv
  <2>1. PICK o \in others, t \in Stamps : Merge(o, t)
    BY <2>0, OnlyMergePoints
  <2>2. PICK old \in Ids, new \in Ids : /\ old = Older(current, o) /\ new = Newer(current, o)
                                      /\ old # new /\ {old, new} = {current, o}
    BY <2>0, <2>1, MergeRewrites
  <2>3. row[old] \in Row /\ row[new] \in Row
    BY <2>0 DEF TypeOK
  <2>4. PICK r, s : /\ r = [row[old] EXCEPT !.status = "inactive", !.into = new, !.written = t]
                    /\ s = [row[new] EXCEPT !.written = t]
    OBVIOUS
  <2>5. r.into = new /\ s.into = row[new].into /\ s.status = row[new].status
        /\ s.values = row[new].values
    BY <2>3, <2>4 DEF Row
  <2>6. row' = [row EXCEPT ![old] = r, ![new] = s]
    BY <2>1, <2>2, <2>4 DEF Merge
  <2>7. row'[new] = s /\ row'[old] = r /\ \A z \in Ids \ {old, new} : row'[z] = row[z]
    BY <2>0, <2>2, <2>6 DEF TypeOK
  <2>8. x = old /\ y = new
    BY <2>5, <2>7
  <2>9. new \notin merged
    BY <2>0, <2>2 DEF TypeOK, PairUnmerged
  <2>10. row[new].status = "active" /\ row[new].values = snap[new].values
         /\ row[old].values = snap[old].values
    BY <2>8, <2>9 DEF AsInSnapshot
  <2>11. snap[old].values \subseteq snap[new].values
    BY <2>1, <2>2 DEF Merge, Preserved
  <2> QED BY <2>5, <2>7, <2>8, <2>10, <2>11
<1> QED BY <1>1, <1>2, <1>3, PTL DEF Spec, SurvivorCarriesValues
=============================================================================
