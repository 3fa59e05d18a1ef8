-------------------------- MODULE SourceCaptureProofs --------------------------
(***************************************************************************)
(* Proofs about SourceCapture, for any turns, contents, requests, batches  *)
(* and bounds: the resident maps are the replayed journal, markers are     *)
(* true, tombstoned rows stay erased, and accepted turns are kept.         *)
(***************************************************************************)
EXTENDS SourceCapture, TLAPS, FiniteSetTheorems, WellFoundedInduction

-----------------------------------------------------------------------------
(* Maps of turns                                                            *)
LEMMA EmptyMap == NoTurns \in TurnMap /\ In(NoTurns) = {}
BY DEF TurnMap, NoTurns, In

LEMMA MapTypes ==
  ASSUME NEW f \in TurnMap, NEW g \in TurnMap, NEW S
  PROVE  /\ NoTurns \in TurnMap
         /\ Only(f, S) \in TurnMap
         /\ Without(f, S) \in TurnMap
         /\ Override(f, g) \in TurnMap
         /\ In(f) \in SUBSET Ids
BY DEF TurnMap, NoTurns, Only, Without, Override, In

LEMMA MapMembers ==
  ASSUME NEW f \in TurnMap, NEW g \in TurnMap, NEW S
  PROVE  /\ In(NoTurns) = {}
         /\ In(Only(f, S)) = In(f) \cap S
         /\ In(Without(f, S)) = In(f) \ S
         /\ In(Override(f, g)) = In(f) \cup In(g)
BY NoneAssumption DEF TurnMap, NoTurns, Only, Without, Override, In

LEMMA WithoutNothing ==
  ASSUME NEW f \in TurnMap, NEW S, In(f) \cap S = {}
  PROVE  Without(f, S) = f
<1>1. \A i \in Ids : (IF i \in S THEN None ELSE f[i]) = f[i]
  BY DEF In
<1>2. f = [i \in Ids |-> f[i]]
  BY DEF TurnMap
<1> QED BY <1>1, <1>2 DEF Without

(* The lines of the journal                                                 *)
LEMMA LineTypes ==
  ASSUME NEW d \in Journal, NEW f \in TurnMap, NEW S \in SUBSET Ids
  PROVE  /\ PutLines(d, f) \in Journal
         /\ ExtractedLines(d, f) \in Journal
         /\ DoneLines(d, S) \in Journal
         /\ ForgetLines(d, S) \in Journal
<1>1. /\ d.pending \in TurnMap /\ d.extracted \in TurnMap
      /\ d.forgotten \in SUBSET Ids /\ d.known \in SUBSET Ids
  BY DEF Journal
<1>2. /\ Override(Without(f, d.forgotten), d.pending) \in TurnMap
      /\ Override(Without(f, d.forgotten), d.extracted) \in TurnMap
      /\ Without(d.pending, S) \in TurnMap /\ Without(d.extracted, S) \in TurnMap
      /\ In(f) \in SUBSET Ids
  BY <1>1, MapTypes
<1>3. PutLines(d, f) \in Journal
  BY <1>1, <1>2 DEF PutLines, Journal
<1>4. ExtractedLines(d, f) \in Journal
  BY <1>1, <1>2 DEF ExtractedLines, Journal
<1>5. DoneLines(d, S) \in Journal
  BY <1>1, <1>2 DEF DoneLines, Journal
<1>6. ForgetLines(d, S) \in Journal
  BY <1>1, <1>2 DEF ForgetLines, Journal
<1> QED BY <1>3, <1>4, <1>5, <1>6

LEMMA LineFields ==
  ASSUME NEW d \in Journal, NEW f \in TurnMap, NEW S \in SUBSET Ids
  PROVE  /\ PutLines(d, f).pending = Override(Without(f, d.forgotten), d.pending)
         /\ PutLines(d, f).known = d.known \cup (In(f) \ d.forgotten)
         /\ PutLines(d, f).forgotten = d.forgotten
         /\ PutLines(d, f).extracted = d.extracted
         /\ ExtractedLines(d, f).extracted = Override(Without(f, d.forgotten), d.extracted)
         /\ ExtractedLines(d, f).known = d.known \cup In(f)
         /\ ExtractedLines(d, f).forgotten = d.forgotten
         /\ ExtractedLines(d, f).pending = d.pending
         /\ DoneLines(d, S).pending = Without(d.pending, S)
         /\ DoneLines(d, S).known = d.known \cup S
         /\ DoneLines(d, S).forgotten = d.forgotten
         /\ DoneLines(d, S).extracted = d.extracted
         /\ ForgetLines(d, S).pending = Without(d.pending, S)
         /\ ForgetLines(d, S).extracted = Without(d.extracted, S)
         /\ ForgetLines(d, S).forgotten = d.forgotten \cup S
         /\ ForgetLines(d, S).known = d.known \cup S
BY DEF PutLines, ExtractedLines, DoneLines, ForgetLines, Journal

-----------------------------------------------------------------------------
(* The methods of the spool keep the types of what they change              *)
SpoolTypes == /\ disk \in Journal /\ mem \in Journal
              /\ stuck \in BOOLEAN /\ faults \in 0..MaxFaults

LEMMA MemTypes ==
  ASSUME SpoolTypes
  PROVE  /\ mem.pending \in TurnMap /\ mem.extracted \in TurnMap
         /\ mem.forgotten \in SUBSET Ids /\ mem.known \in SUBSET Ids
         /\ disk.pending \in TurnMap /\ disk.extracted \in TurnMap
         /\ disk.forgotten \in SUBSET Ids /\ disk.known \in SUBSET Ids
BY DEF SpoolTypes, Journal

LEMMA AppendTypes ==
  ASSUME SpoolTypes,
         NEW lines \in Journal, NEW maps \in Journal, NEW prefixes \in SUBSET Journal,
         AppendLines(lines, maps) \/ AppendLinesFails(prefixes)
  PROVE  SpoolTypes'
<1>1. CASE AppendLines(lines, maps)
  BY <1>1 DEF SpoolTypes, AppendLines
<1>2. CASE AppendLinesFails(prefixes)
  <2>1. mem' \in Journal
    BY <1>2 DEF SpoolTypes, AppendLinesFails
  <2>2. disk' \in Journal /\ stuck' \in BOOLEAN
    BY <1>2, Zenon DEF SpoolTypes, AppendLinesFails
  <2>3. faults' \in 0..MaxFaults
    BY <1>2, FaultsAssumption DEF SpoolTypes, AppendLinesFails
  <2> QED BY <2>1, <2>2, <2>3 DEF SpoolTypes
<1> QED BY <1>1, <1>2

LEMMA CommitTypes ==
  ASSUME SpoolTypes, NEW turns \in TurnMap, NEW completed \in TurnMap,
         Commit(turns, completed) \/ CommitFails(turns, completed)
  PROVE  SpoolTypes'
<1> DEFINE puts == Puts(turns)
           marks == Markers(completed)
           both == PutLines(disk, puts)
           maps == [mem EXCEPT !.pending = Override(puts, @),
                               !.extracted = Override(marks, @),
                               !.known = @ \cup In(puts) \cup In(marks)]
           torn == {PutLines(disk, Only(puts, S)) : S \in SUBSET Ids}
                     \cup {ExtractedLines(both, Only(marks, S)) : S \in SUBSET Ids}
<1>1. puts \in TurnMap /\ marks \in TurnMap
  BY MapTypes DEF Puts, Markers
<1>2. disk \in Journal /\ mem \in Journal
  BY DEF SpoolTypes
<1>3. both \in Journal /\ ExtractedLines(both, marks) \in Journal
  BY <1>1, <1>2, LineTypes
<1>4. maps \in Journal
  <2>1. /\ Override(puts, mem.pending) \in TurnMap /\ In(puts) \in SUBSET Ids
        /\ Override(marks, mem.extracted) \in TurnMap /\ In(marks) \in SUBSET Ids
    BY <1>1, MemTypes, MapTypes
  <2> QED BY <1>2, <2>1, MemTypes DEF Journal
<1>5. \A S \in SUBSET Ids : Only(puts, S) \in TurnMap /\ Only(marks, S) \in TurnMap
  BY <1>1, MapTypes
<1>6. torn \in SUBSET Journal
  <2>1. \A S \in SUBSET Ids : PutLines(disk, Only(puts, S)) \in Journal
    BY <1>2, <1>5, LineTypes
  <2>2. \A S \in SUBSET Ids : ExtractedLines(both, Only(marks, S)) \in Journal
    BY <1>3, <1>5, LineTypes
  <2> QED BY <2>1, <2>2
<1>7. CASE Commit(turns, completed)
  <2>1. CASE NothingToCommit(turns, completed)
    BY <1>7, <2>1 DEF Commit, SpoolTypes
  <2>2. CASE ~NothingToCommit(turns, completed)
    <3>1. AppendLines(ExtractedLines(both, marks), maps)
      BY <1>7, <2>2 DEF Commit
    <3> QED BY <3>1, <1>3, <1>4, AppendTypes
  <2> QED BY <2>1, <2>2
<1>8. CASE CommitFails(turns, completed)
  <2>1. AppendLinesFails(torn)
    BY <1>8 DEF CommitFails
  <2> QED BY <2>1, <1>2, <1>6, AppendTypes
<1> QED BY <1>7, <1>8

LEMMA ForgetTypes ==
  ASSUME SpoolTypes, NEW ids \in SUBSET Ids, Forget(ids) \/ ForgetFails(ids)
  PROVE  SpoolTypes'
<1>1. disk \in Journal /\ mem \in Journal
  BY DEF SpoolTypes
<1>2. /\ ForgetLines(disk, ids) \in Journal /\ ForgetLines(mem, ids) \in Journal
      /\ {ForgetLines(disk, S) : S \in SUBSET ids} \in SUBSET Journal
  <2>1. \A S \in SUBSET Ids : ForgetLines(disk, S) \in Journal
                             /\ ForgetLines(mem, S) \in Journal
    BY <1>1, LineTypes, EmptyMap
  <2> QED BY <2>1
<1>3. CASE Forget(ids)
  BY <1>1, <1>2, <1>3, AppendTypes DEF Forget, SpoolTypes
<1>4. CASE ForgetFails(ids)
  BY <1>1, <1>2, <1>4, AppendTypes DEF ForgetFails
<1> QED BY <1>3, <1>4

LEMMA DrainEndTypes ==
  ASSUME SpoolTypes, written \in SUBSET Ids, DrainEnds \/ DrainEndFails
  PROVE  SpoolTypes'
<1> DEFINE maps == [mem EXCEPT !.pending = Without(@, DrainedIds)]
<1>1. disk \in Journal /\ mem \in Journal
  BY DEF SpoolTypes
<1>2. DrainedIds \in SUBSET Ids
  BY DEF DrainedIds
<1>3. \A S \in SUBSET Ids : DoneLines(disk, S) \in Journal
  BY <1>1, LineTypes, EmptyMap
<1>4. maps \in Journal
  <2>1. Without(mem.pending, DrainedIds) \in TurnMap
    BY MemTypes, MapTypes
  <2> QED BY <1>1, <2>1 DEF Journal
<1>5. CASE DrainEnds
  <2>1. CASE DrainedIds = {}
    BY <1>5, <2>1 DEF DrainEnds, SpoolTypes
  <2>2. CASE DrainedIds # {}
    <3>1. AppendLines(DoneLines(disk, DrainedIds), maps)
      BY <1>5, <2>2 DEF DrainEnds
    <3> QED BY <3>1, <1>1, <1>2, <1>3, <1>4, AppendTypes
  <2> QED BY <2>1, <2>2
<1>6. CASE DrainEndFails
  <2>1. {DoneLines(disk, S) : S \in SUBSET DrainedIds} \in SUBSET Journal
    BY <1>2, <1>3
  <2>2. AppendLinesFails({DoneLines(disk, S) : S \in SUBSET DrainedIds})
    BY <1>6 DEF DrainEndFails
  <2> QED BY <2>1, <2>2, <1>1, AppendTypes
<1> QED BY <1>5, <1>6

-----------------------------------------------------------------------------
RequestTypes == req \in [Requests -> RequestType]

LEMMA RequestFields ==
  ASSUME RequestTypes, NEW r \in Requests
  PROVE  /\ req[r].turns \in TurnMap
         /\ req[r].kept \in SUBSET Ids /\ req[r].ask \in SUBSET Ids
         /\ req[r].done \in SUBSET Ids /\ req[r].gone \in SUBSET Ids
         /\ req[r].unseen \in SUBSET Ids /\ req[r].held \in SUBSET Ids
         /\ In(req[r].turns) \in SUBSET Ids
         /\ Held(r) \in TurnMap /\ Completed(r) \in TurnMap
<1>1. req[r] \in RequestType
  BY DEF RequestTypes
<1>2. /\ req[r].turns \in TurnMap
      /\ req[r].kept \in SUBSET Ids /\ req[r].ask \in SUBSET Ids
      /\ req[r].done \in SUBSET Ids /\ req[r].gone \in SUBSET Ids
      /\ req[r].unseen \in SUBSET Ids /\ req[r].held \in SUBSET Ids
  BY <1>1 DEF RequestType
<1>3. Held(r) \in TurnMap /\ Completed(r) \in TurnMap /\ In(req[r].turns) \in SUBSET Ids
  BY <1>2, MapTypes, EmptyMap DEF Held, Completed
<1> QED BY <1>2, <1>3

LEMMA IdleType == NoRequest \in RequestType /\ NoRequest.pc = "idle"
                  /\ NoRequest.held = {} /\ NoRequest.unseen = {}
BY EmptyMap DEF NoRequest, RequestType

(* The steps of one request, and what they do to the request's record       *)
LEMMA RequestTypesKept ==
  ASSUME RequestTypes, SpoolTypes, row \in TurnMap, Next
  PROVE  RequestTypes'
<1>1. ASSUME NEW r \in Requests, Arrive(r) PROVE RequestTypes'
  <2>1. PICK batch \in Batches : req' = [req EXCEPT ![r] = [NoRequest EXCEPT
          !.pc = "locking", !.turns = batch.turns, !.kept = batch.kept \cap In(batch.turns)]]
    BY <1>1 DEF Arrive
  <2>2. batch.turns \in TurnMap /\ batch.kept \in SUBSET Ids
    BY BatchesAssumption
  <2>3. [NoRequest EXCEPT !.pc = "locking", !.turns = batch.turns,
           !.kept = batch.kept \cap In(batch.turns)] \in RequestType
    BY <2>2, IdleType DEF RequestType
  <2> QED BY <2>1, <2>3 DEF RequestTypes
<1>2. ASSUME NEW r \in Requests, Finish(r) PROVE RequestTypes'
  BY <1>2, IdleType DEF Finish, RequestTypes
<1>3. ASSUME NEW r \in Requests,
             NEW pc \in {"putting", "cleanup", "marking"}, Go(r, pc)
      PROVE  RequestTypes'
  <2>1. [req[r] EXCEPT !.pc = pc] \in RequestType
    BY DEF RequestTypes, RequestType
  <2>2. req' = [req EXCEPT ![r] = [req[r] EXCEPT !.pc = pc]]
    BY <1>3 DEF Go
  <2> QED BY <2>1, <2>2 DEF RequestTypes
<1>4. ASSUME NEW r \in Requests, Look(r) PROVE RequestTypes'
  <2> DEFINE extracted == {i \in In(req[r].turns) : /\ i \notin mem.forgotten
                                      /\ mem.extracted[i] = req[r].turns[i]}
             known == {i \in In(req[r].turns) : ~seeded \/ i \in mem.known}
             q == [req[r] EXCEPT !.pc = "reading", !.ask = known \ extracted,
                     !.done = extracted, !.gone = In(req[r].turns) \cap mem.forgotten]
  <2>1. extracted \in SUBSET Ids /\ known \in SUBSET Ids
        /\ In(req[r].turns) \cap mem.forgotten \in SUBSET Ids
    BY RequestFields
  <2>2. q \in RequestType
    BY <2>1 DEF RequestTypes, RequestType
  <2>3. req' = [req EXCEPT ![r] = q]
    BY <1>4 DEF Look
  <2> QED BY <2>2, <2>3 DEF RequestTypes
<1>5. ASSUME NEW r \in Requests, ReadRows(r) PROVE RequestTypes'
  <2>1. PICK seen : req' = [req EXCEPT ![r] = [req[r] EXCEPT !.pc = "reserving",
                      !.unseen = In(req[r].turns) \ seen,
                      !.ask = {}, !.done = {}, !.gone = {}]]
    BY <1>5 DEF ReadRows
  <2>2. [req[r] EXCEPT !.pc = "reserving", !.unseen = In(req[r].turns) \ seen,
           !.ask = {}, !.done = {}, !.gone = {}] \in RequestType
    BY RequestFields DEF RequestTypes, RequestType
  <2> QED BY <2>1, <2>2 DEF RequestTypes
<1>6. ASSUME NEW r \in Requests, Reserve(r) PROVE RequestTypes'
  <2> DEFINE q == [req[r] EXCEPT !.held = req[r].unseen \ mem.forgotten,
             !.pc = IF req[r].unseen \cap req[r].kept = {} THEN "putting" ELSE "extracting"]
  <2>1. q \in RequestType
    BY RequestFields DEF RequestTypes, RequestType
  <2>2. req' = [req EXCEPT ![r] = q]
    BY <1>6 DEF Reserve
  <2> QED BY <2>1, <2>2 DEF RequestTypes
<1>7. ASSUME NEW r \in Requests, RequestStep(r) PROVE RequestTypes'
  <2>1. CASE JoinLock(r) BY <2>1 DEF JoinLock, RequestTypes
  <2>2. CASE Look(r) BY <2>2, <1>4
  <2>3. CASE ReadRows(r) BY <2>3, <1>5
  <2>4. CASE ReadRowsFails(r) BY <2>4, <1>2 DEF ReadRowsFails
  <2>5. CASE Reserve(r) BY <2>5, <1>6
  <2>6. CASE Extracted(r) BY <2>6, <1>3 DEF Extracted
  <2>7. CASE NoExtraction(r) BY <2>7, <1>3 DEF NoExtraction
  <2>8. CASE CommitRequest(r) BY <2>8, <1>2 DEF CommitRequest
  <2>9. CASE CommitRequestFails(r) BY <2>9, <1>2, <1>3 DEF CommitRequestFails
  <2> QED BY <1>7, <2>1, <2>2, <2>3, <2>4, <2>5, <2>6, <2>7, <2>8, <2>9 DEF RequestStep
<1>8. CASE DrainStep
  BY <1>8 DEF DrainStep, SpoolStep, pipeline, RequestTypes, UpsertSourceTurn,
              UpsertConflict, UpsertFails, Wrote
<1>9. CASE StartErase \/ EraseStep
  BY <1>9 DEF StartErase, EraseStep, Bury, FindRows, DeleteRows, EraseFails, RequestTypes
<1>10. CASE Crash
  BY <1>10, IdleType DEF Crash, RequestTypes
<1> QED BY <1>1, <1>7, <1>8, <1>9, <1>10 DEF Next

-----------------------------------------------------------------------------
DrainTypes == /\ window \in TurnMap /\ inFlight \in SUBSET Ids
              /\ written \in SUBSET inFlight /\ draining \in BOOLEAN

LEMMA DrainTypesKept ==
  ASSUME SpoolTypes, DrainTypes, Next
  PROVE  DrainTypes'
<1>1. CASE UNCHANGED <<window, inFlight, written, draining>>
  BY <1>1 DEF DrainTypes
<1>2. CASE DrainReleases
  BY <1>2, EmptyMap DEF DrainReleases, DrainTypes
<1>3. CASE DrainStarts
  BY <1>3, MemTypes DEF DrainStarts, DrainTypes
<1>4. ASSUME NEW i \in Ids, Register(i) PROVE DrainTypes'
  BY <1>4 DEF Register, DrainTypes, TurnMap
<1>5. ASSUME NEW i \in Ids, i \in Writing, Wrote(i, TRUE) \/ Wrote(i, FALSE),
             UNCHANGED <<inFlight, draining>>
      PROVE  DrainTypes'
  <2>1. window' \in TurnMap
    BY <1>5 DEF Wrote, DrainTypes, TurnMap
  <2>2. written' \in SUBSET inFlight
    BY <1>5 DEF Wrote, DrainTypes, Writing
  <2> QED BY <1>5, <2>1, <2>2 DEF DrainTypes
<1>6. CASE DrainStep
  BY <1>2, <1>3, <1>4, <1>5, <1>6
  DEF DrainStep, SpoolStep, DrainEnds, DrainEndFails, UpsertSourceTurn,
      UpsertConflict, UpsertFails, Wrote
<1>7. CASE Crash
  BY <1>7, EmptyMap DEF Crash, Restart, DrainTypes
<1>8. ASSUME NEW r \in Requests, Arrive(r) \/ RequestStep(r)
      PROVE  UNCHANGED <<window, inFlight, written, draining>>
  BY <1>8 DEF Arrive, RequestStep, JoinLock, Look, ReadRows, ReadRowsFails, Reserve,
              Extracted, NoExtraction, CommitRequest, CommitRequestFails, spool
<1>9. CASE StartErase \/ EraseStep
  <2>1. UNCHANGED <<window, inFlight, written, draining>>
    BY <1>9 DEF StartErase, EraseStep, Bury, FindRows, DeleteRows, EraseFails, spool
  <2> QED BY <2>1, <1>1
<1> QED BY <1>1, <1>6, <1>7, <1>8, <1>9 DEF Next

LEMMA SpoolTypesKept ==
  ASSUME SpoolTypes, DrainTypes, RequestTypes, row \in TurnMap,
         erase.ids \in SUBSET Ids, Next
  PROVE  SpoolTypes'
<1>1. CASE UNCHANGED <<disk, mem, stuck, faults>>
  BY <1>1 DEF SpoolTypes
<1>2. CASE UNCHANGED <<disk, mem, stuck>> /\ faults < MaxFaults /\ faults' = faults + 1
  BY <1>2, FaultsAssumption DEF SpoolTypes
<1>3. ASSUME NEW r \in Requests, Arrive(r) PROVE SpoolTypes'
  <2>1. [mem EXCEPT !.known = @ \cup In(row)] \in Journal
    BY MemTypes, MapTypes DEF SpoolTypes, Journal
  <2>2. mem' \in Journal
    BY <1>3, <2>1 DEF Arrive, SpoolTypes
  <2> QED BY <1>3, <2>2 DEF Arrive, SpoolTypes
<1>4. ASSUME NEW r \in Requests, RequestStep(r) PROVE SpoolTypes'
  <2>1. CASE CommitRequest(r) \/ CommitRequestFails(r)
    BY <2>1, RequestFields, CommitTypes DEF CommitRequest, CommitRequestFails
  <2>2. CASE ReadRowsFails(r)
    BY <2>2, <1>2 DEF ReadRowsFails
  <2>3. CASE \/ JoinLock(r) \/ Look(r) \/ ReadRows(r) \/ Reserve(r)
             \/ Extracted(r) \/ NoExtraction(r)
    <3>1. UNCHANGED spool
      BY <2>3 DEF JoinLock, Look, ReadRows, Reserve, Extracted, NoExtraction
    <3> QED BY <3>1, <1>1 DEF spool
  <2> QED BY <1>4, <2>1, <2>2, <2>3 DEF RequestStep
<1>5. CASE DrainStep
  <2>1. CASE DrainEnds \/ DrainEndFails
    BY <2>1, DrainEndTypes DEF DrainTypes
  <2>2. CASE DrainStarts \/ \E i \in Ids : Register(i)
    BY <2>2, <1>1 DEF DrainStarts, Register
  <2>3. ASSUME NEW i \in Ids, UpsertSourceTurn(i) \/ UpsertConflict(i) \/ UpsertFails(i)
        PROVE  SpoolTypes'
    BY <2>3, <1>1, <1>2 DEF UpsertSourceTurn, UpsertConflict, UpsertFails, Wrote
  <2> QED BY <1>5, <2>1, <2>2, <2>3 DEF DrainStep, SpoolStep
<1>6. CASE StartErase \/ FindRows \/ DeleteRows
  BY <1>6, <1>1 DEF StartErase, FindRows, DeleteRows, spool
<1>7. CASE Bury
  <2>1. Forget(erase.ids)
    BY <1>7 DEF Bury
  <2> QED BY <2>1, ForgetTypes
<1>8. CASE EraseFails
  <2>1. CASE ForgetFails(erase.ids)
    BY <2>1, ForgetTypes
  <2>2. CASE UNCHANGED <<disk, mem, stuck>> /\ faults < MaxFaults /\ faults' = faults + 1
    BY <2>2, <1>2
  <2> QED BY <1>8, <2>1, <2>2 DEF EraseFails
<1>9. CASE Crash
  <2>1. disk' \in Journal /\ mem' \in Journal /\ stuck' \in BOOLEAN
    BY <1>9, Zenon DEF Crash, Restart, SpoolTypes
  <2>2. faults' \in 0..MaxFaults
    BY <1>9, FaultsAssumption DEF Crash, Restart, SpoolTypes
  <2> QED BY <2>1, <2>2 DEF SpoolTypes
<1> QED BY <1>3, <1>4, <1>5, <1>6, <1>7, <1>8, <1>9 DEF Next, EraseStep

LEMMA RowTypeKept ==
  ASSUME row \in TurnMap, DrainTypes, Next
  PROVE  row' \in TurnMap
<1>1. ASSUME NEW i \in Ids, i \in Writing, row' = [row EXCEPT ![i] = window[i]]
      PROVE  row' \in TurnMap
  BY <1>1 DEF DrainTypes, TurnMap
<1>2. CASE DeleteRows
  BY <1>2, MapTypes DEF DeleteRows
<1>3. CASE DrainStep
  BY <1>1, <1>3 DEF DrainStep, SpoolStep, pipeline, UpsertSourceTurn, UpsertConflict, UpsertFails
<1>4. CASE UNCHANGED row
  BY <1>4
<1>5. ASSUME NEW r \in Requests, Arrive(r) \/ RequestStep(r) PROVE UNCHANGED row
  BY <1>5 DEF Arrive, RequestStep, JoinLock, Look, ReadRows, ReadRowsFails, Reserve,
              Extracted, NoExtraction, CommitRequest, CommitRequestFails
<1>6. CASE StartErase \/ Bury \/ FindRows \/ EraseFails \/ Crash
  BY <1>6 DEF StartErase, Bury, FindRows, EraseFails, Crash
<1> QED BY <1>2, <1>3, <1>4, <1>5, <1>6 DEF Next, EraseStep

LEMMA LocksKept ==
  ASSUME lockq \in [Ids -> Seq(Requests)], Next
  PROVE  lockq' \in [Ids -> Seq(Requests)]
<1>1. CASE UNCHANGED lockq
  BY <1>1
<1>2. ASSUME NEW r \in Requests, Finish(r) PROVE lockq' \in [Ids -> Seq(Requests)]
  <2>1. \A i \in Ids : Holds(r, i) => Tail(lockq[i]) \in Seq(Requests)
    BY DEF Holds
  <2> QED BY <1>2, <2>1 DEF Finish, Released
<1>3. ASSUME NEW r \in Requests, JoinLock(r) PROVE lockq' \in [Ids -> Seq(Requests)]
  <2>1. PICK i : lockq' = [lockq EXCEPT ![i] = Append(@, r)]
    BY <1>3 DEF JoinLock
  <2>2. CASE i \in Ids
    <3>1. Append(lockq[i], r) \in Seq(Requests)
      BY <2>2
    <3> QED BY <2>1, <2>2, <3>1
  <2>3. CASE i \notin Ids
    BY <2>1, <2>3
  <2> QED BY <2>2, <2>3
<1>4. ASSUME NEW r \in Requests, Arrive(r) \/ RequestStep(r)
      PROVE  UNCHANGED lockq \/ Finish(r) \/ JoinLock(r)
  BY <1>4 DEF Arrive, RequestStep, Look, ReadRows, ReadRowsFails, Reserve,
              Extracted, NoExtraction, CommitRequest, CommitRequestFails
<1>5. CASE DrainStep \/ StartErase \/ EraseStep
  BY <1>5 DEF DrainStep, SpoolStep, pipeline, UpsertSourceTurn, UpsertConflict,
              UpsertFails, Wrote, StartErase, EraseStep, Bury, FindRows, DeleteRows, EraseFails
<1>6. CASE Crash
  BY <1>6 DEF Crash
<1> QED BY <1>1, <1>2, <1>3, <1>4, <1>5, <1>6 DEF Next

LEMMA EraseTypesKept ==
  ASSUME erase \in EraseType, SpoolTypes, row \in TurnMap, Next
  PROVE  erase' \in EraseType
<1>1. CASE UNCHANGED erase
  BY <1>1
<1>2. CASE erase' = NoErase
  BY <1>2 DEF NoErase, EraseType
<1>3. CASE StartErase
  <2>1. In(mem.pending) \cup In(mem.extracted) \in SUBSET Ids
    BY MemTypes, MapTypes
  <2> QED BY <1>3, <2>1, EraseAssumption DEF StartErase, EraseType
<1>4. CASE Bury
  BY <1>4 DEF Bury, EraseType
<1>5. CASE FindRows
  BY <1>5, MapTypes DEF FindRows, EraseType
<1>6. ASSUME NEW r \in Requests, Arrive(r) \/ RequestStep(r) PROVE UNCHANGED erase
  BY <1>6 DEF Arrive, RequestStep, JoinLock, Look, ReadRows, ReadRowsFails, Reserve,
              Extracted, NoExtraction, CommitRequest, CommitRequestFails
<1>7. CASE DrainStep
  BY <1>1, <1>7 DEF DrainStep, SpoolStep, pipeline, UpsertSourceTurn, UpsertConflict,
              UpsertFails, Wrote
<1>8. CASE DeleteRows \/ EraseFails \/ Crash
  BY <1>8, <1>2 DEF DeleteRows, EraseFails, Crash
<1> QED BY <1>1, <1>3, <1>4, <1>5, <1>6, <1>7, <1>8 DEF Next, EraseStep

HistoryTypes == /\ seeded \in BOOLEAN
                /\ factsOf \in SUBSET (Ids \X Hmacs)
                /\ erased \in [Ids -> {"no", "buried", "unburied"}]

LEMMA HistoryTypesKept ==
  ASSUME HistoryTypes, RequestTypes, Next
  PROVE  HistoryTypes'
<1>1. ASSUME NEW r \in Requests, Extracted(r) PROVE HistoryTypes'
  <2>1. Only(req[r].turns, ToExtract(r)) \in TurnMap
    BY RequestFields, MapTypes
  <2>2. Turns(Only(req[r].turns, ToExtract(r))) \in SUBSET (Ids \X Hmacs)
    BY <2>1 DEF Turns, In, TurnMap
  <2> QED BY <1>1, <2>2 DEF Extracted, HistoryTypes
<1>2. ASSUME NEW r \in Requests, RequestStep(r), ~Extracted(r)
      PROVE  UNCHANGED <<seeded, factsOf, erased>>
  BY <1>2 DEF RequestStep, JoinLock, Look, ReadRows, ReadRowsFails, Reserve,
              NoExtraction, CommitRequest, CommitRequestFails
<1>3. ASSUME NEW r \in Requests, Arrive(r) PROVE HistoryTypes'
  BY <1>3 DEF Arrive, HistoryTypes
<1>4. CASE DeleteRows
  BY <1>4 DEF DeleteRows, HistoryTypes
<1>5. CASE DrainStep \/ StartErase \/ Bury \/ FindRows \/ EraseFails
  BY <1>5 DEF DrainStep, SpoolStep, pipeline, UpsertSourceTurn, UpsertConflict,
              UpsertFails, Wrote, StartErase, Bury, FindRows, EraseFails, HistoryTypes
<1>6. CASE Crash
  BY <1>6 DEF Crash, HistoryTypes
<1>7. CASE UNCHANGED <<seeded, factsOf, erased>>
  BY <1>7 DEF HistoryTypes
<1> QED BY <1>1, <1>2, <1>3, <1>4, <1>5, <1>6, <1>7 DEF Next, EraseStep

LEMMA StartedTypeKept ==
  ASSUME started \in StartedType, Next
  PROVE  started' \in StartedType
<1>1. ASSUME NEW r \in Requests, Arrive(r) PROVE started' \in StartedType
  BY <1>1, BoundsAssumption DEF Arrive, StartedType
<1>2. CASE StartErase
  BY <1>2, BoundsAssumption DEF StartErase, StartedType
<1>3. ASSUME NEW r \in Requests, RequestStep(r) PROVE UNCHANGED started
  BY <1>3 DEF RequestStep, JoinLock, Look, ReadRows, ReadRowsFails, Reserve,
              Extracted, NoExtraction, CommitRequest, CommitRequestFails
<1>4. CASE DrainStep \/ EraseStep \/ Crash
  BY <1>4 DEF DrainStep, SpoolStep, pipeline, UpsertSourceTurn, UpsertConflict,
              UpsertFails, Wrote, EraseStep, Bury, FindRows, DeleteRows, EraseFails, Crash
<1> QED BY <1>1, <1>2, <1>3, <1>4 DEF Next

-----------------------------------------------------------------------------
Typed == /\ SpoolTypes /\ DrainTypes /\ RequestTypes /\ HistoryTypes
         /\ row \in TurnMap /\ lockq \in [Ids -> Seq(Requests)]
         /\ erase \in EraseType /\ started \in StartedType

LEMMA TypedIsTypeOK == Typed <=> TypeOK
BY DEF Typed, TypeOK, SpoolTypeOK, SpoolTypes, DrainTypes, RequestTypes, HistoryTypes

LEMMA TypedInit == Init => Typed
<1> SUFFICES ASSUME Init PROVE Typed
  OBVIOUS
<1>1. EmptyJournal \in Journal
  BY EmptyMap DEF EmptyJournal, Journal
<1>2. SpoolTypes
  <2>1. disk \in Journal /\ mem \in Journal
    BY <1>1, Zenon DEF Init, SpoolInit
  <2>2. stuck \in BOOLEAN /\ faults = 0
    BY Zenon DEF Init, SpoolInit
  <2> QED BY <2>1, <2>2, FaultsAssumption DEF SpoolTypes
<1>3. DrainTypes
  BY EmptyMap DEF Init, SpoolInit, DrainTypes
<1>4. RequestTypes
  BY IdleType DEF Init, RequestTypes
<1>5. HistoryTypes
  BY DEF Init, HistoryTypes
<1>6. row \in TurnMap /\ erase \in EraseType
  BY EmptyMap DEF Init, NoErase, EraseType
<1>7. lockq \in [Ids -> Seq(Requests)]
  BY DEF Init
<1>8. started \in StartedType
  BY BoundsAssumption DEF Init, StartedType
<1> QED BY <1>2, <1>3, <1>4, <1>5, <1>6, <1>7, <1>8 DEF Typed

LEMMA TypedNext == Typed /\ [Next]_vars => Typed'
<1> SUFFICES ASSUME Typed, [Next]_vars PROVE Typed'
  OBVIOUS
<1>1. CASE Next
  <2>1. /\ SpoolTypes /\ DrainTypes /\ RequestTypes /\ HistoryTypes
        /\ row \in TurnMap /\ lockq \in [Ids -> Seq(Requests)]
        /\ erase \in EraseType /\ started \in StartedType
    BY DEF Typed
  <2>2. erase.ids \in SUBSET Ids
    BY <2>1 DEF EraseType
  <2>3. SpoolTypes' /\ DrainTypes' /\ RequestTypes' /\ HistoryTypes'
    BY <1>1, <2>1, <2>2, SpoolTypesKept, DrainTypesKept, RequestTypesKept, HistoryTypesKept
  <2>4. /\ row' \in TurnMap /\ lockq' \in [Ids -> Seq(Requests)]
        /\ erase' \in EraseType /\ started' \in StartedType
    BY <1>1, <2>1, RowTypeKept, LocksKept, EraseTypesKept, StartedTypeKept
  <2> QED BY <2>3, <2>4 DEF Typed
<1>2. CASE UNCHANGED vars
  BY <1>2 DEF vars, spool, pipeline, Typed, SpoolTypes, DrainTypes, RequestTypes, HistoryTypes
<1> QED BY <1>1, <1>2

(* Every variable keeps its type, for any turns, requests, batches and       *)
(* bounds (TypeOK of SourceCapture).                                        *)
THEOREM TypeCorrect == Spec => []TypeOK
<1>1. Init => Typed
  BY TypedInit
<1>2. Typed /\ [Next]_vars => Typed'
  BY TypedNext
<1>3. Typed => TypeOK
  BY TypedIsTypeOK
<1> QED BY <1>1, <1>2, <1>3, PTL DEF Spec

-----------------------------------------------------------------------------
(* What a step can do to the journal and to the maps                        *)
NothingAppended ==
  /\ UNCHANGED <<disk, stuck>>
  /\ \/ mem' = mem
     \/ mem' = [mem EXCEPT !.known = @ \cup In(row)]

Restarted == disk' = disk /\ mem' = disk /\ ~stuck'

Committed(r) ==
  LET puts == Puts(Held(r))
      marks == Markers(Completed(r))
  IN /\ ~stuck /\ ~stuck'
     /\ disk' = ExtractedLines(PutLines(disk, puts), marks)
     /\ mem' = [mem EXCEPT !.pending = Override(puts, @),
                           !.extracted = Override(marks, @),
                           !.known = @ \cup In(puts) \cup In(marks)]

CommitTorn(r) ==
  LET puts == Puts(Held(r))
      marks == Markers(Completed(r))
  IN /\ mem' = mem /\ stuck'
     /\ \E S \in SUBSET Ids :
          \/ disk' = PutLines(disk, Only(puts, S))
          \/ disk' = ExtractedLines(PutLines(disk, puts), Only(marks, S))

Forgot ==
  /\ ~stuck /\ ~stuck'
  /\ disk' = ForgetLines(disk, erase.ids)
  /\ mem' = ForgetLines(mem, erase.ids)

ForgetTorn ==
  /\ mem' = mem /\ stuck'
  /\ \E S \in SUBSET erase.ids : disk' = ForgetLines(disk, S)

Drained ==
  /\ ~stuck /\ ~stuck'
  /\ disk' = DoneLines(disk, DrainedIds)
  /\ mem' = [mem EXCEPT !.pending = Without(@, DrainedIds)]

DrainTorn ==
  /\ mem' = mem /\ stuck'
  /\ \E S \in SUBSET DrainedIds : disk' = DoneLines(disk, S)

LEMMA StepEffects ==
  ASSUME Next
  PROVE  \/ NothingAppended
         \/ Crash /\ Restarted
         \/ \E r \in Requests : CommitRequest(r) /\ Committed(r)
         \/ \E r \in Requests : CommitRequestFails(r) /\ CommitTorn(r)
         \/ Bury /\ Forgot
         \/ EraseFails /\ ForgetTorn
         \/ DrainEnds /\ Drained
         \/ DrainEndFails /\ DrainTorn
<1>1. CASE UNCHANGED <<disk, mem, stuck>>
  BY <1>1 DEF NothingAppended
<1>2. ASSUME NEW r \in Requests, Arrive(r) PROVE NothingAppended
  BY <1>2, Zenon DEF Arrive, NothingAppended
<1>3. ASSUME NEW r \in Requests, CommitRequest(r)
      PROVE  UNCHANGED <<disk, mem, stuck>> \/ Committed(r)
  <2>1. CASE NothingToCommit(Held(r), Completed(r))
    BY <1>3, <2>1 DEF CommitRequest, Commit
  <2>2. CASE ~NothingToCommit(Held(r), Completed(r))
    BY <1>3, <2>2 DEF CommitRequest, Commit, AppendLines, Committed
  <2> QED BY <2>1, <2>2
<1>4. ASSUME NEW r \in Requests, CommitRequestFails(r)
      PROVE  UNCHANGED <<disk, mem, stuck>> \/ CommitTorn(r)
  <2>1. CommitFails(Held(r), Completed(r))
    BY <1>4 DEF CommitRequestFails
  <2> QED BY <2>1 DEF CommitFails, AppendLinesFails, CommitTorn
<1>5. ASSUME NEW r \in Requests, RequestStep(r), ~CommitRequest(r), ~CommitRequestFails(r)
      PROVE  UNCHANGED <<disk, mem, stuck>>
  BY <1>5 DEF RequestStep, JoinLock, Look, ReadRows, ReadRowsFails, Reserve,
              Extracted, NoExtraction, spool
<1>6. CASE Bury
  <2>1. Forget(erase.ids)
    BY <1>6 DEF Bury
  <2> QED BY <1>6, <2>1, <1>1 DEF Forget, AppendLines, Forgot
<1>7. CASE EraseFails
  <2>1. CASE ForgetFails(erase.ids)
    BY <1>7, <2>1, <1>1 DEF ForgetFails, AppendLinesFails, ForgetTorn
  <2>2. CASE UNCHANGED <<disk, mem, stuck>>
    BY <2>2, <1>1
  <2> QED BY <1>7, <2>1, <2>2 DEF EraseFails
<1>8. CASE DrainEnds
  BY <1>8, <1>1 DEF DrainEnds, AppendLines, Drained
<1>9. CASE DrainEndFails
  BY <1>9, <1>1 DEF DrainEndFails, AppendLinesFails, DrainTorn
<1>10. CASE DrainStep /\ ~DrainEnds /\ ~DrainEndFails
  <2>1. UNCHANGED <<disk, mem, stuck>>
    BY <1>10 DEF DrainStep, SpoolStep, DrainStarts, Register, UpsertSourceTurn,
                 UpsertConflict, UpsertFails, Wrote
  <2> QED BY <2>1, <1>1
<1>11. CASE StartErase \/ FindRows \/ DeleteRows
  BY <1>11, <1>1 DEF StartErase, FindRows, DeleteRows, spool
<1>12. CASE Crash
  BY <1>12 DEF Crash, Restart, Restarted
<1>13. ASSUME NEW r \in Requests, RequestStep(r)
       PROVE  \/ NothingAppended
              \/ CommitRequest(r) /\ Committed(r)
              \/ CommitRequestFails(r) /\ CommitTorn(r)
  <2>1. UNCHANGED <<disk, mem, stuck>> => NothingAppended
    BY DEF NothingAppended
  <2> QED BY <1>13, <2>1, <1>3, <1>4, <1>5
<1>14. CASE \E r \in Requests : Arrive(r) \/ RequestStep(r)
  BY <1>14, <1>2, <1>13
<1>15. CASE DrainStep
  BY <1>15, <1>8, <1>9, <1>10
<1>16. CASE StartErase \/ EraseStep
  BY <1>16, <1>6, <1>7, <1>11 DEF EraseStep
<1> QED BY <1>12, <1>14, <1>15, <1>16 DEF Next

-----------------------------------------------------------------------------
(* The journal and the resident maps                                        *)
KnownOK == /\ In(mem.pending) \subseteq mem.known
           /\ In(disk.pending) \subseteq disk.known

ForgottenOK == /\ mem.forgotten \subseteq disk.forgotten
               /\ mem.forgotten \cap In(mem.pending) = {}
               /\ disk.forgotten \cap In(disk.pending) = {}

JournalOK == Typed /\ JournalIsResident /\ KnownOK /\ ForgottenOK

(* What a request commits avoids the forgotten turns                        *)
LEMMA CommitAvoidsForgotten ==
  ASSUME SpoolTypes, RequestTypes, NEW r \in Requests, NEW S
  PROVE  LET puts == Puts(Held(r))
             marks == Markers(Completed(r))
         IN /\ puts \in TurnMap /\ marks \in TurnMap
            /\ In(puts) \cap mem.forgotten = {}
            /\ In(marks) \cap mem.forgotten = {}
            /\ Only(puts, S) \in TurnMap /\ Only(marks, S) \in TurnMap
            /\ In(Only(puts, S)) \subseteq In(puts)
            /\ In(Only(marks, S)) \subseteq In(marks)
<1>1. Held(r) \in TurnMap /\ Completed(r) \in TurnMap
  BY RequestFields
<1>2. Puts(Held(r)) \in TurnMap /\ Markers(Completed(r)) \in TurnMap
  BY <1>1, MapTypes DEF Puts, Markers
<1>3. /\ In(Puts(Held(r))) \cap mem.forgotten = {}
      /\ In(Markers(Completed(r))) \cap mem.forgotten = {}
  BY <1>1, MapMembers DEF Puts, Markers
<1> QED BY <1>2, <1>3, MapTypes, MapMembers

LEMMA JournalStep ==
  ASSUME JournalOK, Next
  PROVE  JournalIsResident' /\ KnownOK' /\ ForgottenOK'
<1> USE DEF JournalOK
<1>1. SpoolTypes /\ RequestTypes /\ DrainTypes /\ erase.ids \in SUBSET Ids
      /\ row \in TurnMap
  BY DEF Typed, EraseType
<1>2. disk \in Journal /\ mem \in Journal
  BY <1>1 DEF SpoolTypes
<1>3. /\ mem.pending \in TurnMap /\ mem.extracted \in TurnMap
      /\ mem.forgotten \in SUBSET Ids /\ mem.known \in SUBSET Ids
      /\ disk.pending \in TurnMap /\ disk.extracted \in TurnMap
      /\ disk.forgotten \in SUBSET Ids /\ disk.known \in SUBSET Ids
  BY <1>1, MemTypes
<1>4. CASE NothingAppended
  <2>1. /\ mem'.pending = mem.pending /\ mem'.extracted = mem.extracted
        /\ mem'.forgotten = mem.forgotten /\ mem.known \subseteq mem'.known
    BY <1>2, <1>4 DEF NothingAppended, Journal
  <2>2. disk' = disk /\ stuck' = stuck
    BY <1>4 DEF NothingAppended
  <2>3. JournalIsResident'
    BY <2>1, <2>2 DEF JournalIsResident
  <2>4. KnownOK'
    BY <2>1, <2>2 DEF KnownOK
  <2>5. ForgottenOK'
    BY <2>1, <2>2 DEF ForgottenOK
  <2> QED BY <2>3, <2>4, <2>5
<1>5. CASE Restarted
  BY <1>5 DEF Restarted, JournalIsResident, KnownOK, ForgottenOK
<1>6. ASSUME NEW r \in Requests, Committed(r) \/ CommitTorn(r)
      PROVE  JournalIsResident' /\ KnownOK' /\ ForgottenOK'
  <2> DEFINE puts == Puts(Held(r))
             marks == Markers(Completed(r))
  <2>1. /\ puts \in TurnMap /\ marks \in TurnMap
        /\ In(puts) \cap mem.forgotten = {} /\ In(marks) \cap mem.forgotten = {}
    BY <1>1, CommitAvoidsForgotten
  <2> HIDE DEF puts, marks
  <2>2. \A f \in TurnMap : PutLines(disk, f) \in Journal
    BY <1>2, LineTypes, EmptyMap
  <2>3. CASE Committed(r)
    <3>1. /\ ~stuck /\ ~stuck'
          /\ disk' = ExtractedLines(PutLines(disk, puts), marks)
          /\ mem' = [mem EXCEPT !.pending = Override(puts, @),
                           !.extracted = Override(marks, @),
                           !.known = @ \cup In(puts) \cup In(marks)]
      BY <2>3 DEF Committed, puts, marks
    <3>2. /\ mem.pending = disk.pending /\ mem.forgotten = disk.forgotten
          /\ mem.extracted = disk.extracted /\ disk.known \subseteq mem.known
      BY <3>1 DEF JournalIsResident
    <3>3. Without(puts, disk.forgotten) = puts /\ Without(marks, disk.forgotten) = marks
      BY <2>1, <3>2, WithoutNothing
    <3>4. /\ mem'.pending = Override(puts, mem.pending)
          /\ mem'.extracted = Override(marks, mem.extracted)
          /\ mem'.known = mem.known \cup In(puts) \cup In(marks)
          /\ mem'.forgotten = mem.forgotten
      BY <1>2, <3>1 DEF Journal
    <3>5. /\ disk'.pending = Override(puts, disk.pending)
          /\ disk'.extracted = Override(marks, disk.extracted)
          /\ disk'.known = disk.known \cup (In(puts) \ disk.forgotten) \cup In(marks)
          /\ disk'.forgotten = disk.forgotten
      <4>1. /\ PutLines(disk, puts).pending = Override(puts, disk.pending)
            /\ PutLines(disk, puts).known = disk.known \cup (In(puts) \ disk.forgotten)
            /\ PutLines(disk, puts).forgotten = disk.forgotten
            /\ PutLines(disk, puts).extracted = disk.extracted
        BY <1>2, <2>1, <3>3, LineFields, EmptyMap
      <4>2. PutLines(disk, puts) \in Journal
        BY <2>1, <2>2
      <4> QED BY <3>1, <3>3, <4>1, <4>2, <2>1, LineFields, EmptyMap
    <3>6. In(Override(puts, mem.pending)) = In(puts) \cup In(mem.pending)
      BY <1>3, <2>1, MapMembers
    <3>7. JournalIsResident'
      BY <3>2, <3>4, <3>5 DEF JournalIsResident
    <3>8. KnownOK'
      BY <2>1, <3>2, <3>4, <3>5, <3>6 DEF KnownOK
    <3>9. ForgottenOK'
      BY <2>1, <3>2, <3>4, <3>5, <3>6 DEF ForgottenOK
    <3> QED BY <3>7, <3>8, <3>9
  <2>4. ASSUME NEW f \in TurnMap, NEW d, d = PutLines(disk, f)
        PROVE  /\ d \in Journal /\ d.forgotten = disk.forgotten
               /\ In(d.pending) \subseteq d.known
               /\ d.forgotten \cap In(d.pending) = {}
    <3>1. /\ d.pending = Override(Without(f, disk.forgotten), disk.pending)
          /\ d.known = disk.known \cup (In(f) \ disk.forgotten)
          /\ d.forgotten = disk.forgotten
      BY <1>2, <2>4, LineFields, EmptyMap
    <3>2. In(d.pending) = (In(f) \ disk.forgotten) \cup In(disk.pending)
      <4>1. Without(f, disk.forgotten) \in TurnMap
            /\ In(Without(f, disk.forgotten)) = In(f) \ disk.forgotten
        BY MapTypes, MapMembers, EmptyMap
      <4> QED BY <1>3, <3>1, <4>1, MapMembers
    <3> QED BY <2>2, <2>4, <3>1, <3>2 DEF KnownOK, ForgottenOK
  <2>5. CASE CommitTorn(r)
    <3>1. mem' = mem /\ stuck'
      BY <2>5 DEF CommitTorn
    <3>2. PICK S \in SUBSET Ids : \/ disk' = PutLines(disk, Only(puts, S))
                                 \/ disk' = ExtractedLines(PutLines(disk, puts), Only(marks, S))
      BY <2>5 DEF CommitTorn, puts, marks
    <3>3. Only(puts, S) \in TurnMap /\ Only(marks, S) \in TurnMap
      BY <2>1, MapTypes
    <3>4. CASE disk' = PutLines(disk, Only(puts, S))
      BY <3>1, <3>3, <3>4, <2>4 DEF JournalIsResident, KnownOK, ForgottenOK
    <3>5. CASE disk' = ExtractedLines(PutLines(disk, puts), Only(marks, S))
      <4> DEFINE d == PutLines(disk, puts)
      <4>1. /\ d \in Journal /\ d.forgotten = disk.forgotten
            /\ In(d.pending) \subseteq d.known /\ d.forgotten \cap In(d.pending) = {}
        BY <2>1, <2>4
      <4> HIDE DEF d
      <4>2. /\ disk'.pending = d.pending /\ disk'.forgotten = d.forgotten
            /\ d.known \subseteq disk'.known
        BY <3>3, <3>5, <4>1, LineFields, EmptyMap DEF d
      <4> QED BY <3>1, <4>1, <4>2 DEF JournalIsResident, KnownOK, ForgottenOK
    <3> QED BY <3>2, <3>4, <3>5
  <2> QED BY <1>6, <2>3, <2>5
<1>7. CASE Forgot \/ ForgetTorn
  <2>1. PICK S \in SUBSET Ids : disk' = ForgetLines(disk, S)
                               /\ \/ ~stuck /\ mem' = ForgetLines(mem, S)
                                  \/ stuck' /\ mem' = mem
    BY <1>1, <1>7 DEF Forgot, ForgetTorn
  <2>2. \A d \in Journal : /\ ForgetLines(d, S).pending = Without(d.pending, S)
                            /\ ForgetLines(d, S).extracted = Without(d.extracted, S)
                            /\ ForgetLines(d, S).forgotten = d.forgotten \cup S
                            /\ ForgetLines(d, S).known = d.known \cup S
    BY LineFields, EmptyMap
  <2>3. /\ In(Without(disk.pending, S)) = In(disk.pending) \ S
        /\ In(Without(mem.pending, S)) = In(mem.pending) \ S
    BY <1>3, MapMembers
  <2>4. CASE ~stuck /\ mem' = ForgetLines(mem, S)
    BY ZenonT(60), <1>2, <2>1, <2>2, <2>3, <2>4 DEF JournalIsResident, KnownOK, ForgottenOK
  <2>5. CASE stuck' /\ mem' = mem
    BY <1>2, <2>1, <2>2, <2>3, <2>5 DEF JournalIsResident, KnownOK, ForgottenOK
  <2> QED BY <2>1, <2>4, <2>5
<1>8. CASE Drained \/ DrainTorn
  <2>1. PICK S \in SUBSET Ids :
          /\ disk' = DoneLines(disk, S) /\ S \subseteq In(mem.pending)
          /\ \/ ~stuck /\ mem' = [mem EXCEPT !.pending = Without(@, S)]
             \/ stuck' /\ mem' = mem
    <3>1. DrainedIds \in SUBSET Ids /\ DrainedIds \subseteq In(mem.pending)
      BY <1>1 DEF DrainedIds, In, DrainTypes
    <3>2. CASE Drained
      BY <3>1, <3>2 DEF Drained
    <3>3. CASE DrainTorn
      BY <3>1, <3>3 DEF DrainTorn
    <3> QED BY <1>8, <3>2, <3>3
  <2>2. /\ disk'.pending = Without(disk.pending, S)
        /\ disk'.known = disk.known \cup S
        /\ disk'.forgotten = disk.forgotten /\ disk'.extracted = disk.extracted
    BY <1>2, <2>1, LineFields, EmptyMap
  <2>3. /\ In(Without(disk.pending, S)) = In(disk.pending) \ S
        /\ In(Without(mem.pending, S)) = In(mem.pending) \ S
    BY <1>3, MapMembers
  <2>4. CASE ~stuck /\ mem' = [mem EXCEPT !.pending = Without(@, S)]
    <3>1. /\ mem'.pending = Without(mem.pending, S) /\ mem'.known = mem.known
          /\ mem'.forgotten = mem.forgotten /\ mem'.extracted = mem.extracted
      BY <1>2, <2>4 DEF Journal
    <3> QED BY <2>1, <2>2, <2>3, <2>4, <3>1 DEF JournalIsResident, KnownOK, ForgottenOK
  <2>5. CASE stuck' /\ mem' = mem
    BY <2>1, <2>2, <2>3, <2>5 DEF JournalIsResident, KnownOK, ForgottenOK
  <2> QED BY <2>1, <2>4, <2>5
<1> QED BY <1>4, <1>5, <1>6, <1>7, <1>8, StepEffects

LEMMA JournalInit == Init => JournalOK
<1> SUFFICES ASSUME Init PROVE JournalOK
  OBVIOUS
<1>1. Typed
  BY TypedInit
<1>2. disk = EmptyJournal /\ mem = EmptyJournal
  BY DEF Init, SpoolInit
<1>3. JournalIsResident /\ KnownOK /\ ForgottenOK
  BY <1>2, EmptyMap DEF EmptyJournal, JournalIsResident, KnownOK, ForgottenOK
<1> QED BY <1>1, <1>3 DEF JournalOK

LEMMA JournalNext == JournalOK /\ [Next]_vars => JournalOK'
<1> SUFFICES ASSUME JournalOK, [Next]_vars PROVE JournalOK'
  OBVIOUS
<1>1. Typed'
  BY TypedNext DEF JournalOK
<1>2. CASE Next
  BY <1>1, <1>2, JournalStep DEF JournalOK
<1>3. CASE UNCHANGED vars
  BY <1>1, <1>3 DEF vars, spool, JournalOK, JournalIsResident, KnownOK, ForgottenOK
<1> QED BY <1>2, <1>3

(* Whatever appends fail, tear or are cut by a crash, the maps the process   *)
(* works with are those the journal replays to, until an append cannot be    *)
(* truncated away (JournalIsResident).                                      *)
THEOREM ResidentCorrect == Spec => []JournalIsResident
<1>1. Init => JournalOK
  BY JournalInit
<1>2. JournalOK /\ [Next]_vars => JournalOK'
  BY JournalNext
<1>3. JournalOK => JournalIsResident
  BY DEF JournalOK
<1> QED BY <1>1, <1>2, <1>3, PTL DEF Spec

-----------------------------------------------------------------------------
(* What a request holds was unseen, and it marks only what it extracted     *)
RequestOK(q, facts) ==
  /\ q.held \subseteq q.unseen
  /\ q.unseen \subseteq In(q.turns)
  /\ q.pc \in {"locking", "reading"} => q.held = {}
  /\ q.pc = "marking" => Turns(Only(q.turns, q.unseen \cap q.kept)) \subseteq facts

RequestsOK == \A r \in Requests : RequestOK(req[r], factsOf)

LEMMA FactsGrow == ASSUME Next PROVE factsOf \subseteq factsOf'
<1>1. ASSUME NEW r \in Requests, Arrive(r) \/ RequestStep(r)
      PROVE  factsOf \subseteq factsOf'
  BY <1>1 DEF Arrive, RequestStep, JoinLock, Look, ReadRows, ReadRowsFails, Reserve,
              Extracted, NoExtraction, CommitRequest, CommitRequestFails
<1>2. CASE DrainStep \/ StartErase \/ EraseStep \/ Crash
  BY <1>2 DEF DrainStep, SpoolStep, pipeline, UpsertSourceTurn, UpsertConflict, UpsertFails,
              Wrote, StartErase, EraseStep, Bury, FindRows, DeleteRows, EraseFails, Crash
<1> QED BY <1>1, <1>2 DEF Next

LEMMA RequestReplaced ==
  ASSUME RequestTypes, RequestsOK, factsOf \subseteq factsOf', NEW r \in Requests,
         NEW q, RequestOK(q, factsOf'), req' = [req EXCEPT ![r] = q]
  PROVE  RequestsOK'
<1> SUFFICES ASSUME NEW x \in Requests PROVE RequestOK(req'[x], factsOf')
  BY Zenon DEF RequestsOK
<1>1. CASE x = r
  BY <1>1 DEF RequestTypes
<1>2. CASE x # r
  <2>1. req'[x] = req[x] /\ RequestOK(req[x], factsOf)
    BY <1>2 DEF RequestTypes, RequestsOK
  <2> QED BY <2>1 DEF RequestOK
<1> QED BY <1>1, <1>2

LEMMA RequestsKept ==
  ASSUME RequestTypes, RequestsOK, SpoolTypes, Next
  PROVE  RequestsOK'
<1>1. factsOf \subseteq factsOf'
  BY FactsGrow
<1>2. RequestOK(NoRequest, factsOf')
  BY EmptyMap DEF RequestOK, NoRequest
<1>3. ASSUME NEW r \in Requests, Arrive(r) PROVE RequestsOK'
  <2>1. PICK batch \in Batches : req' = [req EXCEPT ![r] = [NoRequest EXCEPT
          !.pc = "locking", !.turns = batch.turns, !.kept = batch.kept \cap In(batch.turns)]]
    BY <1>3 DEF Arrive
  <2> DEFINE q == [NoRequest EXCEPT !.pc = "locking", !.turns = batch.turns,
                     !.kept = batch.kept \cap In(batch.turns)]
  <2>2. RequestOK(q, factsOf')
    BY DEF RequestOK, NoRequest
  <2>3. req' = [req EXCEPT ![r] = q]
    BY <2>1
  <2> HIDE DEF q
  <2> QED BY <1>1, <2>2, <2>3, RequestReplaced
<1>4. ASSUME NEW r \in Requests, Finish(r) PROVE RequestsOK'
  BY <1>1, <1>2, <1>4, RequestReplaced DEF Finish
<1>5. ASSUME NEW r \in Requests, NEW pc \in {"putting", "cleanup", "marking"}, Go(r, pc),
             pc = "marking" => Turns(Only(req[r].turns, ToExtract(r))) \subseteq factsOf'
      PROVE  RequestsOK'
  <2> DEFINE q == [req[r] EXCEPT !.pc = pc]
  <2>1. RequestOK(req[r], factsOf) /\ req[r] \in RequestType
    BY DEF RequestsOK, RequestTypes
  <2>2. /\ q.held = req[r].held /\ q.unseen = req[r].unseen /\ q.turns = req[r].turns
        /\ q.kept = req[r].kept /\ q.pc = pc
    BY <2>1 DEF RequestType
  <2>3. RequestOK(q, factsOf')
    BY <1>5, <2>1, <2>2 DEF RequestOK, ToExtract
  <2>4. req' = [req EXCEPT ![r] = q]
    BY <1>5 DEF Go
  <2> HIDE DEF q
  <2> QED BY <1>1, <2>3, <2>4, RequestReplaced
<1>6. ASSUME NEW r \in Requests, Look(r) PROVE RequestsOK'
  <2> DEFINE extracted == {i \in In(req[r].turns) : /\ i \notin mem.forgotten
                                      /\ mem.extracted[i] = req[r].turns[i]}
             known == {i \in In(req[r].turns) : ~seeded \/ i \in mem.known}
             q == [req[r] EXCEPT !.pc = "reading", !.ask = known \ extracted,
                     !.done = extracted, !.gone = In(req[r].turns) \cap mem.forgotten]
  <2>1. RequestOK(req[r], factsOf) /\ req[r] \in RequestType /\ req[r].pc = "locking"
    BY <1>6 DEF RequestsOK, RequestTypes, Look
  <2>2. /\ q.held = req[r].held /\ q.unseen = req[r].unseen /\ q.turns = req[r].turns
        /\ q.kept = req[r].kept /\ q.pc = "reading"
    BY <2>1 DEF RequestType
  <2>3. RequestOK(q, factsOf')
    BY <2>1, <2>2 DEF RequestOK
  <2>4. req' = [req EXCEPT ![r] = q]
    BY <1>6 DEF Look
  <2> HIDE DEF q
  <2> QED BY <1>1, <2>3, <2>4, RequestReplaced
<1>7. ASSUME NEW r \in Requests, ReadRows(r) PROVE RequestsOK'
  <2>1. PICK seen : req' = [req EXCEPT ![r] = [req[r] EXCEPT !.pc = "reserving",
                      !.unseen = In(req[r].turns) \ seen,
                      !.ask = {}, !.done = {}, !.gone = {}]]
    BY <1>7 DEF ReadRows
  <2> DEFINE q == [req[r] EXCEPT !.pc = "reserving", !.unseen = In(req[r].turns) \ seen,
                      !.ask = {}, !.done = {}, !.gone = {}]
  <2>2. RequestOK(req[r], factsOf) /\ req[r] \in RequestType /\ req[r].pc = "reading"
    BY <1>7 DEF RequestsOK, RequestTypes, ReadRows
  <2>3. /\ q.held = req[r].held /\ q.unseen = In(req[r].turns) \ seen
        /\ q.turns = req[r].turns /\ q.pc = "reserving"
    BY <2>2 DEF RequestType
  <2>4. RequestOK(q, factsOf')
    BY <2>2, <2>3 DEF RequestOK
  <2>5. req' = [req EXCEPT ![r] = q]
    BY <2>1
  <2> HIDE DEF q
  <2> QED BY <1>1, <2>4, <2>5, RequestReplaced
<1>8. ASSUME NEW r \in Requests, Reserve(r) PROVE RequestsOK'
  <2> DEFINE q == [req[r] EXCEPT !.held = req[r].unseen \ mem.forgotten,
             !.pc = IF req[r].unseen \cap req[r].kept = {} THEN "putting" ELSE "extracting"]
  <2>1. RequestOK(req[r], factsOf) /\ req[r] \in RequestType
    BY DEF RequestsOK, RequestTypes
  <2>2. /\ q.held = req[r].unseen \ mem.forgotten /\ q.unseen = req[r].unseen
        /\ q.turns = req[r].turns /\ q.pc \in {"putting", "extracting"}
    BY <2>1 DEF RequestType
  <2>3. RequestOK(q, factsOf')
    BY <2>1, <2>2 DEF RequestOK
  <2>4. req' = [req EXCEPT ![r] = q]
    BY <1>8 DEF Reserve
  <2> HIDE DEF q
  <2> QED BY <1>1, <2>3, <2>4, RequestReplaced
<1>9. CASE UNCHANGED req
  BY <1>1, <1>9 DEF RequestsOK, RequestOK
<1>10. ASSUME NEW r \in Requests, RequestStep(r) PROVE RequestsOK'
  <2>1. CASE JoinLock(r) BY <2>1, <1>9 DEF JoinLock
  <2>2. CASE Look(r) BY <2>2, <1>6
  <2>3. CASE ReadRows(r) BY <2>3, <1>7
  <2>4. CASE ReadRowsFails(r) BY <2>4, <1>4 DEF ReadRowsFails
  <2>5. CASE Reserve(r) BY <2>5, <1>8
  <2>6. CASE Extracted(r)
    <3>1. Go(r, "marking")
          /\ Turns(Only(req[r].turns, ToExtract(r))) \subseteq factsOf'
      BY <2>6 DEF Extracted
    <3> QED BY <3>1, <1>5
  <2>7. CASE NoExtraction(r)
    <3>1. Go(r, "putting") \/ Go(r, "cleanup")
      BY <2>7 DEF NoExtraction
    <3> QED BY <3>1, <1>5
  <2>8. CASE CommitRequest(r) BY <2>8, <1>4 DEF CommitRequest
  <2>9. CASE CommitRequestFails(r) BY <2>9, <1>4, <1>5 DEF CommitRequestFails
  <2> QED BY <1>10, <2>1, <2>2, <2>3, <2>4, <2>5, <2>6, <2>7, <2>8, <2>9 DEF RequestStep
<1>11. CASE DrainStep \/ StartErase \/ EraseStep
  <2>1. UNCHANGED req
    BY <1>11 DEF DrainStep, SpoolStep, pipeline, UpsertSourceTurn, UpsertConflict,
           UpsertFails, Wrote, StartErase, EraseStep, Bury, FindRows, DeleteRows, EraseFails
  <2> QED BY <2>1, <1>9
<1>12. CASE Crash
  BY <1>2, <1>12 DEF Crash, RequestsOK
<1> QED BY <1>3, <1>10, <1>11, <1>12 DEF Next

-----------------------------------------------------------------------------
(* Markers                                                                  *)
MarkersOK == /\ RequestsOK
             /\ Turns(mem.extracted) \subseteq factsOf
             /\ Turns(disk.extracted) \subseteq factsOf

LEMMA TurnsOf ==
  ASSUME NEW f \in TurnMap, NEW g \in TurnMap, NEW S
  PROVE  /\ Turns(Only(f, S)) \subseteq Turns(f)
         /\ Turns(Without(f, S)) \subseteq Turns(f)
         /\ Turns(Override(f, g)) \subseteq Turns(f) \cup Turns(g)
         /\ Turns(NoTurns) = {}
BY NoneAssumption DEF Turns, In, Only, Without, Override, NoTurns, TurnMap

LEMMA MarkersTrue ==
  ASSUME RequestTypes, RequestsOK, NEW r \in Requests
  PROVE  Turns(Completed(r)) \subseteq factsOf
<1>1. CASE req[r].pc = "marking"
  <2>1. RequestOK(req[r], factsOf)
    BY DEF RequestsOK
  <2>2. (req[r].held \cap req[r].kept) \ ContentOnly \subseteq req[r].unseen \cap req[r].kept
    BY <2>1 DEF RequestOK
  <2>3. Turns(Only(req[r].turns, (req[r].held \cap req[r].kept) \ ContentOnly))
          \subseteq Turns(Only(req[r].turns, req[r].unseen \cap req[r].kept))
    BY <2>2 DEF Turns, In, Only
  <2> QED BY <1>1, <2>1, <2>3 DEF RequestOK, Completed
<1>2. CASE req[r].pc # "marking"
  BY <1>2, TurnsOf, EmptyMap DEF Completed
<1> QED BY <1>1, <1>2

LEMMA MarkersKept ==
  ASSUME Typed, MarkersOK, Next
  PROVE  MarkersOK'
<1>1. SpoolTypes /\ RequestTypes /\ disk \in Journal /\ mem \in Journal
      /\ mem.extracted \in TurnMap /\ disk.extracted \in TurnMap
      /\ erase.ids \in SUBSET Ids /\ DrainTypes
  BY MemTypes DEF Typed, SpoolTypes, EraseType
<1>2. RequestsOK' /\ factsOf \subseteq factsOf'
  BY <1>1, RequestsKept, FactsGrow DEF MarkersOK
<1>3. \A f : Turns(f) \subseteq factsOf => Turns(f) \subseteq factsOf'
  BY <1>2
<1>4. SUFFICES Turns(mem'.extracted) \subseteq factsOf /\ Turns(disk'.extracted) \subseteq factsOf
  BY <1>2, <1>3 DEF MarkersOK, Turns, In
<1>5. Turns(mem.extracted) \subseteq factsOf /\ Turns(disk.extracted) \subseteq factsOf
  BY DEF MarkersOK
<1>6. CASE NothingAppended
  <2>1. disk' = disk /\ mem'.extracted = mem.extracted
    BY <1>1, <1>6 DEF NothingAppended, Journal
  <2> QED BY <1>5, <2>1
<1>7. CASE Restarted
  BY <1>5, <1>7 DEF Restarted
<1>8. ASSUME NEW r \in Requests, Committed(r) \/ CommitTorn(r)
      PROVE  /\ Turns(mem'.extracted) \subseteq factsOf
             /\ Turns(disk'.extracted) \subseteq factsOf
  <2> DEFINE puts == Puts(Held(r))
             marks == Markers(Completed(r))
             d == PutLines(disk, puts)
  <2>1. \A S : Only(puts, S) \in TurnMap /\ Only(marks, S) \in TurnMap
    BY <1>1, CommitAvoidsForgotten
  <2>2. puts \in TurnMap /\ marks \in TurnMap
    BY <1>1, CommitAvoidsForgotten
  <2>3. Turns(marks) \subseteq factsOf
    <3>1. Completed(r) \in TurnMap /\ Turns(Completed(r)) \subseteq factsOf
      BY <1>1, RequestFields, MarkersTrue DEF MarkersOK
    <3> QED BY <3>1, TurnsOf DEF Markers
  <2> HIDE DEF puts, marks
  <2>4. \A f \in TurnMap : PutLines(disk, f) \in Journal
                          /\ PutLines(disk, f).extracted = disk.extracted
    BY <1>1, LineTypes, LineFields, EmptyMap
  <2>5. ASSUME NEW f \in TurnMap, Turns(f) \subseteq factsOf
        PROVE  Turns(ExtractedLines(d, f).extracted) \subseteq factsOf
    <3>1. ExtractedLines(d, f).extracted = Override(Without(f, d.forgotten), disk.extracted)
      <4>1. d \in Journal /\ d.extracted = disk.extracted
        BY <2>2, <2>4
      <4>2. \A e \in Journal : ExtractedLines(e, f).extracted
                               = Override(Without(f, e.forgotten), e.extracted)
        BY LineFields
      <4> HIDE DEF d
      <4> QED BY <4>1, <4>2
    <3>2. Without(f, d.forgotten) \in TurnMap /\ Turns(Without(f, d.forgotten)) \subseteq Turns(f)
      BY MapTypes, TurnsOf
    <3>3. Turns(Override(Without(f, d.forgotten), disk.extracted))
            \subseteq Turns(Without(f, d.forgotten)) \cup Turns(disk.extracted)
      BY <1>1, <3>2, TurnsOf
    <3> QED BY <1>5, <2>5, <3>1, <3>2, <3>3
  <2>6. CASE Committed(r)
    <3>1. disk' = ExtractedLines(d, marks) /\ mem'.extracted = Override(marks, mem.extracted)
      BY <1>1, <2>6 DEF Committed, puts, marks, Journal
    <3>2. Turns(Override(marks, mem.extracted)) \subseteq Turns(marks) \cup Turns(mem.extracted)
      BY <1>1, <2>2, TurnsOf
    <3> QED BY <1>5, <2>2, <2>3, <2>5, <3>1, <3>2
  <2>7. CASE CommitTorn(r)
    <3>1. mem' = mem
      BY <2>7 DEF CommitTorn
    <3>2. PICK S \in SUBSET Ids : \/ disk' = PutLines(disk, Only(puts, S))
                                 \/ disk' = ExtractedLines(d, Only(marks, S))
      BY <2>7 DEF CommitTorn, puts, marks
    <3>3. CASE disk' = PutLines(disk, Only(puts, S))
      BY <1>5, <2>1, <2>4, <3>1, <3>3
    <3>4. CASE disk' = ExtractedLines(d, Only(marks, S))
      <4>1. Turns(Only(marks, S)) \subseteq factsOf
        BY <2>2, <2>3, TurnsOf
      <4> HIDE DEF d
      <4> QED BY <1>5, <2>1, <2>5, <3>1, <3>4, <4>1
    <3> QED BY <3>2, <3>3, <3>4
  <2> QED BY <1>8, <2>6, <2>7
<1>9. CASE Forgot \/ ForgetTorn
  <2>1. PICK S \in SUBSET Ids : disk' = ForgetLines(disk, S)
                               /\ (mem' = ForgetLines(mem, S) \/ mem' = mem)
    BY <1>1, <1>9 DEF Forgot, ForgetTorn
  <2>2. \A d \in Journal : ForgetLines(d, S).extracted = Without(d.extracted, S)
    BY LineFields, EmptyMap
  <2>3. /\ Turns(Without(disk.extracted, S)) \subseteq Turns(disk.extracted)
        /\ Turns(Without(mem.extracted, S)) \subseteq Turns(mem.extracted)
    BY <1>1, TurnsOf
  <2> QED BY <1>1, <1>5, <2>1, <2>2, <2>3
<1>10. CASE Drained \/ DrainTorn
  <2>1. DrainedIds \in SUBSET Ids
    BY <1>1 DEF DrainedIds, DrainTypes
  <2>2. \E S \in SUBSET Ids : disk' = DoneLines(disk, S)
    BY <1>10, <2>1 DEF Drained, DrainTorn
  <2>3. disk'.extracted = disk.extracted
    BY <1>1, <2>2, LineFields, EmptyMap
  <2>4. mem'.extracted = mem.extracted
    BY <1>1, <1>10 DEF Drained, DrainTorn, Journal
  <2> QED BY <1>5, <2>3, <2>4
<1> QED BY <1>6, <1>7, <1>8, <1>9, <1>10, StepEffects

(* An extraction marker, in the maps or after any replay of the journal,     *)
(* names a content whose facts were written: a crash or a torn commit never  *)
(* makes a turn count as extracted (MarkerIsTrue).                          *)
THEOREM MarkersCorrect == Spec => []MarkerIsTrue
<1>1. Init => Typed /\ MarkersOK
  <2> SUFFICES ASSUME Init PROVE Typed /\ MarkersOK
    OBVIOUS
  <2>1. Turns(NoTurns) = {} /\ RequestOK(NoRequest, factsOf)
    BY EmptyMap, TurnsOf DEF RequestOK, NoRequest
  <2>2. disk.extracted = NoTurns /\ mem.extracted = NoTurns
    BY DEF Init, SpoolInit, EmptyJournal
  <2>3. RequestsOK
    BY <2>1 DEF Init, RequestsOK
  <2> QED BY <2>1, <2>2, <2>3, TypedInit DEF MarkersOK
<1>2. Typed /\ MarkersOK /\ [Next]_vars => (Typed /\ MarkersOK)'
  <2> SUFFICES ASSUME Typed, MarkersOK, [Next]_vars PROVE (Typed /\ MarkersOK)'
    OBVIOUS
  <2>1. Typed'
    BY TypedNext
  <2>2. CASE Next
    BY <2>1, <2>2, MarkersKept
  <2>3. CASE UNCHANGED vars
    BY <2>1, <2>3 DEF vars, spool, pipeline, MarkersOK, RequestsOK
  <2> QED BY <2>2, <2>3
<1>3. Typed /\ MarkersOK => MarkerIsTrue
  BY DEF MarkersOK, MarkerIsTrue
<1> QED BY <1>1, <1>2, <1>3, PTL DEF Spec

-----------------------------------------------------------------------------
(* Erased rows                                                              *)
EraseOK ==
  erase.pc \in {"buryStored", "delete"}
    => \A i \in Writing \cap mem.forgotten : row[i] = None \/ i \in erase.ids

BuriedOK ==
  \A i \in Ids : erased[i] = "buried" =>
    row[i] = None /\ i \notin Writing /\ i \in mem.forgotten

ErasedOK == JournalOK /\ EraseOK /\ BuriedOK

(* The tombstones of the running process only grow, except that a restart    *)
(* takes over those of the journal; only an erase adds to them.             *)
LEMMA ForgottenGrows ==
  ASSUME JournalOK, Next
  PROVE  /\ mem.forgotten \subseteq mem'.forgotten
         /\ ~Bury /\ ~Crash => mem'.forgotten = mem.forgotten
<1>1. /\ disk \in Journal /\ mem \in Journal /\ mem.forgotten \subseteq disk.forgotten
      /\ erase.ids \in SUBSET Ids
  BY DEF JournalOK, Typed, SpoolTypes, EraseType, ForgottenOK
<1>2. CASE NothingAppended
  BY <1>1, <1>2 DEF NothingAppended, Journal
<1>3. CASE Restarted /\ Crash
  BY <1>1, <1>3 DEF Restarted
<1>4. ASSUME NEW r \in Requests, Committed(r) PROVE mem'.forgotten = mem.forgotten
  BY <1>1, <1>4 DEF Committed, Journal
<1>5. CASE Bury /\ Forgot
  BY <1>1, <1>5, LineFields, EmptyMap DEF Forgot
<1>6. CASE Drained
  BY <1>1, <1>6 DEF Drained, Journal
<1>7. ASSUME NEW r \in Requests, CommitTorn(r) PROVE mem' = mem
  BY <1>7 DEF CommitTorn
<1>8. CASE ForgetTorn \/ DrainTorn
  BY <1>8 DEF ForgetTorn, DrainTorn
<1> QED BY <1>2, <1>3, <1>4, <1>5, <1>6, <1>7, <1>8, StepEffects

(* Only a registration of a turn that is not forgotten, and a drain that      *)
(* starts, add to the writes under way.                                     *)
LEMMA WritingKept ==
  ASSUME JournalOK, Next
  PROVE  \A i \in Writing' : i \in Writing \/ i \notin mem.forgotten
<1>1. CASE UNCHANGED <<window, inFlight>>
  BY <1>1 DEF Writing
<1>2. CASE DrainReleases \/ Crash
  BY <1>2 DEF DrainReleases, Crash, Restart, Writing
<1>3. CASE DrainStarts
  BY <1>3 DEF DrainStarts, Writing, JournalOK, ForgottenOK, In, Typed, DrainTypes
<1>4. ASSUME NEW i \in Ids, Register(i)
      PROVE  \A j \in Writing' : j \in Writing \/ j \notin mem.forgotten
  <2>1. CASE mem.pending[i] # None /\ i \notin mem.forgotten
    BY <1>4, <2>1 DEF Register, Writing
  <2>2. CASE ~(mem.pending[i] # None /\ i \notin mem.forgotten)
    BY <1>4, <2>2 DEF Register, Writing, JournalOK, Typed, DrainTypes, TurnMap
  <2> QED BY <2>1, <2>2
<1>5. ASSUME NEW i \in Ids, window' = [window EXCEPT ![i] = None], inFlight' = inFlight
      PROVE  \A j \in Writing' : j \in Writing
  BY <1>5 DEF Writing, JournalOK, Typed, DrainTypes, TurnMap
<1>6. CASE DrainStep
  BY <1>2, <1>3, <1>4, <1>5, <1>6 DEF DrainStep, SpoolStep, DrainEnds, DrainEndFails,
     UpsertSourceTurn, UpsertConflict, UpsertFails, Wrote
<1>7. ASSUME NEW r \in Requests, Arrive(r) \/ RequestStep(r)
      PROVE  UNCHANGED <<window, inFlight>>
  BY <1>7 DEF Arrive, RequestStep, JoinLock, Look, ReadRows, ReadRowsFails, Reserve,
              Extracted, NoExtraction, CommitRequest, CommitRequestFails, spool
<1>8. CASE StartErase \/ EraseStep
  <2>1. UNCHANGED <<window, inFlight>>
    BY <1>8 DEF StartErase, EraseStep, Bury, FindRows, DeleteRows, EraseFails, spool
  <2> QED BY <2>1, <1>1
<1> QED BY <1>1, <1>2, <1>6, <1>7, <1>8 DEF Next

(* A row is changed by the write under way, or by an erase that deletes.     *)
LEMMA RowChanges ==
  ASSUME JournalOK, Next, ~DeleteRows
  PROVE  /\ erased' = erased
         /\ \A i \in Ids : row'[i] # row[i] => i \in Writing /\ i \notin Writing' /\ row'[i] # None
<1>1. CASE UNCHANGED <<row, erased>>
  BY <1>1
<1>2. ASSUME NEW i \in Ids, i \in Writing, Wrote(i, TRUE) \/ Wrote(i, FALSE),
             row' = row \/ row' = [row EXCEPT ![i] = window[i]]
      PROVE  /\ erased' = erased
             /\ \A j \in Ids : row'[j] # row[j] =>
                  j \in Writing /\ j \notin Writing' /\ row'[j] # None
  <2>1. window \in TurnMap /\ row \in TurnMap
    BY DEF JournalOK, Typed, DrainTypes
  <2>2. \A j \in Ids : row'[j] # row[j] => j = i /\ row'[j] = window[i]
    BY <1>2, <2>1 DEF TurnMap
  <2>3. window'[i] = None /\ window[i] # None
    BY <1>2, <2>1 DEF Wrote, Writing, TurnMap
  <2> QED BY <1>2, <2>2, <2>3 DEF Wrote, Writing
<1>3. CASE DrainStep
  <2>1. CASE SpoolStep
    BY <2>1, <1>1 DEF SpoolStep, pipeline
  <2>2. ASSUME NEW i \in Ids, UpsertSourceTurn(i) \/ UpsertConflict(i) \/ UpsertFails(i)
        PROVE  /\ i \in Writing /\ (Wrote(i, TRUE) \/ Wrote(i, FALSE))
               /\ row' = row \/ row' = [row EXCEPT ![i] = window[i]]
    BY <2>2 DEF UpsertSourceTurn, UpsertConflict, UpsertFails
  <2> QED BY <1>3, <2>1, <2>2, <1>2 DEF DrainStep
<1>4. ASSUME NEW r \in Requests, Arrive(r) \/ RequestStep(r) PROVE UNCHANGED <<row, erased>>
  BY <1>4 DEF Arrive, RequestStep, JoinLock, Look, ReadRows, ReadRowsFails, Reserve,
              Extracted, NoExtraction, CommitRequest, CommitRequestFails
<1>5. CASE StartErase \/ Bury \/ FindRows \/ EraseFails \/ Crash
  BY <1>5, <1>1 DEF StartErase, Bury, FindRows, EraseFails, Crash
<1> QED BY <1>1, <1>3, <1>4, <1>5 DEF Next, EraseStep

LEMMA ErasedStep ==
  ASSUME ErasedOK, Next
  PROVE  EraseOK' /\ BuriedOK'
<1>1. JournalOK /\ EraseOK /\ BuriedOK
  BY DEF ErasedOK
<1>2. /\ mem.forgotten \subseteq mem'.forgotten
      /\ ~Bury /\ ~Crash => mem'.forgotten = mem.forgotten
  BY <1>1, ForgottenGrows
<1>3. \A i \in Writing' : i \in Writing \/ i \notin mem.forgotten
  BY <1>1, WritingKept
<1>4. CASE ~DeleteRows
  <2>1. /\ erased' = erased
        /\ \A i \in Ids : row'[i] # row[i] => i \in Writing /\ i \notin Writing' /\ row'[i] # None
    BY <1>1, <1>4, RowChanges
  <2>2. BuriedOK'
    BY <1>1, <1>2, <1>3, <2>1 DEF BuriedOK
  <2>3. EraseOK'
    <3>0. \A i \in Writing' : i \in Ids
      BY <1>1, JournalNext DEF JournalOK, Typed, DrainTypes, Writing
    <3>1. CASE UNCHANGED erase /\ ~Bury /\ ~Crash
      BY <1>1, <1>2, <1>3, <2>1, <3>0, <3>1 DEF EraseOK
    <3>2. CASE Bury
      <4>1. /\ erase.pc = "buryStored" \/ erase'.pc = "find"
            /\ erase'.ids = erase.ids /\ row' = row /\ UNCHANGED <<window, inFlight>>
        BY <1>1, <3>2 DEF Bury, JournalOK, Typed, EraseType
      <4>2. mem'.forgotten = mem.forgotten \cup erase.ids
        <5>1. Forget(erase.ids)
          BY <3>2 DEF Bury
        <5>2. mem \in Journal /\ disk \in Journal /\ erase.ids \in SUBSET Ids
          BY <1>1 DEF JournalOK, Typed, SpoolTypes, EraseType
        <5>3. CASE erase.ids = {}
          BY <5>1, <5>3 DEF Forget
        <5>4. CASE erase.ids # {}
          <6>1. mem' = ForgetLines(mem, erase.ids)
            BY <5>1, <5>4 DEF Forget, AppendLines
          <6> QED BY <5>2, <6>1, LineFields, EmptyMap
        <5> QED BY <5>3, <5>4
      <4> QED BY <1>1, <4>1, <4>2 DEF EraseOK, Writing
    <3>3. CASE FindRows
      <4>1. erase'.ids = In(row) /\ row' = row /\ UNCHANGED <<window, inFlight, mem>>
        BY <1>1, <3>3 DEF FindRows, JournalOK, Typed, EraseType, spool
      <4> QED BY <4>1, <3>0 DEF EraseOK, In
    <3>4. CASE StartErase \/ erase' = NoErase
      <4>1. erase'.pc \in {"idle", "burySpooled"}
        BY <3>4 DEF StartErase, NoErase
      <4> QED BY <4>1 DEF EraseOK
    <3>5. CASE EraseFails \/ Crash
      <4>1. erase' = NoErase
        BY <3>5 DEF EraseFails, Crash
      <4> QED BY <3>4, <4>1
    <3>6. CASE UNCHANGED erase
      BY <3>1, <3>2, <3>5, <3>6
    <3>7. CASE DrainStep
      <4>1. UNCHANGED erase
        BY <3>7 DEF DrainStep, SpoolStep, pipeline, UpsertSourceTurn, UpsertConflict,
                    UpsertFails, Wrote
      <4> QED BY <3>6, <4>1
    <3>8. ASSUME NEW r \in Requests, Arrive(r) \/ RequestStep(r) PROVE UNCHANGED erase
      BY <3>8 DEF Arrive, RequestStep, JoinLock, Look, ReadRows, ReadRowsFails, Reserve,
                  Extracted, NoExtraction, CommitRequest, CommitRequestFails
    <3>9. CASE \E r \in Requests : Arrive(r) \/ RequestStep(r)
      BY <3>6, <3>8, <3>9
    <3> QED BY <1>4, <3>2, <3>3, <3>4, <3>5, <3>7, <3>9 DEF Next, EraseStep
  <2> QED BY <2>2, <2>3
<1>5. CASE DeleteRows
  <2>1. UNCHANGED <<window, inFlight, mem>> /\ erase' = NoErase
    BY <1>5 DEF DeleteRows, spool
  <2>2. EraseOK'
    BY <2>1 DEF EraseOK, NoErase
  <2>3. PICK removed \in SUBSET In(row) :
          /\ row' = Without(row, removed)
          /\ erased' = [i \in Ids |->
               IF i \notin removed THEN erased[i]
               ELSE IF i \in mem.forgotten THEN "buried" ELSE "unburied"]
    BY <1>5 DEF DeleteRows
  <2>4. SUFFICES ASSUME NEW i \in Ids, erased'[i] = "buried"
                 PROVE  row'[i] = None /\ i \notin Writing /\ i \in mem.forgotten
    BY <2>1, <2>2 DEF BuriedOK, Writing
  <2>5. CASE i \notin removed
    BY <1>1, <2>3, <2>4, <2>5 DEF BuriedOK, Without
  <2>6. CASE i \in removed
    <3>1. row'[i] = None /\ i \in mem.forgotten /\ row[i] # None
      BY <2>3, <2>4, <2>6 DEF Without, In
    <3>2. i \in Writing => i \in erase.ids
      BY <1>1, <1>5, <3>1 DEF EraseOK, DeleteRows
    <3>3. i \in erase.ids => i \notin Writing
      BY <1>5 DEF DeleteRows, WritesSettled, Writing
    <3> QED BY <3>1, <3>2, <3>3
  <2> QED BY <2>5, <2>6
<1> QED BY <1>4, <1>5

(* A turn whose row was deleted under a tombstone never has a row again,      *)
(* through any interleaving with the writes in flight, later drains, retried *)
(* requests, failed or repeated erases and restarts (BuriedStaysErased).    *)
THEOREM BuriedCorrect == Spec => []BuriedStaysErased
<1>1. Init => ErasedOK
  <2> SUFFICES ASSUME Init PROVE ErasedOK
    OBVIOUS
  <2>1. EraseOK /\ BuriedOK
    BY DEF Init, NoErase, EraseOK, BuriedOK
  <2> QED BY <2>1, JournalInit DEF ErasedOK
<1>2. ErasedOK /\ [Next]_vars => ErasedOK'
  <2> SUFFICES ASSUME ErasedOK, [Next]_vars PROVE ErasedOK'
    OBVIOUS
  <2>1. JournalOK'
    BY JournalNext DEF ErasedOK
  <2>2. CASE Next
    BY <2>1, <2>2, ErasedStep DEF ErasedOK
  <2>3. CASE UNCHANGED vars
    BY <2>1, <2>3 DEF vars, spool, pipeline, ErasedOK, EraseOK, BuriedOK, Writing
  <2> QED BY <2>2, <2>3
<1>3. ErasedOK => BuriedStaysErased
  BY DEF ErasedOK, BuriedOK, BuriedStaysErased
<1> QED BY <1>1, <1>2, <1>3, PTL DEF Spec

-----------------------------------------------------------------------------
(* Accepted turns                                                           *)
KeptOK == /\ \A i \in written : row[i] # None \/ erased[i] # "no"
          /\ \A i \in Ids : mem.pending[i] # None => Kept(i)

AcceptedOK == JournalOK /\ RequestsOK /\ KeptOK

LEMMA RowsKept ==
  ASSUME JournalOK, Next, NEW i \in Ids, row[i] # None \/ erased[i] # "no"
  PROVE  row'[i] # None \/ erased'[i] # "no"
<1>1. CASE DeleteRows
  <2>1. PICK removed : /\ row' = Without(row, removed)
                       /\ erased' = [j \in Ids |-> IF j \notin removed THEN erased[j]
                            ELSE IF j \in mem.forgotten THEN "buried" ELSE "unburied"]
    BY <1>1 DEF DeleteRows
  <2> QED BY <2>1 DEF Without
<1>2. CASE ~DeleteRows
  BY <1>2, RowChanges
<1> QED BY <1>1, <1>2

LEMMA WrittenKept ==
  ASSUME JournalOK, KeptOK, Next
  PROVE  \A i \in written' : row'[i] # None \/ erased'[i] # "no"
<1>1. written \subseteq Ids /\ window \in TurnMap /\ row \in TurnMap
  BY DEF JournalOK, Typed, DrainTypes
<1>2. \A i \in written : row'[i] # None \/ erased'[i] # "no"
  BY <1>1, RowsKept DEF KeptOK
<1>3. CASE written' \subseteq written
  BY <1>2, <1>3
<1>4. ASSUME NEW i \in Ids, UpsertSourceTurn(i)
      PROVE  \A j \in written' : row'[j] # None \/ erased'[j] # "no"
  BY <1>1, <1>2, <1>4 DEF UpsertSourceTurn, Wrote, Writing, TurnMap
<1>5. ASSUME NEW i \in Ids, UpsertConflict(i) \/ UpsertFails(i) PROVE written' = written
  BY <1>5 DEF UpsertConflict, UpsertFails, Wrote
<1>6. CASE DrainStep
  <2>1. CASE SpoolStep
    <3>1. written' \subseteq written
      BY <2>1 DEF SpoolStep, DrainStarts, Register, DrainEnds, DrainEndFails, DrainReleases
    <3> QED BY <3>1, <1>3
  <2> QED BY <1>6, <2>1, <1>3, <1>4, <1>5 DEF DrainStep
<1>7. ASSUME NEW r \in Requests, Arrive(r) \/ RequestStep(r) PROVE written' = written
  BY <1>7 DEF Arrive, RequestStep, JoinLock, Look, ReadRows, ReadRowsFails, Reserve,
              Extracted, NoExtraction, CommitRequest, CommitRequestFails, spool
<1>8. CASE StartErase \/ EraseStep
  BY <1>8, <1>3 DEF StartErase, EraseStep, Bury, FindRows, DeleteRows, EraseFails, spool
<1>9. CASE Crash
  BY <1>9, <1>3 DEF Crash, Restart
<1> QED BY <1>3, <1>6, <1>7, <1>8, <1>9 DEF Next

(* A kept turn stays kept; what enters the resident queue is kept.           *)
LEMMA KeptStep ==
  ASSUME AcceptedOK, Next
  PROVE  /\ \A i \in Ids : Kept(i) => Kept(i)'
         /\ \A i \in Ids : mem'.pending[i] # None => Kept(i)'
<1>1. JournalOK /\ RequestsOK /\ KeptOK
  BY DEF AcceptedOK
<1>2. /\ SpoolTypes /\ RequestTypes /\ erase.ids \in SUBSET Ids
      /\ disk \in Journal /\ mem \in Journal /\ written \in SUBSET Ids
  BY <1>1 DEF JournalOK, Typed, EraseType, SpoolTypes, DrainTypes
<1>3. /\ mem.pending \in TurnMap /\ disk.pending \in TurnMap
      /\ mem.extracted \in TurnMap /\ disk.extracted \in TurnMap
  BY <1>2, MemTypes
<1>4. \A i \in Ids : row[i] # None \/ erased[i] # "no" => row'[i] # None \/ erased'[i] # "no"
  BY <1>1, RowsKept
<1>5. \A i \in Ids : mem.pending[i] # None => Kept(i)
  BY <1>1 DEF KeptOK
<1>6. SUFFICES ASSUME NEW i \in Ids
      PROVE  /\ disk.pending[i] # None \/ i \in disk.forgotten => Kept(i)'
             /\ mem'.pending[i] # None => mem.pending[i] # None \/ Kept(i)'
  BY <1>4, <1>5 DEF Kept
<1>7. CASE NothingAppended
  BY <1>2, <1>7 DEF NothingAppended, Kept, Journal
<1>8. CASE Restarted
  BY <1>8 DEF Restarted, Kept
<1>9. ASSUME NEW r \in Requests, Committed(r) \/ CommitTorn(r)
      PROVE  /\ disk.pending[i] # None => disk'.pending[i] # None
             /\ disk'.forgotten = disk.forgotten
             /\ mem'.pending[i] # None => mem.pending[i] # None \/ disk'.pending[i] # None
  <2> DEFINE puts == Puts(Held(r))
             marks == Markers(Completed(r))
  <2>1. \A S : Only(puts, S) \in TurnMap /\ Only(marks, S) \in TurnMap
    BY <1>2, CommitAvoidsForgotten
  <2>2. /\ puts \in TurnMap /\ marks \in TurnMap /\ In(puts) \cap mem.forgotten = {}
    BY <1>2, CommitAvoidsForgotten
  <2> HIDE DEF puts, marks
  <2>3. ASSUME NEW f \in TurnMap
        PROVE  /\ PutLines(disk, f) \in Journal
               /\ PutLines(disk, f).forgotten = disk.forgotten
               /\ PutLines(disk, f).pending = Override(Without(f, disk.forgotten), disk.pending)
               /\ disk.pending[i] # None => PutLines(disk, f).pending[i] # None
    <3>1. /\ PutLines(disk, f) \in Journal
          /\ PutLines(disk, f).forgotten = disk.forgotten
          /\ PutLines(disk, f).pending = Override(Without(f, disk.forgotten), disk.pending)
      BY <1>2, LineTypes, LineFields, EmptyMap
    <3> QED BY <3>1 DEF Override
  <2>4. \A d \in Journal, f \in TurnMap :
          /\ ExtractedLines(d, f).pending = d.pending
          /\ ExtractedLines(d, f).forgotten = d.forgotten
    BY LineFields, EmptyMap
  <2>5. CASE Committed(r)
    <3>1. /\ ~stuck /\ disk' = ExtractedLines(PutLines(disk, puts), marks)
          /\ mem'.pending = Override(puts, mem.pending)
      BY <1>2, <2>5 DEF Committed, puts, marks, Journal
    <3>2. mem.forgotten = disk.forgotten /\ mem.pending = disk.pending
      BY <1>1, <3>1 DEF JournalOK, JournalIsResident
    <3>3. Without(puts, disk.forgotten) = puts
      BY <2>2, <3>2, WithoutNothing
    <3> QED BY <2>2, <2>3, <2>4, <3>1, <3>2, <3>3
  <2>6. CASE CommitTorn(r)
    <3>1. mem' = mem
      BY <2>6 DEF CommitTorn
    <3>2. PICK S \in SUBSET Ids : \/ disk' = PutLines(disk, Only(puts, S))
                                 \/ disk' = ExtractedLines(PutLines(disk, puts), Only(marks, S))
      BY <2>6 DEF CommitTorn, puts, marks
    <3> QED BY <2>1, <2>2, <2>3, <2>4, <3>1, <3>2
  <2> QED BY <1>9, <2>5, <2>6
<1>10. CASE Forgot \/ ForgetTorn
  <2>1. PICK S \in SUBSET Ids : disk' = ForgetLines(disk, S)
                               /\ (mem' = ForgetLines(mem, S) \/ mem' = mem)
    BY <1>2, <1>10 DEF Forgot, ForgetTorn
  <2>2. \A d \in Journal : /\ ForgetLines(d, S).pending = Without(d.pending, S)
                            /\ ForgetLines(d, S).forgotten = d.forgotten \cup S
    BY LineFields, EmptyMap
  <2>3. mem'.pending = mem.pending \/ mem'.pending = Without(mem.pending, S)
    BY <1>2, <2>1, <2>2
  <2>4. disk'.pending = Without(disk.pending, S) /\ disk'.forgotten = disk.forgotten \cup S
    BY <1>2, <2>1, <2>2
  <2>5. disk.pending[i] # None \/ i \in disk.forgotten => Kept(i)'
    BY <2>4 DEF Kept, Without
  <2>6. mem'.pending[i] # None => mem.pending[i] # None
    BY <2>3 DEF Without
  <2> QED BY <2>5, <2>6
<1>11. CASE Drained \/ DrainTorn
  <2>1. PICK S \in SUBSET written : disk' = DoneLines(disk, S)
    BY <1>11 DEF Drained, DrainTorn, DrainedIds
  <2>2. disk'.pending = Without(disk.pending, S) /\ disk'.forgotten = disk.forgotten
    BY <1>2, <2>1, LineFields, EmptyMap
  <2>3. i \in S => row'[i] # None \/ erased'[i] # "no"
    BY <1>1, <1>4 DEF KeptOK
  <2>4. mem'.pending[i] # None => mem.pending[i] # None
    BY <1>2, <1>11 DEF Drained, DrainTorn, Without, Journal
  <2> QED BY <2>2, <2>3, <2>4 DEF Kept, Without
<1>12. ASSUME NEW r \in Requests, Committed(r) \/ CommitTorn(r)
       PROVE  /\ disk.pending[i] # None \/ i \in disk.forgotten => Kept(i)'
              /\ mem'.pending[i] # None => mem.pending[i] # None \/ Kept(i)'
  BY <1>9, <1>12 DEF Kept
<1> QED BY <1>7, <1>8, <1>10, <1>11, <1>12, StepEffects

LEMMA AcceptedNext == AcceptedOK /\ [Next]_vars => AcceptedOK'
<1> SUFFICES ASSUME AcceptedOK, [Next]_vars PROVE AcceptedOK'
  OBVIOUS
<1>1. JournalOK /\ RequestsOK /\ KeptOK /\ RequestTypes /\ SpoolTypes
  BY DEF AcceptedOK, JournalOK, Typed
<1>2. JournalOK'
  BY <1>1, JournalNext
<1>3. CASE Next
  <2>1. RequestsOK'
    BY <1>1, <1>3, RequestsKept
  <2>2. KeptOK'
    BY <1>1, <1>3, KeptStep, WrittenKept DEF KeptOK
  <2> QED BY <1>2, <2>1, <2>2 DEF AcceptedOK
<1>4. CASE UNCHANGED vars
  BY <1>1, <1>2, <1>4 DEF vars, spool, pipeline, AcceptedOK, RequestsOK, KeptOK, Kept
<1> QED BY <1>3, <1>4

(* A request that ends with a commit that did not fail has made every turn   *)
(* it held durable.                                                         *)
LEMMA CommitKeeps ==
  ASSUME AcceptedOK, Next, NEW r \in Requests, NEW i \in req[r].held,
         req[r].pc \in {"marking", "putting"}, req'[r].pc = "idle", faults' = faults
  PROVE  Kept(i)'
<1>1. JournalOK /\ RequestsOK /\ KeptOK
  BY DEF AcceptedOK
<1>2. /\ SpoolTypes /\ RequestTypes /\ erase.ids \in SUBSET Ids /\ faults \in Nat
      /\ disk \in Journal /\ mem \in Journal
      /\ i \in Ids /\ i \in In(req[r].turns) /\ req[r] \in RequestType
  <2>1. /\ SpoolTypes /\ RequestTypes /\ erase.ids \in SUBSET Ids /\ faults \in 0..MaxFaults
        /\ disk \in Journal /\ mem \in Journal /\ req[r] \in RequestType
    BY <1>1 DEF JournalOK, Typed, EraseType, SpoolTypes, RequestTypes
  <2>2. i \in In(req[r].turns)
    BY <1>1 DEF RequestsOK, RequestOK
  <2> QED BY <2>1, <2>2, FaultsAssumption DEF In
<1>3. /\ \A j \in Ids : Kept(j) => Kept(j)'
      /\ \A j \in Ids : mem'.pending[j] # None => Kept(j)'
      /\ \A j \in Ids : mem.pending[j] # None => Kept(j)
  BY <1>1, KeptStep DEF KeptOK
<1>4. CASE CommitRequest(r)
  <2>1. Held(r) \in TurnMap /\ Held(r)[i] = req[r].turns[i] /\ req[r].turns[i] # None
    BY <1>2, RequestFields DEF Held, Only, In
  <2>2. CASE i \in mem.forgotten
    BY <1>1, <1>2, <1>3, <2>2 DEF JournalOK, ForgottenOK, Kept
  <2>3. CASE i \notin mem.forgotten /\ mem.pending[i] # None
    BY <1>2, <1>3, <2>3
  <2>4. CASE i \notin mem.forgotten /\ mem.pending[i] = None
    <3> DEFINE puts == Puts(Held(r))
    <3>1. puts[i] # None
      BY <1>2, <2>1, <2>4 DEF Puts, Only
    <3>2. puts # NoTurns
      BY <1>2, <3>1 DEF NoTurns
    <3>3. mem' = [mem EXCEPT !.pending = Override(puts, @),
                        !.extracted = Override(Markers(Completed(r)), @),
                        !.known = @ \cup In(puts) \cup In(Markers(Completed(r)))]
      BY <1>4, <3>2 DEF CommitRequest, Commit, NothingToCommit, AppendLines
    <3>4. mem'.pending[i] # None
      BY <1>2, <3>1, <3>3 DEF Journal, Override
    <3> QED BY <1>2, <1>3, <3>4
  <2> QED BY <2>2, <2>3, <2>4
<1>5. ASSUME NEW x \in Requests, NEW q, req' = [req EXCEPT ![x] = q], x # r
      PROVE  FALSE
  <2>1. req'[r] = req[r]
    BY <1>2, <1>5 DEF RequestTypes
  <2> QED BY <2>1
<1>6. ASSUME NEW x \in Requests, Arrive(x) \/ RequestStep(x), x # r PROVE FALSE
  <2>1. CASE Arrive(x)
    <3>1. \E q : req' = [req EXCEPT ![x] = q]
      BY <2>1 DEF Arrive
    <3> QED BY <3>1, <1>5, <1>6
  <2>2. CASE JoinLock(x) BY <2>2 DEF JoinLock
  <2>3. CASE Look(x)
    <3>1. \E q : req' = [req EXCEPT ![x] = q]
      BY <2>3 DEF Look
    <3> QED BY <3>1, <1>5, <1>6
  <2>4. CASE ReadRows(x)
    <3>1. \E q : req' = [req EXCEPT ![x] = q]
      BY ZenonT(60), <2>4 DEF ReadRows
    <3> QED BY <3>1, <1>5, <1>6
  <2>5. CASE Reserve(x)
    <3>1. \E q : req' = [req EXCEPT ![x] = q]
      BY <2>5 DEF Reserve
    <3> QED BY <3>1, <1>5, <1>6
  <2>6. CASE Finish(x) BY <2>6, <1>5, <1>6 DEF Finish
  <2>7. ASSUME NEW pc, Go(x, pc) PROVE FALSE
    <3>1. \E q : req' = [req EXCEPT ![x] = q]
      BY <2>7 DEF Go
    <3> QED BY <3>1, <1>5, <1>6
  <2> QED BY <1>6, <2>1, <2>2, <2>3, <2>4, <2>5, <2>6, <2>7
      DEF RequestStep, ReadRowsFails, Extracted, NoExtraction, CommitRequest, CommitRequestFails
<1>7. ASSUME Arrive(r) \/ RequestStep(r), ~CommitRequest(r) PROVE FALSE
  <2>1. CASE CommitRequestFails(r)
    <3>1. req' = [req EXCEPT ![r].pc = "cleanup"]
      BY <2>1 DEF CommitRequestFails, Go
    <3>2. req'[r].pc = "cleanup"
      BY <1>2, <3>1 DEF RequestTypes, RequestType
    <3> QED BY <3>2
  <2> QED BY <1>7, <2>1 DEF Arrive, RequestStep, JoinLock, Look, ReadRows, ReadRowsFails,
                            Reserve, Extracted, NoExtraction
<1>8. CASE DrainStep \/ StartErase \/ EraseStep
  <2>1. UNCHANGED req
    BY <1>8 DEF DrainStep, SpoolStep, pipeline, UpsertSourceTurn, UpsertConflict,
           UpsertFails, Wrote, StartErase, EraseStep, Bury, FindRows, DeleteRows, EraseFails
  <2> QED BY <2>1
<1>9. ~Crash
  BY <1>2 DEF Crash, Restart
<1> QED BY <1>4, <1>6, <1>7, <1>8, <1>9 DEF Next

(* Once a commit has accepted a turn it stays in the journal, in the table,  *)
(* or among the forgotten or erased ones, across every failed or torn append,*)
(* failed write, restart and retry, and every request that ends with its     *)
(* commit has made what it reserved so (AcceptedIsKept).                    *)
THEOREM AcceptedKept == Spec => AcceptedIsKept
<1>1. Init => AcceptedOK
  <2> SUFFICES ASSUME Init PROVE AcceptedOK
    OBVIOUS
  <2>1. JournalOK
    BY JournalInit
  <2>2. RequestOK(NoRequest, factsOf)
    BY EmptyMap DEF RequestOK, NoRequest
  <2>3. RequestsOK
    BY <2>2 DEF Init, RequestsOK
  <2>4. KeptOK
    BY DEF Init, SpoolInit, EmptyJournal, NoTurns, KeptOK
  <2> QED BY <2>1, <2>3, <2>4 DEF AcceptedOK
<1>2. AcceptedOK /\ [Next]_vars => AcceptedOK'
  BY AcceptedNext
<1> DEFINE Keeps ==
       /\ \A i \in Ids : Kept(i) => Kept(i)'
       /\ \A r \in Requests :
            req[r].pc \in {"marking", "putting"} /\ req'[r].pc = "idle" /\ faults' = faults
            => \A i \in req[r].held : Kept(i)'
<1>3. AcceptedOK /\ [Next]_vars => [Keeps]_vars
  <2> SUFFICES ASSUME AcceptedOK, Next PROVE Keeps
    OBVIOUS
  <2> QED BY KeptStep, CommitKeeps
<1> HIDE DEF Keeps
<1>4. Spec => [][Keeps]_vars
  BY <1>1, <1>2, <1>3, PTL DEF Spec
<1> QED BY <1>4 DEF AcceptedIsKept, Keeps

-----------------------------------------------------------------------------
(* The chains of captureTurnLocks                                           *)
Unique(q) == \A m, n \in DOMAIN q : q[m] = q[n] => m = n
Queued(q, r) == \E n \in DOMAIN q : q[n] = r

LEMMA QueueGrows ==
  ASSUME NEW q \in Seq(Requests), NEW r \in Requests
  PROVE  /\ \A s : Queued(Append(q, r), s) <=> Queued(q, s) \/ s = r
         /\ Append(q, r) # <<>>
         /\ q # <<>> => Head(Append(q, r)) = Head(q)
         /\ Unique(q) /\ ~Queued(q, r) => Unique(Append(q, r))
<1> DEFINE a == Append(q, r)
<1>1. /\ a \in Seq(Requests) /\ Len(a) = Len(q) + 1 /\ Len(q) \in Nat
      /\ a[Len(q) + 1] = r /\ \A n \in 1 .. Len(q) : a[n] = q[n]
  OBVIOUS
<1>2. DOMAIN q = 1 .. Len(q) /\ DOMAIN a = 1 .. (Len(q) + 1)
  OBVIOUS
<1> HIDE DEF a
<1>3. \A s : Queued(a, s) <=> Queued(q, s) \/ s = r
  <2> TAKE s
  <2>1. ASSUME NEW n \in DOMAIN a, a[n] = s PROVE Queued(q, s) \/ s = r
    <3>1. CASE n = Len(q) + 1
      BY <1>1, <2>1, <3>1
    <3>2. CASE n \in 1 .. Len(q)
      BY <1>1, <1>2, <2>1, <3>2 DEF Queued
    <3> QED BY <1>1, <1>2, <3>1, <3>2
  <2>2. ASSUME NEW n \in DOMAIN q, q[n] = s PROVE Queued(a, s)
    <3>1. n \in DOMAIN a /\ a[n] = s
      BY <1>1, <1>2, <2>2
    <3> QED BY <3>1 DEF Queued
  <2>3. s = r => Queued(a, s)
    <3>1. Len(q) + 1 \in DOMAIN a
      BY <1>1, <1>2
    <3> QED BY <1>1, <3>1 DEF Queued
  <2> QED BY <2>1, <2>2, <2>3 DEF Queued
<1>4. a # <<>> /\ (q # <<>> => Head(a) = Head(q))
  <2>1. a # <<>>
    BY <1>1
  <2>2. q # <<>> => 1 \in 1 .. Len(q)
    BY <1>1
  <2>3. Head(a) = a[1] /\ Head(q) = q[1]
    BY <1>1, <2>1
  <2> QED BY <1>1, <2>1, <2>2, <2>3
<1>5. Unique(q) /\ ~Queued(q, r) => Unique(a)
  <2> SUFFICES ASSUME Unique(q), ~Queued(q, r), NEW m \in DOMAIN a, NEW n \in DOMAIN a,
                      a[m] = a[n]
               PROVE  m = n
    BY DEF Unique
  <2>1. \A k \in 1 .. Len(q) : a[k] # r
    BY <1>1, <1>2 DEF Queued
  <2>2. m = Len(q) + 1 <=> n = Len(q) + 1
    BY <1>1, <1>2, <2>1
  <2>3. CASE m \in DOMAIN q /\ n \in DOMAIN q
    BY <1>1, <1>2, <2>3 DEF Unique
  <2> QED BY <1>1, <1>2, <2>2, <2>3
<1> QED BY <1>3, <1>4, <1>5 DEF a

LEMMA QueueShrinks ==
  ASSUME NEW q \in Seq(Requests), q # <<>>, Unique(q)
  PROVE  /\ \A s : Queued(Tail(q), s) <=> Queued(q, s) /\ s # Head(q)
         /\ Unique(Tail(q))
<1> DEFINE t == Tail(q)
<1>1. /\ Len(q) \in Nat \ {0} /\ Len(t) = Len(q) - 1
      /\ \A n \in 1 .. Len(t) : t[n] = q[n + 1]
      /\ Head(q) = q[1]
  OBVIOUS
<1>2. DOMAIN q = 1 .. Len(q) /\ DOMAIN t = 1 .. Len(t)
  OBVIOUS
<1> HIDE DEF t
<1>3. \A s : Queued(t, s) <=> Queued(q, s) /\ s # Head(q)
  <2> TAKE s
  <2>1. ASSUME NEW n \in DOMAIN t, t[n] = s PROVE Queued(q, s) /\ s # Head(q)
    <3>1. n + 1 \in DOMAIN q /\ 1 \in DOMAIN q /\ q[n + 1] = s /\ n + 1 # 1
      BY <1>1, <1>2, <2>1
    <3> QED BY <1>1, <3>1 DEF Queued, Unique
  <2>2. ASSUME NEW n \in DOMAIN q, q[n] = s, s # Head(q) PROVE Queued(t, s)
    <3>1. n - 1 \in DOMAIN t /\ (n - 1) + 1 = n
      BY <1>1, <1>2, <2>2
    <3> QED BY <1>1, <1>2, <2>2, <3>1 DEF Queued
  <2> QED BY <2>1, <2>2 DEF Queued
<1>4. Unique(t)
  <2> SUFFICES ASSUME NEW m \in DOMAIN t, NEW n \in DOMAIN t, t[m] = t[n] PROVE m = n
    BY DEF Unique
  <2>1. m + 1 \in DOMAIN q /\ n + 1 \in DOMAIN q /\ q[m + 1] = q[n + 1]
    BY <1>1, <1>2
  <2>2. m + 1 = n + 1
    BY <2>1 DEF Unique
  <2> QED BY <1>2, <2>2
<1> QED BY <1>3, <1>4 DEF t

LEMMA JoinedIn == \A r : Joined(r) = {i \in Ids : Queued(lockq[i], r)}
BY DEF Joined, Queued

(* A set of turn ids has a least and a greatest member.                     *)
LEMMA NoDescent ==
  ASSUME NEW U \in SUBSET (SUBSET Ids), U # {}
  PROVE  \E d \in U : \A e \in U : ~(e \subseteq d /\ e # d)
<1>1. \A d \in SUBSET Ids : d \in FiniteSubsetsOf(Ids)
  BY IdsAssumption, FS_Subset DEF FiniteSubsetsOf
<1>2. U \subseteq FiniteSubsetsOf(Ids)
  BY <1>1
<1>3. PICK d \in U : \A e \in U : ~(<<e, d>> \in StrictSubsetOrdering(Ids))
  BY <1>2, WFMin, FS_StrictSubsetOrderingWellFounded, Zenon
<1>4. ASSUME NEW e \in U, e \subseteq d, e # d PROVE FALSE
  <2>1. e \in SUBSET Ids /\ d \in SUBSET Ids
    BY <1>3
  <2>2. <<e, d>> \in StrictSubsetOrdering(Ids)
    BY <1>4, <2>1, Zenon DEF StrictSubsetOrdering
  <2> QED BY <1>3, <2>2
<1> QED BY <1>3, <1>4

LEMMA Extremes ==
  ASSUME NEW S \in SUBSET Ids, S # {}
  PROVE  /\ \E x \in S : \A y \in S : x <= y
         /\ \E x \in S : \A y \in S : y <= x
<1>0. \A x \in S : x \in Nat
  BY IdsAssumption
<1> DEFINE Below(x) == {y \in S : y <= x}
           Above(x) == {y \in S : x <= y}
<1>1. \E x \in S : \A y \in S : x <= y
  <2> DEFINE U == {Below(x) : x \in S}
  <2>1. U \in SUBSET (SUBSET Ids) /\ U # {}
    OBVIOUS
  <2>2. PICK d \in U : \A e \in U : ~(e \subseteq d /\ e # d)
    <3> HIDE DEF U
    <3> QED BY <2>1, NoDescent
  <2>3. PICK x \in S : d = Below(x)
    OBVIOUS
  <2>4. ASSUME NEW y \in S, ~(x <= y) PROVE FALSE
    <3>1. Below(y) \subseteq Below(x) /\ x \in Below(x) /\ x \notin Below(y)
      BY <1>0, <2>4
    <3>2. Below(y) \in U
      OBVIOUS
    <3> HIDE DEF Below, U
    <3> QED BY <2>2, <2>3, <3>1, <3>2
  <2> QED BY <2>4
<1>2. \E x \in S : \A y \in S : y <= x
  <2> DEFINE U == {Above(x) : x \in S}
  <2>1. U \in SUBSET (SUBSET Ids) /\ U # {}
    OBVIOUS
  <2>2. PICK d \in U : \A e \in U : ~(e \subseteq d /\ e # d)
    <3> HIDE DEF U
    <3> QED BY <2>1, NoDescent
  <2>3. PICK x \in S : d = Above(x)
    OBVIOUS
  <2>4. ASSUME NEW y \in S, ~(y <= x) PROVE FALSE
    <3>1. Above(y) \subseteq Above(x) /\ x \in Above(x) /\ x \notin Above(y)
      BY <1>0, <2>4
    <3>2. Above(y) \in U
      OBVIOUS
    <3> HIDE DEF Above, U
    <3> QED BY <2>2, <2>3, <3>1, <3>2
  <2> QED BY <2>4
<1> QED BY <1>1, <1>2

(* A request takes its chains in ascending order and holds every chain it    *)
(* joined except perhaps the last; past the locking phase it holds them all. *)
Orderly(r) ==
  /\ Joined(r) \subseteq In(req[r].turns)
  /\ req[r].pc = "idle" => Joined(r) = {}
  /\ \A i \in Joined(r) : \A j \in ToJoin(r) : i < j
  /\ \A i \in Joined(r) : \A j \in Joined(r) : i < j => Holds(r, i)
  /\ req[r].pc \notin {"idle", "locking"}
       => ToJoin(r) = {} /\ \A i \in Joined(r) : Holds(r, i)

ChainsUnique == \A i \in Ids : Unique(lockq[i])
LocksOK == ChainsUnique /\ \A r \in Requests : Orderly(r)

HoldsAll(r) == \A i \in Joined(r) : Holds(r, i)

(* Joining a chain adds its end, releasing the held chains drops their heads.*)
LEMMA JoinEffect ==
  ASSUME Typed, LocksOK, NEW r \in Requests, JoinLock(r)
  PROVE  /\ ChainsUnique'
         /\ \A s \in Requests, i \in Ids : Holds(s, i) => Holds(s, i)'
         /\ \A s \in Requests \ {r} : Joined(s)' = Joined(s)
         /\ \E i \in ToJoin(r) : /\ \A j \in ToJoin(r) : i <= j
                                 /\ Joined(r)' = Joined(r) \cup {i}
<1>1. lockq \in [Ids -> Seq(Requests)] /\ ToJoin(r) \in SUBSET Ids /\ ToJoin(r) # {}
  BY DEF Typed, JoinLock, ToJoin, In
<1> DEFINE i == Least(ToJoin(r))
<1>2. i \in ToJoin(r) /\ \A j \in ToJoin(r) : i <= j
  BY <1>1, Extremes DEF Least
<1>3. lockq' = [lockq EXCEPT ![i] = Append(lockq[i], r)]
  BY DEF JoinLock
<1> HIDE DEF i
<1>4. i \in Ids /\ lockq[i] \in Seq(Requests)
  BY <1>1, <1>2
<1>5. lockq'[i] = Append(lockq[i], r) /\ \A j \in Ids \ {i} : lockq'[j] = lockq[j]
  BY <1>1, <1>3, <1>4
<1>6. ~Queued(lockq[i], r)
  BY <1>2, <1>4, JoinedIn DEF ToJoin
<1>7. ChainsUnique'
  <2>1. Unique(lockq'[i])
    BY <1>4, <1>5, <1>6, QueueGrows DEF LocksOK, ChainsUnique
  <2>2. \A j \in Ids \ {i} : Unique(lockq'[j])
    BY <1>5 DEF LocksOK, ChainsUnique
  <2> QED BY <2>1, <2>2, Zenon DEF ChainsUnique
<1>8. \A s \in Requests, j \in Ids : Holds(s, j) => Holds(s, j)'
  <2> TAKE s \in Requests, j \in Ids
  <2>1. CASE j = i
    <3>1. lockq[i] # <<>> => lockq'[i] # <<>> /\ Head(lockq'[i]) = Head(lockq[i])
      BY <1>4, <1>5, QueueGrows
    <3> QED BY <2>1, <3>1 DEF Holds
  <2>2. CASE j # i
    BY <1>5, <2>2 DEF Holds
  <2> QED BY <2>1, <2>2
<1>9. \A s, j : j \in Joined(s)' <=> j \in Joined(s) \/ (j = i /\ s = r)
  <2> TAKE s, j
  <2>1. j \in Joined(s)' <=> j \in Ids /\ Queued(lockq'[j], s)
    BY JoinedIn DEF Joined, Queued
  <2>2. j \in Joined(s) <=> j \in Ids /\ Queued(lockq[j], s)
    BY JoinedIn
  <2>3. CASE j = i
    <3>1. Queued(lockq'[i], s) <=> Queued(lockq[i], s) \/ s = r
      BY <1>4, <1>5, QueueGrows
    <3> QED BY <1>4, <2>1, <2>2, <2>3, <3>1
  <2>4. CASE j # i
    BY <1>5, <2>1, <2>2, <2>4
  <2> QED BY <2>3, <2>4
<1>10. \A s \in Requests \ {r} : Joined(s)' = Joined(s)
  BY <1>9
<1>11. Joined(r)' = Joined(r) \cup {i}
  BY <1>9
<1> QED BY <1>2, <1>7, <1>8, <1>10, <1>11

LEMMA FinishEffect ==
  ASSUME Typed, LocksOK, NEW r \in Requests, HoldsAll(r), Finish(r)
  PROVE  /\ ChainsUnique'
         /\ Joined(r)' = {}
         /\ \A s \in Requests \ {r} : Joined(s)' = Joined(s)
         /\ \A s \in Requests \ {r}, i \in Ids : Holds(s, i) => Holds(s, i)'
<1>1. lockq \in [Ids -> Seq(Requests)]
  BY DEF Typed
<1>2. \A i \in Ids : lockq'[i] = IF Holds(r, i) THEN Tail(lockq[i]) ELSE lockq[i]
  BY DEF Finish, Released
<1>3. ASSUME NEW i \in Ids
      PROVE  /\ Unique(lockq'[i])
             /\ \A s : Queued(lockq'[i], s) <=> Queued(lockq[i], s) /\ s # r
  <2>1. lockq[i] \in Seq(Requests) /\ Unique(lockq[i])
    BY <1>1 DEF LocksOK, ChainsUnique
  <2>2. CASE Holds(r, i)
    BY <1>2, <2>1, <2>2, QueueShrinks DEF Holds
  <2>3. CASE ~Holds(r, i)
    <3>1. ~Queued(lockq[i], r)
      BY <2>3, JoinedIn DEF HoldsAll
    <3> QED BY <1>2, <2>1, <2>3, <3>1
  <2> QED BY <2>2, <2>3
<1>4. ChainsUnique'
  BY <1>3, Zenon DEF ChainsUnique
<1>5. \A s, i : i \in Joined(s)' <=> i \in Joined(s) /\ s # r
  <2> TAKE s, i
  <2>1. i \in Joined(s)' <=> i \in Ids /\ Queued(lockq'[i], s)
    BY DEF Joined, Queued
  <2>2. i \in Joined(s) <=> i \in Ids /\ Queued(lockq[i], s)
    BY JoinedIn
  <2> QED BY <1>3, <2>1, <2>2
<1>6. Joined(r)' = {}
  BY <1>5
<1>7. \A s \in Requests \ {r} : Joined(s)' = Joined(s)
  BY <1>5
<1>8. \A s \in Requests \ {r}, i \in Ids : Holds(s, i) => Holds(s, i)'
  BY <1>2 DEF Holds
<1> QED BY <1>4, <1>6, <1>7, <1>8

LEMMA OrderlyKept ==
  ASSUME NEW s \in Requests, Orderly(s), Joined(s)' = Joined(s),
         \A i \in Ids : Holds(s, i) => Holds(s, i)',
         req'[s].turns = req[s].turns,
         req'[s].pc = "idle" => req[s].pc = "idle",
         \/ req'[s].pc = req[s].pc
         \/ req[s].pc \notin {"idle", "locking"}
         \/ ToJoin(s) = {} /\ HoldsAll(s)
  PROVE  Orderly(s)'
<1>1. ToJoin(s)' = ToJoin(s) /\ Joined(s) \subseteq Ids
  BY DEF ToJoin, Joined, In
<1>2. /\ Joined(s)' \subseteq In(req'[s].turns)
      /\ req'[s].pc = "idle" => Joined(s)' = {}
      /\ \A i \in Joined(s)' : \A j \in ToJoin(s)' : i < j
  BY <1>1 DEF Orderly
<1>3. \A i \in Joined(s)' : \A j \in Joined(s)' : i < j => Holds(s, i)'
  BY <1>1 DEF Orderly
<1>4. req'[s].pc \notin {"idle", "locking"}
        => ToJoin(s)' = {} /\ \A i \in Joined(s)' : Holds(s, i)'
  BY <1>1 DEF Orderly, HoldsAll
<1> QED BY <1>2, <1>3, <1>4 DEF Orderly

LEMMA SameQueues ==
  ASSUME UNCHANGED lockq
  PROVE  /\ ChainsUnique' = ChainsUnique
         /\ \A s : Joined(s)' = Joined(s)
         /\ \A s, i : Holds(s, i)' = Holds(s, i)
BY DEF ChainsUnique, Joined, Holds

(* Past the locking phase a request changes only its own state until it ends.*)
LEMMA RequestMoves ==
  ASSUME RequestTypes, NEW r \in Requests, RequestStep(r), ~JoinLock(r), ~Finish(r)
  PROVE  /\ UNCHANGED lockq
         /\ \E q : /\ req' = [req EXCEPT ![r] = q]
                   /\ q.turns = req[r].turns
                   /\ q.pc \notin {"idle", "locking"}
         /\ \/ req[r].pc \notin {"idle", "locking"}
            \/ ToJoin(r) = {} /\ HoldsAll(r)
<1>0. req[r] \in RequestType
  BY DEF RequestTypes
<1>1. ASSUME NEW pc \in {"putting", "cleanup", "marking"}, Go(r, pc)
      PROVE  \E q : /\ req' = [req EXCEPT ![r] = q]
                    /\ q.turns = req[r].turns
                    /\ q.pc \notin {"idle", "locking"}
  <2> DEFINE q == [req[r] EXCEPT !.pc = pc]
  <2>1. q.turns = req[r].turns /\ q.pc = pc
    BY <1>0 DEF RequestType
  <2>2. req' = [req EXCEPT ![r] = q]
    BY <1>1 DEF Go
  <2> HIDE DEF q
  <2> QED BY <2>1, <2>2
<1>2. CASE Look(r)
  <2>1. PICK ask, done, gone : req' = [req EXCEPT ![r] = [req[r] EXCEPT !.pc = "reading",
          !.ask = ask, !.done = done, !.gone = gone]]
    BY <1>2 DEF Look
  <2> DEFINE q == [req[r] EXCEPT !.pc = "reading", !.ask = ask, !.done = done, !.gone = gone]
  <2>2. q.turns = req[r].turns /\ q.pc = "reading"
    BY <1>0 DEF RequestType
  <2>3. req' = [req EXCEPT ![r] = q]
    BY <2>1
  <2> HIDE DEF q
  <2> QED BY <1>2, <2>2, <2>3 DEF Look, HoldsAll
<1>3. CASE ReadRows(r)
  <2>1. PICK unseen : req' = [req EXCEPT ![r] = [req[r] EXCEPT !.pc = "reserving",
          !.unseen = unseen, !.ask = {}, !.done = {}, !.gone = {}]]
    BY <1>3 DEF ReadRows
  <2> DEFINE q == [req[r] EXCEPT !.pc = "reserving", !.unseen = unseen,
                     !.ask = {}, !.done = {}, !.gone = {}]
  <2>2. q.turns = req[r].turns /\ q.pc = "reserving"
    BY <1>0 DEF RequestType
  <2>3. req' = [req EXCEPT ![r] = q]
    BY <2>1
  <2> HIDE DEF q
  <2> QED BY <1>3, <2>2, <2>3 DEF ReadRows
<1>4. CASE Reserve(r)
  <2> DEFINE q == [req[r] EXCEPT !.held = req[r].unseen \ mem.forgotten,
             !.pc = IF req[r].unseen \cap req[r].kept = {} THEN "putting" ELSE "extracting"]
  <2>1. q.turns = req[r].turns /\ q.pc \in {"putting", "extracting"}
    BY <1>0 DEF RequestType
  <2>2. req' = [req EXCEPT ![r] = q]
    BY <1>4 DEF Reserve
  <2> HIDE DEF q
  <2> QED BY <1>4, <2>1, <2>2 DEF Reserve
<1>5. CASE Extracted(r)
  BY <1>1, <1>5 DEF Extracted
<1>6. CASE NoExtraction(r)
  BY <1>1, <1>6 DEF NoExtraction
<1>7. CASE CommitRequestFails(r)
  BY <1>1, <1>7 DEF CommitRequestFails
<1>8. ~ReadRowsFails(r) /\ ~CommitRequest(r)
  BY DEF ReadRowsFails, CommitRequest
<1> QED BY <1>2, <1>3, <1>4, <1>5, <1>6, <1>7, <1>8 DEF RequestStep

LEMMA OthersOrderly ==
  ASSUME RequestTypes, NEW r \in Requests, NEW q, req' = [req EXCEPT ![r] = q],
         \A s \in Requests : Orderly(s),
         \A s \in Requests \ {r} : Joined(s)' = Joined(s),
         \A s \in Requests \ {r}, i \in Ids : Holds(s, i) => Holds(s, i)',
         Orderly(r)'
  PROVE  \A s \in Requests : Orderly(s)'
<1> TAKE s \in Requests
<1>1. CASE s = r
  BY <1>1
<1>2. CASE s # r
  <2>1. req'[s] = req[s]
    BY <1>2 DEF RequestTypes
  <2> QED BY <1>2, <2>1, OrderlyKept
<1> QED BY <1>1, <1>2

LEMMA FinishOrderly ==
  ASSUME Typed, LocksOK, NEW r \in Requests, RequestStep(r), Finish(r)
  PROVE  LocksOK'
<1>1. ~JoinLock(r)
  <2> SUFFICES ASSUME JoinLock(r) PROVE FALSE
    OBVIOUS
  <2>1. req[r].pc = "locking" /\ req'[r] = NoRequest /\ req' = req
    BY DEF JoinLock, Finish, Typed, RequestTypes
  <2> QED BY <2>1 DEF NoRequest
<1>2. req[r].pc \notin {"idle", "locking"}
  <2>1. req'[r].pc = "idle"
    BY DEF Finish, Typed, RequestTypes, NoRequest
  <2>2. CASE Look(r)
    <3>1. PICK ask, done, gone : req' = [req EXCEPT ![r] = [req[r] EXCEPT !.pc = "reading",
            !.ask = ask, !.done = done, !.gone = gone]]
      BY <2>2 DEF Look
    <3>2. req'[r].pc = "reading"
      BY <3>1 DEF Typed, RequestTypes, RequestType
    <3> QED BY <2>1, <3>2
  <2> QED BY <1>1, <2>2 DEF RequestStep, ReadRows, ReadRowsFails, Reserve, Extracted,
        NoExtraction, CommitRequest, CommitRequestFails
<1>3. HoldsAll(r)
  BY <1>2 DEF LocksOK, Orderly, HoldsAll
<1>4. req'[r] = NoRequest
  BY DEF Finish, Typed, RequestTypes
<1>5. Joined(r)' = {}
  BY <1>3, FinishEffect
<1>6. Orderly(r)'
  BY <1>4, <1>5 DEF Orderly, NoRequest
<1>7. \A s \in Requests : Orderly(s)'
  BY <1>3, <1>6, FinishEffect, OthersOrderly DEF Finish, Typed, LocksOK
<1> QED BY <1>3, <1>7, FinishEffect DEF LocksOK

LEMMA JoinOrderly ==
  ASSUME Typed, LocksOK, NEW r \in Requests, JoinLock(r)
  PROVE  LocksOK'
<1>1. req' = req /\ req[r].pc = "locking" /\ HoldsAll(r)
  BY DEF JoinLock, HoldsAll
<1>2. PICK i \in ToJoin(r) : /\ \A j \in ToJoin(r) : i <= j
                             /\ Joined(r)' = Joined(r) \cup {i}
  BY JoinEffect
<1>3. Orderly(r) /\ Joined(r) \in SUBSET Ids /\ ToJoin(r) \in SUBSET Ids
  BY DEF LocksOK, Joined, ToJoin, In
<1>4. ToJoin(r)' = ToJoin(r) \ {i}
  BY <1>1, <1>2 DEF ToJoin, In
<1>5. \A j \in Joined(r) : Holds(r, j)'
  BY <1>1, <1>3, JoinEffect DEF HoldsAll
<1>6. \A j \in Joined(r) : j < i
  BY <1>2, <1>3 DEF Orderly
<1>7. \A k \in Ids : k \in Nat
  BY IdsAssumption
<1>8. Orderly(r)'
  <2>1. Joined(r)' \subseteq In(req'[r].turns)
    BY <1>1, <1>2, <1>3 DEF Orderly, ToJoin
  <2>2. \A j \in Joined(r)' : \A k \in ToJoin(r)' : j < k
    BY <1>2, <1>3, <1>4, <1>7 DEF Orderly
  <2>3. \A j \in Joined(r)' : \A k \in Joined(r)' : j < k => Holds(r, j)'
    BY <1>2, <1>3, <1>5, <1>6, <1>7
  <2> QED BY <1>1, <2>1, <2>2, <2>3 DEF Orderly
<1>9. \A s \in Requests : Orderly(s)'
  <2> TAKE s \in Requests
  <2>1. CASE s # r
    BY <1>1, <2>1, JoinEffect, OrderlyKept DEF LocksOK
  <2> QED BY <1>8, <2>1
<1> QED BY <1>9, JoinEffect DEF LocksOK

LEMMA ArriveLocks ==
  ASSUME RequestTypes, NEW r \in Requests, Arrive(r)
  PROVE  \E q : req' = [req EXCEPT ![r] = q] /\ q.pc = "locking"
<1>1. PICK batch \in Batches : req' = [req EXCEPT ![r] = [NoRequest EXCEPT
        !.pc = "locking", !.turns = batch.turns, !.kept = batch.kept \cap In(batch.turns)]]
  BY DEF Arrive
<1>2. [NoRequest EXCEPT !.pc = "locking", !.turns = batch.turns,
         !.kept = batch.kept \cap In(batch.turns)].pc = "locking"
  BY DEF NoRequest
<1> QED BY <1>1, <1>2

LEMMA LocksStep ==
  ASSUME Typed, LocksOK, Next
  PROVE  LocksOK'
<1>1. CASE UNCHANGED <<lockq, req>>
  <2>1. \A s \in Requests : Orderly(s)'
    BY <1>1, SameQueues, OrderlyKept DEF LocksOK
  <2> QED BY <1>1, <2>1, SameQueues DEF LocksOK
<1>2. ASSUME NEW r \in Requests, Arrive(r) PROVE LocksOK'
  <2>1. UNCHANGED lockq /\ req[r].pc = "idle"
    BY <1>2 DEF Arrive
  <2>2. PICK q : req' = [req EXCEPT ![r] = q] /\ q.pc = "locking"
    BY <1>2, ArriveLocks DEF Typed
  <2>3. req'[r].pc = "locking" /\ Joined(r)' = {}
    BY <2>1, <2>2, SameQueues DEF Typed, RequestTypes, LocksOK, Orderly
  <2>4. Orderly(r)'
    BY <2>3 DEF Orderly
  <2>5. \A s \in Requests : Orderly(s)'
    BY <2>1, <2>2, <2>4, SameQueues, OthersOrderly DEF Typed, LocksOK
  <2> QED BY <2>1, <2>5, SameQueues DEF LocksOK
<1>3. ASSUME NEW r \in Requests, RequestStep(r) PROVE LocksOK'
  <2>1. CASE JoinLock(r)
    BY <2>1, JoinOrderly
  <2>2. CASE Finish(r)
    BY <1>3, <2>2, FinishOrderly
  <2>3. CASE ~JoinLock(r) /\ ~Finish(r)
    <3>0. RequestTypes
      BY DEF Typed
    <3>1. PICK q : /\ req' = [req EXCEPT ![r] = q] /\ q.turns = req[r].turns
                   /\ q.pc \notin {"idle", "locking"}
      BY <1>3, <2>3, <3>0, RequestMoves
    <3>2. UNCHANGED lockq
      BY <1>3, <2>3, <3>0, RequestMoves
    <3>3. req'[r] = q
      BY <3>0, <3>1 DEF RequestTypes
    <3>4. Orderly(r)'
      BY <1>3, <2>3, <3>0, <3>1, <3>2, <3>3, RequestMoves, SameQueues, OrderlyKept DEF LocksOK
    <3>5. \A s \in Requests : Orderly(s)'
      BY <3>0, <3>1, <3>2, <3>4, SameQueues, OthersOrderly DEF LocksOK
    <3> QED BY <3>2, <3>5, SameQueues DEF LocksOK
  <2> QED BY <2>1, <2>2, <2>3
<1>4. CASE DrainStep \/ StartErase \/ EraseStep
  <2>1. UNCHANGED <<lockq, req>>
    BY <1>4 DEF DrainStep, SpoolStep, pipeline, UpsertSourceTurn, UpsertConflict,
         UpsertFails, Wrote, StartErase, EraseStep, Bury, FindRows, DeleteRows, EraseFails
  <2> QED BY <2>1, <1>1
<1>5. CASE Crash
  <2>1. /\ \A i \in Ids : lockq'[i] = <<>>
        /\ \A s \in Requests : req'[s] = NoRequest
    BY <1>5 DEF Crash
  <2>2. ChainsUnique'
    BY <2>1 DEF ChainsUnique, Unique
  <2>3. \A s \in Requests : Joined(s)' = {}
    BY <2>1 DEF Joined
  <2>4. \A s \in Requests : Orderly(s)'
    BY <2>1, <2>3 DEF Orderly, NoRequest
  <2> QED BY <2>2, <2>4 DEF LocksOK
<1> QED BY <1>2, <1>3, <1>4, <1>5 DEF Next

LEMMA LocksInit == Init => LocksOK
<1> SUFFICES ASSUME Init PROVE LocksOK
  OBVIOUS
<1>1. /\ \A i \in Ids : lockq[i] = <<>>
      /\ \A s \in Requests : req[s] = NoRequest
  BY DEF Init
<1>2. ChainsUnique
  BY <1>1 DEF ChainsUnique, Unique
<1>3. \A s \in Requests : Joined(s) = {}
  BY <1>1 DEF Joined
<1>4. \A s \in Requests : Orderly(s)
  BY <1>1, <1>3 DEF Orderly, NoRequest
<1> QED BY <1>2, <1>4 DEF LocksOK

LEMMA LocksNext == Typed /\ LocksOK /\ [Next]_vars => LocksOK'
<1> SUFFICES ASSUME Typed, LocksOK, [Next]_vars PROVE LocksOK'
  OBVIOUS
<1>1. CASE Next
  BY <1>1, LocksStep
<1>2. CASE UNCHANGED vars
  <2>1. UNCHANGED <<lockq, req>>
    BY <1>2 DEF vars, pipeline
  <2>2. \A s \in Requests : Orderly(s)'
    BY <2>1, SameQueues, OrderlyKept DEF LocksOK
  <2> QED BY <2>1, <2>2, SameQueues DEF LocksOK
<1> QED BY <1>1, <1>2

(* The head of the highest chain in use waits for nothing.                  *)
LEMMA HighestGoesOn ==
  ASSUME Typed, LocksOK
  PROVE  NoLockCycle
<1> SUFFICES ASSUME NEW r \in Requests, req[r].pc = "locking"
             PROVE  \E s \in Requests : req[s].pc # "idle" /\ \A i \in Joined(s) : Holds(s, i)
  BY DEF NoLockCycle
<1> DEFINE used == {i \in Ids : lockq[i] # <<>>}
<1>1. \A s \in Requests : \A i \in Joined(s) : i \in used
  BY DEF Joined, Typed
<1>2. CASE used = {}
  BY <1>1, <1>2
<1>3. CASE used # {}
  <2>1. used \in SUBSET Ids
    OBVIOUS
  <2>2. PICK i \in used : \A j \in used : j <= i
    <3> HIDE DEF used
    <3> QED BY <1>3, <2>1, Extremes
  <2> DEFINE s == Head(lockq[i])
  <2>3. s \in Requests /\ s = lockq[i][1] /\ 1 \in DOMAIN lockq[i]
    BY DEF Typed
  <2>4. i \in Joined(s) /\ Holds(s, i)
    BY <2>3 DEF Joined, Holds
  <2> HIDE DEF s
  <2>5. Orderly(s)
    BY <2>3 DEF LocksOK
  <2>6. req[s].pc # "idle"
    BY <2>4, <2>5 DEF Orderly
  <2>7. ASSUME NEW j \in Joined(s) PROVE Holds(s, j)
    <3>1. j \in used /\ j \in Nat /\ i \in Nat
      BY <1>1, <2>3, <2>7, IdsAssumption
    <3>2. j = i \/ j < i
      BY <2>2, <3>1
    <3> QED BY <2>4, <2>5, <2>7, <3>2 DEF Orderly
  <2> QED BY <2>3, <2>6, <2>7
<1> QED BY <1>2, <1>3

(* Capture requests never wait on each other for good: the chains are joined  *)
(* in the order of their ids, so while a request waits, the head of the       *)
(* highest chain in use holds all it has joined (NoLockCycle).              *)
THEOREM LocksNeverCycle == Spec => []NoLockCycle
<1>1. Init => Typed /\ LocksOK
  BY TypedInit, LocksInit
<1>2. Typed /\ LocksOK /\ [Next]_vars => (Typed /\ LocksOK)'
  BY TypedNext, LocksNext
<1>3. Typed /\ LocksOK => NoLockCycle
  BY HighestGoesOn
<1> QED BY <1>1, <1>2, <1>3, PTL DEF Spec

-----------------------------------------------------------------------------
(* No second extraction.  A marker names a turn that is neither forgotten nor *)
(* identified by its content alone.                                         *)
Markable(j) == In(j.extracted) \cap (j.forgotten \cup ContentOnly) = {}
MarkableOK == Markable(mem) /\ Markable(disk)

LEMMA MarksWithin ==
  ASSUME SpoolTypes, RequestTypes, NEW r \in Requests
  PROVE  /\ Markers(Completed(r)) \in TurnMap
         /\ In(Markers(Completed(r))) \subseteq req[r].held
         /\ In(Markers(Completed(r))) \cap (mem.forgotten \cup ContentOnly) = {}
<1>1. Completed(r) \in TurnMap
  BY RequestFields
<1>2. Markers(Completed(r)) \in TurnMap
      /\ In(Markers(Completed(r))) = In(Completed(r)) \ mem.forgotten
  BY <1>1, MapTypes, MapMembers DEF Markers
<1>3. In(Completed(r)) \subseteq req[r].held \ ContentOnly
  <2>1. CASE req[r].pc = "marking"
    <3>1. In(Completed(r)) = In(req[r].turns) \cap ((req[r].held \cap req[r].kept) \ ContentOnly)
      BY <2>1, RequestFields, MapMembers DEF Completed
    <3> QED BY <3>1
  <2>2. CASE req[r].pc # "marking"
    BY <2>2, EmptyMap DEF Completed
  <2> QED BY <2>1, <2>2
<1> QED BY <1>2, <1>3

LEMMA MarkableLines ==
  ASSUME NEW j \in Journal, Markable(j), NEW f \in TurnMap, NEW S \in SUBSET Ids
  PROVE  /\ Markable(PutLines(j, f))
         /\ In(f) \cap ContentOnly = {} => Markable(ExtractedLines(j, f))
         /\ Markable(ForgetLines(j, S))
         /\ Markable(DoneLines(j, S))
<1>1. j.extracted \in TurnMap
  BY DEF Journal
<1>2. Without(f, j.forgotten) \in TurnMap
      /\ In(Without(f, j.forgotten)) = In(f) \ j.forgotten
  BY MapTypes, MapMembers
<1>3. /\ In(Override(Without(f, j.forgotten), j.extracted))
           = (In(f) \ j.forgotten) \cup In(j.extracted)
      /\ In(Without(j.extracted, S)) = In(j.extracted) \ S
  BY <1>1, <1>2, MapMembers
<1>4. Markable(PutLines(j, f)) /\ Markable(DoneLines(j, S))
  BY LineFields DEF Markable
<1>5. In(f) \cap ContentOnly = {} => Markable(ExtractedLines(j, f))
  BY <1>3, LineFields DEF Markable
<1>6. Markable(ForgetLines(j, S))
  BY <1>3, LineFields DEF Markable
<1> QED BY <1>4, <1>5, <1>6

LEMMA MarkableStep ==
  ASSUME Typed, MarkableOK, Next
  PROVE  MarkableOK'
<1>1. SpoolTypes /\ RequestTypes /\ disk \in Journal /\ mem \in Journal
      /\ erase.ids \in SUBSET Ids /\ DrainTypes /\ mem.extracted \in TurnMap
  BY MemTypes DEF Typed, SpoolTypes, EraseType
<1>2. \A j : Markable(j) <=> In(j.extracted) \cap (j.forgotten \cup ContentOnly) = {}
  BY DEF Markable
<1>3. SUFFICES Markable(mem') /\ Markable(disk')
  BY DEF MarkableOK, Markable, In
<1>4. Markable(mem) /\ Markable(disk)
  BY DEF MarkableOK
<1>5. CASE NothingAppended
  <2>1. disk' = disk /\ mem'.extracted = mem.extracted /\ mem'.forgotten = mem.forgotten
    BY <1>1, <1>5 DEF NothingAppended, Journal
  <2> QED BY <1>2, <1>4, <2>1
<1>6. CASE Restarted
  BY <1>4, <1>6 DEF Restarted
<1>7. ASSUME NEW r \in Requests, Committed(r) \/ CommitTorn(r)
      PROVE  Markable(mem') /\ Markable(disk')
  <2> DEFINE puts == Puts(Held(r))
             marks == Markers(Completed(r))
             d == PutLines(disk, puts)
  <2>1. /\ puts \in TurnMap /\ marks \in TurnMap
        /\ \A S : Only(puts, S) \in TurnMap /\ Only(marks, S) \in TurnMap
        /\ \A S : In(Only(marks, S)) \subseteq In(marks)
    BY <1>1, CommitAvoidsForgotten
  <2>2. In(marks) \cap (mem.forgotten \cup ContentOnly) = {}
    BY <1>1, MarksWithin
  <2>3. \A f \in TurnMap : Markable(PutLines(disk, f)) /\ PutLines(disk, f) \in Journal
    BY <1>1, <1>4, MarkableLines, LineTypes, EmptyMap
  <2>4. \A j \in Journal, f \in TurnMap : Markable(j) /\ In(f) \cap ContentOnly = {}
          => Markable(ExtractedLines(j, f))
    BY MarkableLines, EmptyMap
  <2>5. In(Override(marks, mem.extracted)) = In(marks) \cup In(mem.extracted)
    BY <1>1, <2>1, MapMembers
  <2> HIDE DEF marks, puts
  <2>6. d \in Journal /\ Markable(d)
    BY <2>1, <2>3
  <2>7. CASE Committed(r)
    <3>1. /\ disk' = ExtractedLines(d, marks)
          /\ mem'.extracted = Override(marks, mem.extracted)
          /\ mem'.forgotten = mem.forgotten
      BY <1>1, <2>7 DEF Committed, puts, marks, Journal
    <3> HIDE DEF d
    <3>2. Markable(disk')
      BY <2>1, <2>2, <2>4, <2>6, <3>1
    <3>3. Markable(mem')
      BY <1>2, <1>4, <2>2, <2>5, <3>1
    <3> QED BY <3>2, <3>3
  <2>8. CASE CommitTorn(r)
    <3>1. mem' = mem
      BY <2>8 DEF CommitTorn
    <3>2. PICK S \in SUBSET Ids : \/ disk' = PutLines(disk, Only(puts, S))
                                 \/ disk' = ExtractedLines(d, Only(marks, S))
      BY <2>8 DEF CommitTorn, puts, marks
    <3> HIDE DEF d
    <3>3. In(Only(marks, S)) \cap ContentOnly = {}
      BY <2>1, <2>2
    <3> QED BY <1>4, <2>1, <2>3, <2>4, <2>6, <3>1, <3>2, <3>3
  <2> QED BY <1>7, <2>7, <2>8
<1>8. CASE Forgot \/ ForgetTorn
  <2>1. PICK S \in SUBSET Ids : disk' = ForgetLines(disk, S)
                               /\ (mem' = ForgetLines(mem, S) \/ mem' = mem)
    BY <1>1, <1>8 DEF Forgot, ForgetTorn
  <2> QED BY <1>1, <1>4, <2>1, MarkableLines, EmptyMap
<1>9. CASE Drained \/ DrainTorn
  <2>1. DrainedIds \in SUBSET Ids
    BY <1>1 DEF DrainedIds, DrainTypes
  <2>2. \E S \in SUBSET Ids : disk' = DoneLines(disk, S)
    BY <1>9, <2>1 DEF Drained, DrainTorn
  <2>3. Markable(disk')
    BY <1>1, <1>4, <2>2, MarkableLines, EmptyMap
  <2>4. mem'.extracted = mem.extracted /\ mem'.forgotten = mem.forgotten
    BY <1>1, <1>9 DEF Drained, DrainTorn, Journal
  <2> QED BY <1>2, <1>4, <2>3, <2>4
<1> QED BY <1>5, <1>6, <1>7, <1>8, <1>9, StepEffects

(* A turn becomes marked only by the commit of a request that reserved it,    *)
(* or when a restart replays the journal.                                   *)
LEMMA MarkedByHolder ==
  ASSUME Typed, Next, ~Crash, NEW i \in Ids,
         mem'.extracted[i] # mem.extracted[i], mem'.extracted[i] # None
  PROVE  \E s \in Requests : CommitRequest(s) /\ i \in req[s].held
<1>1. SpoolTypes /\ RequestTypes /\ mem \in Journal /\ mem.extracted \in TurnMap
      /\ erase.ids \in SUBSET Ids
  BY MemTypes DEF Typed, SpoolTypes, EraseType
<1>2. CASE NothingAppended \/ Drained
  <2>1. mem'.extracted = mem.extracted
    BY <1>1, <1>2 DEF NothingAppended, Drained, Journal
  <2> QED BY <2>1
<1>3. CASE ForgetTorn \/ DrainTorn \/ \E r \in Requests : CommitTorn(r)
  BY <1>3 DEF ForgetTorn, DrainTorn, CommitTorn
<1>4. CASE Forgot
  <2>1. mem'.extracted = Without(mem.extracted, erase.ids)
    BY <1>1, <1>4, LineFields, EmptyMap DEF Forgot
  <2> QED BY <2>1 DEF Without
<1>5. ASSUME NEW s \in Requests, CommitRequest(s), Committed(s)
      PROVE  i \in req[s].held
  <2>1. mem'.extracted = Override(Markers(Completed(s)), mem.extracted)
    BY <1>1, <1>5 DEF Committed, Journal
  <2>2. i \in In(Markers(Completed(s)))
    BY <2>1 DEF Override, In
  <2> QED BY <1>1, <2>2, MarksWithin
<1> QED BY <1>2, <1>3, <1>4, <1>5, StepEffects

(* What a request that passed its look knows of the turns marked already: it  *)
(* took them for done, or their row had other content or was erased without  *)
(* a tombstone.                                                             *)
Overruled(i, h) == row[i] \notin {None, h} \/ erased[i] = "unburied"

Aware(q) ==
  /\ q.pc = "reading" => \A i \in In(q.turns) : mem.extracted[i] = q.turns[i] => i \in q.done
  /\ q.pc \in {"reserving", "extracting"} =>
       \A i \in q.unseen : mem.extracted[i] = q.turns[i] => Overruled(i, q.turns[i])

AwareOK == /\ JournalOK /\ RequestsOK /\ LocksOK /\ MarkableOK
           /\ \A r \in Requests : Aware(req[r])

LEMMA OverruledKept ==
  ASSUME JournalOK, MarkableOK, Next, ~Crash, NEW i \in Ids, NEW h \in Hmacs,
         mem.extracted[i] = h, Overruled(i, h)
  PROVE  Overruled(i, h)'
<1>1. i \notin mem.forgotten /\ row \in TurnMap /\ window \in TurnMap
  <2>1. i \in In(mem.extracted)
    BY NoneAssumption DEF In
  <2> QED BY <2>1 DEF MarkableOK, Markable, JournalOK, Typed, DrainTypes
<1>2. CASE DeleteRows
  <2>1. PICK removed : /\ row' = Without(row, removed)
                       /\ erased' = [j \in Ids |-> IF j \notin removed THEN erased[j]
                            ELSE IF j \in mem.forgotten THEN "buried" ELSE "unburied"]
    BY <1>2 DEF DeleteRows
  <2>2. CASE i \in removed
    BY <1>1, <2>1, <2>2 DEF Overruled
  <2>3. CASE i \notin removed
    BY <2>1, <2>3 DEF Overruled, Without
  <2> QED BY <2>2, <2>3
<1>3. CASE ~DeleteRows
  <2>1. erased' = erased
    BY <1>3, RowChanges
  <2>2. row[i] # None => row'[i] = row[i]
    <3>1. ASSUME NEW j \in Ids, UpsertSourceTurn(j) \/ UpsertFails(j), row[i] # None
          PROVE  row'[i] = row[i]
      BY <1>1, <3>1 DEF UpsertSourceTurn, UpsertFails, TurnMap
    <3>2. CASE DrainStep
      BY <3>1, <3>2 DEF DrainStep, SpoolStep, pipeline, UpsertConflict
    <3>3. ASSUME NEW r \in Requests, Arrive(r) \/ RequestStep(r) PROVE UNCHANGED row
      BY <3>3 DEF Arrive, RequestStep, JoinLock, Look, ReadRows, ReadRowsFails, Reserve,
                  Extracted, NoExtraction, CommitRequest, CommitRequestFails
    <3>4. CASE StartErase \/ Bury \/ FindRows \/ EraseFails
      BY <3>4 DEF StartErase, Bury, FindRows, EraseFails
    <3> QED BY <1>3, <3>2, <3>3, <3>4 DEF Next, EraseStep
  <2> QED BY <2>1, <2>2 DEF Overruled
<1> QED BY <1>2, <1>3

(* While a request holds its turns no other request marks them.              *)
LEMMA MarkedUnderLock ==
  ASSUME AwareOK, Next, ~Crash, NEW r \in Requests, req'[r] = req[r],
         req[r].pc \in {"reading", "reserving", "extracting"},
         NEW i \in In(req[r].turns), mem'.extracted[i] = req[r].turns[i]
  PROVE  mem.extracted[i] = req[r].turns[i]
<1> SUFFICES ASSUME mem.extracted[i] # req[r].turns[i] PROVE FALSE
  OBVIOUS
<1>1. Typed /\ RequestTypes /\ i \in Ids /\ req[r].turns[i] # None
  BY DEF AwareOK, JournalOK, Typed, In
<1>2. PICK s \in Requests : CommitRequest(s) /\ i \in req[s].held
  BY <1>1, MarkedByHolder
<1>3. req[s].pc \in {"marking", "putting", "cleanup"} /\ i \in In(req[s].turns)
  BY <1>2 DEF CommitRequest, AwareOK, RequestsOK, RequestOK
<1>4. \A x \in {r, s} : Holds(x, i)
  BY <1>1, <1>3 DEF AwareOK, LocksOK, Orderly, ToJoin
<1>5. s = r
  BY <1>4 DEF Holds
<1> QED BY <1>3, <1>5

LEMMA AwareKept ==
  ASSUME AwareOK, Next, ~Crash, NEW r \in Requests, req'[r] = req[r]
  PROVE  Aware(req[r])'
<1>0. /\ Typed /\ RequestTypes /\ JournalOK /\ MarkableOK
      /\ req[r].unseen \subseteq In(req[r].turns) /\ req[r].turns \in TurnMap
  BY RequestFields DEF AwareOK, JournalOK, Typed, RequestsOK, RequestOK
<1>1. ASSUME req[r].pc = "reading", NEW i \in In(req[r].turns),
             mem'.extracted[i] = req[r].turns[i]
      PROVE  i \in req[r].done
  BY <1>1, MarkedUnderLock DEF AwareOK, Aware
<1>2. ASSUME req[r].pc \in {"reserving", "extracting"}, NEW i \in req[r].unseen,
             mem'.extracted[i] = req[r].turns[i]
      PROVE  Overruled(i, req[r].turns[i])'
  <2>1. i \in In(req[r].turns) /\ i \in Ids /\ req[r].turns[i] \in Hmacs
    BY <1>0, <1>2 DEF In, TurnMap
  <2>2. mem.extracted[i] = req[r].turns[i]
    BY <1>2, <2>1, MarkedUnderLock
  <2>3. Overruled(i, req[r].turns[i])
    BY <1>2, <2>2 DEF AwareOK, Aware
  <2>4. ASSUME NEW h \in Hmacs, mem.extracted[i] = h, Overruled(i, h)
        PROVE  Overruled(i, h)'
    BY <1>0, <2>1, <2>4, OverruledKept
  <2>5. PICK h \in Hmacs : h = req[r].turns[i]
    BY <2>1
  <2>6. Overruled(i, h)'
    BY <2>2, <2>3, <2>4, <2>5
  <2>7. req'[r].turns[i] = h
    BY <2>5
  <2> QED BY <2>5, <2>6, <2>7 DEF Overruled
<1>3. req'[r].pc = "reading" => \A i \in In(req'[r].turns) :
        mem'.extracted[i] = req'[r].turns[i] => i \in req'[r].done
  BY <1>1
<1>4. req'[r].pc \in {"reserving", "extracting"} =>
        \A i \in req'[r].unseen : mem'.extracted[i] = req'[r].turns[i]
          => Overruled(i, req[r].turns[i])'
  BY <1>2
<1> QED BY <1>3, <1>4 DEF Aware

LEMMA AwareMoves ==
  ASSUME AwareOK, NEW r \in Requests, RequestStep(r), ~JoinLock(r)
  PROVE  Aware(req[r])'
<1>0. /\ RequestTypes /\ req[r] \in RequestType /\ req[r].turns \in TurnMap
      /\ mem.extracted \in TurnMap /\ row \in TurnMap
  BY MemTypes, RequestFields DEF AwareOK, JournalOK, Typed, RequestTypes
<1>1. ASSUME req'[r].pc \notin {"reading", "reserving", "extracting"}
      PROVE  Aware(req[r])'
  BY <1>1 DEF Aware
<1>2. CASE Finish(r)
  <2>1. req'[r].pc = "idle"
    BY <1>0, <1>2, IdleType DEF Finish, RequestTypes
  <2> QED BY <1>1, <2>1
<1>3. ASSUME NEW pc \in {"putting", "cleanup", "marking"}, Go(r, pc) PROVE Aware(req[r])'
  <2>1. req'[r].pc = pc
    BY <1>0, <1>3 DEF Go, RequestTypes, RequestType
  <2> QED BY <1>1, <2>1
<1>4. CASE Look(r)
  <2> DEFINE extracted == {i \in In(req[r].turns) : /\ i \notin mem.forgotten
                                      /\ mem.extracted[i] = req[r].turns[i]}
             known == {i \in In(req[r].turns) : ~seeded \/ i \in mem.known}
             q == [req[r] EXCEPT !.pc = "reading", !.ask = known \ extracted,
                     !.done = extracted, !.gone = In(req[r].turns) \cap mem.forgotten]
  <2>1. q.turns = req[r].turns /\ q.pc = "reading" /\ q.done = extracted
    BY <1>0 DEF RequestType
  <2>2. req' = [req EXCEPT ![r] = q]
    BY <1>4 DEF Look
  <2>3. req'[r] = q
    BY <1>0, <2>2 DEF RequestTypes
  <2> HIDE DEF q
  <2>4. mem' = mem
    BY <1>4 DEF Look, spool
  <2>5. ASSUME NEW i \in In(req[r].turns), mem.extracted[i] = req[r].turns[i]
        PROVE  i \in extracted
    <3>1. i \in In(mem.extracted)
      BY <2>5 DEF In
    <3>2. i \notin mem.forgotten
      BY <3>1 DEF AwareOK, MarkableOK, Markable
    <3> QED BY <2>5, <3>2
  <2> HIDE DEF extracted
  <2> QED BY <2>1, <2>3, <2>4, <2>5 DEF Aware, In
<1>5. CASE ReadRows(r)
  <2> DEFINE found == {i \in req[r].ask : row[i] # None}
             conflict == {i \in found : row[i] # req[r].turns[i]}
             seen == ((req[r].gone \ found) \cup req[r].done) \ (conflict \cup ContentOnly)
             q == [req[r] EXCEPT !.pc = "reserving", !.unseen = In(req[r].turns) \ seen,
                     !.ask = {}, !.done = {}, !.gone = {}]
  <2>1. q.turns = req[r].turns /\ q.pc = "reserving" /\ q.unseen = In(req[r].turns) \ seen
    BY <1>0 DEF RequestType
  <2>2. req' = [req EXCEPT ![r] = q]
    BY <1>5 DEF ReadRows
  <2>3. req'[r] = q
    BY <1>0, <2>2 DEF RequestTypes
  <2> HIDE DEF q
  <2>4. mem' = mem /\ row' = row /\ erased' = erased /\ req[r].pc = "reading"
    BY <1>5 DEF ReadRows, spool
  <2>5. ASSUME NEW i \in In(req[r].turns) \ seen, mem.extracted[i] = req[r].turns[i]
        PROVE  Overruled(i, req[r].turns[i])
    <3>1. i \in req[r].done
      BY <2>4, <2>5 DEF AwareOK, Aware
    <3>2. i \notin ContentOnly
      <4>1. i \in In(mem.extracted)
        BY <2>5 DEF In
      <4> QED BY <4>1 DEF AwareOK, MarkableOK, Markable
    <3>3. i \in conflict
      BY <2>5, <3>1, <3>2
    <3> QED BY <3>3 DEF Overruled
  <2> HIDE DEF seen
  <2>6. \A i \in q.unseen : mem'.extracted[i] = q.turns[i] => Overruled(i, req[r].turns[i])
    BY <2>1, <2>4, <2>5
  <2>7. \A i : Overruled(i, req[r].turns[i]) => row'[i] \notin {None, q.turns[i]} \/ erased'[i] = "unburied"
    BY <2>1, <2>4 DEF Overruled
  <2> QED BY <2>1, <2>3, <2>6, <2>7 DEF Aware, Overruled
<1>6. CASE Reserve(r)
  <2> DEFINE q == [req[r] EXCEPT !.held = req[r].unseen \ mem.forgotten,
             !.pc = IF req[r].unseen \cap req[r].kept = {} THEN "putting" ELSE "extracting"]
  <2>1. q.turns = req[r].turns /\ q.pc \in {"putting", "extracting"} /\ q.unseen = req[r].unseen
    BY <1>0 DEF RequestType
  <2>2. req' = [req EXCEPT ![r] = q]
    BY <1>6 DEF Reserve
  <2>3. req'[r] = q
    BY <1>0, <2>2 DEF RequestTypes
  <2> HIDE DEF q
  <2>4. mem' = mem /\ row' = row /\ erased' = erased /\ req[r].pc = "reserving"
    BY <1>6 DEF Reserve, spool
  <2>5. \A i \in req[r].unseen : mem.extracted[i] = req[r].turns[i]
          => Overruled(i, req[r].turns[i])
    BY <2>4 DEF AwareOK, Aware
  <2> QED BY <2>1, <2>3, <2>4, <2>5 DEF Aware, Overruled
<1>7. CASE Extracted(r) \/ NoExtraction(r)
  BY <1>3, <1>7 DEF Extracted, NoExtraction
<1>8. CASE ReadRowsFails(r) \/ CommitRequest(r) \/ CommitRequestFails(r)
  BY <1>2, <1>3, <1>8 DEF ReadRowsFails, CommitRequest, CommitRequestFails
<1> QED BY <1>4, <1>5, <1>6, <1>7, <1>8 DEF RequestStep

LEMMA OneRequestMoves ==
  ASSUME RequestTypes, NEW r \in Requests, Arrive(r) \/ RequestStep(r), req' # req
  PROVE  \E q : req' = [req EXCEPT ![r] = q]
<1>1. CASE Arrive(r)
  BY <1>1, ArriveLocks
<1>2. CASE RequestStep(r) /\ Finish(r)
  BY <1>2 DEF Finish
<1>3. CASE RequestStep(r) /\ ~Finish(r)
  <2>1. ~JoinLock(r)
    BY DEF JoinLock
  <2> QED BY <1>3, <2>1, RequestMoves
<1> QED BY <1>1, <1>2, <1>3

LEMMA AwareNext == AwareOK /\ [Next]_vars => AwareOK'
<1> SUFFICES ASSUME AwareOK, [Next]_vars PROVE AwareOK'
  OBVIOUS
<1>0. Typed /\ JournalOK /\ RequestsOK /\ LocksOK /\ MarkableOK /\ RequestTypes /\ SpoolTypes
  BY DEF AwareOK, JournalOK, Typed
<1>1. CASE UNCHANGED vars
  <2>1. JournalOK' /\ LocksOK'
    BY <1>0, <1>1, JournalNext, LocksNext
  <2>2. UNCHANGED <<req, mem, disk, row, erased, factsOf>>
    BY <1>1 DEF vars, spool, pipeline
  <2>3. RequestsOK' /\ MarkableOK'
    BY <1>0, <2>2 DEF RequestsOK, RequestOK, MarkableOK, Markable, In, Turns, Only
  <2>4. \A r \in Requests : Aware(req[r])'
    BY <2>2 DEF AwareOK, Aware, Overruled, In
  <2> QED BY <2>1, <2>3, <2>4 DEF AwareOK
<1>2. CASE Next
  <2>1. JournalOK' /\ LocksOK' /\ RequestsOK' /\ MarkableOK'
    BY <1>0, <1>2, JournalNext, LocksNext, RequestsKept, MarkableStep
  <2>2. ASSUME NEW r \in Requests PROVE Aware(req[r])'
    <3>1. CASE Crash
      <4>1. req'[r].pc = "idle"
        BY <3>1, IdleType DEF Crash
      <4> QED BY <4>1 DEF Aware
    <3>2. CASE ~Crash /\ req'[r] = req[r]
      BY <1>2, <3>2, AwareKept
    <3>3. CASE ~Crash /\ req'[r] # req[r]
      <4>1. PICK s \in Requests : Arrive(s) \/ RequestStep(s)
        <5>1. DrainStep \/ StartErase \/ EraseStep => UNCHANGED req
          BY DEF DrainStep, SpoolStep, pipeline, UpsertSourceTurn, UpsertConflict,
             UpsertFails, Wrote, StartErase, EraseStep, Bury, FindRows, DeleteRows, EraseFails
        <5> QED BY <1>2, <3>3, <5>1 DEF Next
      <4>2. \E q : req' = [req EXCEPT ![s] = q]
        BY <1>0, <3>3, <4>1, OneRequestMoves
      <4>3. s = r
        BY <1>0, <3>3, <4>2 DEF RequestTypes
      <4>4. CASE Arrive(r)
        <5>1. req'[r].pc = "locking"
          BY <1>0, <4>4, ArriveLocks DEF RequestTypes
        <5> QED BY <5>1 DEF Aware
      <4>5. CASE RequestStep(r)
        <5>1. ~JoinLock(r)
          BY <3>3 DEF JoinLock
        <5> QED BY <4>5, <5>1, AwareMoves
      <4> QED BY <4>1, <4>3, <4>4, <4>5
    <3> QED BY <3>1, <3>2, <3>3
  <2> QED BY <2>1, <2>2 DEF AwareOK
<1> QED BY <1>1, <1>2

(* Whatever requests, erases, failures and restarts interleave, facts are     *)
(* extracted again only from a turn whose row has other content or was        *)
(* erased without a tombstone (NoSecondExtraction).                         *)
THEOREM ExtractedOnce == Spec => NoSecondExtraction
<1> DEFINE Once == \A r \in Requests : \A i \in ToExtract(r) :
       /\ req[r].pc = "extracting" /\ req'[r].pc = "marking"
       /\ mem.extracted[i] = req[r].turns[i]
       => row[i] \notin {None, req[r].turns[i]} \/ erased[i] = "unburied"
<1>1. Init => AwareOK
  <2> SUFFICES ASSUME Init PROVE AwareOK
    OBVIOUS
  <2>1. RequestOK(NoRequest, factsOf)
    BY EmptyMap DEF RequestOK, NoRequest
  <2>2. RequestsOK
    BY <2>1 DEF Init, RequestsOK
  <2>3. MarkableOK
    BY EmptyMap DEF Init, SpoolInit, EmptyJournal, MarkableOK, Markable
  <2>4. \A r \in Requests : Aware(req[r])
    BY DEF Init, NoRequest, Aware
  <2> QED BY <2>2, <2>3, <2>4, JournalInit, LocksInit DEF AwareOK
<1>2. AwareOK /\ [Next]_vars => AwareOK'
  BY AwareNext
<1>3. AwareOK => Once
  BY DEF AwareOK, Aware, Overruled, ToExtract
<1>4. AwareOK /\ [Next]_vars => [Once]_vars
  BY <1>3
<1> HIDE DEF Once
<1>5. Spec => [][Once]_vars
  BY <1>1, <1>2, <1>4, PTL DEF Spec
<1> QED BY <1>5 DEF NoSecondExtraction, Once
=============================================================================
