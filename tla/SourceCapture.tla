---------------------------- MODULE SourceCapture ----------------------------
(***************************************************************************)
(* Concurrent POST /hooks/capture requests, the background drain and an    *)
(* erase around one SourceTurnSpool and the session_turn table, with the   *)
(* source store switched on.                                               *)
(*                                                                         *)
(* A request locks its turns, decides which of them were captured before,  *)
(* reserves the others, extracts facts from them and commits the turns and *)
(* their extraction markers in one append; its finally block commits the   *)
(* turns alone when an earlier exit did not.  The drain writes the queued  *)
(* turns to the table.  An erase tombstones turns in the spool, waits for  *)
(* their writes in flight, and deletes the rows.                           *)
(***************************************************************************)
EXTENDS SourceTurnSpool, Sequences

CONSTANTS
  Requests,     \* slots of concurrent capture requests
  Batches,      \* what a request may carry: its turns, and those compression keeps
  ContentOnly,  \* ids whose turn has identityQuality content_only
  EraseKinds,   \* which of forgetSourceSession and forgetSourceUser run
  MaxArrivals,  \* bound on the capture requests
  MaxErases     \* bound on the erases

ASSUME EraseAssumption == EraseKinds \subseteq {"session", "user"}
ASSUME BatchesAssumption ==
  Batches \subseteq [turns : TurnMap \ {NoTurns}, kept : SUBSET Ids]
ASSUME ContentAssumption == ContentOnly \subseteq Ids
ASSUME BoundsAssumption == MaxArrivals \in Nat /\ MaxErases \in Nat

VARIABLES
  row,      \* content HMAC of the session_turn row of each id
  seeded,   \* knownIdsSeeded
  lockq,    \* per id: requests chained in captureTurnLocks, the holder first
  req,      \* the requests
  erase,    \* the erase in progress
  factsOf,  \* turns all of whose extracted facts were written
  erased,   \* how the row of an id was deleted: with a tombstone or without
  started   \* capture requests and erases so far

pipeline == <<row, seeded, lockq, req, erase, factsOf, erased, started>>
vars == <<spool, pipeline>>

Turns(f) == {<<i, f[i]>> : i \in In(f)}

NoRequest == [pc |-> "idle", turns |-> NoTurns, kept |-> {}, ask |-> {},
              done |-> {}, gone |-> {}, unseen |-> {}, held |-> {}]
NoErase == [pc |-> "idle", kind |-> "session", ids |-> {}]

Go(r, pc) == req' = [req EXCEPT ![r].pc = pc]

-----------------------------------------------------------------------------
(* lockCaptureTurns(ids): in sorted order, join the chain of an id and await *)
(* the request before.  A chain is released from its head.                  *)

Joined(r) == {i \in Ids : \E n \in DOMAIN lockq[i] : lockq[i][n] = r}
Holds(r, i) == lockq[i] # <<>> /\ Head(lockq[i]) = r
ToJoin(r) == In(req[r].turns) \ Joined(r)
Least(S) == CHOOSE i \in S : \A j \in S : i <= j

JoinLock(r) ==
  /\ req[r].pc = "locking"
  /\ ToJoin(r) # {}
  /\ \A i \in Joined(r) : Holds(r, i)
  /\ LET i == Least(ToJoin(r)) IN lockq' = [lockq EXCEPT ![i] = Append(@, r)]
  /\ UNCHANGED <<spool, row, seeded, req, erase, factsOf, erased, started>>

(* mutant: only the first lock is released *)
ReleasedFirst(r) ==
  [i \in Ids |-> IF Holds(r, i) /\ i = Least(Ids) THEN Tail(lockq[i]) ELSE lockq[i]]

Released(r) ==
  [i \in Ids |-> IF Holds(r, i) THEN Tail(lockq[i]) ELSE lockq[i]]

(* The finally block's release, and the end of the request. *)
Finish(r) ==
  /\ lockq' = Released(r)
  /\ req' = [req EXCEPT ![r] = NoRequest]

-----------------------------------------------------------------------------
(* A request arrives: its messages become turns, the spool's known ids are  *)
(* seeded from the table once per process, compression keeps some turns.    *)
Arrive(r) ==
  /\ req[r].pc = "idle"
  /\ started.requests < MaxArrivals
  /\ started' = [started EXCEPT !.requests = @ + 1]
  /\ \E batch \in Batches :
       req' = [req EXCEPT ![r] = [NoRequest EXCEPT !.pc = "locking",
                 !.turns = batch.turns, !.kept = batch.kept \cap In(batch.turns)]]
  /\ seeded' = TRUE
  /\ mem' = IF seeded THEN mem ELSE [mem EXCEPT !.known = @ \cup In(row)]
  /\ UNCHANGED <<disk, stuck, window, inFlight, written, draining, faults,
                 row, lockq, erase, factsOf, erased>>

(* mutant: the look does not wait for the request before it *)
LookWithoutWaiting(r) ==
  LET turns == req[r].turns
      extracted == {i \in In(turns) : mem.extracted[i] = turns[i]}
  IN /\ req[r].pc = "locking"
     /\ ToJoin(r) = {}
     /\ req' = [req EXCEPT ![r].pc = "reading",
                           ![r].ask = In(turns) \ extracted,
                           ![r].done = extracted,
                           ![r].gone = In(turns) \cap mem.forgotten]
     /\ UNCHANGED <<spool, row, seeded, lockq, erase, factsOf, erased, started>>

(* seenCandidates: which turns to look up, which are extracted, forgotten.   *)
Look(r) ==
  LET turns == req[r].turns
      extracted == {i \in In(turns) : /\ i \notin mem.forgotten
                                      /\ mem.extracted[i] = turns[i]}
      known == {i \in In(turns) : ~seeded \/ i \in mem.known}
  IN /\ req[r].pc = "locking"
     /\ ToJoin(r) = {}
     /\ \A i \in Joined(r) : Holds(r, i)
     /\ req' = [req EXCEPT ![r].pc = "reading",
                           ![r].ask = known \ extracted,
                           ![r].done = extracted,
                           ![r].gone = In(turns) \cap mem.forgotten]
     /\ UNCHANGED <<spool, row, seeded, lockq, erase, factsOf, erased, started>>

(* The rows of the unresolved turns, and what of the request counts as seen. *)
ReadRows(r) ==
  LET q == req[r]
      found == {i \in q.ask : row[i] # None}
      conflict == {i \in found : row[i] # q.turns[i]}
      seen == ((q.gone \ found) \cup q.done) \ (conflict \cup ContentOnly)
  IN /\ q.pc = "reading"
     /\ req' = [req EXCEPT ![r].pc = "reserving",
                           ![r].unseen = In(q.turns) \ seen,
                           ![r].ask = {}, ![r].done = {}, ![r].gone = {}]
     /\ UNCHANGED <<spool, row, seeded, lockq, erase, factsOf, erased, started>>

ReadRowsFails(r) ==
  /\ req[r].pc = "reading"
  /\ faults < MaxFaults
  /\ faults' = faults + 1
  /\ Finish(r)
  /\ UNCHANGED <<disk, mem, stuck, window, inFlight, written, draining,
                 row, seeded, erase, factsOf, erased, started>>

(* reserveCapture refuses forgotten turns.  With nothing kept left to         *)
(* extract, what was reserved is committed and the request ends.            *)
Reserve(r) ==
  /\ req[r].pc = "reserving"
  /\ req' = [req EXCEPT
       ![r].held = req[r].unseen \ mem.forgotten,
       ![r].pc = IF req[r].unseen \cap req[r].kept = {} THEN "putting"
                                                        ELSE "extracting"]
  /\ UNCHANGED <<spool, row, seeded, lockq, erase, factsOf, erased, started>>

(* Extraction and the writes of its facts: to the end; stopped by the noise  *)
(* bank or a redaction failure, which commit the turns; or given up for want *)
(* of an API key or on an exception, which leaves the turns to the finally. *)
ToExtract(r) == req[r].unseen \cap req[r].kept

Extracted(r) ==
  /\ req[r].pc = "extracting"
  /\ factsOf' = factsOf \cup Turns(Only(req[r].turns, ToExtract(r)))
  /\ Go(r, "marking")
  /\ UNCHANGED <<spool, row, seeded, lockq, erase, erased, started>>

NoExtraction(r) ==
  /\ req[r].pc = "extracting"
  /\ \E pc \in {"putting", "cleanup"} : Go(r, pc)
  /\ UNCHANGED <<spool, row, seeded, lockq, erase, factsOf, erased, started>>

Held(r) == Only(req[r].turns, req[r].held)

(* mutant: turns left out by compression are marked as well *)
CompletedUncompressed(r) ==
  IF req[r].pc = "marking" THEN Without(Held(r), ContentOnly) ELSE NoTurns

(* Only turns that were reserved, kept by compression and identified by more *)
(* than their content are marked.                                          *)
Completed(r) ==
  IF req[r].pc = "marking"
    THEN Only(req[r].turns, (req[r].held \cap req[r].kept) \ ContentOnly)
    ELSE NoTurns

CommitRequest(r) ==
  /\ req[r].pc \in {"marking", "putting", "cleanup"}
  /\ Commit(Held(r), Completed(r))
  /\ Finish(r)
  /\ UNCHANGED <<window, inFlight, written, draining, row, seeded, erase,
                 factsOf, erased, started>>

(* A failed commit fails the request, whose finally block tries once more     *)
(* with the turns alone and gives up silently.                              *)
CommitRequestFails(r) ==
  /\ req[r].pc \in {"marking", "putting", "cleanup"}
  /\ CommitFails(Held(r), Completed(r))
  /\ IF req[r].pc = "cleanup" THEN Finish(r)
                              ELSE Go(r, "cleanup") /\ UNCHANGED lockq
  /\ UNCHANGED <<window, inFlight, written, draining, row, seeded, erase,
                 factsOf, erased, started>>

-----------------------------------------------------------------------------
(* The drain's write: upsertSourceTurn creates the row, sees the same turn    *)
(* there, or refuses another content under the id; reconcileSourceTurnLinks  *)
(* follows.  A query that fails may have created the row.                   *)

Wrote(i, ok) ==
  /\ window' = [window EXCEPT ![i] = None]
  /\ written' = IF ok THEN written \cup {i} ELSE written
  /\ UNCHANGED <<disk, mem, stuck, inFlight, draining, seeded, lockq, req, erase,
                 factsOf, erased, started>>

UpsertSourceTurn(i) ==
  /\ i \in Writing
  /\ row[i] \in {None, window[i]}
  /\ row' = [row EXCEPT ![i] = window[i]]
  /\ Wrote(i, TRUE)
  /\ UNCHANGED faults

UpsertConflict(i) ==
  /\ i \in Writing
  /\ row[i] \notin {None, window[i]}
  /\ Wrote(i, FALSE)
  /\ UNCHANGED <<row, faults>>

UpsertFails(i) ==
  /\ i \in Writing
  /\ faults < MaxFaults
  /\ faults' = faults + 1
  /\ \/ UNCHANGED row
     \/ row[i] = None /\ row' = [row EXCEPT ![i] = window[i]]
  /\ Wrote(i, FALSE)

-----------------------------------------------------------------------------
(* forgetSourceSession and forgetSourceUser, for the session all turns are   *)
(* of: tombstone what the spool knows, then what the table holds, waiting    *)
(* for the writes in flight after each, then delete.                        *)

StartErase ==
  /\ erase.pc = "idle"
  /\ started.erases < MaxErases
  /\ started' = [started EXCEPT !.erases = @ + 1]
  /\ \E kind \in EraseKinds :
       erase' = [pc |-> "burySpooled", kind |-> kind,
                 ids |-> In(mem.pending) \cup In(mem.extracted)]
  /\ UNCHANGED <<spool, row, seeded, lockq, req, factsOf, erased>>

Bury ==
  /\ erase.pc \in {"burySpooled", "buryStored"}
  /\ Forget(erase.ids)
  /\ erase' = [erase EXCEPT
                 !.pc = IF @ = "burySpooled" THEN "find" ELSE "delete"]
  /\ UNCHANGED <<window, inFlight, written, draining, row, seeded, lockq, req,
                 factsOf, erased, started>>

(* mutant: writes in flight are not waited for *)
WritesIgnored == TRUE

WritesSettled == erase.ids \cap inFlight = {}

FindRows ==
  /\ erase.pc = "find"
  /\ WritesSettled
  /\ erase' = [erase EXCEPT !.pc = "buryStored", !.ids = In(row)]
  /\ UNCHANGED <<spool, row, seeded, lockq, req, factsOf, erased, started>>

(* The session's erase deletes the rows it found, the user's every row. *)
DeleteRows ==
  LET removed == IF erase.kind = "session" THEN In(row) \cap erase.ids ELSE In(row)
  IN /\ erase.pc = "delete"
     /\ WritesSettled
     /\ row' = Without(row, removed)
     /\ erased' = [i \in Ids |->
          IF i \notin removed THEN erased[i]
          ELSE IF i \in mem.forgotten THEN "buried" ELSE "unburied"]
     /\ erase' = NoErase
     /\ UNCHANGED <<spool, seeded, lockq, req, factsOf, started>>

EraseFails ==
  /\ \/ /\ erase.pc \in {"burySpooled", "buryStored"}
        /\ ForgetFails(erase.ids)
     \/ /\ erase.pc \in {"find", "delete"}
        /\ faults < MaxFaults
        /\ faults' = faults + 1
        /\ UNCHANGED <<disk, mem, stuck>>
  /\ erase' = NoErase
  /\ UNCHANGED <<window, inFlight, written, draining, row, seeded, lockq, req,
                 factsOf, erased, started>>

-----------------------------------------------------------------------------
(* The process dies and another starts: the requests, the locks, the seed    *)
(* and the erase are gone.                                                  *)
Crash ==
  /\ Restart
  /\ seeded' = FALSE
  /\ lockq' = [i \in Ids |-> <<>>]
  /\ req' = [r \in Requests |-> NoRequest]
  /\ erase' = NoErase
  /\ UNCHANGED <<row, factsOf, erased, started>>

Init ==
  /\ SpoolInit
  /\ row = NoTurns
  /\ seeded = FALSE
  /\ lockq = [i \in Ids |-> <<>>]
  /\ req = [r \in Requests |-> NoRequest]
  /\ erase = NoErase
  /\ factsOf = {}
  /\ erased = [i \in Ids |-> "no"]
  /\ started = [requests |-> 0, erases |-> 0]

RequestStep(r) ==
  \/ JoinLock(r)
  \/ Look(r)
  \/ ReadRows(r)
  \/ ReadRowsFails(r)
  \/ Reserve(r)
  \/ Extracted(r)
  \/ NoExtraction(r)
  \/ CommitRequest(r)
  \/ CommitRequestFails(r)

SpoolStep ==
  /\ \/ DrainStarts
     \/ \E i \in Ids : Register(i)
     \/ DrainEnds
     \/ DrainEndFails
  /\ UNCHANGED pipeline

DrainStep ==
  \/ SpoolStep
  \/ \E i \in Ids : UpsertSourceTurn(i) \/ UpsertConflict(i) \/ UpsertFails(i)

EraseStep == Bury \/ FindRows \/ DeleteRows \/ EraseFails

Next ==
  \/ \E r \in Requests : Arrive(r) \/ RequestStep(r)
  \/ DrainStep
  \/ StartErase
  \/ EraseStep
  \/ Crash

Spec == Init /\ [][Next]_vars

(* The drain's timer fires and its promises settle. *)
FairSpec == Spec /\ WF_vars(DrainStep)

-----------------------------------------------------------------------------
RequestType ==
  [pc : {"idle", "locking", "reading", "reserving", "extracting", "marking",
         "putting", "cleanup"},
   turns : TurnMap, kept : SUBSET Ids, ask : SUBSET Ids, done : SUBSET Ids,
   gone : SUBSET Ids, unseen : SUBSET Ids, held : SUBSET Ids]

EraseType == [pc : {"idle", "burySpooled", "find", "buryStored", "delete"},
              kind : {"session", "user"}, ids : SUBSET Ids]

StartedType == [requests : 0..MaxArrivals, erases : 0..MaxErases]

(* Every variable of the spool and of the pipeline has its type; only the     *)
(* running drain's registered turns count as written.                       *)
TypeOK ==
  /\ SpoolTypeOK
  /\ row \in TurnMap
  /\ seeded \in BOOLEAN
  /\ lockq \in [Ids -> Seq(Requests)]
  /\ req \in [Requests -> RequestType]
  /\ erase \in EraseType
  /\ factsOf \subseteq Ids \X Hmacs
  /\ erased \in [Ids -> {"no", "buried", "unburied"}]
  /\ started \in StartedType

(* What a process would rebuild from the journal is what the running one     *)
(* works with: unless an append could not be truncated away, the resident    *)
(* maps are the replayed journal (initialize).                              *)
JournalIsResident ==
  ~stuck => /\ mem.pending = disk.pending
            /\ mem.forgotten = disk.forgotten
            /\ mem.extracted = disk.extracted
            /\ disk.known \subseteq mem.known

(* A turn whose row was deleted under a tombstone has no row again: not from *)
(* a write in flight, a later drain, a retried request or a replayed journal *)
(* (source-turn-link-store.ts: "a queued replay cannot recreate a forgotten  *)
(* turn after the DB deletion").                                            *)
BuriedStaysErased == \A i \in Ids : erased[i] = "buried" => row[i] = None

(* A turn a commit accepted is never lost, whatever fails or crashes after:  *)
(* it waits in the journal, has a row, or was forgotten or erased, and a      *)
(* request that ends with its commit leaves every turn it reserved so.       *)
Kept(i) == disk.pending[i] # None \/ row[i] # None \/ i \in disk.forgotten
             \/ erased[i] # "no"

AcceptedIsKept ==
  [][/\ \A i \in Ids : Kept(i) => Kept(i)'
     /\ \A r \in Requests :
          req[r].pc \in {"marking", "putting"} /\ req'[r].pc = "idle"
            /\ faults' = faults
          => \A i \in req[r].held : Kept(i)']_vars

(* "Only a completed extraction is eligible for replay suppression"          *)
(* (source-turn-spool.ts:53): a durable marker names a content whose facts   *)
(* were all written.                                                        *)
MarkerIsTrue == Turns(disk.extracted) \cup Turns(mem.extracted) \subseteq factsOf

(* Facts are not extracted from a turn that carries its extraction marker     *)
(* already, by whatever interleaving of requests, unless its row holds other *)
(* content or was erased without a tombstone.                               *)
NoSecondExtraction ==
  [][\A r \in Requests : \A i \in ToExtract(r) :
       /\ req[r].pc = "extracting" /\ req'[r].pc = "marking"
       /\ mem.extracted[i] = req[r].turns[i]
       => row[i] \notin {None, req[r].turns[i]} \/ erased[i] = "unburied"]_vars

(* Every turn in the queue is eventually written, unless it is forgotten.     *)
AcceptedIsStored ==
  \A i \in Ids : mem.pending[i] # None ~>
                   (row[i] # None \/ mem.pending[i] = None \/ i \in mem.forgotten)

(* Requests never wait on each other for good: while one waits for locks,     *)
(* some request holds all it asked for so far and can go on.                *)
NoLockCycle ==
  (\E r \in Requests : req[r].pc = "locking")
  => \E r \in Requests : req[r].pc # "idle" /\ \A i \in Joined(r) : Holds(r, i)

(* A queued turn leaves the queue because its own content was written, or     *)
(* because it was forgotten.                                                *)
DrainedAsWritten ==
  [][\A i \in Ids :
       draining /\ ~draining' /\ mem.pending[i] # None /\ mem'.pending[i] = None
       => row[i] = mem.pending[i] \/ i \in mem.forgotten \/ erased[i] # "no"]_vars
=============================================================================
