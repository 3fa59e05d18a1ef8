--------------------------- MODULE SourceTurnSpool ---------------------------
(***************************************************************************)
(* The durable queue of captured conversation turns:                       *)
(* SourceTurnSpool of src/capture/source-turn-spool.ts.                    *)
(*                                                                         *)
(* Every change is a batch of lines appended to one journal file and       *)
(* fsynced, then applied to the maps the process keeps resident.  The      *)
(* journal is represented by what initialize() would rebuild from it:      *)
(* `disk` is the replayed state of the lines on disk, `mem` the resident   *)
(* maps.  The methods run one at a time (sequence()), and nothing outside  *)
(* them reads the maps between an append and its map updates in a way that *)
(* differs from reading them before the append, so each method is one step.*)
(* A crash inside an append leaves a prefix of its lines: it is a torn     *)
(* append followed by Restart.                                             *)
(*                                                                         *)
(* A turn is an id with the HMAC of its content; the same id may come back *)
(* with changed content.  A map from ids to HMACs is a total function with *)
(* None outside the map.                                                   *)
(***************************************************************************)
EXTENDS Integers, FiniteSets

CONSTANTS
  Ids,        \* turn ids; integers, because the capture route sorts them
  Hmacs,      \* content HMACs
  None,       \* no entry
  MaxFaults   \* bound on the faults (failed appends, queries, crashes)

ASSUME IdsAssumption == Ids \subseteq Nat /\ IsFiniteSet(Ids)
ASSUME NoneAssumption == None \notin Hmacs
ASSUME FaultsAssumption == MaxFaults \in Nat

VARIABLES
  disk,       \* what initialize() would rebuild from the journal
  mem,        \* the resident maps
  stuck,      \* rollbackFailed: an unsynced append could not be truncated
  window,     \* the entries the running drain started from
  inFlight,   \* ids registered by the running drain and not yet released
  written,    \* ids of the window whose write succeeded
  draining,   \* sourceDrainInFlight
  faults

spool == <<disk, mem, stuck, window, inFlight, written, draining, faults>>

TurnMap == [Ids -> Hmacs \cup {None}]
NoTurns == [i \in Ids |-> None]
In(f) == {i \in Ids : f[i] # None}
Only(f, S) == [i \in Ids |-> IF i \in S THEN f[i] ELSE None]
Without(f, S) == [i \in Ids |-> IF i \in S THEN None ELSE f[i]]
Override(f, g) == [i \in Ids |-> IF f[i] # None THEN f[i] ELSE g[i]]

Journal == [pending : TurnMap, forgotten : SUBSET Ids, extracted : TurnMap,
            known : SUBSET Ids]
EmptyJournal == [pending |-> NoTurns, forgotten |-> {}, extracted |-> NoTurns,
                 known |-> {}]

-----------------------------------------------------------------------------
(* initialize(): what each kind of line does to the state being rebuilt.    *)

PutLines(d, puts) ==
  [d EXCEPT !.pending = Override(Without(puts, d.forgotten), @),
            !.known = @ \cup (In(puts) \ d.forgotten)]

ExtractedLines(d, marks) ==
  [d EXCEPT !.extracted = Override(Without(marks, d.forgotten), @),
            !.known = @ \cup In(marks)]

DoneLines(d, ids) ==
  [d EXCEPT !.pending = Without(@, ids), !.known = @ \cup ids]

ForgetLines(d, ids) ==
  [d EXCEPT !.pending = Without(@, ids), !.extracted = Without(@, ids),
            !.forgotten = @ \cup ids, !.known = @ \cup ids]

(* A crash loses the maps and the drain; the next process rebuilds the maps  *)
(* and truncates a torn last line.                                          *)
Restart ==
  /\ faults < MaxFaults
  /\ faults' = faults + 1
  /\ mem' = disk
  /\ stuck' = FALSE
  /\ window' = NoTurns
  /\ inFlight' = {}
  /\ written' = {}
  /\ draining' = FALSE
  /\ UNCHANGED disk

-----------------------------------------------------------------------------
(* appendLines(): all lines are synced and the caller updates its maps; or   *)
(* the append fails and is truncated away; or the truncation fails as well,  *)
(* some of the lines stay, and every later append of this process fails.     *)

AppendLines(lines, maps) ==
  /\ ~stuck
  /\ disk' = lines
  /\ mem' = maps
  /\ UNCHANGED <<stuck, faults>>

AppendLinesFails(prefixes) ==
  /\ UNCHANGED mem
  /\ \/ /\ stuck
        /\ UNCHANGED <<disk, stuck, faults>>
     \/ /\ ~stuck
        /\ faults < MaxFaults
        /\ faults' = faults + 1
        /\ \/ UNCHANGED <<disk, stuck>>
           \/ disk' \in prefixes /\ stuck' = TRUE

-----------------------------------------------------------------------------
(* commitCapture(turns, completed)                                          *)

Puts(turns) ==
  Only(turns, {i \in Ids \ mem.forgotten : mem.pending[i] # turns[i]})

(* mutant: markers of forgotten turns are not filtered *)
MarkersOfForgotten(completed) == completed

Markers(completed) == Without(completed, mem.forgotten)

NothingToCommit(turns, completed) ==
  Puts(turns) = NoTurns /\ Markers(completed) = NoTurns

Commit(turns, completed) ==
  LET puts == Puts(turns)
      marks == Markers(completed)
  IN IF NothingToCommit(turns, completed)
       THEN UNCHANGED <<disk, mem, stuck, faults>>
       ELSE AppendLines(ExtractedLines(PutLines(disk, puts), marks),
                   [mem EXCEPT !.pending = Override(puts, @),
                               !.extracted = Override(marks, @),
                               !.known = @ \cup In(puts) \cup In(marks)])

CommitFails(turns, completed) ==
  LET puts == Puts(turns)
      marks == Markers(completed)
  IN /\ ~NothingToCommit(turns, completed)
     /\ AppendLinesFails({PutLines(disk, Only(puts, S)) : S \in SUBSET Ids}
          \cup {ExtractedLines(PutLines(disk, puts), Only(marks, S)) :
                  S \in SUBSET Ids})

-----------------------------------------------------------------------------
(* forget(ids), up to its wait for the writes in flight                     *)

Forget(ids) ==
  IF ids = {}
    THEN UNCHANGED <<disk, mem, stuck, faults>>
    ELSE AppendLines(ForgetLines(disk, ids), ForgetLines(mem, ids))

ForgetFails(ids) ==
  ids # {} /\ AppendLinesFails({ForgetLines(disk, S) : S \in SUBSET ids})

-----------------------------------------------------------------------------
(* drain(write): a window of the pending entries; each is registered if it   *)
(* is still pending and not forgotten, its body is read at the offset of the *)
(* window's entry and written outside the serial queue; at the end the done  *)
(* lines are synced together and the registrations released.                *)

DrainStarts ==
  /\ ~draining
  /\ In(mem.pending) # {}
  /\ draining' = TRUE
  /\ window' = mem.pending
  /\ UNCHANGED <<disk, mem, stuck, inFlight, written, faults>>

(* The entry being read and written: registered, with its window entry still *)
(* set.  The loop awaits each write before it registers the next entry.     *)
Writing == {i \in inFlight : window[i] # None}

Register(i) ==
  /\ window[i] # None
  /\ Writing = {}
  /\ IF mem.pending[i] # None /\ i \notin mem.forgotten
       THEN inFlight' = inFlight \cup {i} /\ UNCHANGED window
       ELSE window' = [window EXCEPT ![i] = None] /\ UNCHANGED inFlight
  /\ UNCHANGED <<disk, mem, stuck, written, draining, faults>>

(* mutant: a failed write is journalled as done too *)
DrainedOnError ==
  {i \in inFlight : mem.pending[i] # None /\ i \notin mem.forgotten}

DrainedIds ==
  {i \in written : mem.pending[i] # None /\ i \notin mem.forgotten}

(* mutants: the list of written ids outlives the drain; the drain flag is not *)
(* reset                                                                   *)
DrainReleasesKeepingWritten ==
  /\ draining' = FALSE
  /\ window' = NoTurns
  /\ inFlight' = {}
  /\ UNCHANGED written

DrainReleasesStayingBusy ==
  /\ UNCHANGED draining
  /\ window' = NoTurns
  /\ inFlight' = {}
  /\ written' = {}

DrainReleases ==
  /\ draining' = FALSE
  /\ window' = NoTurns
  /\ inFlight' = {}
  /\ written' = {}

DrainEnds ==
  /\ draining
  /\ In(window) = {}
  /\ IF DrainedIds = {}
       THEN UNCHANGED <<disk, mem, stuck, faults>>
       ELSE AppendLines(DoneLines(disk, DrainedIds),
                   [mem EXCEPT !.pending = Without(@, DrainedIds)])
  /\ DrainReleases

DrainEndFails ==
  /\ draining
  /\ In(window) = {}
  /\ DrainedIds # {}
  /\ AppendLinesFails({DoneLines(disk, S) : S \in SUBSET DrainedIds})
  /\ DrainReleases

-----------------------------------------------------------------------------
SpoolInit ==
  /\ disk = EmptyJournal
  /\ mem = EmptyJournal
  /\ stuck = FALSE
  /\ window = NoTurns
  /\ inFlight = {}
  /\ written = {}
  /\ draining = FALSE
  /\ faults = 0

SpoolTypeOK ==
  /\ disk \in Journal
  /\ mem \in Journal
  /\ stuck \in BOOLEAN
  /\ window \in TurnMap
  /\ inFlight \subseteq Ids
  /\ written \subseteq inFlight
  /\ draining \in BOOLEAN
  /\ faults \in 0..MaxFaults
=============================================================================
