-------------------------- MODULE StalenessBacklog --------------------------
(***************************************************************************)
(* The staleness backlog and the scheduler that works it off               *)
(* (src/lifecycle/semion: staleness-pass.ts, lock.ts, consolidation.ts).   *)
(*                                                                         *)
(* A staleness pass that finds its lock taken writes its facts down as a   *)
(* 'pending' entry. Two kinds of thread replay entries later: a            *)
(* consolidation run, started by the scheduler or by /hooks/maintenance,   *)
(* and the startup of the process, which works from a list it reads once,  *)
(* with its timer already running. All of them take the lease of one key   *)
(* per user and scope, here the abstract lease of KeyedLease, which        *)
(* ConsolidationLock implements: a caller whose lease lapses works on.     *)
(***************************************************************************)
EXTENDS Naturals, Sequences

CONSTANTS
  Users,
  Scopes,       \* the sequence <<"session", "user", "global">>
  Entries,      \* rows of staleness_backlog
  Boot,         \* the replay at the start of the process
  Catchup,      \* its scheduler pass, once the replay is over
  Timer,        \* the interval callback's scheduler pass
  Forced,       \* runs of one scope each, started by POST /hooks/maintenance
  Passes,       \* calls of runStalenessPass
  MinSessions,  \* CONSOLIDATION_MIN_SESSIONS
  MaxPasses,    \* bound: passes that find the lock taken or free
  MaxFaults,    \* bound: lapses, failed statements and crashes together
  None

Triggers == {Catchup, Timer}
Runs     == Triggers \union Forced
Threads  == Runs \union Passes \union {Boot}
ScopeSet == {Scopes[i] : i \in 1..Len(Scopes)}
Keys     == Users \X ScopeSet

ASSUME ThreadsAssumption ==
  /\ Boot \notin Runs \union Passes
  /\ Catchup # Timer
  /\ Triggers \intersect Forced = {}
  /\ Passes \intersect Runs = {}
ASSUME NoneAssumption == None \notin Threads \union Entries \union Users \union Keys
ASSUME BoundsAssumption ==
  /\ Scopes \in Seq(ScopeSet)
  /\ MinSessions \in Nat
  /\ MaxPasses \in Nat
  /\ MaxFaults \in Nat

VARIABLES
  status,     \* [Entries -> "absent" | "pending" | "replayed" | "failed"]
  owner,      \* [Entries -> Keys or None]: user_id and scope of the row
  at,         \* [Threads -> where the thread is]
  key,        \* [Threads -> the lockKey it works under, or None]
  entry,      \* [Threads -> the backlog entry in its hands, or None]
  todo,       \* [Threads -> the entries its SELECT returned and it has not taken]
  eligible,   \* [Triggers -> users of the pass not started yet]
  user,       \* [Triggers -> the user of runForUser, or None]
  nth,        \* [Triggers -> index of the scope runForUser works on]
  anyRan,     \* [Triggers -> anySucceeded]
  inFlight,   \* consolidationPassInFlight
  rested,     \* [Users -> now - last_run_at >= MIN_HOURS]
  fresh,      \* [Users -> sessions captured after last_run_at, up to MinSessions]
  working,    \* KeyedLease: the threads at work under each key
  protected,  \* KeyedLease: the one whose lease lives
  orphan,     \* keys whose lease row outlived its holder
  overlapped, \* threads not sure to be alone under their key: their lease
              \* lapsed, or such a thread was inside when they came (history)
  passes,     \* passes started so far (bound)
  faults      \* faults so far (bound)

book  == <<status, owner>>
pass  == <<eligible, user, nth, anyRan, inFlight>>
usage == <<rested, fresh>>
lease == <<working, protected, orphan, overlapped>>
vars  == <<book, at, key, entry, todo, pass, usage, lease, passes, faults>>

Lease == INSTANCE KeyedLease WITH Procs <- Threads, Nobody <- None

(* Variant: the SELECT of Step 3 without user and scope *)
PendingOfAll(k) == {e \in Entries : status[e] = "pending" /\ k \in Keys}

Pending(k) == {e \in Entries : status[e] = "pending" /\ owner[e] = k}

Init ==
  /\ status = [e \in Entries |-> "absent"]
  /\ owner = [e \in Entries |-> None]
  /\ at = [t \in Threads |-> IF t = Boot THEN "down" ELSE "idle"]
  /\ key = [t \in Threads |-> None]
  /\ entry = [t \in Threads |-> None]
  /\ todo = [t \in Threads |-> {}]
  /\ eligible = [t \in Triggers |-> {}]
  /\ user = [t \in Triggers |-> None]
  /\ nth = [t \in Triggers |-> 1]
  /\ anyRan = [t \in Triggers |-> FALSE]
  /\ inFlight = FALSE
  /\ rested = [u \in Users |-> TRUE]
  /\ fresh = [u \in Users |-> 0]
  /\ Lease!Init
  /\ orphan = {}
  /\ overlapped = {}
  /\ passes = 0
  /\ faults = 0

Goto(t, place) == at' = [at EXCEPT ![t] = place]
Fault == faults < MaxFaults /\ faults' = faults + 1
Serving == at[Boot] # "down"

(* Variant: the CREATE of the lease as an UPSERT *)
TakeOver(t, k) ==
  /\ working' = [working EXCEPT ![k] = @ \union {t}]
  /\ protected' = [protected EXCEPT ![k] = t]
  /\ UNCHANGED <<orphan, overlapped>>

(***************************************************************************)
(* acquireLock and releaseLock, as their callers see them. A lease row     *)
(* whose holder is gone keeps everybody out until it expires.              *)
(***************************************************************************)
Acquire(t, k) ==
  /\ k \notin orphan
  /\ Lease!Enter(t, k)
  /\ overlapped' = IF working[k] = {} THEN overlapped ELSE overlapped \union {t}
  /\ UNCHANGED orphan

Taken(k) == protected[k] # None \/ k \in orphan

Release(t) ==
  /\ Lease!Exit(t, key[t])
  /\ overlapped' = overlapped \ {t}
  /\ UNCHANGED orphan

(* acquireLock throws: its query failed, or its CREATE was executed and    *)
(* the answer is lost.                                                     *)
AcquireFails(k) ==
  /\ Fault
  /\ \/ ~Taken(k) /\ orphan' = orphan \union {k}
     \/ UNCHANGED orphan
  /\ UNCHANGED <<working, protected, overlapped>>

(* The DELETE of releaseLock fails: a live lease row stays behind. *)
ReleaseFails(t) ==
  /\ orphan' = IF protected[key[t]] = t THEN orphan \union {key[t]} ELSE orphan
  /\ Lease!Exit(t, key[t])
  /\ overlapped' = overlapped \ {t}

(***************************************************************************)
(* runStalenessPass                                                        *)
(***************************************************************************)
StartPass(s, k) ==
  /\ Serving
  /\ at[s] = "idle"
  /\ passes < MaxPasses
  /\ passes' = passes + 1
  /\ key' = [key EXCEPT ![s] = k]
  /\ IF Taken(k)
     THEN Goto(s, "write") /\ UNCHANGED lease
     ELSE Goto(s, "core") /\ Acquire(s, k)
  /\ UNCHANGED <<book, entry, todo, pass, usage, faults>>

(* acquireLock throws, and with it the pass or the forced run: nothing is  *)
(* written down.                                                           *)
StartFails(t, k) ==
  /\ Serving
  /\ at[t] = "idle"
  /\ AcquireFails(k)
  /\ UNCHANGED <<book, at, key, entry, todo, pass, usage, passes>>

LeavePass(s) ==
  /\ Goto(s, "idle")
  /\ key' = [key EXCEPT ![s] = None]
  /\ UNCHANGED <<entry, todo, pass, usage, passes>>

(* writeStalenessBacklog: a new row, status 'pending' *)
WriteEntry(s, e) ==
  /\ at[s] = "write"
  /\ status[e] = "absent"
  /\ status' = [status EXCEPT ![e] = "pending"]
  /\ owner' = [owner EXCEPT ![e] = key[s]]
  /\ LeavePass(s)
  /\ UNCHANGED <<lease, faults>>

(* The CREATE fails: the pass throws, its facts are written nowhere. *)
WriteFails(s) ==
  /\ at[s] = "write"
  /\ Fault
  /\ LeavePass(s)
  /\ UNCHANGED <<book, lease>>

(* runStalenessCoreNoLock returned or threw; the finally clause releases,  *)
(* which may fail as well.                                                 *)
EndPass(s) ==
  /\ at[s] = "core"
  /\ \/ Release(s) /\ UNCHANGED faults
     \/ ReleaseFails(s) /\ Fault
  /\ LeavePass(s)
  /\ UNCHANGED book

(***************************************************************************)
(* startConsolidationScheduler: the startup replay. The interval timer is  *)
(* installed before the list is read.                                      *)
(***************************************************************************)
StartProcess ==
  /\ at[Boot] = "down"
  /\ Goto(Boot, "list")
  /\ UNCHANGED <<book, key, entry, todo, pass, usage, lease, passes, faults>>

(* A SELECT that fails is logged: the startup goes on with nothing to do. *)
ListPending ==
  /\ at[Boot] = "list"
  /\ Goto(Boot, "replay")
  /\ \/ /\ todo' = [todo EXCEPT ![Boot] = {e \in Entries : status[e] = "pending"}]
        /\ UNCHANGED faults
     \/ Fault /\ UNCHANGED todo
  /\ UNCHANGED <<book, key, entry, pass, usage, lease, passes>>

BootEntry(e) ==
  /\ at[Boot] = "replay"
  /\ e \in todo[Boot]
  /\ todo' = [todo EXCEPT ![Boot] = @ \ {e}]

(* The key is taken: the entry is left to the runs. *)
BootSkips(e) ==
  /\ BootEntry(e)
  /\ Taken(owner[e])
  /\ UNCHANGED <<book, at, key, entry, pass, usage, lease, passes, faults>>

(* The row is not read again: e may have been replayed since the list. *)
BootTakes(e) ==
  /\ BootEntry(e)
  /\ Acquire(Boot, owner[e])
  /\ Goto(Boot, "core")
  /\ key' = [key EXCEPT ![Boot] = owner[e]]
  /\ entry' = [entry EXCEPT ![Boot] = e]
  /\ UNCHANGED <<book, pass, usage, passes, faults>>

(* acquireLock throws: the entry goes the way of one whose core threw. *)
BootAcquireFails(e) ==
  /\ BootEntry(e)
  /\ AcquireFails(owner[e])
  /\ Goto(Boot, "catch")
  /\ entry' = [entry EXCEPT ![Boot] = e]
  /\ UNCHANGED <<book, key, pass, usage, passes>>

BootReplayed ==
  /\ at[Boot] = "mark"
  /\ status' = [status EXCEPT ![entry[Boot]] = "replayed"]
  /\ Goto(Boot, "release")
  /\ UNCHANGED <<owner, key, entry, todo, pass, usage, lease, passes, faults>>

BootDone ==
  /\ at[Boot] = "release"
  /\ Release(Boot)
  /\ Goto(Boot, "replay")
  /\ key' = [key EXCEPT ![Boot] = None]
  /\ entry' = [entry EXCEPT ![Boot] = None]
  /\ UNCHANGED <<book, todo, pass, usage, passes, faults>>

(* The core or the UPDATE throws, or the release itself: by the time the   *)
(* catch clause runs, the lock is given back.                              *)
BootThrows ==
  /\ at[Boot] \in {"core", "mark", "release"}
  /\ Fault
  /\ IF at[Boot] = "release" THEN ReleaseFails(Boot) ELSE Release(Boot)
  /\ Goto(Boot, "catch")
  /\ key' = [key EXCEPT ![Boot] = None]
  /\ UNCHANGED <<book, entry, todo, pass, usage, passes>>

(* UPDATE ... status = 'failed', outside the lock; its own failure is      *)
(* swallowed.                                                              *)
BootFailed ==
  /\ at[Boot] = "catch"
  /\ \/ /\ status' = [status EXCEPT ![entry[Boot]] = "failed"]
        /\ UNCHANGED faults
     \/ Fault /\ UNCHANGED status
  /\ Goto(Boot, "replay")
  /\ entry' = [entry EXCEPT ![Boot] = None]
  /\ UNCHANGED <<owner, key, todo, pass, usage, lease, passes>>

(***************************************************************************)
(* runEligibleUsers, from the interval callback and, once the replay is    *)
(* over, from the startup                                                  *)
(***************************************************************************)
Idle(t) ==
  /\ at[t] = "idle"
  /\ IF t = Timer THEN Serving ELSE at[Boot] = "replay" /\ todo[Boot] = {}

(* A pass is in flight: the startup does without its own, the timer's      *)
(* callback returns.                                                       *)
SkipCatchup ==
  /\ Idle(Catchup)
  /\ inFlight
  /\ Goto(Boot, "up")
  /\ UNCHANGED <<book, key, entry, todo, pass, usage, lease, passes, faults>>

(* Variant: no consolidationPassInFlight, as before the guard was added *)
BeginAnyPass(t) ==
  /\ Idle(t)
  /\ inFlight' = TRUE
  /\ at' = [at EXCEPT ![t] = "query", ![Boot] = IF t = Catchup THEN "up" ELSE @]
  /\ UNCHANGED <<book, key, entry, todo, eligible, user, nth, anyRan, usage, lease, passes, faults>>

BeginPass(t) ==
  /\ Idle(t)
  /\ ~inFlight
  /\ inFlight' = TRUE
  /\ at' = [at EXCEPT ![t] = "query", ![Boot] = IF t = Catchup THEN "up" ELSE @]
  /\ UNCHANGED <<book, key, entry, todo, eligible, user, nth, anyRan, usage, lease, passes, faults>>

Eligible(u) == rested[u] /\ fresh[u] >= MinSessions

(* getEligibleUsers *)
GetEligibleUsers(t) ==
  /\ at[t] = "query"
  /\ eligible' = [eligible EXCEPT ![t] = {u \in Users : Eligible(u)}]
  /\ Goto(t, "users")
  /\ UNCHANGED <<book, key, entry, todo, user, nth, anyRan, inFlight, usage, lease, passes, faults>>

(* runForUser: the scopes in turn, from the first *)
RunForUser(t, u) ==
  /\ at[t] = "users"
  /\ u \in eligible[t]
  /\ eligible' = [eligible EXCEPT ![t] = @ \ {u}]
  /\ user' = [user EXCEPT ![t] = u]
  /\ nth' = [nth EXCEPT ![t] = 1]
  /\ anyRan' = [anyRan EXCEPT ![t] = FALSE]
  /\ Goto(t, "scopes")
  /\ UNCHANGED <<book, key, entry, todo, inFlight, usage, lease, passes, faults>>

(* The clean-up of runForUser: last_run_at moves when some scope completed *)
StampRun(t) ==
  /\ at[t] = "scopes"
  /\ nth[t] > Len(Scopes)
  /\ anyRan[t]
  /\ rested' = [rested EXCEPT ![user[t]] = FALSE]
  /\ fresh' = [fresh EXCEPT ![user[t]] = 0]
  /\ user' = [user EXCEPT ![t] = None]
  /\ nth' = [nth EXCEPT ![t] = 1]
  /\ anyRan' = [anyRan EXCEPT ![t] = FALSE]
  /\ Goto(t, "users")
  /\ UNCHANGED <<book, key, entry, todo, eligible, inFlight, lease, passes, faults>>

NoScopeRan(t) ==
  /\ at[t] = "scopes"
  /\ nth[t] > Len(Scopes)
  /\ ~anyRan[t]
  /\ user' = [user EXCEPT ![t] = None]
  /\ nth' = [nth EXCEPT ![t] = 1]
  /\ Goto(t, "users")
  /\ UNCHANGED <<book, key, entry, todo, eligible, anyRan, inFlight, usage, lease, passes, faults>>

EndPassOf(t) ==
  /\ Goto(t, "idle")
  /\ eligible' = [eligible EXCEPT ![t] = {}]
  /\ user' = [user EXCEPT ![t] = None]
  /\ nth' = [nth EXCEPT ![t] = 1]
  /\ anyRan' = [anyRan EXCEPT ![t] = FALSE]
  /\ inFlight' = FALSE
  /\ UNCHANGED <<book, key, entry, todo, usage, lease, passes>>

AllUsersDone(t) ==
  /\ at[t] = "users"
  /\ eligible[t] = {}
  /\ EndPassOf(t)
  /\ UNCHANGED faults

(* Variant: the flag is cleared after the loop, not in a finally clause *)
PassThrowsAway(t) ==
  /\ \/ at[t] = "query"
     \/ at[t] = "scopes" /\ nth[t] > Len(Scopes) /\ anyRan[t]
  /\ Fault
  /\ Goto(t, "idle")
  /\ UNCHANGED <<book, key, entry, todo, pass, usage, lease, passes>>

(* A query of getEligibleUsers or the stamp throws: the rest of the list   *)
(* is dropped, the finally clause clears the flag.                         *)
PassThrows(t) ==
  /\ \/ at[t] = "query"
     \/ at[t] = "scopes" /\ nth[t] > Len(Scopes) /\ anyRan[t]
  /\ Fault
  /\ EndPassOf(t)

(***************************************************************************)
(* runConsolidationForScope, as far as locks and the backlog go            *)
(***************************************************************************)
NextScope(t, completed) ==
  IF t \in Triggers
  THEN /\ Goto(t, "scopes")
       /\ nth' = [nth EXCEPT ![t] = @ + 1]
       /\ anyRan' = [anyRan EXCEPT ![t] = @ \/ completed]
  ELSE Goto(t, "idle") /\ UNCHANGED <<nth, anyRan>>

MayRun(t, k) ==
  \/ /\ t \in Triggers
     /\ at[t] = "scopes"
     /\ nth[t] <= Len(Scopes)
     /\ k = <<user[t], Scopes[nth[t]]>>
  \/ t \in Forced /\ at[t] = "idle" /\ Serving

StartRun(t, k) ==
  /\ MayRun(t, k)
  /\ Acquire(t, k)
  /\ Goto(t, "sweep")
  /\ key' = [key EXCEPT ![t] = k]
  /\ UNCHANGED <<book, entry, todo, pass, usage, passes, faults>>

(* skipped_lock *)
SkipRun(t, k) ==
  /\ t \in Triggers
  /\ MayRun(t, k)
  /\ Taken(k)
  /\ NextScope(t, FALSE)
  /\ UNCHANGED <<book, key, entry, todo, eligible, user, inFlight, usage, lease, passes, faults>>

(* acquireLock throws: runForUser goes on with the next scope *)
RunAcquireFails(t, k) ==
  /\ t \in Triggers
  /\ MayRun(t, k)
  /\ AcquireFails(k)
  /\ NextScope(t, FALSE)
  /\ UNCHANGED <<book, key, entry, todo, eligible, user, inFlight, usage, passes>>

(* Steps 1 and 2 are over; Step 3 selects the pending entries of the key. *)
ListBacklog(t) ==
  /\ at[t] = "sweep"
  /\ Goto(t, "replay")
  /\ todo' = [todo EXCEPT ![t] = Pending(key[t])]
  /\ UNCHANGED <<book, key, entry, pass, usage, lease, passes, faults>>

TakeEntry(t, e) ==
  /\ at[t] = "replay"
  /\ e \in todo[t]
  /\ todo' = [todo EXCEPT ![t] = @ \ {e}]
  /\ entry' = [entry EXCEPT ![t] = e]
  /\ Goto(t, "core")
  /\ UNCHANGED <<book, key, pass, usage, lease, passes, faults>>

(* runStalenessCoreNoLock returns: also when the model gave no answer, its *)
(* answer was no JSON, or a supersede failed.                              *)
CoreReturns(t) ==
  /\ at[t] = "core"
  /\ Goto(t, "mark")
  /\ UNCHANGED <<book, key, entry, todo, pass, usage, lease, passes, faults>>

MarkReplayed(t) ==
  /\ at[t] = "mark"
  /\ status' = [status EXCEPT ![entry[t]] = "replayed"]
  /\ entry' = [entry EXCEPT ![t] = None]
  /\ Goto(t, "replay")
  /\ UNCHANGED <<owner, key, todo, pass, usage, lease, passes, faults>>

(* A search, an embedding or the UPDATE throws *)
CoreThrows(t) ==
  /\ at[t] \in {"core", "mark"}
  /\ Fault
  /\ Goto(t, "catch")
  /\ UNCHANGED <<book, key, entry, todo, pass, usage, lease, passes>>

MarkFailed(t) ==
  /\ at[t] = "catch"
  /\ status' = [status EXCEPT ![entry[t]] = "failed"]
  /\ entry' = [entry EXCEPT ![t] = None]
  /\ Goto(t, "replay")
  /\ UNCHANGED <<owner, key, todo, pass, usage, lease, passes, faults>>

LeaveRun(t, completed) ==
  /\ key' = [key EXCEPT ![t] = None]
  /\ entry' = [entry EXCEPT ![t] = None]
  /\ todo' = [todo EXCEPT ![t] = {}]
  /\ NextScope(t, completed)
  /\ UNCHANGED <<book, eligible, user, inFlight, usage, passes>>

CompleteRun(t) ==
  /\ at[t] = "replay"
  /\ todo[t] = {}
  /\ Release(t)
  /\ LeaveRun(t, TRUE)
  /\ UNCHANGED faults

(* A step outside the replay loop throws, or the UPDATE to 'failed': the   *)
(* run ends 'failed'. So does one whose release fails, for its caller.     *)
RunThrows(t) ==
  /\ \/ at[t] \in {"sweep", "catch"}
     \/ at[t] = "replay" /\ todo[t] = {}
  /\ Fault
  /\ Release(t) \/ ReleaseFails(t)
  /\ LeaveRun(t, FALSE)

(***************************************************************************)
(* Time, users, and the end of the process                                 *)
(***************************************************************************)
(* The lease of a thread at work runs out: no heartbeat, or a late one.    *)
(* (A lease that a very late heartbeat revives is one that never lapsed.)  *)
Lapse(k) ==
  /\ protected[k] # None
  /\ Fault
  /\ Lease!Lapse({k})
  /\ overlapped' = overlapped \union {protected[k]}
  /\ UNCHANGED <<book, at, key, entry, todo, pass, usage, orphan, passes>>

ExpireOrphan(k) ==
  /\ k \in orphan
  /\ orphan' = orphan \ {k}
  /\ UNCHANGED <<book, at, key, entry, todo, pass, usage, working, protected, overlapped, passes, faults>>

Rest(u) ==
  /\ ~rested[u]
  /\ rested' = [rested EXCEPT ![u] = TRUE]
  /\ UNCHANGED <<book, at, key, entry, todo, pass, fresh, lease, passes, faults>>

CaptureSession(u) ==
  /\ fresh[u] < MinSessions
  /\ fresh' = [fresh EXCEPT ![u] = @ + 1]
  /\ UNCHANGED <<book, at, key, entry, todo, pass, rested, lease, passes, faults>>

(* The process ends wherever its threads are: the tables stay. *)
Crash ==
  /\ Serving
  /\ Fault
  /\ at' = [t \in Threads |-> IF t = Boot THEN "down" ELSE "idle"]
  /\ key' = [t \in Threads |-> None]
  /\ entry' = [t \in Threads |-> None]
  /\ todo' = [t \in Threads |-> {}]
  /\ eligible' = [t \in Triggers |-> {}]
  /\ user' = [t \in Triggers |-> None]
  /\ nth' = [t \in Triggers |-> 1]
  /\ anyRan' = [t \in Triggers |-> FALSE]
  /\ inFlight' = FALSE
  /\ orphan' = orphan \union {k \in Keys : protected[k] # None}
  /\ working' = [k \in Keys |-> {}]
  /\ protected' = [k \in Keys |-> None]
  /\ overlapped' = {}
  /\ UNCHANGED <<book, usage, passes>>

(***************************************************************************)
(* The next-state relation, and what the scheduling guarantees             *)
(***************************************************************************)
PassStep(s) ==
  \/ \E e \in Entries : WriteEntry(s, e)
  \/ WriteFails(s)
  \/ EndPass(s)

BootStep ==
  \/ StartProcess
  \/ ListPending
  \/ \E e \in Entries : BootSkips(e) \/ BootTakes(e) \/ BootAcquireFails(e)
  \/ CoreReturns(Boot)
  \/ BootReplayed
  \/ BootDone
  \/ BootThrows
  \/ BootFailed
  \/ SkipCatchup

SchedulerStep(t) ==
  \/ BeginPass(t)
  \/ GetEligibleUsers(t)
  \/ \E u \in Users : RunForUser(t, u)
  \/ StampRun(t)
  \/ NoScopeRan(t)
  \/ AllUsersDone(t)
  \/ PassThrows(t)
  \/ \E k \in Keys : StartRun(t, k) \/ SkipRun(t, k) \/ RunAcquireFails(t, k)

RunStep(t) ==
  \/ ListBacklog(t)
  \/ \E e \in Entries : TakeEntry(t, e)
  \/ CoreReturns(t)
  \/ MarkReplayed(t)
  \/ CoreThrows(t)
  \/ MarkFailed(t)
  \/ CompleteRun(t)
  \/ RunThrows(t)

Next ==
  \/ \E s \in Passes : PassStep(s) \/ \E k \in Keys : StartPass(s, k)
  \/ BootStep
  \/ \E t \in Triggers : SchedulerStep(t)
  \/ \E t \in Runs : RunStep(t)
  \/ \E t \in Forced, k \in Keys : StartRun(t, k)
  \/ \E t \in Passes \union Forced, k \in Keys : StartFails(t, k)
  \/ \E k \in Keys : Lapse(k) \/ ExpireOrphan(k)
  \/ \E u \in Users : Rest(u) \/ CaptureSession(u)
  \/ Crash

Spec == Init /\ [][Next]_vars

(***************************************************************************)
(* A process that is up goes on, a dead one is started again, the interval *)
(* fires, leases expire, a day passes and users keep talking. Nothing says *)
(* that anybody calls /hooks/maintenance or that another pass comes.       *)
(***************************************************************************)
Fairness ==
  /\ \A s \in Passes : WF_vars(PassStep(s))
  /\ WF_vars(BootStep)
  /\ \A t \in Triggers : WF_vars(SchedulerStep(t))
  /\ \A t \in Runs : WF_vars(RunStep(t))
  /\ \A k \in Keys : WF_vars(ExpireOrphan(k))
  /\ \A u \in Users : WF_vars(Rest(u)) /\ WF_vars(CaptureSession(u))

FairSpec == Spec /\ Fairness

(***************************************************************************)
(* Properties                                                              *)
(***************************************************************************)
Replaying(t, e) == entry[t] = e /\ at[t] \in {"core", "mark", "release"}

(***************************************************************************)
(* No backlog entry is put through the staleness core by two threads at    *)
(* once (consolidation.ts, Step 3, and the startup replay) unless a lease  *)
(* ran out under one of them.                                              *)
(***************************************************************************)
ExclusiveReplay ==
  \A e \in Entries : \A t1, t2 \in Threads :
    (Replaying(t1, e) /\ Replaying(t2, e) /\ t1 # t2) => {t1, t2} \intersect overlapped # {}

(***************************************************************************)
(* A consolidation run that kept its key to itself never has an entry in   *)
(* hand that is 'replayed' already: its list is as good as a check made    *)
(* entry by entry, although the startup marks entries meanwhile.           *)
(***************************************************************************)
RunReplaysOnce ==
  \A t \in Runs \ overlapped : \A e \in Entries :
    (e \in todo[t] \/ entry[t] = e) => status[e] # "replayed"

(***************************************************************************)
(* The scheduler starts a run of a user only at a moment when the user is  *)
(* eligible: not within MIN_HOURS of the last run and with MIN_SESSIONS    *)
(* new sessions, although the list of eligible users is read long before   *)
(* and two triggers read it.                                               *)
(***************************************************************************)
PacedRuns ==
  [][\A t \in Triggers, u \in Users :
       (user[t] # u /\ user'[t] = u) => Eligible(u)]_vars

(***************************************************************************)
(* Once passes and faults are over, every entry of the backlog is settled, *)
(* by the startup or by the scheduled runs of a user who keeps talking.    *)
(***************************************************************************)
BacklogIsSettled == <>[](\A e \in Entries : status[e] # "pending")
=============================================================================
