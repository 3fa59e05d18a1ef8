----------------------- MODULE StalenessBacklogProofs -----------------------
(***************************************************************************)
(* Theorems about StalenessBacklog, for any number of users, scopes,       *)
(* entries, passes and forced runs, and for any number of faults           *)
(***************************************************************************)
EXTENDS StalenessBacklog, TLAPS

USE ThreadsAssumption, NoneAssumption, BoundsAssumption

(* The steps of the system, one disjunct for each action *)
LEMMA Steps ==
  ASSUME [Next]_vars
  PROVE  \/ \E s \in Passes, e \in Entries : WriteEntry(s, e)
         \/ \E s \in Passes : WriteFails(s)
         \/ \E s \in Passes : EndPass(s)
         \/ \E s \in Passes, k \in Keys : StartPass(s, k)
         \/ StartProcess
         \/ ListPending
         \/ \E e \in Entries : BootSkips(e)
         \/ \E e \in Entries : BootTakes(e)
         \/ \E e \in Entries : BootAcquireFails(e)
         \/ \E t \in Runs \union {Boot} : CoreReturns(t)
         \/ BootReplayed
         \/ BootDone
         \/ BootThrows
         \/ BootFailed
         \/ SkipCatchup
         \/ \E t \in Triggers : BeginPass(t)
         \/ \E t \in Triggers : GetEligibleUsers(t)
         \/ \E t \in Triggers, u \in Users : RunForUser(t, u)
         \/ \E t \in Triggers : StampRun(t)
         \/ \E t \in Triggers : NoScopeRan(t)
         \/ \E t \in Triggers : AllUsersDone(t)
         \/ \E t \in Triggers : PassThrows(t)
         \/ \E t \in Runs, k \in Keys : StartRun(t, k)
         \/ \E t \in Triggers, k \in Keys : SkipRun(t, k)
         \/ \E t \in Triggers, k \in Keys : RunAcquireFails(t, k)
         \/ \E t \in Runs : ListBacklog(t)
         \/ \E t \in Runs, e \in Entries : TakeEntry(t, e)
         \/ \E t \in Runs : MarkReplayed(t)
         \/ \E t \in Runs : CoreThrows(t)
         \/ \E t \in Runs : MarkFailed(t)
         \/ \E t \in Runs : CompleteRun(t)
         \/ \E t \in Runs : RunThrows(t)
         \/ \E k \in Keys : Lapse(k)
         \/ \E k \in Keys : ExpireOrphan(k)
         \/ \E t \in Passes \union Forced, k \in Keys : StartFails(t, k)
         \/ \E u \in Users : Rest(u)
         \/ \E u \in Users : CaptureSession(u)
         \/ Crash
         \/ UNCHANGED vars
<1>1. Triggers \subseteq Runs /\ Forced \subseteq Runs
  BY DEF Runs
<1>2. ASSUME BootStep PROVE Catchup \in Triggers /\ BootStep
  BY <1>2 DEF Triggers
<1>3. ASSUME NEW t \in Triggers, SchedulerStep(t) PROVE t \in Runs /\ SchedulerStep(t)
  BY <1>1, <1>3
<1>4. CASE \E s \in Passes : PassStep(s) \/ \E k \in Keys : StartPass(s, k)
  BY <1>4 DEF PassStep
<1>5. CASE BootStep
  BY <1>5 DEF BootStep
<1>6. CASE \E t \in Triggers : SchedulerStep(t)
  <2>1. PICK t \in Triggers : SchedulerStep(t)
    BY <1>6
  <2> QED BY <1>1, <2>1 DEF SchedulerStep
<1>7. CASE \E t \in Runs : RunStep(t)
  <2>1. PICK t \in Runs : RunStep(t)
    BY <1>7
  <2> QED BY <2>1 DEF RunStep
<1>8. CASE \E t \in Forced, k \in Keys : StartRun(t, k)
  BY <1>1, <1>8
<1>9. CASE \/ \E t \in Passes \union Forced, k \in Keys : StartFails(t, k)
           \/ \E k \in Keys : Lapse(k) \/ ExpireOrphan(k)
           \/ \E u \in Users : Rest(u) \/ CaptureSession(u)
           \/ Crash
  BY <1>9
<1> QED BY <1>4, <1>5, <1>6, <1>7, <1>8, <1>9 DEF Next

(* Whose thread is what *)
LEMMA Parts ==
  /\ Triggers \subseteq Runs /\ Forced \subseteq Runs
  /\ Runs \subseteq Threads /\ Passes \subseteq Threads /\ Boot \in Threads
  /\ Boot \notin Runs /\ Boot \notin Passes /\ Boot \notin Triggers
  /\ Passes \intersect Runs = {}
  /\ Threads = Runs \union Passes \union {Boot}
  /\ Catchup \in Triggers
  /\ None \notin Threads /\ None \notin Entries /\ None \notin Users /\ None \notin Keys
BY DEF Runs, Threads, Triggers

-----------------------------------------------------------------------------
(***************************************************************************)
(* The inductive invariant. TypeOK: what each variable holds.              *)
(***************************************************************************)
Places ==
  {"idle", "query", "users", "scopes", "sweep", "replay", "core", "mark", "catch",
   "down", "list", "release", "up", "write"}

TypeOK ==
  /\ status \in [Entries -> {"absent", "pending", "replayed", "failed"}]
  /\ owner \in [Entries -> Keys \union {None}]
  /\ at \in [Threads -> Places]
  /\ key \in [Threads -> Keys \union {None}]
  /\ entry \in [Threads -> Entries \union {None}]
  /\ todo \in [Threads -> SUBSET Entries]
  /\ eligible \in [Triggers -> SUBSET Users]
  /\ user \in [Triggers -> Users \union {None}]
  /\ nth \in [Triggers -> Nat]
  /\ anyRan \in [Triggers -> BOOLEAN]
  /\ inFlight \in BOOLEAN
  /\ rested \in [Users -> BOOLEAN]
  /\ fresh \in [Users -> Nat]
  /\ working \in [Keys -> SUBSET Threads]
  /\ protected \in [Keys -> Threads \union {None}]
  /\ orphan \in SUBSET Keys
  /\ overlapped \in SUBSET Threads

(* Where each kind of thread can be *)
RunPlaces == {"idle", "query", "users", "scopes", "sweep", "replay", "core", "mark", "catch"}
BootPlaces == {"down", "list", "replay", "core", "mark", "release", "catch", "up"}
PassPlaces == {"idle", "write", "core"}

Stations ==
  /\ \A t \in Runs : at[t] \in RunPlaces
  /\ at[Boot] \in BootPlaces
  /\ \A t \in Passes : at[t] \in PassPlaces

(* Leases: a thread is at work under a key exactly while it is between     *)
(* acquireLock and releaseLock, and one whose lease never lapsed, with     *)
(* nobody of that kind inside when it came, is alone.                      *)
Inside(t) ==
  \/ at[t] \in {"sweep", "core", "mark", "release"}
  \/ t \in Runs /\ at[t] \in {"replay", "catch"}

Leases ==
  /\ \A t \in Threads, k \in Keys : t \in working[k] <=> Inside(t) /\ key[t] = k
  /\ \A t \in Threads : Inside(t) => key[t] \in Keys
  /\ \A t \in Passes : at[t] = "write" => key[t] \in Keys
  /\ \A k \in Keys : protected[k] # None => protected[k] \in working[k]
  /\ \A k \in Keys : \A t \in working[k] \ overlapped :
       working[k] = {t} /\ protected[k] = t

(* Hands: the entries a thread holds belong to the key it works under. *)
Rows == \A e \in Entries : status[e] # "absent" => owner[e] \in Keys

Hands ==
  /\ \A t \in Threads, e \in Entries : e \in todo[t] \/ entry[t] = e => status[e] # "absent"
  /\ \A t \in Threads : entry[t] \notin todo[t]
  /\ \A t \in Runs, e \in Entries : e \in todo[t] \/ entry[t] = e => Inside(t) /\ key[t] = owner[e]
  /\ \A t \in Threads, e \in Entries : entry[t] = e /\ Inside(t) => key[t] = owner[e]
  /\ \A t \in Threads : t \in Passes => entry[t] = None /\ todo[t] = {}
  /\ \A t \in Runs \union {Boot} : entry[t] \in Entries <=> at[t] \in {"core", "mark", "catch", "release"}

(* Flight: one trigger at most is in a pass, and the users it has yet to   *)
(* serve are eligible still.                                               *)
Flight ==
  /\ \A t \in Triggers : at[t] # "idle" => inFlight
  /\ \A t1, t2 \in Triggers : at[t1] # "idle" /\ at[t2] # "idle" => t1 = t2
  /\ \A t \in Triggers : at[t] \in {"idle", "query"} => eligible[t] = {}
  /\ \A t \in Triggers : at[t] \in {"idle", "query", "users"} => user[t] = None
  /\ \A t \in Triggers : \A u \in eligible[t] : Eligible(u) /\ u # user[t]

IndInv == TypeOK /\ Stations /\ Rows /\ Leases /\ Hands /\ RunReplaysOnce /\ Flight

LEMMA InitInv == ASSUME Init PROVE IndInv
<1>1. TypeOK
  BY Parts DEF Init, TypeOK, Places, Lease!Init
<1>2. Stations
  BY Parts DEF Init, Stations, RunPlaces, BootPlaces, PassPlaces
<1>3. Rows /\ Leases
  BY Parts DEF Init, Rows, Leases, Inside, Lease!Init
<1>4. Hands /\ RunReplaysOnce /\ Flight
  BY Parts DEF Init, Hands, RunReplaysOnce, Flight, Inside, Lease!Init
<1> QED BY <1>1, <1>2, <1>3, <1>4 DEF IndInv

-----------------------------------------------------------------------------
(* What acquireLock, releaseLock and the end of a scope do *)
LEMMA Acquired ==
  ASSUME TypeOK, NEW t \in Threads, NEW k \in Keys, Acquire(t, k)
  PROVE  /\ protected[k] = None
         /\ working' = [working EXCEPT ![k] = @ \union {t}]
         /\ protected' = [protected EXCEPT ![k] = t]
         /\ overlapped \subseteq overlapped' /\ overlapped' \subseteq overlapped \union {t}
         /\ working[k] # {} => t \in overlapped'
         /\ orphan' = orphan
         /\ working' \in [Keys -> SUBSET Threads]
         /\ protected' \in [Keys -> Threads \union {None}]
         /\ overlapped' \in SUBSET Threads
<1>1. overlapped' = IF working[k] = {} THEN overlapped ELSE overlapped \union {t}
  BY DEF Acquire
<1>2. /\ protected[k] = None
      /\ working' = [working EXCEPT ![k] = @ \union {t}]
      /\ protected' = [protected EXCEPT ![k] = t]
      /\ orphan' = orphan
  BY DEF Acquire, Lease!Enter
<1>3. working' \in [Keys -> SUBSET Threads] /\ protected' \in [Keys -> Threads \union {None}]
  BY <1>2 DEF TypeOK
<1>4. overlapped' \in SUBSET Threads
  BY <1>1 DEF TypeOK
<1> QED BY <1>1, <1>2, <1>3, <1>4

LEMMA Released ==
  ASSUME TypeOK, Leases, NEW t \in Threads, Inside(t), Release(t) \/ ReleaseFails(t)
  PROVE  /\ t \in working[key[t]] /\ key[t] \in Keys
         /\ working' = [working EXCEPT ![key[t]] = @ \ {t}]
         /\ protected' = IF protected[key[t]] = t THEN [protected EXCEPT ![key[t]] = None] ELSE protected
         /\ overlapped' = overlapped \ {t}
         /\ orphan' \in SUBSET Keys
<1>1. Lease!Exit(t, key[t]) /\ overlapped' = overlapped \ {t}
  BY DEF Release, ReleaseFails
<1>2. key[t] \in Keys
  BY DEF Leases
<1>3. orphan' \in SUBSET Keys
  BY <1>2 DEF Release, ReleaseFails, TypeOK
<1> QED BY <1>1, <1>2, <1>3 DEF Lease!Exit

LEMMA Freed ==
  ASSUME TypeOK, Leases, NEW t \in Threads, Inside(t), Release(t) \/ ReleaseFails(t)
  PROVE  /\ working' \in [Keys -> SUBSET Threads]
         /\ protected' \in [Keys -> Threads \union {None}]
         /\ overlapped' \in SUBSET Threads
         /\ orphan' \in SUBSET Keys
<1>1. working' = [working EXCEPT ![key[t]] = @ \ {t}] /\ key[t] \in Keys
  BY Released
<1>2. protected' = IF protected[key[t]] = t THEN [protected EXCEPT ![key[t]] = None] ELSE protected
  BY Released
<1>3. overlapped' = overlapped \ {t} /\ orphan' \in SUBSET Keys
  BY Released
<1> QED BY <1>1, <1>2, <1>3 DEF TypeOK

(* The leases after a thread has left its key *)
LEMMA Left ==
  ASSUME TypeOK, Leases, NEW t \in Threads, Inside(t), Release(t) \/ ReleaseFails(t),
         key' = [key EXCEPT ![t] = None], NEW place \in {"idle", "scopes", "catch", "replay"},
         place # "idle" => t \notin Passes, t \in Runs => place \notin {"replay", "catch"},
         at' = [at EXCEPT ![t] = place]
  PROVE  Leases'
<1>1. PICK k0 \in Keys : k0 = key[t]
  BY DEF Leases
<1>2. /\ t \in working[k0]
      /\ working' = [working EXCEPT ![k0] = @ \ {t}]
      /\ protected' = IF protected[k0] = t THEN [protected EXCEPT ![k0] = None] ELSE protected
      /\ overlapped' = overlapped \ {t}
  BY <1>1, Released
<1>3. \A k \in Keys : working'[k] = IF k = k0 THEN working[k] \ {t} ELSE working[k]
  BY <1>2 DEF TypeOK
<1>4. \A k \in Keys : protected'[k] = IF k = k0 /\ protected[k] = t THEN None ELSE protected[k]
  BY <1>2 DEF TypeOK
<1>5. \A x \in Threads : /\ key'[x] = IF x = t THEN None ELSE key[x]
                         /\ at'[x] = IF x = t THEN place ELSE at[x]
  BY DEF TypeOK
<1>6. /\ \A x \in Threads, k \in Keys : x \in working[k] <=> Inside(x) /\ key[x] = k
      /\ \A x \in Threads : Inside(x) => key[x] \in Keys
      /\ \A x \in Passes : at[x] = "write" => key[x] \in Keys
      /\ \A k \in Keys : protected[k] # None => protected[k] \in working[k]
      /\ \A k \in Keys : \A x \in working[k] \ overlapped : working[k] = {x} /\ protected[k] = x
  BY DEF Leases
<1>7. \A k \in Keys : t \in working[k] => k = k0
  BY <1>1, <1>6
<1>8. ~Inside(t)'
  BY <1>5 DEF Inside
<1>9. \A x \in Threads : x # t => (Inside(x)' <=> Inside(x))
  BY <1>5 DEF Inside
<1>10. \A x \in Threads, k \in Keys : x \in working'[k] <=> Inside(x)' /\ key'[x] = k
  <2> SUFFICES ASSUME NEW x \in Threads, NEW k \in Keys
               PROVE  x \in working'[k] <=> Inside(x)' /\ key'[x] = k
    OBVIOUS
  <2>1. CASE x = t
    <3>1. x \notin working'[k]
      BY <1>3, <1>7, <2>1
    <3> QED BY <1>8, <2>1, <3>1
  <2>2. CASE x # t
    <3>1. /\ x \in working'[k] <=> x \in working[k]
          /\ key'[x] = key[x]
          /\ Inside(x)' <=> Inside(x)
      BY <1>3, <1>5, <1>9, <2>2
    <3> QED BY <1>6, <3>1
  <2> QED BY <2>1, <2>2
<1>11. /\ \A x \in Threads : Inside(x)' => key'[x] \in Keys
       /\ \A x \in Passes : at'[x] = "write" => key'[x] \in Keys
  BY <1>5, <1>6, <1>8, <1>9, Parts
<1>12. \A k \in Keys : protected'[k] # None => protected'[k] \in working'[k]
  <2> SUFFICES ASSUME NEW k \in Keys, protected'[k] # None
               PROVE  protected'[k] \in working'[k]
    OBVIOUS
  <2>1. protected'[k] = protected[k] /\ protected[k] \in working[k]
    BY <1>4, <1>6
  <2>2. protected[k] # t \/ k # k0
    BY <1>4, <2>1
  <2>3. protected[k] # t
    BY <1>7, <2>1, <2>2
  <2> QED BY <1>3, <2>1, <2>3
<1>13. \A k \in Keys : \A x \in working'[k] \ overlapped' : working'[k] = {x} /\ protected'[k] = x
  <2> SUFFICES ASSUME NEW k \in Keys, NEW x \in working'[k] \ overlapped'
               PROVE  working'[k] = {x} /\ protected'[k] = x
    OBVIOUS
  <2>1. x \in working[k] /\ (k = k0 => x # t)
    BY <1>3
  <2>2. x # t
    BY <1>7, <2>1
  <2>3. x \notin overlapped
    BY <1>2, <2>2
  <2>4. working[k] = {x} /\ protected[k] = x
    BY <1>6, <2>1, <2>3
  <2>5. k # k0
    BY <1>2, <2>2, <2>4
  <2> QED BY <1>3, <1>4, <2>4, <2>5
<1> QED BY <1>10, <1>11, <1>12, <1>13 DEF Leases

(* The leases after a thread has acquired the lease of a key *)
LEMMA Entered ==
  ASSUME TypeOK, Leases, NEW t \in Threads, NEW k0 \in Keys, ~Inside(t), Acquire(t, k0),
         key' = [key EXCEPT ![t] = k0], NEW place \in {"core", "sweep"},
         at' = [at EXCEPT ![t] = place]
  PROVE  Leases'
<1>1. /\ protected[k0] = None
      /\ working' = [working EXCEPT ![k0] = @ \union {t}]
      /\ protected' = [protected EXCEPT ![k0] = t]
      /\ overlapped \subseteq overlapped' /\ overlapped' \subseteq overlapped \union {t}
      /\ working[k0] # {} => t \in overlapped'
  BY Acquired
<1>2. \A k \in Keys : working'[k] = IF k = k0 THEN working[k] \union {t} ELSE working[k]
  BY <1>1 DEF TypeOK
<1>3. \A k \in Keys : protected'[k] = IF k = k0 THEN t ELSE protected[k]
  BY <1>1 DEF TypeOK
<1>4. \A x \in Threads : /\ key'[x] = IF x = t THEN k0 ELSE key[x]
                         /\ at'[x] = IF x = t THEN place ELSE at[x]
  BY DEF TypeOK
<1>5. /\ \A x \in Threads, k \in Keys : x \in working[k] <=> Inside(x) /\ key[x] = k
      /\ \A x \in Threads : Inside(x) => key[x] \in Keys
      /\ \A x \in Passes : at[x] = "write" => key[x] \in Keys
      /\ \A k \in Keys : protected[k] # None => protected[k] \in working[k]
      /\ \A k \in Keys : \A x \in working[k] \ overlapped : working[k] = {x} /\ protected[k] = x
  BY DEF Leases
<1>6. \A k \in Keys : t \notin working[k]
  BY <1>5
<1>7. Inside(t)'
  BY <1>4 DEF Inside
<1>8. \A x \in Threads : x # t => (Inside(x)' <=> Inside(x))
  BY <1>4 DEF Inside
<1>9. \A x \in Threads, k \in Keys : x \in working'[k] <=> Inside(x)' /\ key'[x] = k
  <2> SUFFICES ASSUME NEW x \in Threads, NEW k \in Keys
               PROVE  x \in working'[k] <=> Inside(x)' /\ key'[x] = k
    OBVIOUS
  <2>1. CASE x = t
    BY <1>2, <1>4, <1>6, <1>7, <2>1
  <2>2. CASE x # t
    <3>1. /\ x \in working'[k] <=> x \in working[k]
          /\ key'[x] = key[x]
          /\ Inside(x)' <=> Inside(x)
      BY <1>2, <1>4, <1>8, <2>2
    <3> QED BY <1>5, <3>1
  <2> QED BY <2>1, <2>2
<1>10. /\ \A x \in Threads : Inside(x)' => key'[x] \in Keys
       /\ \A x \in Passes : at'[x] = "write" => key'[x] \in Keys
  BY <1>4, <1>5, <1>7, <1>8, Parts
<1>11. \A k \in Keys : protected'[k] # None => protected'[k] \in working'[k]
  <2> SUFFICES ASSUME NEW k \in Keys, protected'[k] # None
               PROVE  protected'[k] \in working'[k]
    OBVIOUS
  <2>1. CASE k = k0
    BY <1>2, <1>3, <2>1
  <2>2. CASE k # k0
    <3>1. protected'[k] = protected[k] /\ working'[k] = working[k]
      BY <1>2, <1>3, <2>2
    <3> QED BY <1>5, <3>1
  <2> QED BY <2>1, <2>2
<1>12. \A k \in Keys : \A x \in working'[k] \ overlapped' : working'[k] = {x} /\ protected'[k] = x
  <2> SUFFICES ASSUME NEW k \in Keys, NEW x \in working'[k] \ overlapped'
               PROVE  working'[k] = {x} /\ protected'[k] = x
    OBVIOUS
  <2>1. CASE x = t
    <3>1. k = k0
      BY <1>2, <1>6, <2>1
    <3> QED BY <1>1, <1>2, <1>3, <2>1, <3>1
  <2>2. CASE x # t
    <3>1. x \in working[k]
      BY <1>2, <2>2
    <3>2. x \notin overlapped
      BY <1>1
    <3>3. working[k] = {x} /\ protected[k] = x
      BY <1>5, <3>1, <3>2
    <3>4. x # None
      BY <3>1, Parts DEF TypeOK
    <3> QED BY <1>1, <1>2, <1>3, <3>3, <3>4
  <2> QED BY <2>1, <2>2
<1> QED BY <1>9, <1>10, <1>11, <1>12 DEF Leases

(* A thread moves while all leases stay as they are. *)
LEMMA Stays ==
  ASSUME TypeOK, Leases, UNCHANGED <<key, working, protected, overlapped>>,
         NEW t \in Threads, NEW place, at' = [at EXCEPT ![t] = place], place # "write",
         Inside(t)' <=> Inside(t)
  PROVE  Leases'
<1>1. \A x \in Threads : at'[x] = IF x = t THEN place ELSE at[x]
  BY DEF TypeOK
<1>2. \A x \in Threads : x # t => (Inside(x)' <=> Inside(x))
  BY <1>1 DEF Inside
<1>3. \A x \in Threads : Inside(x)' <=> Inside(x)
  BY <1>2
<1>4. \A x \in Passes : at'[x] = "write" => at[x] = "write"
  BY <1>1, Parts
<1> QED BY <1>3, <1>4 DEF Leases

LEMMA Moved ==
  ASSUME TypeOK, NEW t \in Runs, NEW c \in BOOLEAN, NextScope(t, c)
  PROVE  /\ \E place \in {"scopes", "idle"} :
              at' = [at EXCEPT ![t] = place] /\ (t \in Triggers => place = "scopes")
         /\ nth' \in [Triggers -> Nat]
         /\ anyRan' \in [Triggers -> BOOLEAN]
<1>1. CASE t \in Triggers
  <2>1. /\ at' = [at EXCEPT ![t] = "scopes"]
        /\ nth' = [nth EXCEPT ![t] = @ + 1]
        /\ anyRan' = [anyRan EXCEPT ![t] = @ \/ c]
    BY <1>1 DEF NextScope, Goto
  <2>2. nth' \in [Triggers -> Nat]
    BY <1>1, <2>1 DEF TypeOK
  <2>3. anyRan' \in [Triggers -> BOOLEAN]
    BY <1>1, <2>1, Zenon DEF TypeOK
  <2> QED BY <1>1, <2>1, <2>2, <2>3
<1>2. CASE t \notin Triggers
  BY <1>2 DEF NextScope, Goto, TypeOK
<1> QED BY <1>1, <1>2

LEMMA Goes ==
  ASSUME TypeOK, Stations, NEW t \in Threads, NEW place, at' = [at EXCEPT ![t] = place],
         t \in Runs => place \in RunPlaces,
         t = Boot => place \in BootPlaces,
         t \in Passes => place \in PassPlaces
  PROVE  Stations'
BY Parts DEF TypeOK, Stations

-----------------------------------------------------------------------------
(* Types *)
LEMMA TypeKept ==
  ASSUME TypeOK, Stations, Rows, Leases, Hands, TypeOK, [Next]_vars
  PROVE  TypeOK'
<1>1. CASE UNCHANGED <<book, at, key, entry, todo, pass, usage, lease>>
  BY <1>1 DEF TypeOK, Places, RunPlaces, BootPlaces, PassPlaces, book, pass, usage, lease
<1>2. ASSUME NEW s \in Passes, NEW e \in Entries, WriteEntry(s, e) PROVE TypeOK'
  BY <1>2, Parts DEF WriteEntry, LeavePass, Goto, TypeOK, Places, RunPlaces, BootPlaces,
     PassPlaces, book, pass, usage, lease
<1>3. ASSUME NEW s \in Passes, WriteFails(s) PROVE TypeOK'
  BY <1>3, Parts DEF WriteFails, LeavePass, Goto, Fault, TypeOK, Places, RunPlaces, BootPlaces,
     PassPlaces, book, pass, usage, lease
<1>4. ASSUME NEW s \in Passes, EndPass(s) PROVE TypeOK'
  <2>1. (Release(s) \/ ReleaseFails(s)) /\ Inside(s) /\ LeavePass(s)
    BY <1>4 DEF EndPass, Inside
  <2> QED BY <1>4, <2>1, Freed, Parts DEF EndPass, LeavePass, Goto, TypeOK, Places, book, pass, usage
<1>5. ASSUME NEW s \in Passes, NEW k \in Keys, StartPass(s, k) PROVE TypeOK'
  <2>1. CASE Taken(k)
    <3>1. at' = [at EXCEPT ![s] = "write"] /\ UNCHANGED lease
      BY <1>5, <2>1 DEF StartPass, Goto
    <3> QED BY <1>5, <3>1, Parts DEF StartPass, TypeOK, Places, book, pass, usage, lease
  <2>2. CASE ~Taken(k)
    <3>1. Acquire(s, k) /\ s \in Threads
      BY <1>5, <2>2, Parts DEF StartPass
    <3>2. at' = [at EXCEPT ![s] = "core"]
      BY <1>5, <2>2 DEF StartPass, Goto
    <3> QED BY <1>5, <3>1, <3>2, Acquired, Parts DEF StartPass, TypeOK, Places, book, pass, usage
  <2> QED BY <2>1, <2>2
<1>6. ASSUME StartProcess PROVE TypeOK'
  BY <1>6, Parts DEF StartProcess, Goto, TypeOK, Places, RunPlaces, BootPlaces, PassPlaces,
     book, pass, usage, lease
<1>7. ASSUME ListPending PROVE TypeOK'
  BY <1>7, Parts DEF ListPending, Goto, Fault, TypeOK, Places, RunPlaces, BootPlaces,
     PassPlaces, book, pass, usage, lease
<1>8. ASSUME NEW e \in Entries, BootSkips(e) PROVE TypeOK'
  BY <1>8, Parts DEF BootSkips, BootEntry, TypeOK, Places, RunPlaces, BootPlaces, PassPlaces,
     book, pass, usage, lease
<1>9. ASSUME NEW e \in Entries, BootTakes(e) PROVE TypeOK'
  BY <1>9, Parts DEF BootTakes, BootEntry, Goto, Acquire, Lease!Enter, TypeOK, Places,
     RunPlaces, BootPlaces, PassPlaces, book, pass, usage, lease
<1>10. ASSUME NEW e \in Entries, BootAcquireFails(e) PROVE TypeOK'
  <2>1. owner[e] \in Keys
    BY <1>10, Parts DEF BootAcquireFails, BootEntry, Hands, Rows, TypeOK
  <2>2. orphan' \in SUBSET Keys /\ UNCHANGED <<working, protected, overlapped>>
    BY <1>10, <2>1 DEF BootAcquireFails, AcquireFails, TypeOK
  <2> QED BY <1>10, <2>2, Parts DEF BootAcquireFails, BootEntry, Goto, TypeOK, Places, book, pass, usage
<1>11. ASSUME NEW t \in Runs \union {Boot}, CoreReturns(t) PROVE TypeOK'
  BY <1>11, Parts DEF CoreReturns, Goto, TypeOK, Places, RunPlaces, BootPlaces, PassPlaces,
     book, pass, usage, lease
<1>12. ASSUME BootReplayed PROVE TypeOK'
  BY <1>12, Parts DEF BootReplayed, Goto, TypeOK, Places, RunPlaces, BootPlaces, PassPlaces,
     book, pass, usage, lease
<1>13. ASSUME BootDone PROVE TypeOK'
  BY <1>13, Parts DEF BootDone, Goto, Release, Lease!Exit, TypeOK, Places, RunPlaces,
     BootPlaces, PassPlaces, book, pass, usage, lease
<1>14. ASSUME BootThrows PROVE TypeOK'
  <2>1. (Release(Boot) \/ ReleaseFails(Boot)) /\ Inside(Boot)
    BY <1>14 DEF BootThrows, Inside
  <2> QED BY <1>14, <2>1, Freed, Parts DEF BootThrows, Goto, TypeOK, Places, book, pass, usage
<1>15. ASSUME BootFailed PROVE TypeOK'
  BY <1>15, Parts DEF BootFailed, Goto, Fault, TypeOK, Places, RunPlaces, BootPlaces,
     PassPlaces, book, pass, usage, lease
<1>16. ASSUME SkipCatchup PROVE TypeOK'
  BY <1>16, Parts DEF SkipCatchup, Goto, Idle, TypeOK, Places, RunPlaces, BootPlaces,
     PassPlaces, book, pass, usage, lease
<1>17. ASSUME NEW t \in Triggers, BeginPass(t) PROVE TypeOK'
  BY <1>17, Parts DEF BeginPass, Idle, Serving, TypeOK, Places, RunPlaces, BootPlaces,
     PassPlaces, book, pass, usage, lease
<1>18. ASSUME NEW t \in Triggers, GetEligibleUsers(t) PROVE TypeOK'
  BY <1>18, Parts DEF GetEligibleUsers, Goto, TypeOK, Places, RunPlaces, BootPlaces, PassPlaces,
     book, pass, usage, lease
<1>19. ASSUME NEW t \in Triggers, NEW u \in Users, RunForUser(t, u) PROVE TypeOK'
  BY <1>19, Parts DEF RunForUser, Goto, TypeOK, Places, RunPlaces, BootPlaces, PassPlaces, book,
     pass, usage, lease
<1>20. ASSUME NEW t \in Triggers, StampRun(t) PROVE TypeOK'
  BY <1>20, Parts DEF StampRun, Goto, TypeOK, Places, RunPlaces, BootPlaces, PassPlaces, book,
     pass, usage, lease
<1>21. ASSUME NEW t \in Triggers, NoScopeRan(t) PROVE TypeOK'
  BY <1>21, Parts DEF NoScopeRan, Goto, TypeOK, Places, RunPlaces, BootPlaces, PassPlaces, book,
     pass, usage, lease
<1>22. ASSUME NEW t \in Triggers, AllUsersDone(t) PROVE TypeOK'
  BY <1>22, Parts DEF AllUsersDone, EndPassOf, Goto, TypeOK, Places, RunPlaces, BootPlaces,
     PassPlaces, book, pass, usage, lease
<1>23. ASSUME NEW t \in Triggers, PassThrows(t) PROVE TypeOK'
  BY <1>23, Parts DEF PassThrows, EndPassOf, Goto, Fault, TypeOK, Places, RunPlaces, BootPlaces,
     PassPlaces, book, pass, usage, lease
<1>24. ASSUME NEW t \in Runs, NEW k \in Keys, StartRun(t, k) PROVE TypeOK'
  BY <1>24, Parts DEF StartRun, MayRun, Acquire, Lease!Enter, Goto, TypeOK, Places, RunPlaces,
     BootPlaces, PassPlaces, book, pass, usage, lease
<1>25. ASSUME NEW t \in Triggers, NEW k \in Keys, SkipRun(t, k) PROVE TypeOK'
  <2>1. NextScope(t, FALSE) /\ t \in Runs
    BY <1>25, Parts DEF SkipRun
  <2>2. PICK place \in {"scopes", "idle"} : at' = [at EXCEPT ![t] = place]
    BY <2>1, Moved
  <2>3. nth' \in [Triggers -> Nat] /\ anyRan' \in [Triggers -> BOOLEAN] /\ place \in Places
    BY <2>1, Moved DEF Places
  <2> QED BY <1>25, <2>2, <2>3, Parts DEF SkipRun, TypeOK, book, usage, lease
<1>26. ASSUME NEW t \in Triggers, NEW k \in Keys, RunAcquireFails(t, k) PROVE TypeOK'
  <2>1. NextScope(t, FALSE) /\ t \in Runs
    BY <1>26, Parts DEF RunAcquireFails
  <2>2. orphan' \in SUBSET Keys /\ UNCHANGED <<working, protected, overlapped>>
    BY <1>26 DEF RunAcquireFails, AcquireFails, TypeOK
  <2>3. PICK place \in {"scopes", "idle"} : at' = [at EXCEPT ![t] = place]
    BY <2>1, Moved
  <2>4. nth' \in [Triggers -> Nat] /\ anyRan' \in [Triggers -> BOOLEAN] /\ place \in Places
    BY <2>1, Moved DEF Places
  <2> QED BY <1>26, <2>2, <2>3, <2>4, Parts DEF RunAcquireFails, TypeOK, book, usage
<1>27. ASSUME NEW t \in Runs, ListBacklog(t) PROVE TypeOK'
  BY <1>27, Parts DEF ListBacklog, Goto, Pending, TypeOK, Places, RunPlaces, BootPlaces,
     PassPlaces, book, pass, usage, lease
<1>28. ASSUME NEW t \in Runs, NEW e \in Entries, TakeEntry(t, e) PROVE TypeOK'
  BY <1>28, Parts DEF TakeEntry, Goto, TypeOK, Places, RunPlaces, BootPlaces, PassPlaces, book,
     pass, usage, lease
<1>29. ASSUME NEW t \in Runs, MarkReplayed(t) PROVE TypeOK'
  BY <1>29, Parts DEF MarkReplayed, Goto, TypeOK, Places, RunPlaces, BootPlaces, PassPlaces,
     book, pass, usage, lease
<1>30. ASSUME NEW t \in Runs, CoreThrows(t) PROVE TypeOK'
  BY <1>30, Parts DEF CoreThrows, Goto, Fault, TypeOK, Places, RunPlaces, BootPlaces,
     PassPlaces, book, pass, usage, lease
<1>31. ASSUME NEW t \in Runs, MarkFailed(t) PROVE TypeOK'
  BY <1>31, Parts DEF MarkFailed, Goto, TypeOK, Places, RunPlaces, BootPlaces, PassPlaces, book,
     pass, usage, lease
<1>32. ASSUME NEW t \in Runs, CompleteRun(t) PROVE TypeOK'
  <2>1. (Release(t) \/ ReleaseFails(t)) /\ LeaveRun(t, TRUE) /\ Inside(t) /\ t \in Threads
    BY <1>32, Parts DEF CompleteRun, Inside
  <2>2. NextScope(t, TRUE)
    BY <2>1 DEF LeaveRun
  <2>3. PICK place \in {"scopes", "idle"} : at' = [at EXCEPT ![t] = place]
    BY <2>2, Moved
  <2>4. nth' \in [Triggers -> Nat] /\ anyRan' \in [Triggers -> BOOLEAN] /\ place \in Places
    BY <2>2, Moved DEF Places
  <2> QED BY <2>1, <2>3, <2>4, Freed, Parts DEF LeaveRun, TypeOK, book, usage
<1>33. ASSUME NEW t \in Runs, RunThrows(t) PROVE TypeOK'
  <2>1. (Release(t) \/ ReleaseFails(t)) /\ LeaveRun(t, FALSE) /\ Inside(t) /\ t \in Threads
    BY <1>33, Parts DEF RunThrows, Inside
  <2>2. NextScope(t, FALSE)
    BY <2>1 DEF LeaveRun
  <2>3. PICK place \in {"scopes", "idle"} : at' = [at EXCEPT ![t] = place]
    BY <2>2, Moved
  <2>4. nth' \in [Triggers -> Nat] /\ anyRan' \in [Triggers -> BOOLEAN] /\ place \in Places
    BY <2>2, Moved DEF Places
  <2> QED BY <2>1, <2>3, <2>4, Freed, Parts DEF LeaveRun, TypeOK, book, usage
<1>34. ASSUME NEW k \in Keys, Lapse(k) PROVE TypeOK'
  BY <1>34, Parts DEF Lapse, Lease!Lapse, Fault, TypeOK, Places, RunPlaces, BootPlaces,
     PassPlaces, book, pass, usage, lease
<1>35. ASSUME NEW k \in Keys, ExpireOrphan(k) PROVE TypeOK'
  BY <1>35, Parts DEF ExpireOrphan, TypeOK, Places, RunPlaces, BootPlaces, PassPlaces, book,
     pass, usage, lease
<1>36. ASSUME NEW u \in Users, Rest(u) PROVE TypeOK'
  BY <1>36, Parts DEF Rest, TypeOK, Places, RunPlaces, BootPlaces, PassPlaces, book, pass,
     usage, lease
<1>37. ASSUME NEW u \in Users, CaptureSession(u) PROVE TypeOK'
  BY <1>37, Parts DEF CaptureSession, TypeOK, Places, RunPlaces, BootPlaces, PassPlaces, book,
     pass, usage, lease
<1>38. ASSUME Crash PROVE TypeOK'
  BY <1>38, Parts DEF Crash, Serving, Fault, TypeOK, Places, RunPlaces, BootPlaces, PassPlaces,
     book, pass, usage, lease
<1>39. ASSUME NEW t \in Passes \union Forced, NEW k \in Keys, StartFails(t, k) PROVE TypeOK'
  BY <1>39 DEF StartFails, AcquireFails, TypeOK, book, pass, usage
<1>40. ASSUME UNCHANGED vars PROVE UNCHANGED <<book, at, key, entry, todo, pass, usage, lease>>
  BY <1>40 DEF book, pass, usage, lease, vars
<1> QED BY Steps, <1>1, <1>2, <1>3, <1>4, <1>5, <1>6, <1>7, <1>8, <1>9, <1>10, <1>11, <1>12,
   <1>13, <1>14, <1>15, <1>16, <1>17, <1>18, <1>19, <1>20, <1>21, <1>22, <1>23, <1>24, <1>25,
   <1>26, <1>27, <1>28, <1>29, <1>30, <1>31, <1>32, <1>33, <1>34, <1>35, <1>36, <1>37, <1>38,
   <1>39, <1>40

(* A thread stays on the stations of its kind. *)
LEMMA StationsKept ==
  ASSUME TypeOK, Stations, [Next]_vars
  PROVE  Stations'
<1>1. CASE UNCHANGED at
  BY <1>1 DEF Stations, Places, RunPlaces, BootPlaces, PassPlaces, book, pass, usage, lease
<1>2. ASSUME NEW s \in Passes, NEW e \in Entries, WriteEntry(s, e) PROVE Stations'
  BY <1>2, Parts DEF WriteEntry, LeavePass, Goto, Stations, Places, RunPlaces, BootPlaces,
     PassPlaces, TypeOK, book, pass, usage, lease
<1>3. ASSUME NEW s \in Passes, WriteFails(s) PROVE Stations'
  BY <1>3, Parts DEF WriteFails, LeavePass, Goto, Fault, Stations, Places, RunPlaces,
     BootPlaces, PassPlaces, TypeOK, book, pass, usage, lease
<1>4. ASSUME NEW s \in Passes, EndPass(s) PROVE Stations'
  BY <1>4, Parts DEF EndPass, LeavePass, Goto, Release, ReleaseFails, Fault, Lease!Exit,
     Stations, Places, RunPlaces, BootPlaces, PassPlaces, TypeOK, book, pass, usage, lease
<1>5. ASSUME NEW s \in Passes, NEW k \in Keys, StartPass(s, k) PROVE Stations'
  <2>1. \E place \in {"write", "core"} : at' = [at EXCEPT ![s] = place]
    BY <1>5 DEF StartPass, Goto
  <2> QED BY <2>1, Goes, Parts DEF PassPlaces
<1>6. ASSUME StartProcess PROVE Stations'
  BY <1>6, Parts DEF StartProcess, Goto, Stations, Places, RunPlaces, BootPlaces, PassPlaces,
     TypeOK, book, pass, usage, lease
<1>7. ASSUME ListPending PROVE Stations'
  BY <1>7, Parts DEF ListPending, Goto, Fault, Stations, Places, RunPlaces, BootPlaces,
     PassPlaces, TypeOK, book, pass, usage, lease
<1>8. ASSUME NEW e \in Entries, BootTakes(e) PROVE Stations'
  BY <1>8, Parts DEF BootTakes, BootEntry, Goto, Acquire, Lease!Enter, Stations, Places,
     RunPlaces, BootPlaces, PassPlaces, TypeOK, book, pass, usage, lease
<1>9. ASSUME NEW e \in Entries, BootAcquireFails(e) PROVE Stations'
  BY <1>9, Parts DEF BootAcquireFails, BootEntry, Goto, AcquireFails, Fault, Stations, Places,
     RunPlaces, BootPlaces, PassPlaces, TypeOK, book, pass, usage, lease
<1>10. ASSUME NEW t \in Runs \union {Boot}, CoreReturns(t) PROVE Stations'
  BY <1>10, Parts DEF CoreReturns, Goto, Stations, Places, RunPlaces, BootPlaces, PassPlaces,
     TypeOK, book, pass, usage, lease
<1>11. ASSUME BootReplayed PROVE Stations'
  BY <1>11, Parts DEF BootReplayed, Goto, Stations, Places, RunPlaces, BootPlaces, PassPlaces,
     TypeOK, book, pass, usage, lease
<1>12. ASSUME BootDone PROVE Stations'
  BY <1>12, Parts DEF BootDone, Goto, Release, Lease!Exit, Stations, Places, RunPlaces,
     BootPlaces, PassPlaces, TypeOK, book, pass, usage, lease
<1>13. ASSUME BootThrows PROVE Stations'
  BY <1>13, Parts DEF BootThrows, Goto, Release, ReleaseFails, Lease!Exit, Fault, Stations,
     Places, RunPlaces, BootPlaces, PassPlaces, TypeOK, book, pass, usage, lease
<1>14. ASSUME BootFailed PROVE Stations'
  BY <1>14, Parts DEF BootFailed, Goto, Fault, Stations, Places, RunPlaces, BootPlaces,
     PassPlaces, TypeOK, book, pass, usage, lease
<1>15. ASSUME SkipCatchup PROVE Stations'
  BY <1>15, Parts DEF SkipCatchup, Goto, Idle, Stations, Places, RunPlaces, BootPlaces,
     PassPlaces, TypeOK, book, pass, usage, lease
<1>16. ASSUME NEW t \in Triggers, BeginPass(t) PROVE Stations'
  <2>1. at'[t] = "query" /\ t # Boot
    BY <1>16, Parts DEF BeginPass, TypeOK
  <2>2. \A x \in Threads : x # t /\ x # Boot => at'[x] = at[x]
    BY <1>16, Parts DEF BeginPass, TypeOK
  <2>3. at'[Boot] \in {"up", at[Boot]}
    BY <1>16, Parts DEF BeginPass, TypeOK
  <2> QED BY <2>1, <2>2, <2>3, Parts DEF Stations, Places, RunPlaces, BootPlaces, PassPlaces
<1>17. ASSUME NEW t \in Triggers, GetEligibleUsers(t) PROVE Stations'
  BY <1>17, Parts DEF GetEligibleUsers, Goto, Stations, Places, RunPlaces, BootPlaces,
     PassPlaces, TypeOK, book, pass, usage, lease
<1>18. ASSUME NEW t \in Triggers, NEW u \in Users, RunForUser(t, u) PROVE Stations'
  BY <1>18, Parts DEF RunForUser, Goto, Stations, Places, RunPlaces, BootPlaces, PassPlaces,
     TypeOK, book, pass, usage, lease
<1>19. ASSUME NEW t \in Triggers, StampRun(t) PROVE Stations'
  BY <1>19, Parts DEF StampRun, Goto, Stations, Places, RunPlaces, BootPlaces, PassPlaces,
     TypeOK, book, pass, usage, lease
<1>20. ASSUME NEW t \in Triggers, NoScopeRan(t) PROVE Stations'
  BY <1>20, Parts DEF NoScopeRan, Goto, Stations, Places, RunPlaces, BootPlaces, PassPlaces,
     TypeOK, book, pass, usage, lease
<1>21. ASSUME NEW t \in Triggers, AllUsersDone(t) PROVE Stations'
  BY <1>21, Parts DEF AllUsersDone, EndPassOf, Goto, Stations, Places, RunPlaces, BootPlaces,
     PassPlaces, TypeOK, book, pass, usage, lease
<1>22. ASSUME NEW t \in Triggers, PassThrows(t) PROVE Stations'
  BY <1>22, Parts DEF PassThrows, EndPassOf, Goto, Fault, Stations, Places, RunPlaces,
     BootPlaces, PassPlaces, TypeOK, book, pass, usage, lease
<1>23. ASSUME NEW t \in Runs, NEW k \in Keys, StartRun(t, k) PROVE Stations'
  BY <1>23, Parts DEF StartRun, MayRun, Acquire, Lease!Enter, Goto, Stations, Places, RunPlaces,
     BootPlaces, PassPlaces, TypeOK, book, pass, usage, lease
<1>24. ASSUME NEW t \in Triggers, NEW k \in Keys, SkipRun(t, k) PROVE Stations'
  <2>1. NextScope(t, FALSE) /\ t \in Runs
    BY <1>24, Parts DEF SkipRun, LeaveRun
  <2> QED BY <2>1, Moved, Goes, Parts DEF RunPlaces
<1>25. ASSUME NEW t \in Triggers, NEW k \in Keys, RunAcquireFails(t, k) PROVE Stations'
  <2>1. NextScope(t, FALSE) /\ t \in Runs
    BY <1>25, Parts DEF RunAcquireFails, LeaveRun
  <2> QED BY <2>1, Moved, Goes, Parts DEF RunPlaces
<1>26. ASSUME NEW t \in Runs, ListBacklog(t) PROVE Stations'
  BY <1>26, Parts DEF ListBacklog, Goto, Pending, Stations, Places, RunPlaces, BootPlaces,
     PassPlaces, TypeOK, book, pass, usage, lease
<1>27. ASSUME NEW t \in Runs, NEW e \in Entries, TakeEntry(t, e) PROVE Stations'
  BY <1>27, Parts DEF TakeEntry, Goto, Stations, Places, RunPlaces, BootPlaces, PassPlaces,
     TypeOK, book, pass, usage, lease
<1>28. ASSUME NEW t \in Runs, MarkReplayed(t) PROVE Stations'
  BY <1>28, Parts DEF MarkReplayed, Goto, Stations, Places, RunPlaces, BootPlaces, PassPlaces,
     TypeOK, book, pass, usage, lease
<1>29. ASSUME NEW t \in Runs, CoreThrows(t) PROVE Stations'
  BY <1>29, Parts DEF CoreThrows, Goto, Fault, Stations, Places, RunPlaces, BootPlaces,
     PassPlaces, TypeOK, book, pass, usage, lease
<1>30. ASSUME NEW t \in Runs, MarkFailed(t) PROVE Stations'
  BY <1>30, Parts DEF MarkFailed, Goto, Stations, Places, RunPlaces, BootPlaces, PassPlaces,
     TypeOK, book, pass, usage, lease
<1>31. ASSUME NEW t \in Runs, CompleteRun(t) PROVE Stations'
  <2>1. NextScope(t, TRUE) /\ t \in Runs
    BY <1>31, Parts DEF CompleteRun, LeaveRun
  <2> QED BY <2>1, Moved, Goes, Parts DEF RunPlaces
<1>32. ASSUME NEW t \in Runs, RunThrows(t) PROVE Stations'
  <2>1. NextScope(t, FALSE) /\ t \in Runs
    BY <1>32, Parts DEF RunThrows, LeaveRun
  <2> QED BY <2>1, Moved, Goes, Parts DEF RunPlaces
<1>33. ASSUME Crash PROVE Stations'
  BY <1>33, Parts DEF Crash, Serving, Fault, Stations, Places, RunPlaces, BootPlaces,
     PassPlaces, TypeOK, book, pass, usage, lease
<1>34. ASSUME \/ \E e \in Entries : BootSkips(e)
              \/ \E k \in Keys : Lapse(k)
              \/ \E k \in Keys : ExpireOrphan(k)
              \/ \E t \in Passes \union Forced, k \in Keys : StartFails(t, k)
              \/ \E u \in Users : Rest(u)
              \/ \E u \in Users : CaptureSession(u)
              \/ UNCHANGED vars
     PROVE UNCHANGED at
  BY <1>34 DEF BootSkips, Lapse, ExpireOrphan, StartFails, AcquireFails, Rest, CaptureSession,
     BootEntry, Fault,
     Lease!Lapse, book, pass, usage, lease, vars
<1> QED BY Steps, <1>1, <1>2, <1>3, <1>4, <1>5, <1>6, <1>7, <1>8, <1>9, <1>10, <1>11, <1>12,
   <1>13, <1>14, <1>15, <1>16, <1>17, <1>18, <1>19, <1>20, <1>21, <1>22, <1>23, <1>24, <1>25,
   <1>26, <1>27, <1>28, <1>29, <1>30, <1>31, <1>32, <1>33, <1>34

(* A row of the backlog has an owner. *)
LEMMA RowsKept ==
  ASSUME TypeOK, Stations, Leases, Hands, Rows, [Next]_vars
  PROVE  Rows'
<1>1. CASE UNCHANGED book
  BY <1>1 DEF Rows, Hands, Leases, Inside, Stations, book, pass, usage, lease
<1>2. ASSUME NEW s \in Passes, NEW e \in Entries, WriteEntry(s, e) PROVE Rows'
  BY <1>2, Parts DEF WriteEntry, LeavePass, Goto, Rows, Hands, Leases, Inside, Stations, TypeOK,
     book, pass, usage, lease
<1>3. ASSUME BootReplayed PROVE Rows'
  BY <1>3, Parts DEF BootReplayed, Goto, Rows, Hands, Leases, Inside, Stations, TypeOK, book,
     pass, usage, lease
<1>4. ASSUME BootFailed PROVE Rows'
  BY <1>4, Parts DEF BootFailed, Goto, Fault, Rows, Hands, Leases, Inside, Stations, TypeOK,
     book, pass, usage, lease
<1>5. ASSUME NEW t \in Runs, MarkReplayed(t) PROVE Rows'
  BY <1>5, Parts DEF MarkReplayed, Goto, Rows, Hands, Leases, Inside, Stations, TypeOK, book,
     pass, usage, lease
<1>6. ASSUME NEW t \in Runs, MarkFailed(t) PROVE Rows'
  BY <1>6, Parts DEF MarkFailed, Goto, Rows, Hands, Leases, Inside, Stations, TypeOK, book,
     pass, usage, lease
<1>7. ASSUME \/ \E s \in Passes : WriteFails(s)
             \/ \E s \in Passes : EndPass(s)
             \/ \E s \in Passes, k \in Keys : StartPass(s, k)
             \/ StartProcess
             \/ ListPending
             \/ \E e \in Entries : BootSkips(e)
             \/ \E e \in Entries : BootTakes(e)
             \/ \E e \in Entries : BootAcquireFails(e)
             \/ \E t \in Runs \union {Boot} : CoreReturns(t)
             \/ BootDone
             \/ BootThrows
             \/ SkipCatchup
             \/ \E t \in Triggers : BeginPass(t)
             \/ \E t \in Triggers : GetEligibleUsers(t)
             \/ \E t \in Triggers, u \in Users : RunForUser(t, u)
             \/ \E t \in Triggers : StampRun(t)
             \/ \E t \in Triggers : NoScopeRan(t)
             \/ \E t \in Triggers : AllUsersDone(t)
             \/ \E t \in Triggers : PassThrows(t)
             \/ \E t \in Runs, k \in Keys : StartRun(t, k)
             \/ \E t \in Triggers, k \in Keys : SkipRun(t, k)
             \/ \E t \in Triggers, k \in Keys : RunAcquireFails(t, k)
             \/ \E t \in Runs : ListBacklog(t)
             \/ \E t \in Runs, e \in Entries : TakeEntry(t, e)
             \/ \E t \in Runs : CoreThrows(t)
             \/ \E t \in Runs : CompleteRun(t)
             \/ \E t \in Runs : RunThrows(t)
             \/ \E k \in Keys : Lapse(k)
             \/ \E k \in Keys : ExpireOrphan(k)
             \/ \E t \in Passes \union Forced, k \in Keys : StartFails(t, k)
             \/ \E u \in Users : Rest(u)
             \/ \E u \in Users : CaptureSession(u)
             \/ Crash
             \/ UNCHANGED vars
     PROVE UNCHANGED book
  BY <1>7 DEF WriteFails, EndPass, StartPass, StartProcess, ListPending, BootSkips, BootTakes,
     BootAcquireFails, CoreReturns, BootDone, BootThrows, SkipCatchup, BeginPass,
     GetEligibleUsers, RunForUser, StampRun, NoScopeRan, AllUsersDone, PassThrows, StartRun,
     SkipRun, RunAcquireFails, ListBacklog, TakeEntry, CoreThrows, CompleteRun, RunThrows,
     Lapse, ExpireOrphan, StartFails, Rest, CaptureSession, Crash, Acquire, AcquireFails, BootEntry,
     EndPassOf, Fault, Goto, Idle, Lease!Enter, Lease!Exit, Lease!Lapse, LeavePass, LeaveRun,
     MayRun, NextScope, Pending, Release, ReleaseFails, Serving, Taken, book, pass, usage,
     lease, vars
<1> QED BY Steps, <1>1, <1>2, <1>3, <1>4, <1>5, <1>6, <1>7

(* Leases *)
LEMMA LeasesKept ==
  ASSUME TypeOK, Stations, Rows, Hands, Leases, [Next]_vars
  PROVE  Leases'
<1>1. CASE UNCHANGED <<at, key, working, protected, overlapped>>
  BY <1>1 DEF Leases, Inside, Stations, Places, RunPlaces, BootPlaces, PassPlaces, book, pass,
     usage, lease
<1>2. ASSUME NEW s \in Passes, NEW e \in Entries, WriteEntry(s, e) PROVE Leases'
  BY <1>2, Parts DEF WriteEntry, LeavePass, Goto, Leases, Inside, Stations, Places, RunPlaces,
     BootPlaces, PassPlaces, TypeOK, book, pass, usage, lease
<1>3. ASSUME NEW s \in Passes, WriteFails(s) PROVE Leases'
  BY <1>3, Parts DEF WriteFails, LeavePass, Goto, Fault, Leases, Inside, Stations, Places,
     RunPlaces, BootPlaces, PassPlaces, TypeOK, book, pass, usage, lease
<1>4. ASSUME NEW s \in Passes, EndPass(s) PROVE Leases'
  <2>1. at' = [at EXCEPT ![s] = "idle"] /\ key' = [key EXCEPT ![s] = None] /\ at[s] = "core"
          /\ (Release(s) \/ ReleaseFails(s))
    BY <1>4 DEF EndPass, LeavePass, Goto
  <2> QED BY <2>1, Left, Parts DEF Inside, TypeOK
<1>5. ASSUME NEW s \in Passes, NEW k \in Keys, StartPass(s, k) PROVE Leases'
  <2>1. CASE Taken(k)
    <3>1. /\ at' = [at EXCEPT ![s] = "write"] /\ key' = [key EXCEPT ![s] = k] /\ at[s] = "idle"
          /\ UNCHANGED <<working, protected, overlapped>>
      BY <1>5, <2>1 DEF StartPass, Goto, lease
    <3>2. \A x \in Threads : ~Inside(s) /\ ~Inside(s)' /\ (x # s => (Inside(x)' <=> Inside(x)))
      BY <3>1, Parts DEF Inside, TypeOK
    <3>3. \A x \in Threads : key'[x] = IF x = s THEN k ELSE key[x]
      BY <3>1 DEF TypeOK
    <3>4. \A x \in Threads : x # s => at'[x] = at[x]
      BY <3>1 DEF TypeOK
    <3> QED BY <3>1, <3>2, <3>3, <3>4, Parts DEF Leases
  <2>2. CASE ~Taken(k)
    <3>1. Acquire(s, k) /\ s \in Threads /\ at[s] = "idle"
      BY <1>5, <2>2, Parts DEF StartPass
    <3>2. at' = [at EXCEPT ![s] = "core"] /\ key' = [key EXCEPT ![s] = k]
      BY <1>5, <2>2 DEF StartPass, Goto
    <3> QED BY <3>1, <3>2, Entered, Parts DEF Inside, TypeOK
  <2> QED BY <2>1, <2>2
<1>6. ASSUME StartProcess PROVE Leases'
  BY <1>6, Parts DEF StartProcess, Goto, Leases, Inside, Stations, Places, RunPlaces,
     BootPlaces, PassPlaces, TypeOK, book, pass, usage, lease
<1>7. ASSUME ListPending PROVE Leases'
  <2>1. at' = [at EXCEPT ![Boot] = "replay"] /\ UNCHANGED <<key, working, protected, overlapped>>
    BY <1>7 DEF ListPending, Goto, lease
  <2>2. at[Boot] \notin {"sweep", "core", "mark", "release"} /\ Boot \notin Runs
    BY <1>7, Parts DEF ListPending, BootEntry
  <2>3. ~Inside(Boot) /\ ~Inside(Boot)'
    BY <2>1, <2>2, Parts DEF Inside, TypeOK
  <2> QED BY <2>1, <2>3, Stays, Parts
<1>8. ASSUME NEW e \in Entries, BootTakes(e) PROVE Leases'
  <2>1. owner[e] \in Keys
    BY <1>8, Parts DEF BootTakes, BootEntry, Hands, Rows, TypeOK
  <2>2. Acquire(Boot, owner[e]) /\ at[Boot] = "replay"
    BY <1>8 DEF BootTakes, BootEntry
  <2>3. at' = [at EXCEPT ![Boot] = "core"] /\ key' = [key EXCEPT ![Boot] = owner[e]]
    BY <1>8 DEF BootTakes, Goto
  <2> QED BY <2>1, <2>2, <2>3, Entered, Parts DEF Inside, TypeOK
<1>9. ASSUME NEW e \in Entries, BootAcquireFails(e) PROVE Leases'
  <2>1. at' = [at EXCEPT ![Boot] = "catch"] /\ UNCHANGED <<key, working, protected, overlapped>>
    BY <1>9 DEF BootAcquireFails, Goto, lease, AcquireFails
  <2>2. at[Boot] \notin {"sweep", "core", "mark", "release"} /\ Boot \notin Runs
    BY <1>9, Parts DEF BootAcquireFails, BootEntry
  <2>3. ~Inside(Boot) /\ ~Inside(Boot)'
    BY <2>1, <2>2, Parts DEF Inside, TypeOK
  <2> QED BY <2>1, <2>3, Stays, Parts
<1>10. ASSUME NEW t \in Runs \union {Boot}, CoreReturns(t) PROVE Leases'
  BY <1>10, Parts DEF CoreReturns, Goto, Leases, Inside, Stations, Places, RunPlaces,
     BootPlaces, PassPlaces, TypeOK, book, pass, usage, lease
<1>11. ASSUME BootReplayed PROVE Leases'
  BY <1>11, Parts DEF BootReplayed, Goto, Leases, Inside, Stations, Places, RunPlaces,
     BootPlaces, PassPlaces, TypeOK, book, pass, usage, lease
<1>12. ASSUME BootDone PROVE Leases'
  <2>1. at' = [at EXCEPT ![Boot] = "replay"] /\ key' = [key EXCEPT ![Boot] = None] /\ Release(Boot) /\ at[Boot] = "release"
    BY <1>12 DEF BootDone, Goto
  <2> QED BY <2>1, Left, Parts DEF Inside, TypeOK
<1>13. ASSUME BootThrows PROVE Leases'
  <2>1. (Release(Boot) \/ ReleaseFails(Boot)) /\ Inside(Boot)
    BY <1>13 DEF BootThrows, Inside
  <2>2. at' = [at EXCEPT ![Boot] = "catch"] /\ key' = [key EXCEPT ![Boot] = None]
    BY <1>13 DEF BootThrows, Goto
  <2> QED BY <2>1, <2>2, Left, Parts DEF Inside, TypeOK
<1>14. ASSUME BootFailed PROVE Leases'
  <2>1. at' = [at EXCEPT ![Boot] = "replay"] /\ UNCHANGED <<key, working, protected, overlapped>>
    BY <1>14 DEF BootFailed, Goto, lease
  <2>2. at[Boot] \notin {"sweep", "core", "mark", "release"} /\ Boot \notin Runs
    BY <1>14, Parts DEF BootFailed, BootEntry
  <2>3. ~Inside(Boot) /\ ~Inside(Boot)'
    BY <2>1, <2>2, Parts DEF Inside, TypeOK
  <2> QED BY <2>1, <2>3, Stays, Parts
<1>15. ASSUME SkipCatchup PROVE Leases'
  BY <1>15, Parts DEF SkipCatchup, Goto, Idle, Leases, Inside, Stations, Places, RunPlaces,
     BootPlaces, PassPlaces, TypeOK, book, pass, usage, lease
<1>16. ASSUME NEW t \in Triggers, BeginPass(t) PROVE Leases'
  BY <1>16, Parts DEF BeginPass, Idle, Serving, Leases, Inside, Stations, Places, RunPlaces,
     BootPlaces, PassPlaces, TypeOK, book, pass, usage, lease
<1>17. ASSUME NEW t \in Triggers, GetEligibleUsers(t) PROVE Leases'
  BY <1>17, Parts DEF GetEligibleUsers, Goto, Leases, Inside, Stations, Places, RunPlaces,
     BootPlaces, PassPlaces, TypeOK, book, pass, usage, lease
<1>18. ASSUME NEW t \in Triggers, NEW u \in Users, RunForUser(t, u) PROVE Leases'
  BY <1>18, Parts DEF RunForUser, Goto, Leases, Inside, Stations, Places, RunPlaces, BootPlaces,
     PassPlaces, TypeOK, book, pass, usage, lease
<1>19. ASSUME NEW t \in Triggers, StampRun(t) PROVE Leases'
  BY <1>19, Parts DEF StampRun, Goto, Leases, Inside, Stations, Places, RunPlaces, BootPlaces,
     PassPlaces, TypeOK, book, pass, usage, lease
<1>20. ASSUME NEW t \in Triggers, NoScopeRan(t) PROVE Leases'
  BY <1>20, Parts DEF NoScopeRan, Goto, Leases, Inside, Stations, Places, RunPlaces, BootPlaces,
     PassPlaces, TypeOK, book, pass, usage, lease
<1>21. ASSUME NEW t \in Triggers, AllUsersDone(t) PROVE Leases'
  BY <1>21, Parts DEF AllUsersDone, EndPassOf, Goto, Leases, Inside, Stations, Places,
     RunPlaces, BootPlaces, PassPlaces, TypeOK, book, pass, usage, lease
<1>22. ASSUME NEW t \in Triggers, PassThrows(t) PROVE Leases'
  BY <1>22, Parts DEF PassThrows, EndPassOf, Goto, Fault, Leases, Inside, Stations, Places,
     RunPlaces, BootPlaces, PassPlaces, TypeOK, book, pass, usage, lease
<1>23. ASSUME NEW t \in Runs, NEW k \in Keys, StartRun(t, k) PROVE Leases'
  <2>1. Acquire(t, k) /\ at[t] \in {"idle", "scopes"} /\ t \in Threads
    BY <1>23, Parts DEF StartRun, MayRun
  <2>2. at' = [at EXCEPT ![t] = "sweep"] /\ key' = [key EXCEPT ![t] = k]
    BY <1>23 DEF StartRun, Goto
  <2> QED BY <2>1, <2>2, Entered, Parts DEF Inside, TypeOK
<1>24. ASSUME NEW t \in Triggers, NEW k \in Keys, SkipRun(t, k) PROVE Leases'
  BY <1>24, Parts DEF SkipRun, MayRun, NextScope, Goto, Leases, Inside, Stations, Places,
     RunPlaces, BootPlaces, PassPlaces, TypeOK, book, pass, usage, lease
<1>25. ASSUME NEW t \in Triggers, NEW k \in Keys, RunAcquireFails(t, k) PROVE Leases'
  BY <1>25, Parts DEF RunAcquireFails, MayRun, NextScope, Goto, AcquireFails, Fault, Leases,
     Inside, Stations, Places, RunPlaces, BootPlaces, PassPlaces, TypeOK, book, pass, usage,
     lease
<1>26. ASSUME NEW t \in Runs, ListBacklog(t) PROVE Leases'
  BY <1>26, Parts DEF ListBacklog, Goto, Pending, Leases, Inside, Stations, Places, RunPlaces,
     BootPlaces, PassPlaces, TypeOK, book, pass, usage, lease
<1>27. ASSUME NEW t \in Runs, NEW e \in Entries, TakeEntry(t, e) PROVE Leases'
  BY <1>27, Parts DEF TakeEntry, Goto, Leases, Inside, Stations, Places, RunPlaces, BootPlaces,
     PassPlaces, TypeOK, book, pass, usage, lease
<1>28. ASSUME NEW t \in Runs, MarkReplayed(t) PROVE Leases'
  BY <1>28, Parts DEF MarkReplayed, Goto, Leases, Inside, Stations, Places, RunPlaces,
     BootPlaces, PassPlaces, TypeOK, book, pass, usage, lease
<1>29. ASSUME NEW t \in Runs, CoreThrows(t) PROVE Leases'
  BY <1>29, Parts DEF CoreThrows, Goto, Fault, Leases, Inside, Stations, Places, RunPlaces,
     BootPlaces, PassPlaces, TypeOK, book, pass, usage, lease
<1>30. ASSUME NEW t \in Runs, MarkFailed(t) PROVE Leases'
  BY <1>30, Parts DEF MarkFailed, Goto, Leases, Inside, Stations, Places, RunPlaces, BootPlaces,
     PassPlaces, TypeOK, book, pass, usage, lease
<1>31. ASSUME NEW t \in Runs, CompleteRun(t) PROVE Leases'
  <2>1. (Release(t) \/ ReleaseFails(t)) /\ NextScope(t, TRUE) /\ t \in Threads /\ Inside(t)
    BY <1>31, Parts DEF CompleteRun, LeaveRun, Inside
  <2>2. key' = [key EXCEPT ![t] = None]
    BY <1>31 DEF CompleteRun, LeaveRun
  <2> QED BY <2>1, <2>2, Moved, Left, Parts DEF Inside, TypeOK
<1>32. ASSUME NEW t \in Runs, RunThrows(t) PROVE Leases'
  <2>1. (Release(t) \/ ReleaseFails(t)) /\ NextScope(t, FALSE) /\ t \in Threads /\ Inside(t)
    BY <1>32, Parts DEF RunThrows, LeaveRun, Inside
  <2>2. key' = [key EXCEPT ![t] = None]
    BY <1>32 DEF RunThrows, LeaveRun
  <2> QED BY <2>1, <2>2, Moved, Left, Parts DEF Inside, TypeOK
<1>33. ASSUME NEW k \in Keys, Lapse(k) PROVE Leases'
  BY <1>33, Parts DEF Lapse, Lease!Lapse, Fault, Leases, Inside, Stations, Places, RunPlaces,
     BootPlaces, PassPlaces, TypeOK, book, pass, usage, lease
<1>34. ASSUME Crash PROVE Leases'
  BY <1>34, Parts DEF Crash, Serving, Fault, Leases, Inside, Stations, Places, RunPlaces,
     BootPlaces, PassPlaces, TypeOK, book, pass, usage, lease
<1>35. ASSUME \/ \E e \in Entries : BootSkips(e)
              \/ \E k \in Keys : ExpireOrphan(k)
              \/ \E t \in Passes \union Forced, k \in Keys : StartFails(t, k)
              \/ \E u \in Users : Rest(u)
              \/ \E u \in Users : CaptureSession(u)
              \/ UNCHANGED vars
     PROVE UNCHANGED <<at, key, working, protected, overlapped>>
  BY <1>35 DEF BootSkips, ExpireOrphan, StartFails, AcquireFails, Rest, CaptureSession, BootEntry,
     book, pass, usage,
     lease, vars
<1> QED BY Steps, <1>1, <1>2, <1>3, <1>4, <1>5, <1>6, <1>7, <1>8, <1>9, <1>10, <1>11, <1>12,
   <1>13, <1>14, <1>15, <1>16, <1>17, <1>18, <1>19, <1>20, <1>21, <1>22, <1>23, <1>24, <1>25,
   <1>26, <1>27, <1>28, <1>29, <1>30, <1>31, <1>32, <1>33, <1>34, <1>35

(* The entries in the hands of a thread *)
LEMMA HandsKept ==
  ASSUME TypeOK, Stations, Rows, Leases, Hands, [Next]_vars
  PROVE  Hands'
<1>1. CASE UNCHANGED <<book, at, key, entry, todo>>
  BY <1>1 DEF Hands, Inside, Stations, Places, RunPlaces, BootPlaces, PassPlaces, book, pass,
     usage, lease
<1>2. ASSUME NEW s \in Passes, NEW e \in Entries, WriteEntry(s, e) PROVE Hands'
  BY <1>2, Parts DEF WriteEntry, LeavePass, Goto, Hands, Inside, Stations, Places, RunPlaces,
     BootPlaces, PassPlaces, TypeOK, book, pass, usage, lease
<1>3. ASSUME NEW s \in Passes, WriteFails(s) PROVE Hands'
  BY <1>3, Parts DEF WriteFails, LeavePass, Goto, Fault, Hands, Inside, Stations, Places,
     RunPlaces, BootPlaces, PassPlaces, TypeOK, book, pass, usage, lease
<1>4. ASSUME NEW s \in Passes, EndPass(s) PROVE Hands'
  BY <1>4, Parts DEF EndPass, LeavePass, Goto, Release, ReleaseFails, Fault, Lease!Exit, Hands,
     Inside, Stations, Places, RunPlaces, BootPlaces, PassPlaces, TypeOK, book, pass, usage,
     lease
<1>5. ASSUME NEW s \in Passes, NEW k \in Keys, StartPass(s, k) PROVE Hands'
  BY <1>5, Parts DEF StartPass, Goto, Acquire, Taken, Lease!Enter, Serving, Hands, Inside,
     Stations, Places, RunPlaces, BootPlaces, PassPlaces, TypeOK, book, pass, usage, lease
<1>6. ASSUME StartProcess PROVE Hands'
  BY <1>6, Parts DEF StartProcess, Goto, Hands, Inside, Stations, Places, RunPlaces, BootPlaces,
     PassPlaces, TypeOK, book, pass, usage, lease
<1>7. ASSUME ListPending PROVE Hands'
  <2>1. /\ at' = [at EXCEPT ![Boot] = "replay"] /\ at[Boot] = "list"
        /\ UNCHANGED <<status, owner, key, entry>>
    BY <1>7 DEF ListPending, Goto, book
  <2>2. \A e \in todo'[Boot] : e \in todo[Boot] \/ (e \in Entries /\ status[e] = "pending")
    <3>1. CASE todo' = [todo EXCEPT ![Boot] = {e \in Entries : status[e] = "pending"}]
      BY <3>1, Parts DEF TypeOK
    <3>2. CASE todo' = todo
      <4>1. todo'[Boot] = todo[Boot]
        BY <3>2
      <4> QED BY <4>1
    <3>3. \/ todo' = [todo EXCEPT ![Boot] = {e \in Entries : status[e] = "pending"}]
          \/ todo' = todo
      BY <1>7, Zenon DEF ListPending
    <3> QED BY <3>1, <3>2, <3>3
  <2>3. \A t \in Threads : t # Boot => todo'[t] = todo[t] /\ at'[t] = at[t]
    BY <1>7, <2>1, Parts DEF ListPending, TypeOK
  <2>4. at'[Boot] = "replay" /\ ~Inside(Boot)'
    BY <2>1, Parts DEF Inside, TypeOK
  <2>5. \A t \in Threads : t # Boot => (Inside(t)' <=> Inside(t))
    BY <2>3 DEF Inside
  <2>6. entry[Boot] \notin todo'[Boot]
    BY <2>2, <2>1, Parts DEF Hands, TypeOK
  <2> QED BY <2>1, <2>2, <2>3, <2>4, <2>5, <2>6, Parts DEF Hands
<1>8. ASSUME NEW e \in Entries, BootSkips(e) PROVE Hands'
  BY <1>8, Parts DEF BootSkips, BootEntry, Hands, Inside, Stations, Places, RunPlaces,
     BootPlaces, PassPlaces, TypeOK, book, pass, usage, lease
<1>9. ASSUME NEW e \in Entries, BootTakes(e) PROVE Hands'
  BY <1>9, Parts DEF BootTakes, BootEntry, Goto, Acquire, Lease!Enter, Hands, Inside, Stations,
     Places, RunPlaces, BootPlaces, PassPlaces, TypeOK, book, pass, usage, lease
<1>10. ASSUME NEW e \in Entries, BootAcquireFails(e) PROVE Hands'
  BY <1>10, Parts DEF BootAcquireFails, BootEntry, Goto, AcquireFails, Fault, Hands, Inside,
     Stations, Places, RunPlaces, BootPlaces, PassPlaces, TypeOK, book, pass, usage, lease
<1>11. ASSUME NEW t \in Runs \union {Boot}, CoreReturns(t) PROVE Hands'
  BY <1>11, Parts DEF CoreReturns, Goto, Hands, Inside, Stations, Places, RunPlaces, BootPlaces,
     PassPlaces, TypeOK, book, pass, usage, lease
<1>12. ASSUME BootReplayed PROVE Hands'
  BY <1>12, Parts DEF BootReplayed, Goto, Hands, Inside, Stations, Places, RunPlaces,
     BootPlaces, PassPlaces, TypeOK, book, pass, usage, lease
<1>13. ASSUME BootDone PROVE Hands'
  BY <1>13, Parts DEF BootDone, Goto, Release, Lease!Exit, Hands, Inside, Stations, Places,
     RunPlaces, BootPlaces, PassPlaces, TypeOK, book, pass, usage, lease
<1>14. ASSUME BootThrows PROVE Hands'
  BY <1>14, Parts DEF BootThrows, Goto, Release, ReleaseFails, Lease!Exit, Fault, Hands, Inside,
     Stations, Places, RunPlaces, BootPlaces, PassPlaces, TypeOK, book, pass, usage, lease
<1>15. ASSUME BootFailed PROVE Hands'
  BY <1>15, Parts DEF BootFailed, Goto, Fault, Hands, Inside, Stations, Places, RunPlaces,
     BootPlaces, PassPlaces, TypeOK, book, pass, usage, lease
<1>16. ASSUME SkipCatchup PROVE Hands'
  <2>1. at[Boot] = "replay" /\ at' = [at EXCEPT ![Boot] = "up"] /\ UNCHANGED <<status, owner, key, entry, todo>>
    BY <1>16 DEF SkipCatchup, Idle, Goto, book
  <2>2. \A x \in Threads : x # Boot => at'[x] = at[x]
    BY <2>1 DEF TypeOK
  <2>3. at'[Boot] = "up"
    BY <2>1, Parts DEF TypeOK
  <2>4. \A x \in Threads : Inside(x)' <=> Inside(x)
    BY <2>1, <2>2, <2>3, Parts DEF Inside
  <2> QED BY <2>1, <2>2, <2>3, <2>4, Parts DEF Hands
<1>17. ASSUME NEW t \in Triggers, BeginPass(t) PROVE Hands'
  <2>1. \A x \in Threads : x # t /\ x # Boot => at'[x] = at[x]
    BY <1>17, Parts DEF BeginPass, TypeOK
  <2>2. at[t] = "idle" /\ at'[t] = "query"
    BY <1>17, Parts DEF BeginPass, Idle, TypeOK
  <2>3. at'[Boot] = at[Boot] \/ (at[Boot] = "replay" /\ at'[Boot] = "up")
    <3>1. CASE t = Catchup
      BY <1>17, <3>1, Parts DEF BeginPass, Idle, TypeOK
    <3>2. CASE t # Catchup
      <4>1. at' = [at EXCEPT ![t] = "query", ![Boot] = at[Boot]]
        BY <1>17, <3>2 DEF BeginPass
      <4> QED BY <4>1, Parts DEF TypeOK
    <3> QED BY <3>1, <3>2
  <2>4. UNCHANGED <<status, owner, key, entry, todo>>
    BY <1>17 DEF BeginPass, book
  <2>5. \A x \in Threads : Inside(x)' <=> Inside(x)
    BY <2>1, <2>2, <2>3, Parts DEF Inside
  <2> QED BY <2>1, <2>2, <2>3, <2>4, <2>5, Parts DEF Hands
<1>18. ASSUME NEW t \in Triggers, GetEligibleUsers(t) PROVE Hands'
  BY <1>18, Parts DEF GetEligibleUsers, Goto, Hands, Inside, Stations, Places, RunPlaces,
     BootPlaces, PassPlaces, TypeOK, book, pass, usage, lease
<1>19. ASSUME NEW t \in Triggers, NEW u \in Users, RunForUser(t, u) PROVE Hands'
  BY <1>19, Parts DEF RunForUser, Goto, Hands, Inside, Stations, Places, RunPlaces, BootPlaces,
     PassPlaces, TypeOK, book, pass, usage, lease
<1>20. ASSUME NEW t \in Triggers, StampRun(t) PROVE Hands'
  BY <1>20, Parts DEF StampRun, Goto, Hands, Inside, Stations, Places, RunPlaces, BootPlaces,
     PassPlaces, TypeOK, book, pass, usage, lease
<1>21. ASSUME NEW t \in Triggers, NoScopeRan(t) PROVE Hands'
  BY <1>21, Parts DEF NoScopeRan, Goto, Hands, Inside, Stations, Places, RunPlaces, BootPlaces,
     PassPlaces, TypeOK, book, pass, usage, lease
<1>22. ASSUME NEW t \in Triggers, AllUsersDone(t) PROVE Hands'
  BY <1>22, Parts DEF AllUsersDone, EndPassOf, Goto, Hands, Inside, Stations, Places, RunPlaces,
     BootPlaces, PassPlaces, TypeOK, book, pass, usage, lease
<1>23. ASSUME NEW t \in Triggers, PassThrows(t) PROVE Hands'
  BY <1>23, Parts DEF PassThrows, EndPassOf, Goto, Fault, Hands, Inside, Stations, Places,
     RunPlaces, BootPlaces, PassPlaces, TypeOK, book, pass, usage, lease
<1>24. ASSUME NEW t \in Runs, NEW k \in Keys, StartRun(t, k) PROVE Hands'
  BY <1>24, Parts DEF StartRun, MayRun, Acquire, Lease!Enter, Goto, Hands, Inside, Stations,
     Places, RunPlaces, BootPlaces, PassPlaces, TypeOK, book, pass, usage, lease
<1>25. ASSUME NEW t \in Triggers, NEW k \in Keys, SkipRun(t, k) PROVE Hands'
  <2>1. NextScope(t, FALSE) /\ t \in Runs /\ at[t] = "scopes"
    BY <1>25, Parts DEF SkipRun, MayRun
  <2>2. UNCHANGED <<status, owner, key, entry, todo>>
    BY <1>25 DEF SkipRun, book
  <2>3. at' = [at EXCEPT ![t] = "scopes"]
    BY <1>25, <2>1, Moved
  <2>4. at' = at
    BY <2>1, <2>3, Parts DEF TypeOK
  <2> QED BY <2>2, <2>4 DEF Hands, Inside
<1>26. ASSUME NEW t \in Triggers, NEW k \in Keys, RunAcquireFails(t, k) PROVE Hands'
  <2>1. NextScope(t, FALSE) /\ t \in Runs /\ at[t] = "scopes"
    BY <1>26, Parts DEF RunAcquireFails, MayRun
  <2>2. UNCHANGED <<status, owner, key, entry, todo>>
    BY <1>26 DEF RunAcquireFails, book
  <2>3. at' = [at EXCEPT ![t] = "scopes"]
    BY <1>26, <2>1, Moved
  <2>4. at' = at
    BY <2>1, <2>3, Parts DEF TypeOK
  <2> QED BY <2>2, <2>4 DEF Hands, Inside
<1>27. ASSUME NEW t \in Runs, ListBacklog(t) PROVE Hands'
  <2>1. /\ at[t] = "sweep" /\ at' = [at EXCEPT ![t] = "replay"]
        /\ todo' = [todo EXCEPT ![t] = Pending(key[t])]
        /\ UNCHANGED <<status, owner, key, entry>>
    BY <1>27 DEF ListBacklog, Goto, book
  <2>2. \A e \in Pending(key[t]) : e \in Entries /\ status[e] # "absent" /\ owner[e] = key[t]
    BY DEF Pending
  <2>3. \A x \in Threads : Inside(x)' <=> Inside(x)
    BY <2>1, Parts DEF Inside, TypeOK
  <2>4. \A x \in Threads : x # t => todo'[x] = todo[x] /\ at'[x] = at[x]
    BY <2>1 DEF TypeOK
  <2>5. todo'[t] = Pending(key[t]) /\ at'[t] = "replay" /\ Inside(t)
    BY <2>1, Parts DEF Inside, TypeOK
  <2>6. entry[t] \notin todo'[t]
    <3>1. CASE entry[t] \in Entries
      <4>1. status[entry[t]] # "absent" /\ FALSE
        BY <2>1, <3>1, Parts DEF Hands
      <4> QED BY <4>1
    <3> QED BY <2>2, <2>5, <3>1
  <2> QED BY <2>1, <2>2, <2>3, <2>4, <2>5, <2>6, Parts DEF Hands
<1>28. ASSUME NEW t \in Runs, NEW e \in Entries, TakeEntry(t, e) PROVE Hands'
  BY <1>28, Parts DEF TakeEntry, Goto, Hands, Inside, Stations, Places, RunPlaces, BootPlaces,
     PassPlaces, TypeOK, book, pass, usage, lease
<1>29. ASSUME NEW t \in Runs, MarkReplayed(t) PROVE Hands'
  BY <1>29, Parts DEF MarkReplayed, Goto, Hands, Inside, Stations, Places, RunPlaces,
     BootPlaces, PassPlaces, TypeOK, book, pass, usage, lease
<1>30. ASSUME NEW t \in Runs, CoreThrows(t) PROVE Hands'
  BY <1>30, Parts DEF CoreThrows, Goto, Fault, Hands, Inside, Stations, Places, RunPlaces,
     BootPlaces, PassPlaces, TypeOK, book, pass, usage, lease
<1>31. ASSUME NEW t \in Runs, MarkFailed(t) PROVE Hands'
  BY <1>31, Parts DEF MarkFailed, Goto, Hands, Inside, Stations, Places, RunPlaces, BootPlaces,
     PassPlaces, TypeOK, book, pass, usage, lease
<1>32. ASSUME NEW t \in Runs, CompleteRun(t) PROVE Hands'
  BY <1>32, Parts DEF CompleteRun, Release, Lease!Exit, LeaveRun, NextScope, Goto, Hands,
     Inside, Stations, Places, RunPlaces, BootPlaces, PassPlaces, TypeOK, book, pass, usage,
     lease
<1>33. ASSUME NEW t \in Runs, RunThrows(t) PROVE Hands'
  BY <1>33, Parts DEF RunThrows, Release, ReleaseFails, Lease!Exit, LeaveRun, NextScope, Goto,
     Fault, Hands, Inside, Stations, Places, RunPlaces, BootPlaces, PassPlaces, TypeOK, book,
     pass, usage, lease
<1>34. ASSUME Crash PROVE Hands'
  BY <1>34, Parts DEF Crash, Serving, Fault, Hands, Inside, Stations, Places, RunPlaces,
     BootPlaces, PassPlaces, TypeOK, book, pass, usage, lease
<1>35. ASSUME \/ \E k \in Keys : Lapse(k)
              \/ \E k \in Keys : ExpireOrphan(k)
              \/ \E t \in Passes \union Forced, k \in Keys : StartFails(t, k)
              \/ \E u \in Users : Rest(u)
              \/ \E u \in Users : CaptureSession(u)
              \/ UNCHANGED vars
     PROVE UNCHANGED <<book, at, key, entry, todo>>
  BY <1>35 DEF Lapse, ExpireOrphan, StartFails, AcquireFails, Rest, CaptureSession, Fault,
     Lease!Lapse, book, pass, usage,
     lease, vars
<1> QED BY Steps, <1>1, <1>2, <1>3, <1>4, <1>5, <1>6, <1>7, <1>8, <1>9, <1>10, <1>11, <1>12,
   <1>13, <1>14, <1>15, <1>16, <1>17, <1>18, <1>19, <1>20, <1>21, <1>22, <1>23, <1>24, <1>25,
   <1>26, <1>27, <1>28, <1>29, <1>30, <1>31, <1>32, <1>33, <1>34, <1>35

(* What a run that is alone has in hand is not replayed yet. *)
LEMMA OnceKept ==
  ASSUME TypeOK, Stations, Leases, Hands, RunReplaysOnce, [Next]_vars
  PROVE  RunReplaysOnce'
<1>1. CASE UNCHANGED <<status, entry, todo, overlapped>>
  BY <1>1 DEF RunReplaysOnce, Hands, Leases, Inside, book, pass, usage, lease
<1>2. ASSUME NEW s \in Passes, NEW e \in Entries, WriteEntry(s, e) PROVE RunReplaysOnce'
  BY <1>2, Parts DEF WriteEntry, LeavePass, Goto, RunReplaysOnce, Hands, Leases, Inside, TypeOK,
     book, pass, usage, lease
<1>3. ASSUME NEW s \in Passes, EndPass(s) PROVE RunReplaysOnce'
  <2>1. (Release(s) \/ ReleaseFails(s)) /\ Inside(s)
    BY <1>3 DEF EndPass, Inside
  <2>2. overlapped' = overlapped \ {s}
    BY <2>1, Released, Parts
  <2> QED BY <1>3, <2>2, Parts DEF EndPass, LeavePass, RunReplaysOnce, book
<1>4. ASSUME NEW s \in Passes, NEW k \in Keys, StartPass(s, k) PROVE RunReplaysOnce'
  BY <1>4, Parts DEF StartPass, Goto, Acquire, Taken, Lease!Enter, Serving, RunReplaysOnce,
     Hands, Leases, Inside, TypeOK, book, pass, usage, lease
<1>5. ASSUME NEW e \in Entries, BootTakes(e) PROVE RunReplaysOnce'
  BY <1>5, Parts DEF BootTakes, BootEntry, Goto, Acquire, Lease!Enter, RunReplaysOnce, Hands,
     Leases, Inside, TypeOK, book, pass, usage, lease
<1>6. ASSUME NEW e \in Entries, BootAcquireFails(e) PROVE RunReplaysOnce'
  BY <1>6, Parts DEF BootAcquireFails, BootEntry, Goto, AcquireFails, Fault, RunReplaysOnce,
     Hands, Leases, Inside, TypeOK, book, pass, usage, lease
<1>7. ASSUME BootReplayed PROVE RunReplaysOnce'
  <2>1. at[Boot] = "mark" /\ status' = [status EXCEPT ![entry[Boot]] = "replayed"]
        /\ UNCHANGED <<entry, todo, overlapped>>
    BY <1>7 DEF BootReplayed, lease
  <2>2. ASSUME NEW t \in Runs \ overlapped, NEW e \in Entries, e \in todo[t] \/ entry[t] = e,
               entry[Boot] = e
        PROVE  FALSE
    <3>1. Inside(t) /\ key[t] = owner[e] /\ Inside(Boot) /\ key[Boot] = owner[e]
      BY <2>1, <2>2, Parts DEF Hands, Inside
    <3>2. owner[e] \in Keys /\ t \in working[owner[e]] /\ Boot \in working[owner[e]]
      BY <2>2, <3>1, Parts DEF Leases
    <3> QED BY <2>2, <3>2, Parts DEF Leases
  <2> QED BY <2>1, <2>2 DEF RunReplaysOnce, TypeOK
<1>8. ASSUME BootDone PROVE RunReplaysOnce'
  BY <1>8, Parts DEF BootDone, Goto, Release, Lease!Exit, RunReplaysOnce, Hands, Leases, Inside,
     TypeOK, book, pass, usage, lease
<1>9. ASSUME BootThrows PROVE RunReplaysOnce'
  <2>1. (Release(Boot) \/ ReleaseFails(Boot)) /\ Inside(Boot)
    BY <1>9 DEF BootThrows, Inside
  <2>2. overlapped' = overlapped \ {Boot}
    BY <2>1, Released, Parts
  <2> QED BY <1>9, <2>2, Parts DEF BootThrows, RunReplaysOnce, book
<1>10. ASSUME BootFailed PROVE RunReplaysOnce'
  BY <1>10, Parts DEF BootFailed, Goto, Fault, RunReplaysOnce, Hands, Leases, Inside, TypeOK,
     book, pass, usage, lease
<1>11. ASSUME NEW e \in Entries, BootSkips(e) PROVE RunReplaysOnce'
  BY <1>11, Parts DEF BootSkips, BootEntry, RunReplaysOnce, Hands, Leases, Inside, TypeOK, book,
     pass, usage, lease
<1>12. ASSUME ListPending PROVE RunReplaysOnce'
  <2>1. \A t \in Runs : todo'[t] = todo[t]
    BY <1>12, Parts DEF ListPending, TypeOK
  <2> QED BY <1>12, <2>1 DEF ListPending, RunReplaysOnce, book, lease
<1>13. ASSUME NEW t \in Runs, NEW k \in Keys, StartRun(t, k) PROVE RunReplaysOnce'
  BY <1>13, Parts DEF StartRun, MayRun, Acquire, Lease!Enter, Goto, RunReplaysOnce, Hands,
     Leases, Inside, TypeOK, book, pass, usage, lease
<1>14. ASSUME NEW t \in Runs, ListBacklog(t) PROVE RunReplaysOnce'
  BY <1>14, Parts DEF ListBacklog, Goto, Pending, RunReplaysOnce, Hands, Leases, Inside, TypeOK,
     book, pass, usage, lease
<1>15. ASSUME NEW t \in Runs, NEW e \in Entries, TakeEntry(t, e) PROVE RunReplaysOnce'
  BY <1>15, Parts DEF TakeEntry, Goto, RunReplaysOnce, Hands, Leases, Inside, TypeOK, book,
     pass, usage, lease
<1>16. ASSUME NEW t \in Runs, MarkReplayed(t) PROVE RunReplaysOnce'
  BY <1>16, Parts DEF MarkReplayed, Goto, RunReplaysOnce, Hands, Leases, Inside, TypeOK, book,
     pass, usage, lease
<1>17. ASSUME NEW t \in Runs, MarkFailed(t) PROVE RunReplaysOnce'
  BY <1>17, Parts DEF MarkFailed, Goto, RunReplaysOnce, Hands, Leases, Inside, TypeOK, book,
     pass, usage, lease
<1>18. ASSUME NEW t \in Runs, CompleteRun(t) PROVE RunReplaysOnce'
  BY <1>18, Parts DEF CompleteRun, Release, Lease!Exit, LeaveRun, NextScope, Goto,
     RunReplaysOnce, Hands, Leases, Inside, TypeOK, book, pass, usage, lease
<1>19. ASSUME NEW t \in Runs, RunThrows(t) PROVE RunReplaysOnce'
  BY <1>19, Parts DEF RunThrows, Release, ReleaseFails, Lease!Exit, LeaveRun, NextScope, Goto,
     Fault, RunReplaysOnce, Hands, Leases, Inside, TypeOK, book, pass, usage, lease
<1>20. ASSUME NEW k \in Keys, Lapse(k) PROVE RunReplaysOnce'
  BY <1>20, Parts DEF Lapse, Lease!Lapse, Fault, RunReplaysOnce, Hands, Leases, Inside, TypeOK,
     book, pass, usage, lease
<1>21. ASSUME Crash PROVE RunReplaysOnce'
  BY <1>21, Parts DEF Crash, Serving, Fault, RunReplaysOnce, Hands, Leases, Inside, TypeOK,
     book, pass, usage, lease
<1>22. ASSUME \/ \E s \in Passes : WriteFails(s)
              \/ StartProcess
              \/ \E t \in Runs \union {Boot} : CoreReturns(t)
              \/ SkipCatchup
              \/ \E t \in Triggers : BeginPass(t)
              \/ \E t \in Triggers : GetEligibleUsers(t)
              \/ \E t \in Triggers, u \in Users : RunForUser(t, u)
              \/ \E t \in Triggers : StampRun(t)
              \/ \E t \in Triggers : NoScopeRan(t)
              \/ \E t \in Triggers : AllUsersDone(t)
              \/ \E t \in Triggers : PassThrows(t)
              \/ \E t \in Triggers, k \in Keys : SkipRun(t, k)
              \/ \E t \in Triggers, k \in Keys : RunAcquireFails(t, k)
              \/ \E t \in Runs : CoreThrows(t)
              \/ \E k \in Keys : ExpireOrphan(k)
              \/ \E t \in Passes \union Forced, k \in Keys : StartFails(t, k)
              \/ \E u \in Users : Rest(u)
              \/ \E u \in Users : CaptureSession(u)
              \/ UNCHANGED vars
     PROVE UNCHANGED <<status, entry, todo, overlapped>>
  BY <1>22 DEF WriteFails, StartProcess, CoreReturns, SkipCatchup, BeginPass, GetEligibleUsers,
     RunForUser, StampRun, NoScopeRan, AllUsersDone, PassThrows, SkipRun, RunAcquireFails,
     CoreThrows, ExpireOrphan, StartFails, Rest, CaptureSession, AcquireFails, EndPassOf, Fault,
     Goto, Idle, LeavePass, MayRun, NextScope, Serving, book, pass, usage, lease, vars
<1> QED BY Steps, <1>1, <1>2, <1>3, <1>4, <1>5, <1>6, <1>7, <1>8, <1>9, <1>10, <1>11, <1>12,
   <1>13, <1>14, <1>15, <1>16, <1>17, <1>18, <1>19, <1>20, <1>21, <1>22

(* The pass in flight *)
LEMMA FlightKept ==
  ASSUME TypeOK, Stations, Flight, [Next]_vars
  PROVE  Flight'
<1>1. CASE UNCHANGED <<at, pass, usage>>
  BY <1>1 DEF Flight, Stations, Eligible, Places, RunPlaces, BootPlaces, PassPlaces, book, pass,
     usage, lease
<1>2. ASSUME NEW s \in Passes, NEW e \in Entries, WriteEntry(s, e) PROVE Flight'
  BY <1>2, Parts DEF WriteEntry, LeavePass, Goto, Flight, Stations, Eligible, Places, RunPlaces,
     BootPlaces, PassPlaces, TypeOK, book, pass, usage, lease
<1>3. ASSUME NEW s \in Passes, WriteFails(s) PROVE Flight'
  BY <1>3, Parts DEF WriteFails, LeavePass, Goto, Fault, Flight, Stations, Eligible, Places,
     RunPlaces, BootPlaces, PassPlaces, TypeOK, book, pass, usage, lease
<1>4. ASSUME NEW s \in Passes, EndPass(s) PROVE Flight'
  BY <1>4, Parts DEF EndPass, LeavePass, Goto, Release, ReleaseFails, Fault, Lease!Exit, Flight,
     Stations, Eligible, Places, RunPlaces, BootPlaces, PassPlaces, TypeOK, book, pass, usage,
     lease
<1>5. ASSUME NEW s \in Passes, NEW k \in Keys, StartPass(s, k) PROVE Flight'
  <2>1. at' = [at EXCEPT ![s] = "write"] \/ at' = [at EXCEPT ![s] = "core"]
    BY <1>5 DEF StartPass, Goto
  <2>2. \A t \in Triggers : at'[t] = at[t]
    BY <2>1, Parts DEF TypeOK
  <2> QED BY <1>5, <2>2 DEF StartPass, Flight, Eligible, pass, usage
<1>6. ASSUME StartProcess PROVE Flight'
  BY <1>6, Parts DEF StartProcess, Goto, Flight, Stations, Eligible, Places, RunPlaces,
     BootPlaces, PassPlaces, TypeOK, book, pass, usage, lease
<1>7. ASSUME ListPending PROVE Flight'
  BY <1>7, Parts DEF ListPending, Goto, Fault, Flight, Stations, Eligible, Places, RunPlaces,
     BootPlaces, PassPlaces, TypeOK, book, pass, usage, lease
<1>8. ASSUME NEW e \in Entries, BootTakes(e) PROVE Flight'
  BY <1>8, Parts DEF BootTakes, BootEntry, Goto, Acquire, Lease!Enter, Flight, Stations,
     Eligible, Places, RunPlaces, BootPlaces, PassPlaces, TypeOK, book, pass, usage, lease
<1>9. ASSUME NEW e \in Entries, BootAcquireFails(e) PROVE Flight'
  BY <1>9, Parts DEF BootAcquireFails, BootEntry, Goto, AcquireFails, Fault, Flight, Stations,
     Eligible, Places, RunPlaces, BootPlaces, PassPlaces, TypeOK, book, pass, usage, lease
<1>10. ASSUME NEW t \in Runs \union {Boot}, CoreReturns(t) PROVE Flight'
  BY <1>10, Parts DEF CoreReturns, Goto, Flight, Stations, Eligible, Places, RunPlaces,
     BootPlaces, PassPlaces, TypeOK, book, pass, usage, lease
<1>11. ASSUME BootReplayed PROVE Flight'
  BY <1>11, Parts DEF BootReplayed, Goto, Flight, Stations, Eligible, Places, RunPlaces,
     BootPlaces, PassPlaces, TypeOK, book, pass, usage, lease
<1>12. ASSUME BootDone PROVE Flight'
  BY <1>12, Parts DEF BootDone, Goto, Release, Lease!Exit, Flight, Stations, Eligible, Places,
     RunPlaces, BootPlaces, PassPlaces, TypeOK, book, pass, usage, lease
<1>13. ASSUME BootThrows PROVE Flight'
  BY <1>13, Parts DEF BootThrows, Goto, Release, ReleaseFails, Lease!Exit, Fault, Flight,
     Stations, Eligible, Places, RunPlaces, BootPlaces, PassPlaces, TypeOK, book, pass, usage,
     lease
<1>14. ASSUME BootFailed PROVE Flight'
  BY <1>14, Parts DEF BootFailed, Goto, Fault, Flight, Stations, Eligible, Places, RunPlaces,
     BootPlaces, PassPlaces, TypeOK, book, pass, usage, lease
<1>15. ASSUME SkipCatchup PROVE Flight'
  BY <1>15, Parts DEF SkipCatchup, Goto, Idle, Flight, Stations, Eligible, Places, RunPlaces,
     BootPlaces, PassPlaces, TypeOK, book, pass, usage, lease
<1>16. ASSUME NEW t \in Triggers, BeginPass(t) PROVE Flight'
  BY <1>16, Parts DEF BeginPass, Idle, Serving, Flight, Stations, Eligible, Places, RunPlaces,
     BootPlaces, PassPlaces, TypeOK, book, pass, usage, lease
<1>17. ASSUME NEW t \in Triggers, GetEligibleUsers(t) PROVE Flight'
  BY <1>17, Parts DEF GetEligibleUsers, Goto, Flight, Stations, Eligible, Places, RunPlaces,
     BootPlaces, PassPlaces, TypeOK, book, pass, usage, lease
<1>18. ASSUME NEW t \in Triggers, NEW u \in Users, RunForUser(t, u) PROVE Flight'
  BY <1>18, Parts DEF RunForUser, Goto, Flight, Stations, Eligible, Places, RunPlaces,
     BootPlaces, PassPlaces, TypeOK, book, pass, usage, lease
<1>19. ASSUME NEW t \in Triggers, StampRun(t) PROVE Flight'
  BY <1>19, Parts DEF StampRun, Goto, Flight, Stations, Eligible, Places, RunPlaces, BootPlaces,
     PassPlaces, TypeOK, book, pass, usage, lease
<1>20. ASSUME NEW t \in Triggers, NoScopeRan(t) PROVE Flight'
  BY <1>20, Parts DEF NoScopeRan, Goto, Flight, Stations, Eligible, Places, RunPlaces,
     BootPlaces, PassPlaces, TypeOK, book, pass, usage, lease
<1>21. ASSUME NEW t \in Triggers, AllUsersDone(t) PROVE Flight'
  BY <1>21, Parts DEF AllUsersDone, EndPassOf, Goto, Flight, Stations, Eligible, Places,
     RunPlaces, BootPlaces, PassPlaces, TypeOK, book, pass, usage, lease
<1>22. ASSUME NEW t \in Triggers, PassThrows(t) PROVE Flight'
  BY <1>22, Parts DEF PassThrows, EndPassOf, Goto, Fault, Flight, Stations, Eligible, Places,
     RunPlaces, BootPlaces, PassPlaces, TypeOK, book, pass, usage, lease
<1>23. ASSUME NEW t \in Runs, NEW k \in Keys, StartRun(t, k) PROVE Flight'
  BY <1>23, Parts DEF StartRun, MayRun, Acquire, Lease!Enter, Goto, Flight, Stations, Eligible,
     Places, RunPlaces, BootPlaces, PassPlaces, TypeOK, book, pass, usage, lease
<1>24. ASSUME NEW t \in Triggers, NEW k \in Keys, SkipRun(t, k) PROVE Flight'
  BY <1>24, Parts DEF SkipRun, MayRun, NextScope, Goto, Flight, Stations, Eligible, Places,
     RunPlaces, BootPlaces, PassPlaces, TypeOK, book, pass, usage, lease
<1>25. ASSUME NEW t \in Triggers, NEW k \in Keys, RunAcquireFails(t, k) PROVE Flight'
  BY <1>25, Parts DEF RunAcquireFails, MayRun, NextScope, Goto, AcquireFails, Fault, Flight,
     Stations, Eligible, Places, RunPlaces, BootPlaces, PassPlaces, TypeOK, book, pass, usage,
     lease
<1>26. ASSUME NEW t \in Runs, ListBacklog(t) PROVE Flight'
  BY <1>26, Parts DEF ListBacklog, Goto, Pending, Flight, Stations, Eligible, Places, RunPlaces,
     BootPlaces, PassPlaces, TypeOK, book, pass, usage, lease
<1>27. ASSUME NEW t \in Runs, NEW e \in Entries, TakeEntry(t, e) PROVE Flight'
  BY <1>27, Parts DEF TakeEntry, Goto, Flight, Stations, Eligible, Places, RunPlaces,
     BootPlaces, PassPlaces, TypeOK, book, pass, usage, lease
<1>28. ASSUME NEW t \in Runs, MarkReplayed(t) PROVE Flight'
  BY <1>28, Parts DEF MarkReplayed, Goto, Flight, Stations, Eligible, Places, RunPlaces,
     BootPlaces, PassPlaces, TypeOK, book, pass, usage, lease
<1>29. ASSUME NEW t \in Runs, CoreThrows(t) PROVE Flight'
  BY <1>29, Parts DEF CoreThrows, Goto, Fault, Flight, Stations, Eligible, Places, RunPlaces,
     BootPlaces, PassPlaces, TypeOK, book, pass, usage, lease
<1>30. ASSUME NEW t \in Runs, MarkFailed(t) PROVE Flight'
  BY <1>30, Parts DEF MarkFailed, Goto, Flight, Stations, Eligible, Places, RunPlaces,
     BootPlaces, PassPlaces, TypeOK, book, pass, usage, lease
<1>31. ASSUME NEW t \in Runs, CompleteRun(t) PROVE Flight'
  BY <1>31, Parts DEF CompleteRun, Release, Lease!Exit, LeaveRun, NextScope, Goto, Flight,
     Stations, Eligible, Places, RunPlaces, BootPlaces, PassPlaces, TypeOK, book, pass, usage,
     lease
<1>32. ASSUME NEW t \in Runs, RunThrows(t) PROVE Flight'
  <2>1. NextScope(t, FALSE) /\ t \in Runs /\ at[t] \notin {"idle", "query", "users"}
    BY <1>32 DEF RunThrows, LeaveRun
  <2>2. UNCHANGED <<eligible, user, inFlight, rested, fresh>>
    BY <1>32 DEF RunThrows, LeaveRun, usage
  <2>3. PICK place \in {"scopes", "idle"} :
          at' = [at EXCEPT ![t] = place] /\ (t \in Triggers => place = "scopes")
    BY <2>1, Moved
  <2>4. CASE t \in Triggers
    <3>1. at' = [at EXCEPT ![t] = "scopes"]
      BY <2>3, <2>4
    <3> QED BY <2>1, <2>2, <2>4, <3>1, Parts DEF Flight, Eligible, TypeOK
  <2>5. CASE t \notin Triggers
    <3>1. \A x \in Triggers : at'[x] = at[x]
      BY <2>3, <2>5, Parts DEF TypeOK
    <3> QED BY <2>2, <3>1 DEF Flight, Eligible
  <2> QED BY <2>4, <2>5
<1>33. ASSUME NEW u \in Users, Rest(u) PROVE Flight'
  BY <1>33, Parts DEF Rest, Flight, Stations, Eligible, Places, RunPlaces, BootPlaces,
     PassPlaces, TypeOK, book, pass, usage, lease
<1>34. ASSUME NEW u \in Users, CaptureSession(u) PROVE Flight'
  BY <1>34, Parts DEF CaptureSession, Flight, Stations, Eligible, Places, RunPlaces, BootPlaces,
     PassPlaces, TypeOK, book, pass, usage, lease
<1>35. ASSUME Crash PROVE Flight'
  BY <1>35, Parts DEF Crash, Serving, Fault, Flight, Stations, Eligible, Places, RunPlaces,
     BootPlaces, PassPlaces, TypeOK, book, pass, usage, lease
<1>36. ASSUME \/ \E e \in Entries : BootSkips(e)
              \/ \E k \in Keys : Lapse(k)
              \/ \E k \in Keys : ExpireOrphan(k)
              \/ \E t \in Passes \union Forced, k \in Keys : StartFails(t, k)
              \/ UNCHANGED vars
     PROVE UNCHANGED <<at, pass, usage>>
  BY <1>36 DEF BootSkips, Lapse, ExpireOrphan, StartFails, BootEntry, AcquireFails, Fault,
     Lease!Lapse, book, pass, usage, lease, vars
<1> QED BY Steps, <1>1, <1>2, <1>3, <1>4, <1>5, <1>6, <1>7, <1>8, <1>9, <1>10, <1>11, <1>12,
   <1>13, <1>14, <1>15, <1>16, <1>17, <1>18, <1>19, <1>20, <1>21, <1>22, <1>23, <1>24, <1>25,
   <1>26, <1>27, <1>28, <1>29, <1>30, <1>31, <1>32, <1>33, <1>34, <1>35, <1>36

LEMMA InvKept == ASSUME IndInv, [Next]_vars PROVE IndInv'
BY TypeKept, StationsKept, RowsKept, LeasesKept, HandsKept, OnceKept, FlightKept DEF IndInv

-----------------------------------------------------------------------------
(* Every variable keeps its type, in every reachable state. *)
THEOREM TypeCorrect == Spec => []TypeOK
<1>1. IndInv => TypeOK
  BY DEF IndInv
<1> QED BY InitInv, InvKept, <1>1, PTL DEF Spec

(* No entry is in the staleness core of two threads at once, unless the    *)
(* lease of one of them lapsed or it came while such a thread was inside.  *)
THEOREM ExclusiveTheorem == Spec => []ExclusiveReplay
<1>1. IndInv => ExclusiveReplay
  <2> SUFFICES ASSUME IndInv, NEW e \in Entries, NEW t1 \in Threads, NEW t2 \in Threads,
                      Replaying(t1, e), Replaying(t2, e), t1 # t2, t1 \notin overlapped
               PROVE  FALSE
    BY DEF ExclusiveReplay
  <2>1. key[t1] = owner[e] /\ key[t2] = owner[e] /\ Inside(t1) /\ Inside(t2)
    BY DEF IndInv, Hands, Replaying, Inside
  <2>2. owner[e] \in Keys /\ t1 \in working[owner[e]] /\ t2 \in working[owner[e]]
    BY <2>1 DEF IndInv, Leases
  <2> QED BY <2>2 DEF IndInv, Leases
<1> QED BY InitInv, InvKept, <1>1, PTL DEF Spec

(* A run that kept its key to itself never holds an entry that is replayed *)
(* already, although it checks none of them again.                         *)
THEOREM OnceTheorem == Spec => []RunReplaysOnce
<1>1. IndInv => RunReplaysOnce
  BY DEF IndInv
<1> QED BY InitInv, InvKept, <1>1, PTL DEF Spec

(* The scheduler starts the run of a user only while the user is eligible, *)
(* however long ago the list of users was read.                            *)
THEOREM PacedTheorem == Spec => PacedRuns
<1>1. IndInv /\ [Next]_vars =>
        [\A t \in Triggers, u \in Users :
           (user[t] # u /\ user'[t] = u) => Eligible(u)]_vars
  <2> SUFFICES ASSUME IndInv, [Next]_vars, NEW tr \in Triggers, NEW next \in Users,
                      user[tr] # next, user'[tr] = next
               PROVE  Eligible(next)
    OBVIOUS
  <2> USE DEF IndInv
  <2>1. ASSUME UNCHANGED user PROVE FALSE
    BY <2>1
  <2>2. ASSUME NEW x \in Triggers, user' = [user EXCEPT ![x] = None] PROVE FALSE
    BY <2>2, Parts DEF TypeOK
  <2>3. ASSUME Crash PROVE FALSE
    BY <2>3, Parts DEF Crash
  <2>4. ASSUME NEW x \in Triggers, NEW v \in Users, RunForUser(x, v) PROVE Eligible(next)
    BY <2>4 DEF RunForUser, TypeOK, Flight
  <2>5. ASSUME NEW x \in Triggers, StampRun(x) \/ NoScopeRan(x) \/ AllUsersDone(x) \/ PassThrows(x)
        PROVE  user' = [user EXCEPT ![x] = None]
    BY <2>5 DEF StampRun, NoScopeRan, AllUsersDone, PassThrows, EndPassOf
  <2>6. ASSUME \/ \E s \in Passes, e \in Entries : WriteEntry(s, e)
               \/ \E s \in Passes : WriteFails(s)
               \/ \E s \in Passes : EndPass(s)
               \/ \E s \in Passes, k \in Keys : StartPass(s, k)
               \/ StartProcess
               \/ ListPending
               \/ \E e \in Entries : BootSkips(e)
               \/ \E e \in Entries : BootTakes(e)
               \/ \E e \in Entries : BootAcquireFails(e)
               \/ \E t \in Runs \union {Boot} : CoreReturns(t)
               \/ BootReplayed
               \/ BootDone
               \/ BootThrows
               \/ BootFailed
               \/ SkipCatchup
               \/ \E t \in Triggers : BeginPass(t)
               \/ \E t \in Triggers : GetEligibleUsers(t)
               \/ \E t \in Runs, k \in Keys : StartRun(t, k)
               \/ \E t \in Triggers, k \in Keys : SkipRun(t, k)
               \/ \E t \in Triggers, k \in Keys : RunAcquireFails(t, k)
               \/ \E t \in Runs : ListBacklog(t)
               \/ \E t \in Runs, e \in Entries : TakeEntry(t, e)
               \/ \E t \in Runs : MarkReplayed(t)
               \/ \E t \in Runs : CoreThrows(t)
               \/ \E t \in Runs : MarkFailed(t)
               \/ \E t \in Runs : CompleteRun(t)
               \/ \E t \in Runs : RunThrows(t)
               \/ \E k \in Keys : Lapse(k)
               \/ \E k \in Keys : ExpireOrphan(k)
               \/ \E t \in Passes \union Forced, k \in Keys : StartFails(t, k)
               \/ \E u \in Users : Rest(u)
               \/ \E u \in Users : CaptureSession(u)
               \/ UNCHANGED vars
        PROVE  UNCHANGED user
    BY <2>6 DEF WriteEntry, WriteFails, EndPass, StartPass, StartProcess, ListPending,
       BootSkips, BootTakes, BootAcquireFails, CoreReturns, BootReplayed, BootDone, BootThrows,
       BootFailed, SkipCatchup, BeginPass, GetEligibleUsers, StartRun, SkipRun, RunAcquireFails,
       ListBacklog, TakeEntry, MarkReplayed, CoreThrows, MarkFailed, CompleteRun, RunThrows,
       Lapse, ExpireOrphan, StartFails, Rest, CaptureSession, Acquire, AcquireFails, BootEntry,
       Fault, Goto, Idle, Lease!Enter, Lease!Exit, Lease!Lapse, LeavePass, LeaveRun, MayRun,
       NextScope, Pending, Release, ReleaseFails, Serving, Taken, book, pass, usage, lease, vars
  <2> QED BY Steps, <2>1, <2>2, <2>3, <2>4, <2>5, <2>6
<1> QED BY InitInv, InvKept, <1>1, PTL DEF Spec, PacedRuns

-----------------------------------------------------------------------------
(***************************************************************************)
(* The composition with the lock: passes, runs, the startup, lapses and    *)
(* crashes, whatever their order, take and leave the leases only in the    *)
(* ways KeyedLease has, which the lock implements.                         *)
(***************************************************************************)
LEMMA LeaseEntered ==
  ASSUME NEW t \in Threads, NEW k \in Keys, Acquire(t, k) PROVE Lease!Next
BY DEF Acquire, Lease!Next

LEMMA LeaseLeft ==
  ASSUME Leases, NEW t \in Threads, Inside(t), Release(t) \/ ReleaseFails(t) PROVE Lease!Next
<1>1. key[t] \in Keys
  BY DEF Leases
<1>2. Lease!Exit(t, key[t])
  BY DEF Release, ReleaseFails
<1> QED BY <1>1, <1>2 DEF Lease!Next

LEMMA LeaseSteps ==
  ASSUME IndInv, [Next]_vars
  PROVE  [Lease!Next]_<<working, protected>>
<1> USE DEF IndInv
<1>1. ASSUME NEW s \in Passes, EndPass(s) PROVE Lease!Next
  BY <1>1, LeaseLeft, Parts DEF EndPass, Inside
<1>2. ASSUME NEW s \in Passes, NEW k \in Keys, StartPass(s, k)
      PROVE  Lease!Next \/ UNCHANGED lease
  BY <1>2, LeaseEntered, Parts DEF StartPass
<1>3. ASSUME NEW e \in Entries, BootTakes(e) PROVE Lease!Next
  <2>1. owner[e] \in Keys
    BY <1>3, Parts DEF BootTakes, BootEntry, Hands, Rows
  <2> QED BY <1>3, <2>1, LeaseEntered, Parts DEF BootTakes
<1>4. ASSUME NEW t \in Runs, NEW k \in Keys, StartRun(t, k) PROVE Lease!Next
  BY <1>4, LeaseEntered, Parts DEF StartRun
<1>5. ASSUME BootDone \/ BootThrows PROVE Lease!Next
  BY <1>5, LeaseLeft, Parts DEF BootDone, BootThrows, Inside
<1>6. ASSUME NEW t \in Runs, CompleteRun(t) \/ RunThrows(t) PROVE Lease!Next
  BY <1>6, LeaseLeft, Parts DEF CompleteRun, RunThrows, Inside
<1>7. ASSUME NEW k \in Keys, Lapse(k) PROVE Lease!Next
  <2>1. {k} \in SUBSET Keys /\ Lease!Lapse({k})
    BY <1>7 DEF Lapse
  <2> QED BY <2>1 DEF Lease!Next
<1>8. ASSUME Crash PROVE Lease!Next
  <2>1. working' = [k \in Keys |-> {}] /\ protected' = [k \in Keys |-> None]
    BY <1>8 DEF Crash
  <2>2. \A k \in Keys : working[k] \ Threads = {} /\ protected[k] \in Threads \union {None}
    BY DEF TypeOK
  <2>3. Lease!Die(Threads)
    BY <2>1, <2>2 DEF Lease!Die
  <2> QED BY <2>3 DEF Lease!Next
<1>9. ASSUME \/ \E s \in Passes, e \in Entries : WriteEntry(s, e)
             \/ \E s \in Passes : WriteFails(s)
             \/ StartProcess \/ ListPending \/ BootReplayed \/ BootFailed \/ SkipCatchup
             \/ \E e \in Entries : BootSkips(e) \/ BootAcquireFails(e)
             \/ \E t \in Runs \union {Boot} : CoreReturns(t)
             \/ \E k \in Keys : ExpireOrphan(k)
             \/ \E t \in Passes \union Forced, k \in Keys : StartFails(t, k)
             \/ \E u \in Users : Rest(u) \/ CaptureSession(u)
             \/ UNCHANGED vars
      PROVE  UNCHANGED <<working, protected>>
  BY <1>9 DEF WriteEntry, WriteFails, StartProcess, ListPending, BootReplayed, BootFailed,
     SkipCatchup, BootSkips, BootAcquireFails, AcquireFails, CoreReturns, ExpireOrphan,
     StartFails, Rest, CaptureSession, vars, lease
<1>10. ASSUME NEW t \in Triggers,
              \/ BeginPass(t) \/ GetEligibleUsers(t) \/ StampRun(t) \/ NoScopeRan(t)
              \/ AllUsersDone(t) \/ PassThrows(t)
              \/ \E u \in Users : RunForUser(t, u)
              \/ \E k \in Keys : SkipRun(t, k) \/ RunAcquireFails(t, k)
       PROVE  UNCHANGED <<working, protected>>
  BY <1>10 DEF BeginPass, GetEligibleUsers, StampRun, NoScopeRan, AllUsersDone, PassThrows,
     EndPassOf, RunForUser, SkipRun, RunAcquireFails, AcquireFails, lease
<1>11. ASSUME NEW t \in Runs,
              \/ ListBacklog(t) \/ MarkReplayed(t) \/ CoreThrows(t) \/ MarkFailed(t)
              \/ \E e \in Entries : TakeEntry(t, e)
       PROVE  UNCHANGED <<working, protected>>
  BY <1>11 DEF ListBacklog, MarkReplayed, CoreThrows, MarkFailed, TakeEntry, lease
<1>12. UNCHANGED lease => UNCHANGED <<working, protected>>
  BY DEF lease
<1> HIDE DEF IndInv
<1> QED BY Steps, <1>1, <1>2, <1>3, <1>4, <1>5, <1>6, <1>7, <1>8, <1>9, <1>10, <1>11, <1>12

(* Staleness passes, the startup replay and consolidation runs use the     *)
(* leases of their keys as KeyedLease promises them, also when leases      *)
(* lapse, queries of the lock fail and the process dies with all threads.  *)
THEOREM LeasesComposed == Spec => Lease!Spec
<1>1. Init => Lease!Init
  BY DEF Init
<1>2. IndInv /\ [Next]_vars => [Lease!Next]_<<working, protected>>
  BY LeaseSteps
<1> QED BY <1>1, <1>2, InitInv, InvKept, PTL DEF Spec, Lease!Spec
=============================================================================
