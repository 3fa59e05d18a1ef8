------------------------- MODULE ConsolidationLock -------------------------
(***************************************************************************)
(* The TTL lease lock on the table consolidation_locks                     *)
(* (src/lifecycle/semion/lock.ts), taken per userId::scope key by three    *)
(* callers: a consolidation run, which renews the lease from a heartbeat   *)
(* timer, the startup replay of the staleness backlog, and a staleness     *)
(* pass, which do not.                                                     *)
(*                                                                         *)
(* Time is relative: a lease row carries the ticks it has left, Tick takes *)
(* one from each, and 0 is what the code writes expires_at <= time::now(). *)
(* So every behaviour has unboundedly many runs over finitely many states. *)
(***************************************************************************)
EXTENDS Naturals

CONSTANTS
  Keys,       \* lock keys, `${userId}::${scope}`
  Procs,      \* callers of acquireLock that may run at the same time
  Tokens,     \* the values crypto.randomUUID() returns for a holder
  Ttl,        \* [Procs -> ticks]: the ttlSeconds each caller asks for
  Renewing,   \* the callers that run a heartbeat: consolidation runs
  None        \* no key, no token, no row

Row == [holder : Tokens, left : Nat]

ASSUME LockAssumption ==
  /\ Ttl \in [Procs -> Nat \ {0}]
  /\ Renewing \subseteq Procs
  /\ None \notin Keys \union Procs \union Tokens \union Row

VARIABLES
  row,     \* [Keys -> lease row or None]: the table, one row per lock_key
  at,      \* [Procs -> where the caller is]
  key,     \* [Procs -> its lockKey]
  token,   \* [Procs -> its holder]
  beats,   \* extendLock statements sent and not yet executed
  grace    \* [Procs -> ticks until the lease it last renewed lapses] (history)

vars == <<row, at, key, token, beats, grace>>

Beat == [proc : Procs, key : Keys, token : Tokens]

(***************************************************************************)
(* A fresh UUID differs from every holder that the table, a caller or a    *)
(* statement in flight still mentions.                                     *)
(***************************************************************************)
HeldBy(k, t) == row[k] # None /\ row[k].holder = t

Fresh(t) ==
  /\ \A k \in Keys : ~HeldBy(k, t)
  /\ \A p \in Procs : token[p] # t
  /\ \A b \in beats : b.token # t

Expired(k)   == row[k] # None /\ row[k].left = 0
LeaseSwapped(p) == [holder |-> key[p], left |-> Ttl[p]]   \* variant: bindings swapped
Lease(p)     == [holder |-> token[p], left |-> Ttl[p]]

(* p executes the work that the lock on k protects *)
Inside(p, k) == at[p] = "inside" /\ key[p] = k

Init ==
  /\ row = [k \in Keys |-> None]
  /\ at = [p \in Procs |-> "idle"]
  /\ key = [p \in Procs |-> None]
  /\ token = [p \in Procs |-> None]
  /\ beats = {}
  /\ grace = [p \in Procs |-> 0]

Leave(p) ==
  /\ at' = [at EXCEPT ![p] = "idle"]
  /\ key' = [key EXCEPT ![p] = None]
  /\ token' = [token EXCEPT ![p] = None]
  /\ grace' = [grace EXCEPT ![p] = 0]

(* acquireLock is called: the holder is drawn before the query is sent *)
RequestLock(p, k, t) ==
  /\ at[p] = "idle"
  /\ Fresh(t)
  /\ at' = [at EXCEPT ![p] = "sweep"]
  /\ key' = [key EXCEPT ![p] = k]
  /\ token' = [token EXCEPT ![p] = t]
  /\ UNCHANGED <<row, beats, grace>>

(* Variant: the DELETE without its condition on expires_at *)
DeleteAny(p) ==
  /\ at[p] = "sweep"
  /\ at' = [at EXCEPT ![p] = "create"]
  /\ row' = [row EXCEPT ![key[p]] = None]
  /\ UNCHANGED <<key, token, beats, grace>>

(* Variant: no DELETE at all *)
DeleteNothing(p) ==
  /\ at[p] = "sweep"
  /\ at' = [at EXCEPT ![p] = "create"]
  /\ UNCHANGED <<row, key, token, beats, grace>>

(* First statement of the query: DELETE ... WHERE expires_at <= time::now() *)
DeleteExpired(p) ==
  /\ at[p] = "sweep"
  /\ at' = [at EXCEPT ![p] = "create"]
  /\ row' = IF Expired(key[p]) THEN [row EXCEPT ![key[p]] = None] ELSE row
  /\ UNCHANGED <<key, token, beats, grace>>

(* Variant: an UPSERT instead of the CREATE *)
UpsertLease(p) ==
  /\ at[p] = "create"
  /\ row' = [row EXCEPT ![key[p]] = Lease(p)]
  /\ at' = [at EXCEPT ![p] = "inside"]
  /\ grace' = [grace EXCEPT ![p] = Ttl[p]]
  /\ UNCHANGED <<key, token, beats>>

(* Second statement: CREATE. The unique index on lock_key admits one row. *)
CreateLease(p) ==
  /\ at[p] = "create"
  /\ row[key[p]] = None
  /\ row' = [row EXCEPT ![key[p]] = Lease(p)]
  /\ at' = [at EXCEPT ![p] = "inside"]
  /\ grace' = [grace EXCEPT ![p] = Ttl[p]]
  /\ UNCHANGED <<key, token, beats>>

(* The CREATE violates idx_cl_key: acquireLock returns null, the run skips. *)
Contended(p) ==
  /\ at[p] = "create"
  /\ row[key[p]] # None
  /\ Leave(p)
  /\ UNCHANGED <<row, beats>>

(* The CREATE commits but its answer is lost: acquireLock throws. *)
CreateUnacknowledged(p) ==
  /\ at[p] = "create"
  /\ row[key[p]] = None
  /\ row' = [row EXCEPT ![key[p]] = Lease(p)]
  /\ Leave(p)
  /\ UNCHANGED beats

(* The heartbeat interval fires: extendLock is sent and not awaited. *)
SendHeartbeat(p) ==
  /\ p \in Renewing
  /\ at[p] = "inside"
  /\ beats' = beats \union {[proc |-> p, key |-> key[p], token |-> token[p]]}
  /\ UNCHANGED <<row, at, key, token, grace>>

(***************************************************************************)
(* The UPDATE of extendLock executes: WHERE lock_key AND holder, with no   *)
(* condition on expires_at. It may arrive after the run that sent it left. *)
(* When no row matches the run only logs and carries on unprotected.       *)
(***************************************************************************)
ExtendLease(b) ==
  /\ b \in beats
  /\ beats' = beats \ {b}
  /\ IF HeldBy(b.key, b.token)
     THEN /\ row' = [row EXCEPT ![b.key] = [holder |-> b.token, left |-> Ttl[b.proc]]]
          /\ grace' = IF token[b.proc] = b.token
                      THEN [grace EXCEPT ![b.proc] = Ttl[b.proc]]
                      ELSE grace
     ELSE UNCHANGED <<row, grace>>
  /\ UNCHANGED <<at, key, token>>

(* The heartbeat's query fails: the error is logged. *)
LoseHeartbeat(b) ==
  /\ b \in beats
  /\ beats' = beats \ {b}
  /\ UNCHANGED <<row, at, key, token, grace>>

(* Variant: the DELETE of releaseLock without its condition on holder *)
ReleaseAny(p) ==
  /\ at[p] = "inside"
  /\ row' = [row EXCEPT ![key[p]] = None]
  /\ Leave(p)
  /\ UNCHANGED beats

(* The finally clause: clearInterval, then DELETE WHERE lock_key AND holder *)
ReleaseLock(p) ==
  /\ at[p] = "inside"
  /\ row' = IF HeldBy(key[p], token[p]) THEN [row EXCEPT ![key[p]] = None] ELSE row
  /\ Leave(p)
  /\ UNCHANGED beats

(* The process exits, or the releasing DELETE fails: the row stays. *)
Abandon(p) ==
  /\ at[p] # "idle"
  /\ Leave(p)
  /\ UNCHANGED <<row, beats>>

Tick ==
  /\ \/ \E k \in Keys : row[k] # None /\ row[k].left > 0
     \/ \E p \in Procs : grace[p] > 0
  /\ row' = [k \in Keys |->
               IF row[k] # None /\ row[k].left > 0
               THEN [row[k] EXCEPT !.left = @ - 1]
               ELSE row[k]]
  /\ grace' = [p \in Procs |-> IF grace[p] > 0 THEN grace[p] - 1 ELSE 0]
  /\ UNCHANGED <<at, key, token, beats>>

Next ==
  \/ \E p \in Procs :
       \/ \E k \in Keys, t \in Tokens : RequestLock(p, k, t)
       \/ DeleteExpired(p)
       \/ CreateLease(p)
       \/ Contended(p)
       \/ CreateUnacknowledged(p)
       \/ SendHeartbeat(p)
       \/ ReleaseLock(p)
       \/ Abandon(p)
  \/ \E b \in beats : ExtendLease(b) \/ LoseHeartbeat(b)
  \/ Tick

Spec == Init /\ [][Next]_vars

(***************************************************************************)
(* Fairness: time passes, statements sent to the database finish, a run    *)
(* ends (its LLM calls time out and its loops are budgeted), every caller  *)
(* asks for every key again and again (hourly tick, session ends), and its *)
(* process does not die every single time before the query is executed.    *)
(* Nothing else is assumed of heartbeats, lost answers or crashes.         *)
(***************************************************************************)
Fairness ==
  /\ WF_vars(Tick)
  /\ WF_vars(\E b \in beats : ExtendLease(b) \/ LoseHeartbeat(b))
  /\ \A p \in Procs :
       /\ WF_vars(CreateLease(p) \/ Contended(p) \/ CreateUnacknowledged(p))
       /\ WF_vars(ReleaseLock(p) \/ Abandon(p))
       /\ \A k \in Keys :
            /\ SF_vars(\E t \in Tokens : RequestLock(p, k, t))
            /\ SF_vars(DeleteExpired(p) /\ key[p] = k)

FairSpec == Spec /\ Fairness

-----------------------------------------------------------------------------
(* Types of the table, the callers and the statements in flight *)
TypeOK ==
  /\ row \in [Keys -> Row \union {None}]
  /\ at \in [Procs -> {"idle", "sweep", "create", "inside"}]
  /\ key \in [Procs -> Keys \union {None}]
  /\ token \in [Procs -> Tokens \union {None}]
  /\ beats \subseteq Beat
  /\ grace \in [Procs -> Nat]

(***************************************************************************)
(* Mutual exclusion, as far as a lease gives it: two callers work under    *)
(* the same key only after one of them has let a full TTL pass since its   *)
(* CREATE or its last executed renewal. In particular the DELETE of one    *)
(* caller, a late heartbeat of another and the release of a third never    *)
(* take a live lease away (acquireLock, extendLock, releaseLock).          *)
(***************************************************************************)
ExclusiveWithinLease ==
  \A k \in Keys : \A p, q \in Procs :
    Inside(p, k) /\ Inside(q, k) /\ p # q => grace[p] = 0 \/ grace[q] = 0

(***************************************************************************)
(* A row leaves the table only when its lease has run out or when the run  *)
(* that created it releases it, and a lease is lengthened only under the   *)
(* holder that owns it: a run that outlived its lease can neither release  *)
(* nor extend its successor's (the holder condition of extendLock and      *)
(* releaseLock).                                                           *)
(***************************************************************************)
LeaseNeverStolen ==
  [][\A k \in Keys :
       row[k] # None /\ row'[k] # row[k] =>
         \/ /\ row'[k] # None
            /\ row'[k].holder = row[k].holder
            /\ row'[k].left > row[k].left =>
                 \E b \in beats \ beats' : b.token = row[k].holder
         \/ row[k].left = 0
         \/ /\ row'[k] = None
            /\ \E p \in Procs : Inside(p, k) /\ token[p] = row[k].holder /\ at'[p] = "idle"]_vars

(***************************************************************************)
(* A lease whose run has crashed, or whose CREATE was never acknowledged,  *)
(* does not block its key for ever: the next caller that asks for the key  *)
(* after the TTL deletes it, although callers never wait and only retry.   *)
(***************************************************************************)
Orphaned(k) ==
  row[k] # None /\ \A p \in Procs : token[p] # row[k].holder

OrphanedKeyRecovers == \A k \in Keys : Orphaned(k) ~> ~Orphaned(k)

(***************************************************************************)
(* The lock implements KeyedLease: a caller at work is protected while its *)
(* own row is in the table with time left.                                 *)
(***************************************************************************)
Protects(k, p) == Inside(p, k) /\ HeldBy(k, token[p]) /\ row[k].left > 0

Working   == [k \in Keys |-> {p \in Procs : Inside(p, k)}]
Protected == [k \in Keys |-> IF \E p \in Procs : Protects(k, p)
                             THEN CHOOSE p \in Procs : Protects(k, p)
                             ELSE None]

Promise == INSTANCE KeyedLease WITH
  Nobody <- None, working <- Working, protected <- Protected

(* Every step of the lock is a step of the promise, or none of its steps. *)
ImplementsKeyedLease == Promise!Spec
=============================================================================
