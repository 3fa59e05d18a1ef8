---------------------- MODULE ConsolidationLockProofs ----------------------
(***************************************************************************)
(* Proofs about ConsolidationLock for every set of keys, callers and       *)
(* tokens and every TTL. TypeOK /\ LeaseInv is the inductive invariant:    *)
(* mutual exclusion alone is not inductive, because it does not say whose  *)
(* row a live lease is, nor that no statement in flight can disturb it.    *)
(***************************************************************************)
EXTENDS ConsolidationLock, TLAPS

(* A caller has a key and a holder exactly while its call is under way. *)
Engaged ==
  \A p \in Procs :
    /\ at[p] = "idle" <=> token[p] = None
    /\ at[p] = "idle" <=> key[p] = None

(* Two callers never use one holder. *)
TokensDistinct ==
  \A p, q \in Procs : p # q /\ token[p] # None => token[p] # token[q]

(* A row under a caller's holder is under its key, and the caller is inside. *)
RowsOfCallers ==
  \A p \in Procs, k \in Keys : HeldBy(k, token[p]) => Inside(p, k)

(* A heartbeat in flight under a caller's holder is that caller's own. *)
BeatsOfCallers ==
  \A p \in Procs : \A b \in beats :
    b.token = token[p] => p = b.proc /\ Inside(p, b.key)

(* While a caller's lease has not lapsed its row is in the table. *)
GraceIsBacked ==
  \A p \in Procs :
    grace[p] > 0 =>
      /\ at[p] = "inside"
      /\ HeldBy(key[p], token[p])

(* The time a caller believes to have left is the time its row has left. *)
GraceIsExact ==
  \A p \in Procs, k \in Keys :
    Inside(p, k) /\ HeldBy(k, token[p]) => row[k].left = grace[p]

LeaseInv ==
  /\ Engaged
  /\ TokensDistinct
  /\ RowsOfCallers
  /\ BeatsOfCallers
  /\ GraceIsBacked
  /\ GraceIsExact

(***************************************************************************)
(* Types are kept. Engaged is needed with them: a row created without a    *)
(* holder would not be a row.                                              *)
(***************************************************************************)
LEMMA TypesKept ==
  ASSUME TypeOK, Engaged, [Next]_vars
  PROVE  TypeOK' /\ Engaged'
<1> USE LockAssumption DEF TypeOK, Engaged
<1>1. ASSUME NEW p \in Procs, NEW k \in Keys, NEW t \in Tokens, RequestLock(p, k, t)
      PROVE  TypeOK' /\ Engaged'
  BY <1>1 DEF RequestLock
<1>2. ASSUME NEW p \in Procs, DeleteExpired(p) PROVE TypeOK' /\ Engaged'
  BY <1>2 DEF DeleteExpired
<1>3. ASSUME NEW p \in Procs, CreateLease(p) PROVE TypeOK' /\ Engaged'
  BY <1>3 DEF CreateLease, Lease, Row
<1>4. ASSUME NEW p \in Procs, Contended(p) PROVE TypeOK' /\ Engaged'
  BY <1>4 DEF Contended, Leave
<1>5. ASSUME NEW p \in Procs, CreateUnacknowledged(p) PROVE TypeOK' /\ Engaged'
  BY <1>5 DEF CreateUnacknowledged, Leave, Lease, Row
<1>6. ASSUME NEW p \in Procs, SendHeartbeat(p) PROVE TypeOK' /\ Engaged'
  BY <1>6 DEF SendHeartbeat, Beat
<1>7. ASSUME NEW p \in Procs, ReleaseLock(p) PROVE TypeOK' /\ Engaged'
  BY <1>7 DEF ReleaseLock, Leave
<1>8. ASSUME NEW p \in Procs, Abandon(p) PROVE TypeOK' /\ Engaged'
  BY <1>8 DEF Abandon, Leave
<1>9. ASSUME NEW b \in beats, ExtendLease(b) PROVE TypeOK' /\ Engaged'
  BY <1>9 DEF ExtendLease, HeldBy, Row, Beat
<1>10. ASSUME NEW b \in beats, LoseHeartbeat(b) PROVE TypeOK' /\ Engaged'
  BY <1>10 DEF LoseHeartbeat
<1>11. CASE Tick
  BY <1>11 DEF Tick, Row
<1>12. CASE UNCHANGED vars
  BY <1>12 DEF vars
<1> QED
  BY <1>1, <1>2, <1>3, <1>4, <1>5, <1>6, <1>7, <1>8, <1>9, <1>10, <1>11, <1>12 DEF Next

(***************************************************************************)
(* Every variable of the lock keeps its type.                              *)
(***************************************************************************)
THEOREM TypeCorrect == Spec => []TypeOK
<1>1. Init => TypeOK /\ Engaged
  BY LockAssumption DEF Init, TypeOK, Engaged
<1>2. TypeOK /\ Engaged /\ [Next]_vars => (TypeOK /\ Engaged)'
  BY TypesKept
<1> QED
  BY <1>1, <1>2, PTL DEF Spec

(***************************************************************************)
(* LeaseInv is kept, action by action.                                     *)
(***************************************************************************)
LEMMA LeaseInvKept ==
  ASSUME TypeOK, LeaseInv, [Next]_vars
  PROVE  LeaseInv'
<1> USE LockAssumption
    DEF TypeOK, LeaseInv, Engaged, TokensDistinct, RowsOfCallers,
        BeatsOfCallers, GraceIsBacked, GraceIsExact, HeldBy, Inside, Row, Beat
<1>1. ASSUME NEW p \in Procs, NEW k \in Keys, NEW t \in Tokens, RequestLock(p, k, t)
      PROVE  LeaseInv'
  BY <1>1 DEF RequestLock, Fresh
<1>2. ASSUME NEW p \in Procs, DeleteExpired(p) PROVE LeaseInv'
  BY <1>2 DEF DeleteExpired, Expired
<1>3. ASSUME NEW p \in Procs, CreateLease(p) PROVE LeaseInv'
  <2>1. Engaged'
    BY <1>3 DEF CreateLease, Lease
  <2>2. TokensDistinct'
    BY <1>3 DEF CreateLease, Lease
  <2>3. RowsOfCallers'
    BY <1>3 DEF CreateLease, Lease
  <2>4. BeatsOfCallers'
    BY <1>3 DEF CreateLease, Lease
  <2>5. GraceIsBacked'
    <3> SUFFICES ASSUME NEW q \in Procs, grace'[q] > 0
                 PROVE  at'[q] = "inside" /\ HeldBy(key[q], token[q])'
      BY <1>3 DEF CreateLease
    <3>1. CASE q = p
      BY <3>1, <1>3 DEF CreateLease, Lease
    <3>2. CASE q # p
      <4>1. grace[q] > 0
        BY <3>2, <1>3 DEF CreateLease
      <4>2. at[q] = "inside" /\ HeldBy(key[q], token[q]) /\ key[q] \in Keys
        BY <4>1
      <4>3. key[q] # key[p]
        BY <4>2, <1>3 DEF CreateLease
      <4> QED
        BY <3>2, <4>2, <4>3, <1>3 DEF CreateLease
    <3> QED
      BY <3>1, <3>2
  <2>6. GraceIsExact'
    BY <1>3 DEF CreateLease, Lease
  <2> QED
    BY <2>1, <2>2, <2>3, <2>4, <2>5, <2>6
<1>4. ASSUME NEW p \in Procs, Contended(p) PROVE LeaseInv'
  BY <1>4 DEF Contended, Leave
<1>5. ASSUME NEW p \in Procs, CreateUnacknowledged(p) PROVE LeaseInv'
  BY <1>5 DEF CreateUnacknowledged, Leave, Lease
<1>6. ASSUME NEW p \in Procs, SendHeartbeat(p) PROVE LeaseInv'
  BY <1>6 DEF SendHeartbeat
<1>7. ASSUME NEW p \in Procs, ReleaseLock(p) PROVE LeaseInv'
  BY <1>7 DEF ReleaseLock, Leave
<1>8. ASSUME NEW p \in Procs, Abandon(p) PROVE LeaseInv'
  BY <1>8 DEF Abandon, Leave
<1>9. ASSUME NEW b \in beats, ExtendLease(b) PROVE LeaseInv'
  <2>1. Engaged'
    BY <1>9 DEF ExtendLease
  <2>2. TokensDistinct'
    BY <1>9 DEF ExtendLease
  <2>3. RowsOfCallers'
    BY <1>9 DEF ExtendLease
  <2>4. BeatsOfCallers'
    BY <1>9 DEF ExtendLease
  <2>5. GraceIsBacked'
    <3> SUFFICES ASSUME NEW q \in Procs, grace'[q] > 0
                 PROVE  at'[q] = "inside" /\ HeldBy(key[q], token[q])'
      BY <1>9 DEF ExtendLease
    <3>1. CASE HeldBy(b.key, b.token) /\ token[q] = b.token
      <4>1. q = b.proc /\ Inside(q, b.key)
        BY <3>1
      <4> QED
        BY <3>1, <4>1, <1>9 DEF ExtendLease
    <3>2. CASE ~ (HeldBy(b.key, b.token) /\ token[q] = b.token)
      <4>1. grace[q] > 0
        BY <3>2, <1>9 DEF ExtendLease
      <4>2. at[q] = "inside" /\ HeldBy(key[q], token[q]) /\ key[q] \in Keys
        BY <4>1
      <4> QED
        BY <3>2, <4>2, <1>9 DEF ExtendLease
    <3> QED
      BY <3>1, <3>2
  <2>6. GraceIsExact'
    BY <1>9 DEF ExtendLease
  <2> QED
    BY <2>1, <2>2, <2>3, <2>4, <2>5, <2>6
<1>10. ASSUME NEW b \in beats, LoseHeartbeat(b) PROVE LeaseInv'
  BY <1>10 DEF LoseHeartbeat
<1>11. CASE Tick
  <2>1. Engaged'
    BY <1>11 DEF Tick
  <2>2. TokensDistinct'
    BY <1>11 DEF Tick
  <2>3. RowsOfCallers'
    BY <1>11 DEF Tick
  <2>4. BeatsOfCallers'
    BY <1>11 DEF Tick
  <2>5. GraceIsBacked'
    <3> SUFFICES ASSUME NEW q \in Procs, grace'[q] > 0
                 PROVE  at'[q] = "inside" /\ HeldBy(key[q], token[q])'
      BY <1>11 DEF Tick
    <3>1. grace[q] > 0
      BY <1>11 DEF Tick
    <3>2. at[q] = "inside" /\ HeldBy(key[q], token[q]) /\ key[q] \in Keys
      BY <3>1
    <3> QED
      BY <3>2, <1>11 DEF Tick
  <2>6. GraceIsExact'
    BY <1>11 DEF Tick
  <2> QED
    BY <2>1, <2>2, <2>3, <2>4, <2>5, <2>6
<1>12. CASE UNCHANGED vars
  BY <1>12 DEF vars
<1> QED
  BY <1>1, <1>2, <1>3, <1>4, <1>5, <1>6, <1>7, <1>8, <1>9, <1>10, <1>11, <1>12 DEF Next

LEMMA LeaseInvHolds == Spec => [](TypeOK /\ LeaseInv)
<1>1. Init => TypeOK /\ LeaseInv
  <2> SUFFICES ASSUME Init PROVE TypeOK /\ LeaseInv
    OBVIOUS
  <2>1. TypeOK
    BY DEF Init, TypeOK
  <2>2. LeaseInv
    BY LockAssumption
    DEF Init, LeaseInv, Engaged, TokensDistinct, RowsOfCallers,
        BeatsOfCallers, GraceIsBacked, GraceIsExact, HeldBy, Inside
  <2> QED
    BY <2>1, <2>2
<1>2. TypeOK /\ LeaseInv /\ [Next]_vars => (TypeOK /\ LeaseInv)'
  BY TypesKept, LeaseInvKept DEF LeaseInv
<1> QED
  BY <1>1, <1>2, PTL DEF Spec

(***************************************************************************)
(* Two callers are inside under one key only when one of them has let its  *)
(* lease lapse: both would otherwise be named as the holder of one row.    *)
(***************************************************************************)
THEOREM MutualExclusion == Spec => []ExclusiveWithinLease
<1>1. TypeOK /\ LeaseInv => ExclusiveWithinLease
  <2> SUFFICES ASSUME TypeOK, LeaseInv, NEW k \in Keys, NEW p \in Procs, NEW q \in Procs,
                      Inside(p, k), Inside(q, k), grace[p] # 0, grace[q] # 0
               PROVE  p = q
    BY DEF ExclusiveWithinLease
  <2>1. grace[p] > 0 /\ grace[q] > 0
    BY DEF TypeOK
  <2>2. HeldBy(k, token[p]) /\ HeldBy(k, token[q])
    BY <2>1 DEF LeaseInv, GraceIsBacked, Inside
  <2>3. token[p] = token[q] /\ token[p] # None
    BY <2>2 DEF HeldBy, LeaseInv, Engaged, Inside, TypeOK
  <2> QED
    BY <2>3 DEF LeaseInv, TokensDistinct
<1> QED
  BY <1>1, LeaseInvHolds, PTL

(***************************************************************************)
(* No step removes, replaces or lengthens a live lease except the release  *)
(* and the renewal of the run it belongs to.                               *)
(***************************************************************************)
THEOREM NoTheft == Spec => LeaseNeverStolen
<1> DEFINE Kept(k) ==
      row[k] # None /\ row'[k] # row[k] =>
         \/ /\ row'[k] # None
            /\ row'[k].holder = row[k].holder
            /\ row'[k].left > row[k].left =>
                 \E b \in beats \ beats' : b.token = row[k].holder
         \/ row[k].left = 0
         \/ /\ row'[k] = None
            /\ \E p \in Procs : Inside(p, k) /\ token[p] = row[k].holder /\ at'[p] = "idle"
<1>1. ASSUME TypeOK, LeaseInv, Next, NEW k \in Keys PROVE Kept(k)
  <2> USE <1>1, LockAssumption DEF TypeOK, HeldBy, Row
  <2>1. ASSUME NEW p \in Procs, NEW l \in Keys, NEW t \in Tokens, RequestLock(p, l, t)
        PROVE  Kept(k)
    BY <2>1 DEF RequestLock
  <2>2. ASSUME NEW p \in Procs, DeleteExpired(p) PROVE Kept(k)
    BY <2>2 DEF DeleteExpired, Expired
  <2>3. ASSUME NEW p \in Procs, CreateLease(p) \/ CreateUnacknowledged(p) PROVE Kept(k)
    <3>1. row[key[p]] = None /\ row' = [row EXCEPT ![key[p]] = Lease(p)]
      BY <2>3 DEF CreateLease, CreateUnacknowledged
    <3>2. k # key[p] => row'[k] = row[k]
      BY <3>1
    <3> QED
      BY <3>1, <3>2
  <2>4. ASSUME NEW p \in Procs, Contended(p) \/ Abandon(p) \/ SendHeartbeat(p) PROVE Kept(k)
    BY <2>4 DEF Contended, Abandon, SendHeartbeat
  <2>5. ASSUME NEW p \in Procs, ReleaseLock(p) PROVE Kept(k)
    <3>1. CASE HeldBy(key[p], token[p]) /\ k = key[p]
      <4>1. row'[k] = None /\ Inside(p, k) /\ token[p] = row[k].holder /\ at'[p] = "idle"
        BY <3>1, <2>5 DEF ReleaseLock, Leave, Inside
      <4> QED
        BY <4>1
    <3>2. CASE ~ (HeldBy(key[p], token[p]) /\ k = key[p])
      BY <3>2, <2>5 DEF ReleaseLock
    <3> QED
      BY <3>1, <3>2
  <2>6. ASSUME NEW b \in beats, ExtendLease(b) PROVE Kept(k)
    <3>1. CASE HeldBy(b.key, b.token) /\ k = b.key
      <4>1. /\ row'[k].holder = row[k].holder
            /\ b \in beats \ beats' /\ b.token = row[k].holder
        BY <3>1, <2>6 DEF ExtendLease
      <4>2. row'[k] \in Row
        BY <3>1, <2>6 DEF ExtendLease, Beat
      <4> QED
        BY <4>1, <4>2
    <3>2. CASE ~ (HeldBy(b.key, b.token) /\ k = b.key)
      BY <3>2, <2>6 DEF ExtendLease
    <3> QED
      BY <3>1, <3>2
  <2>7. ASSUME NEW b \in beats, LoseHeartbeat(b) PROVE Kept(k)
    BY <2>7 DEF LoseHeartbeat
  <2>8. CASE Tick
    <3>1. row[k] # None => row[k] \in Row
      OBVIOUS
    <3>2. row'[k] = IF row[k] # None /\ row[k].left > 0
                    THEN [row[k] EXCEPT !.left = @ - 1] ELSE row[k]
      BY <2>8 DEF Tick
    <3>3. CASE row[k] # None /\ row[k].left > 0
      <4>1. row'[k] = [holder |-> row[k].holder, left |-> row[k].left - 1]
        BY <3>1, <3>2, <3>3
      <4>2. row'[k] \in Row /\ ~ (row'[k].left > row[k].left)
        BY <3>1, <3>3, <4>1
      <4> QED
        BY <4>1, <4>2
    <3> QED
      BY <3>1, <3>2, <3>3
  <2> QED
    BY <1>1, <2>1, <2>2, <2>3, <2>4, <2>5, <2>6, <2>7, <2>8 DEF Next
<1>2. TypeOK /\ LeaseInv /\ [Next]_vars => [\A k \in Keys : Kept(k)]_vars
  BY <1>1
<1> QED
  BY <1>2, LeaseInvHolds, PTL DEF Spec, LeaseNeverStolen

-----------------------------------------------------------------------------
(***************************************************************************)
(* Refinement. At most one caller is protected under a key, so the choice  *)
(* in the mapping names the caller whose row it is.                        *)
(***************************************************************************)
OwnersKnown ==
  \A k \in Keys :
    /\ \A p \in Procs : Protected[k] = p <=> Protects(k, p)
    /\ Protected[k] = None <=> \A p \in Procs : ~Protects(k, p)

LEMMA ProtectedIsOwner == TypeOK /\ LeaseInv => OwnersKnown
<1> SUFFICES ASSUME TypeOK, LeaseInv, NEW k \in Keys
             PROVE  /\ \A p \in Procs : Protected[k] = p <=> Protects(k, p)
                    /\ Protected[k] = None <=> \A p \in Procs : ~Protects(k, p)
  BY DEF OwnersKnown
<1>1. ASSUME NEW p \in Procs, NEW q \in Procs, Protects(k, p), Protects(k, q)
      PROVE  p = q
  BY <1>1 DEF Protects, HeldBy, Inside, TypeOK, LeaseInv, Engaged, TokensDistinct
<1>2. CASE \E p \in Procs : Protects(k, p)
  <2>1. PICK p \in Procs : Protects(k, p)
    BY <1>2
  <2>2. Protected[k] \in Procs /\ Protects(k, Protected[k])
    BY <1>2 DEF Protected
  <2> QED
    BY <1>1, <2>2, LockAssumption
<1>3. CASE ~ \E p \in Procs : Protects(k, p)
  BY <1>3, LockAssumption DEF Protected
<1> QED
  BY <1>2, <1>3

LEMMA ProtectedIsOwnerNext == TypeOK' /\ LeaseInv' => OwnersKnown'
  BY ProtectedIsOwner, PTL

(***************************************************************************)
(* A step that leaves who is inside and who is protected as they were is a *)
(* stuttering step of the promise.                                         *)
(***************************************************************************)
LEMMA StutterOfPromise ==
  ASSUME OwnersKnown, OwnersKnown',
         \A p \in Procs, k \in Keys : Inside(p, k)' <=> Inside(p, k),
         \A p \in Procs, k \in Keys : Protects(k, p)' <=> Protects(k, p)
  PROVE  UNCHANGED <<Working, Protected>>
<1>1. Working' = Working
  BY DEF Working
<1>2. ASSUME NEW k \in Keys PROVE Protected'[k] = Protected[k]
  <2>1. CASE \E p \in Procs : Protects(k, p)
    BY <2>1 DEF OwnersKnown
  <2>2. CASE ~ \E p \in Procs : Protects(k, p)
    BY <2>2 DEF OwnersKnown
  <2> QED
    BY <2>1, <2>2
<1>3. Protected' = Protected
  BY <1>2 DEF Protected
<1> QED
  BY <1>1, <1>3

(***************************************************************************)
(* Every step of the lock is a step of KeyedLease or a stuttering step.    *)
(***************************************************************************)
LEMMA StepImplementsPromise ==
  ASSUME TypeOK, LeaseInv, OwnersKnown, TypeOK', LeaseInv', OwnersKnown', Next
  PROVE  [Promise!Next]_<<Working, Protected>>
<1> DEFINE Stutter == UNCHANGED <<Working, Protected>>
<1> USE LockAssumption DEF TypeOK, Inside, Protects, HeldBy
<1>1. ASSUME NEW p \in Procs, NEW k \in Keys, NEW t \in Tokens, RequestLock(p, k, t)
      PROVE  Stutter
  <2> HIDE DEF Stutter
  <2>1. \A q \in Procs, l \in Keys : Inside(q, l)' <=> Inside(q, l)
    BY <1>1 DEF RequestLock
  <2>2. \A q \in Procs, l \in Keys : Protects(l, q)' <=> Protects(l, q)
    BY <1>1 DEF RequestLock
  <2> QED
    BY <2>1, <2>2, StutterOfPromise DEF Stutter
<1>2. ASSUME NEW p \in Procs, DeleteExpired(p) PROVE Stutter
  <2>1. \A q \in Procs, l \in Keys : Inside(q, l)' <=> Inside(q, l)
    BY <1>2 DEF DeleteExpired
  <2>2. \A q \in Procs, l \in Keys : Protects(l, q)' <=> Protects(l, q)
    BY <1>2 DEF DeleteExpired, Expired
  <2> QED
    BY <2>1, <2>2, StutterOfPromise
<1>3. ASSUME NEW p \in Procs, CreateLease(p) PROVE Promise!Enter(p, key[p])
  <2>1. key[p] \in Keys /\ token[p] \in Tokens
    BY <1>3 DEF CreateLease, LeaseInv, Engaged
  <2>2. p \notin Working[key[p]] /\ Protected[key[p]] = None
    BY <1>3, <2>1 DEF CreateLease, Working, OwnersKnown
  <2>3. Working' = [Working EXCEPT ![key[p]] = @ \union {p}]
    <3>1. ASSUME NEW l \in Keys
          PROVE Working'[l] = IF l = key[p] THEN Working[l] \union {p} ELSE Working[l]
      BY <1>3, <2>1 DEF CreateLease, Working
    <3> QED
      BY <3>1, <2>1 DEF Working
  <2>4. Protected' = [Protected EXCEPT ![key[p]] = p]
    <3>1. Protects(key[p], p)'
      BY <1>3, <2>1 DEF CreateLease, Lease, Row
    <3>2. ASSUME NEW l \in Keys, l # key[p] PROVE Protected'[l] = Protected[l]
      <4>1. \A q \in Procs : Protects(l, q)' <=> Protects(l, q)
        BY <1>3, <2>1, <3>2 DEF CreateLease
      <4> QED
        BY <4>1 DEF OwnersKnown
    <3>3. Protected'[key[p]] = p
      BY <3>1, <2>1, <1>3 DEF OwnersKnown, CreateLease
    <3> QED
      BY <3>2, <3>3, <2>1 DEF Protected
  <2> QED
    BY <2>2, <2>3, <2>4 DEF Promise!Enter
<1>4. ASSUME NEW p \in Procs, Contended(p) PROVE Stutter
  <2>1. \A q \in Procs, l \in Keys : Inside(q, l)' <=> Inside(q, l)
    BY <1>4 DEF Contended, Leave
  <2>2. \A q \in Procs, l \in Keys : Protects(l, q)' <=> Protects(l, q)
    BY <1>4 DEF Contended, Leave
  <2> QED
    BY <2>1, <2>2, StutterOfPromise
<1>5. ASSUME NEW p \in Procs, CreateUnacknowledged(p) PROVE Stutter
  <2>1. \A q \in Procs, l \in Keys : Inside(q, l)' <=> Inside(q, l)
    BY <1>5 DEF CreateUnacknowledged, Leave, Lease, LeaseInv, Engaged, TokensDistinct
  <2>2. \A q \in Procs, l \in Keys : Protects(l, q)' <=> Protects(l, q)
    BY <1>5 DEF CreateUnacknowledged, Leave, Lease, LeaseInv, Engaged, TokensDistinct
  <2> QED
    BY <2>1, <2>2, StutterOfPromise
<1>6. ASSUME NEW p \in Procs, SendHeartbeat(p) PROVE Stutter
  <2>1. \A q \in Procs, l \in Keys : Inside(q, l)' <=> Inside(q, l)
    BY <1>6 DEF SendHeartbeat
  <2>2. \A q \in Procs, l \in Keys : Protects(l, q)' <=> Protects(l, q)
    BY <1>6 DEF SendHeartbeat
  <2> QED
    BY <2>1, <2>2, StutterOfPromise
<1>7. ASSUME NEW p \in Procs, Abandon(p), at[p] # "inside" PROVE Stutter
  <2>1. \A q \in Procs, l \in Keys : Inside(q, l)' <=> Inside(q, l)
    BY <1>7 DEF Abandon, Leave
  <2>2. \A q \in Procs, l \in Keys : Protects(l, q)' <=> Protects(l, q)
    BY <1>7 DEF Abandon, Leave
  <2> QED
    BY <2>1, <2>2, StutterOfPromise
<1>8. ASSUME NEW p \in Procs, at[p] = "inside", ReleaseLock(p) \/ Abandon(p)
      PROVE  Promise!Exit(p, key[p])
  <2>1. key[p] \in Keys /\ token[p] \in Tokens
    BY <1>8 DEF LeaseInv, Engaged
  <2>2. /\ at' = [at EXCEPT ![p] = "idle"]
        /\ key' = [key EXCEPT ![p] = None]
        /\ token' = [token EXCEPT ![p] = None]
        /\ \A l \in Keys \ {key[p]} : row'[l] = row[l]
    BY <1>8 DEF ReleaseLock, Abandon, Leave
  <2>3. ASSUME NEW q \in Procs, q # p, NEW l \in Keys
        PROVE  /\ Inside(q, l)' <=> Inside(q, l)
               /\ Protects(l, q)' <=> Protects(l, q)
    <3>1. Inside(q, l)' <=> Inside(q, l)
      BY <2>2, <2>3
    <3>2. CASE l # key[p]
      BY <2>2, <2>3, <3>2
    <3>3. CASE l = key[p] /\ HeldBy(l, token[p])
      <4>1. ~ HeldBy(l, token[q]) /\ (row'[l] = row[l] \/ row'[l] = None)
        BY <2>1, <2>3, <3>3, <1>8 DEF LeaseInv, TokensDistinct, ReleaseLock, Abandon
      <4> QED
        BY <2>2, <2>3, <3>1, <4>1
    <3>4. CASE l = key[p] /\ ~ HeldBy(l, token[p])
      BY <2>2, <2>3, <3>4, <1>8 DEF ReleaseLock, Abandon
    <3> QED
      BY <3>1, <3>2, <3>3, <3>4
  <2>4. \A l \in Keys : ~ Inside(p, l)' /\ ~ Protects(l, p)'
    BY <2>2
  <2>5. p \in Working[key[p]]
    BY <1>8, <2>1 DEF Working
  <2>6. Working' = [Working EXCEPT ![key[p]] = @ \ {p}]
    <3>1. ASSUME NEW l \in Keys
          PROVE  Working'[l] = IF l = key[p] THEN Working[l] \ {p} ELSE Working[l]
      BY <2>3, <2>4, <1>8 DEF Working
    <3> QED
      BY <3>1, <2>1 DEF Working
  <2>7. \A l \in Keys : Protected'[l] = IF l = key[p] /\ Protected[l] = p
                                        THEN None ELSE Protected[l]
    <3> SUFFICES ASSUME NEW l \in Keys
                 PROVE  Protected'[l] = IF l = key[p] /\ Protected[l] = p
                                        THEN None ELSE Protected[l]
      OBVIOUS
    <3>1. CASE Protects(l, p)
      <4>1. l = key[p] /\ Protected[l] = p
        BY <3>1 DEF OwnersKnown
      <4>2. \A q \in Procs : ~ Protects(l, q)'
        BY <4>1, <2>3, <2>4 DEF OwnersKnown
      <4> QED
        BY <4>1, <4>2 DEF OwnersKnown
    <3>2. CASE ~ Protects(l, p)
      <4>1. Protected[l] # p
        BY <3>2 DEF OwnersKnown
      <4>2. \A q \in Procs : Protects(l, q)' <=> Protects(l, q)
        BY <3>2, <2>3, <2>4
      <4>3. Protected'[l] = Protected[l]
        BY <4>2 DEF OwnersKnown
      <4> QED
        BY <4>1, <4>3
    <3> QED
      BY <3>1, <3>2
  <2>8. Protected' = IF Protected[key[p]] = p
                     THEN [Protected EXCEPT ![key[p]] = None] ELSE Protected
    <3>1. /\ Protected = [l \in Keys |-> Protected[l]]
          /\ Protected' = [l \in Keys |-> Protected'[l]]
      BY DEF Protected
    <3> HIDE DEF TypeOK, Inside, Protects, HeldBy
    <3> QED
      BY <2>1, <2>7, <3>1, Zenon
  <2> QED
    BY <2>5, <2>6, <2>8 DEF Promise!Exit
<1>9. ASSUME NEW b \in beats, ExtendLease(b)
      PROVE  Stutter \/ Promise!Regain(b.proc, b.key)
  <2>1. \A q \in Procs, l \in Keys : Inside(q, l)' <=> Inside(q, l)
    BY <1>9 DEF ExtendLease
  <2>2. b.key \in Keys /\ b.proc \in Procs /\ b.token \in Tokens /\ Ttl[b.proc] > 0
    BY DEF Beat
  <2>3. CASE /\ HeldBy(b.key, b.token)
             /\ row[b.key].left = 0
             /\ \E q \in Procs : token[q] = b.token
    <3>1. token[b.proc] = b.token /\ Inside(b.proc, b.key)
      BY <2>3 DEF LeaseInv, BeatsOfCallers
    <3>2. b.proc \in Working[b.key] /\ Protected[b.key] = None
      BY <2>2, <2>3, <3>1 DEF Working, OwnersKnown
    <3>3. ASSUME NEW l \in Keys, l # b.key PROVE Protected'[l] = Protected[l]
      <4>1. \A q \in Procs : Protects(l, q)' <=> Protects(l, q)
        BY <1>9, <3>3 DEF ExtendLease
      <4> QED
        BY <4>1 DEF OwnersKnown
    <3>4. Protected'[b.key] = b.proc
      <4>1. row'[b.key] = [holder |-> b.token, left |-> Ttl[b.proc]]
        BY <1>9, <2>2, <2>3 DEF ExtendLease
      <4>2. row'[b.key] \in Row
        BY <2>2, <4>1 DEF Row
      <4>3. Protects(b.key, b.proc)'
        BY <1>9, <2>2, <3>1, <4>1, <4>2 DEF ExtendLease
      <4> QED
        BY <4>3, <2>2 DEF OwnersKnown
    <3>5. Protected' = [Protected EXCEPT ![b.key] = b.proc]
      BY ZenonT(60), <2>2, <3>3, <3>4 DEF Protected
    <3>6. Working' = Working
      BY <2>1 DEF Working
    <3> QED
      BY <3>2, <3>5, <3>6 DEF Promise!Regain
  <2>4. CASE ~ /\ HeldBy(b.key, b.token)
               /\ row[b.key].left = 0
               /\ \E q \in Procs : token[q] = b.token
    <3>1. ASSUME NEW q \in Procs, NEW l \in Keys
          PROVE  Protects(l, q)' <=> Protects(l, q)
      <4>1. CASE HeldBy(b.key, b.token) /\ l = b.key
        <5>1. row'[l] = [holder |-> b.token, left |-> Ttl[b.proc]] /\ row'[l] \in Row
          BY <1>9, <2>2, <4>1 DEF ExtendLease, Row
        <5>2. row[l] \in Row /\ row[l].holder = b.token /\ row'[l].holder = b.token
          BY <4>1, <5>1
        <5>3. token[q] = b.token => row[l].left > 0 /\ row'[l].left > 0
          BY <2>2, <2>4, <4>1, <5>1, <5>2 DEF Row
        <5>4. HeldBy(l, token[q])' <=> HeldBy(l, token[q])
          BY <1>9, <5>1, <5>2 DEF ExtendLease
        <5>5. HeldBy(l, token[q]) => row[l].left > 0 /\ row'[l].left > 0
          BY <5>2, <5>3
        <5> QED
          BY <2>1, <5>4, <5>5
      <4>2. CASE ~ (HeldBy(b.key, b.token) /\ l = b.key)
        BY <1>9, <4>2 DEF ExtendLease
      <4> QED
        BY <4>1, <4>2
    <3> QED
      BY <2>1, <3>1, StutterOfPromise
  <2> QED
    BY <2>3, <2>4
<1>10. ASSUME NEW b \in beats, LoseHeartbeat(b) PROVE Stutter
  <2>1. \A q \in Procs, l \in Keys : Inside(q, l)' <=> Inside(q, l)
    BY <1>10 DEF LoseHeartbeat
  <2>2. \A q \in Procs, l \in Keys : Protects(l, q)' <=> Protects(l, q)
    BY <1>10 DEF LoseHeartbeat
  <2> QED
    BY <2>1, <2>2, StutterOfPromise
<1>11. ASSUME Tick PROVE Promise!Lapse({l \in Keys : Protected'[l] = None})
  <2>1. Working' = Working
    BY <1>11 DEF Tick, Working
  <2>2. ASSUME NEW l \in Keys, NEW q \in Procs, Protects(l, q)' PROVE Protects(l, q)
    BY <1>11, <2>2 DEF Tick, Row
  <2>3. ASSUME NEW l \in Keys, Protected'[l] # None PROVE Protected'[l] = Protected[l]
    <3>1. PICK q \in Procs : Protects(l, q)'
      BY <2>3 DEF OwnersKnown
    <3> QED
      BY <3>1, <2>2 DEF OwnersKnown
  <2>4. Protected' = [k \in Keys |-> IF k \in {l \in Keys : Protected'[l] = None}
                                    THEN None ELSE Protected[k]]
    BY <2>3 DEF Protected
  <2> QED
    BY <2>1, <2>4 DEF Promise!Lapse
<1> QED
  <2>1. Promise!Lapse({l \in Keys : Protected'[l] = None}) => Promise!Next
    BY DEF Promise!Next
  <2>2. \A p \in Procs, k \in Keys :
          Promise!Enter(p, k) \/ Promise!Exit(p, k) \/ Promise!Regain(p, k) => Promise!Next
    BY DEF Promise!Next
  <2>3. \A p \in Procs : at[p] = "inside" \/ at[p] = "create" => key[p] \in Keys
    BY DEF LeaseInv, Engaged
  <2> QED
    BY <1>1, <1>2, <1>3, <1>4, <1>5, <1>6, <1>7, <1>8, <1>9, <1>10, <1>11,
       <2>1, <2>2, <2>3
    DEF Next, CreateLease, ReleaseLock, Beat

(***************************************************************************)
(* The lease lock implements KeyedLease.                                   *)
(***************************************************************************)
THEOREM Implementation == Spec => ImplementsKeyedLease
<1>1. Init => Promise!Init
  BY DEF Init, Promise!Init, Working, Protected, Protects, Inside
<1>2. TypeOK /\ LeaseInv /\ OwnersKnown /\ (TypeOK /\ LeaseInv /\ OwnersKnown)' /\ [Next]_vars
        => [Promise!Next]_<<Working, Protected>>
  <2>1. UNCHANGED vars => UNCHANGED <<Working, Protected>>
    BY DEF vars, Working, Protected, Protects, Inside, HeldBy
  <2> QED
    BY <2>1, StepImplementsPromise
<1>3. TypeOK /\ LeaseInv => OwnersKnown
  BY ProtectedIsOwner
<1> QED
  BY <1>1, <1>2, <1>3, LeaseInvHolds, PTL DEF Spec, ImplementsKeyedLease, Promise!Spec
=============================================================================
