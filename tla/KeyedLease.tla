----------------------------- MODULE KeyedLease -----------------------------
(***************************************************************************)
(* What the callers of acquireLock are promised, without rows, clocks or   *)
(* heartbeats: per key a set of callers at work, at most one of whom is    *)
(* protected. A caller enters only when nobody is protected. Protection is *)
(* withdrawn by the passage of time alone (a caller whose lease runs out   *)
(* goes on working unprotected), and it may be regained by the caller that *)
(* lost it, as long as nobody else entered.                                *)
(***************************************************************************)
CONSTANTS Keys, Procs, Nobody

VARIABLES
  working,    \* [Keys -> SUBSET Procs]
  protected   \* [Keys -> Procs \union {Nobody}]

Init ==
  /\ working = [k \in Keys |-> {}]
  /\ protected = [k \in Keys |-> Nobody]

Enter(p, k) ==
  /\ p \notin working[k]
  /\ protected[k] = Nobody
  /\ working' = [working EXCEPT ![k] = @ \union {p}]
  /\ protected' = [protected EXCEPT ![k] = p]

Exit(p, k) ==
  /\ p \in working[k]
  /\ working' = [working EXCEPT ![k] = @ \ {p}]
  /\ protected' = IF protected[k] = p THEN [protected EXCEPT ![k] = Nobody] ELSE protected

(* A tick may end the protection of any number of callers *)
Lapse(S) ==
  /\ protected' = [k \in Keys |-> IF k \in S THEN Nobody ELSE protected[k]]
  /\ UNCHANGED working

Regain(p, k) ==
  /\ p \in working[k]
  /\ protected[k] = Nobody
  /\ protected' = [protected EXCEPT ![k] = p]
  /\ UNCHANGED working

(* The process of these callers ends: they are gone at once. *)
Die(S) ==
  /\ working' = [k \in Keys |-> working[k] \ S]
  /\ protected' = [k \in Keys |-> IF protected[k] \in S THEN Nobody ELSE protected[k]]

Next ==
  \/ \E p \in Procs, k \in Keys : Enter(p, k) \/ Exit(p, k) \/ Regain(p, k)
  \/ \E S \in SUBSET Keys : Lapse(S)
  \/ \E S \in SUBSET Procs : Die(S)

Spec == Init /\ [][Next]_<<working, protected>>
=============================================================================
