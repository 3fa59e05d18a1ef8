-------------------------- MODULE AtomicPromotion --------------------------
(***************************************************************************)
(* What promoteSemioteToNoema amounts to, without its queries, guards,     *)
(* retries and read-backs: a promotion is one step. A useful memory, at    *)
(* that moment and not when it was read, joins the supports of the noema   *)
(* of its claim, all of which have a row; the memory is marked with exactly*)
(* the supports the noema then has, and the evidence is counted anew.      *)
(***************************************************************************)
EXTENDS Naturals, FiniteSets

CONSTANTS Memories, Noemas, ClaimOf, Proven

VARIABLES
  state,    \* [Memories -> "active", "inactive" or "erased"]
  grade,    \* [Memories -> "unproven", "useful" or "wrong"]
  mark,     \* [Memories -> the supports it was promoted with]
  supports, \* [Noemas -> the memories behind it]
  evidence  \* [Noemas -> how many they are]

Init ==
  /\ state = [m \in Memories |-> "active"]
  /\ grade = [m \in Memories |-> IF m \in Proven THEN "useful" ELSE "unproven"]
  /\ mark = [m \in Memories |-> {}]
  /\ supports = [n \in Noemas |-> {}]
  /\ evidence = [n \in Noemas |-> 0]

Behind(m) == supports[ClaimOf[m]] \union {m}

Promote(m) ==
  /\ grade[m] = "useful"
  /\ \A s \in Behind(m) : state[s] # "erased"
  /\ supports' = [supports EXCEPT ![ClaimOf[m]] = Behind(m)]
  /\ evidence' = [evidence EXCEPT ![ClaimOf[m]] = Cardinality(Behind(m))]
  /\ mark' = [mark EXCEPT ![m] = Behind(m)]
  /\ UNCHANGED <<state, grade>>

(* Its uses and corrections are counted; an erased memory is not rated. *)
Rate(m, g) ==
  /\ state[m] # "erased"
  /\ grade' = [grade EXCEPT ![m] = g]
  /\ UNCHANGED <<state, mark, supports, evidence>>

(* Superseded, restored or deleted; nothing comes back from an erasure. *)
Edit(m, new) ==
  /\ state[m] # "erased"
  /\ state' = [state EXCEPT ![m] = new]
  /\ UNCHANGED <<grade, mark, supports, evidence>>

Next ==
  \E m \in Memories :
    \/ Promote(m)
    \/ \E g \in {"unproven", "useful", "wrong"} : Rate(m, g)
    \/ \E new \in {"active", "inactive", "erased"} : Edit(m, new)

Spec == Init /\ [][Next]_<<state, grade, mark, supports, evidence>>
=============================================================================
