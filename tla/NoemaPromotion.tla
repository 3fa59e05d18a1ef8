--------------------------- MODULE NoemaPromotion ---------------------------
(***************************************************************************)
(* Noemas: claims that memories which keep proving useful are promoted to  *)
(* (promoteSemioteToNoema in src/storage/surreal/phase2-store.ts). A       *)
(* consolidation run promotes every active memory of the user; a feedback  *)
(* request rates the memories of a recall and promotes each; the capture   *)
(* path rates them without promoting. A promotion reads its source, the    *)
(* noema of its claim and the other supports in separate queries, then     *)
(* sends one transaction whose guards compare every row with what was read,*)
(* and when that throws it reads the rows back to tell what became of it.  *)
(***************************************************************************)
EXTENDS Naturals, FiniteSets

CONSTANTS
  Memories, \* semiote rows of one user
  Noemas,   \* noema ids
  ClaimOf,  \* [Memories -> Noemas], the id deriveNoemaClaimContract leads to
  Runs,     \* consolidation runs
  Requests, \* feedback requests and capture-path evaluations
  Proven,   \* memories that are useful already
  None,     \* no memory
  MaxCalls, \* bound: requests
  MaxEdits, \* bound: what a user does to the memories
  MaxFaults \* bound: lost answers, reads that throw

ASSUME PromotionAssumption ==
  /\ IsFiniteSet(Memories) /\ None \notin Memories
  /\ ClaimOf \in [Memories -> Noemas] /\ Proven \subseteq Memories
  /\ Memories \intersect Noemas = {} /\ Runs \intersect Requests = {}
  /\ MaxCalls \in Nat /\ MaxEdits \in Nat /\ MaxFaults \in Nat

VARIABLES
  state,    \* [Memories -> "active", "inactive" or "erased"]
  grade,    \* [Memories -> what shouldPromoteToNoema makes of its counters]
  mark,     \* [Memories -> supports its promotion marker names, {} for none]
  supports, \* [Noemas -> support_semiote_ids, {} when there is no row]
  evidence, \* [Noemas -> evidence_count]
  pc,       \* [Actors -> where it is]
  todo,     \* [Actors -> memories still to be visited]
  source,   \* [Actors -> the memory being promoted]
  support,  \* [Actors -> supportSemioteIds of the promotion]
  unread,   \* [Actors -> rows still to be read, or read back]
  same,     \* [Actors -> rows it read that are as it read them]
  mine,     \* [Actors -> rows last written by its transaction]
  base,     \* [Requests -> the grades it read]
  inDoubt,  \* actors whose transaction may still reach the database
  ran,      \* [Actors -> its transaction was applied before both rows it
            \*  writes had been read back] (history)
  looks,    \* [Actors -> outcomes the rows read back so far allow]
  answer,   \* [Actors -> noemaPromotionOutcome of the error thrown]
  calls, edits, faults

Actors == Runs \union Requests
Outcomes == {"committed", "rolled_back"}
Grades == {"unproven", "useful", "wrong"}
Claim(a) == ClaimOf[source[a]]

rows  == <<state, grade, mark, supports, evidence>>
reads == <<support, unread, same, mine>>
tx    == <<inDoubt, ran, looks, answer>>
bounds == <<calls, edits, faults>>
vars == <<rows, pc, todo, source, reads, base, tx, bounds>>

Init ==
  /\ state = [m \in Memories |-> "active"]
  /\ grade = [m \in Memories |-> IF m \in Proven THEN "useful" ELSE "unproven"]
  /\ mark = [m \in Memories |-> {}]
  /\ supports = [n \in Noemas |-> {}]
  /\ evidence = [n \in Noemas |-> 0]
  /\ pc = [a \in Actors |-> "idle"]
  /\ todo = [a \in Actors |-> {}]
  /\ source = [a \in Actors |-> None]
  /\ support = [a \in Actors |-> {}]
  /\ unread = [a \in Actors |-> {}]
  /\ same = [a \in Actors |-> {}]
  /\ mine = [a \in Actors |-> {}]
  /\ base = [f \in Requests |-> [m \in Memories |-> "unproven"]]
  /\ inDoubt = {}
  /\ ran = [a \in Actors |-> FALSE]
  /\ looks = [a \in Actors |-> {}]
  /\ answer = [a \in Actors |-> "none"]
  /\ calls = 0 /\ edits = 0 /\ faults = 0

Goto(a, at) == pc' = [pc EXCEPT ![a] = at]
Fault == faults < MaxFaults /\ faults' = faults + 1

(* Every write of a row sets its updated_at: whoever read it before has    *)
(* something else.                                                         *)
Rewritten(changed) ==
  /\ same' = [a \in Actors |-> same[a] \ changed]
  /\ mine' = [a \in Actors |-> mine[a] \ changed]

(* A promotion is over, and with it what it read *)
Forgotten(a) ==
  /\ source' = [source EXCEPT ![a] = None]
  /\ support' = [support EXCEPT ![a] = {}]
  /\ unread' = [unread EXCEPT ![a] = {}]
  /\ same' = [same EXCEPT ![a] = {}]
  /\ mine' = [mine EXCEPT ![a] = {}]

(***************************************************************************)
(* Who promotes                                                            *)
(***************************************************************************)
(* Step 4 of a consolidation run lists the active memories. The lease keeps*)
(* runs apart; one that outlives its lease meets another the way it meets a*)
(* request here.                                                           *)
StartRun(r) ==
  /\ \A q \in Runs : pc[q] = "idle"
  /\ todo' = [todo EXCEPT ![r] = {m \in Memories : state[m] = "active"}]
  /\ Goto(r, "next")
  /\ UNCHANGED <<rows, source, reads, base, tx, bounds>>

(* POST /hooks/feedback, and fireUsefulnessAccrual after a capture: the    *)
(* rows of a recall are read once, in one query                            *)
StartRequest(f, recalled, how) ==
  /\ pc[f] = "idle"
  /\ calls < MaxCalls
  /\ calls' = calls + 1
  /\ todo' = [todo EXCEPT ![f] = {m \in recalled : state[m] # "erased"}]
  /\ base' = [base EXCEPT ![f] = grade]
  /\ Goto(f, how)
  /\ UNCHANGED <<rows, source, reads, tx, edits, faults>>

(* applyUsefulnessFeedback: three successful uses, two of them in other    *)
(* sessions, and a high score prove a memory; the score may fall again; a  *)
(* correction counts for good.                                             *)
Rated(g, corrected) ==
  IF corrected \/ g = "wrong" THEN {"wrong"} ELSE {"unproven", "useful"}

(* patchSemioteUsefulness writes the counters computed from the rows read  *)
(* at the start; a row that is gone stays gone.                            *)
Patch(f, m, g) ==
  /\ grade' = IF state[m] = "erased" THEN grade ELSE [grade EXCEPT ![m] = g]
  /\ Rewritten({m})
  /\ todo' = [todo EXCEPT ![f] = @ \ {m}]
  /\ base' = [base EXCEPT ![f][m] = "unproven"]
  /\ UNCHANGED <<state, mark, supports, evidence, support, unread, tx, bounds>>

PatchItem(f, m, corrected) ==
  /\ pc[f] = "next" /\ f \in Requests
  /\ m \in todo[f]
  /\ \E g \in Rated(base[f][m], corrected) : Patch(f, m, g)
  /\ source' = [source EXCEPT ![f] = m]
  /\ Goto(f, "patched")

(* accrueUsefulnessFromCapture does not promote, and corrects nothing. *)
AccrueItem(f, m) ==
  /\ pc[f] = "accrue"
  /\ m \in todo[f]
  /\ \E g \in Rated(base[f][m], FALSE) : Patch(f, m, g)
  /\ UNCHANGED <<source, pc>>

EndJob(a) ==
  /\ pc[a] \in {"next", "accrue"}
  /\ todo[a] = {}
  /\ Goto(a, "idle")
  /\ base' = [f \in Requests |-> IF f = a THEN [m \in Memories |-> "unproven"] ELSE base[f]]
  /\ UNCHANGED <<rows, todo, source, reads, tx, bounds>>

(***************************************************************************)
(* promoteSemioteToNoema                                                   *)
(***************************************************************************)
Refuse(a) == Goto(a, "next") /\ Forgotten(a)

(* readNoemaPromotionMetadata; whether the memory is active is not asked. *)
ReadMetadata(a, m) ==
  /\ \/ pc[a] = "next" /\ a \in Runs /\ m \in todo[a]
     \/ pc[a] = "patched" /\ m = source[a]
  /\ todo' = [todo EXCEPT ![a] = @ \ {m}]
  /\ IF state[m] = "erased"
     THEN Refuse(a)
     ELSE /\ Goto(a, "row")
          /\ source' = [source EXCEPT ![a] = m]
          /\ same' = [same EXCEPT ![a] = {m}]
          /\ UNCHANGED <<support, unread, mine>>
  /\ UNCHANGED <<rows, base, tx, bounds>>

(* readGuardedNoemaPromotionRow, shouldPromoteToNoema *)
ReadRow(a) ==
  /\ pc[a] = "row"
  /\ IF source[a] \in same[a] /\ grade[source[a]] = "useful"
     THEN /\ Goto(a, "target")
          /\ support' = [support EXCEPT ![a] = {source[a]} \union mark[source[a]]]
          /\ UNCHANGED <<source, unread, same, mine>>
     ELSE Refuse(a)
  /\ UNCHANGED <<rows, todo, base, tx, bounds>>

(* readNoemaPromotionTargetMetadata *)
(* Variant: a claim that has a noema already is not reinforced *)
ReadNewTarget(a) ==
  /\ pc[a] = "target"
  /\ IF supports[Claim(a)] = {}
     THEN /\ Goto(a, "supports")
          /\ unread' = [unread EXCEPT ![a] = support[a] \ {source[a]}]
          /\ same' = [same EXCEPT ![a] = @ \union {Claim(a)}]
          /\ UNCHANGED <<source, support, mine>>
     ELSE Refuse(a)
  /\ UNCHANGED <<rows, todo, base, tx, bounds>>

ReadTarget(a) ==
  /\ pc[a] = "target"
  /\ support' = [support EXCEPT ![a] = @ \union supports[Claim(a)]]
  /\ unread' = [unread EXCEPT ![a] = support'[a] \ {source[a]}]
  /\ same' = [same EXCEPT ![a] = @ \union {Claim(a)}]
  /\ Goto(a, "supports")
  /\ UNCHANGED <<rows, todo, source, mine, base, tx, bounds>>

(* readNoemaPromotionSupportMetadata: one that is missing ends it. *)
ReadSupport(a, m) ==
  /\ pc[a] = "supports"
  /\ m \in unread[a]
  /\ IF state[m] = "erased"
     THEN Refuse(a)
     ELSE /\ unread' = [unread EXCEPT ![a] = @ \ {m}]
          /\ same' = [same EXCEPT ![a] = @ \union {m}]
          /\ UNCHANGED <<pc, source, support, mine>>
  /\ UNCHANGED <<rows, todo, base, tx, bounds>>

(* The guards of the transaction: source, target and supports are what was *)
(* read, a target that was missing still is (CREATE ONLY).                 *)
(* Variants: without the target's, the source's, the other supports' *)
GuardsButTarget(a) == support[a] \subseteq same[a]
GuardsButSource(a) == (support[a] \ {source[a]}) \union {Claim(a)} \subseteq same[a]
GuardsButSupports(a) == {source[a], Claim(a)} \subseteq same[a]
Guards(a) == support[a] \union {Claim(a)} \subseteq same[a]

Larger(i, j) == IF i > j THEN i ELSE j

Transaction(a) ==
  /\ supports' = [supports EXCEPT ![Claim(a)] = @ \union support[a]]
  /\ evidence' = [evidence EXCEPT ![Claim(a)] = Larger(@, Cardinality(support[a]))]
  /\ mark' = [mark EXCEPT ![source[a]] = support[a]]
  /\ UNCHANGED <<state, grade>>

Ready(a) == pc[a] = "supports" /\ unread[a] = {}

(* promoted: true *)
Commit(a) ==
  /\ Ready(a)
  /\ Guards(a)
  /\ Transaction(a)
  /\ same' = [b \in Actors |-> IF b = a THEN {} ELSE same[b] \ {source[a], Claim(a)}]
  /\ mine' = [b \in Actors |-> IF b = a THEN {} ELSE mine[b] \ {source[a], Claim(a)}]
  /\ source' = [source EXCEPT ![a] = None]
  /\ support' = [support EXCEPT ![a] = {}]
  /\ Goto(a, "next")
  /\ UNCHANGED <<todo, unread, base, tx, bounds>>

(* The transaction throws: all rows are read again. *)
StartReadback(a) ==
  /\ Goto(a, "readback")
  /\ unread' = [unread EXCEPT ![a] = support[a] \union {Claim(a)}]
  /\ looks' = [looks EXCEPT ![a] = Outcomes]
  /\ UNCHANGED <<rows, todo, source, support, same, mine, base, ran, answer, calls, edits>>

GuardFails(a) ==
  /\ Ready(a)
  /\ ~Guards(a)
  /\ StartReadback(a)
  /\ UNCHANGED <<inDoubt, faults>>

(* The connection is lost with the transaction under way *)
AnswerLost(a) ==
  /\ Ready(a)
  /\ Fault
  /\ StartReadback(a)
  /\ inDoubt' = inDoubt \union {a}

(* which the database applies, now or later, *)
Land(a) ==
  /\ a \in inDoubt
  /\ Guards(a)
  /\ Transaction(a)
  /\ same' = [b \in Actors |-> same[b] \ {source[a], Claim(a)}]
  /\ mine' = [b \in Actors |-> IF b = a THEN {source[a], Claim(a)}
                               ELSE mine[b] \ {source[a], Claim(a)}]
  /\ inDoubt' = inDoubt \ {a}
  /\ ran' = [ran EXCEPT ![a] = {source[a], Claim(a)} \intersect unread[a] # {}]
  /\ UNCHANGED <<pc, todo, source, support, unread, base, looks, answer, bounds>>

(* or never: it did not arrive, or a guard fails. *)
Drop(a) ==
  /\ a \in inDoubt
  /\ inDoubt' = inDoubt \ {a}
  /\ UNCHANGED <<rows, pc, todo, source, reads, base, ran, looks, answer, bounds>>

(* What a row read back allows: the two the transaction writes carry its   *)
(* time stamp or the one read, the others must not have changed.           *)
(* Variant: contents compared, time stamps not *)
AllowsByContent(a, x) ==
  IF x = source[a]
  THEN (IF mark[x] = support[a] THEN {"committed"} ELSE {}) \union
       (IF x \in same[a] THEN {"rolled_back"} ELSE {})
  ELSE IF x = Claim(a)
  THEN (IF supports[x] = support[a] THEN {"committed"} ELSE {}) \union
       (IF x \in same[a] THEN {"rolled_back"} ELSE {})
  ELSE IF x \in same[a] THEN Outcomes ELSE {}

Allows(a, x) ==
  CASE x \in {source[a], Claim(a)} /\ x \in mine[a] -> {"committed"}
    [] x \in {source[a], Claim(a)} /\ x \in same[a] -> {"rolled_back"}
    [] x \notin {source[a], Claim(a)} /\ x \in same[a] -> Outcomes
    [] OTHER -> {}

Outcome(allowed) ==
  IF "committed" \in allowed THEN "committed"
  ELSE IF "rolled_back" \in allowed THEN "rolled_back" ELSE "inconsistent_or_unresolved"

(* The error is thrown with the outcome attached: a run, or a request, ends*)
(* there. What it read is of use only to a transaction still under way.    *)
Throw(a, outcome) ==
  /\ Goto(a, "over")
  /\ answer' = [answer EXCEPT ![a] = outcome]
  /\ todo' = [todo EXCEPT ![a] = {}]
  /\ looks' = [looks EXCEPT ![a] = {}]
  /\ IF a \in inDoubt
     THEN unread' = [unread EXCEPT ![a] = {}] /\ UNCHANGED <<source, support, same, mine, ran>>
     ELSE Forgotten(a) /\ ran' = [ran EXCEPT ![a] = FALSE]
  /\ UNCHANGED <<rows, base, inDoubt, calls, edits>>

(* The reads are independent of each other. *)
ReadBack(a, x) ==
  /\ pc[a] = "readback"
  /\ x \in unread[a]
  /\ unread[a] # {x}
  /\ unread' = [unread EXCEPT ![a] = @ \ {x}]
  /\ looks' = [looks EXCEPT ![a] = @ \intersect Allows(a, x)]
  /\ UNCHANGED <<rows, pc, todo, source, support, same, mine, base, inDoubt, ran, answer, bounds>>

ReadLastBack(a, x) ==
  /\ pc[a] = "readback"
  /\ unread[a] = {x}
  /\ Throw(a, Outcome(looks[a] \intersect Allows(a, x)))
  /\ UNCHANGED faults

ReadBackFails(a) ==
  /\ pc[a] = "readback"
  /\ Fault
  /\ Throw(a, "inconsistent_or_unresolved")

(* A query before the transaction throws. *)
ReadFails(a) ==
  /\ pc[a] \in {"row", "target", "supports"}
  /\ Fault
  /\ Throw(a, "none")

(* Nothing of the job is under way any more: its name is free. *)
Settle(a) ==
  /\ pc[a] = "over"
  /\ a \notin inDoubt
  /\ Goto(a, "idle")
  /\ Forgotten(a)
  /\ base' = [f \in Requests |-> IF f = a THEN [m \in Memories |-> "unproven"] ELSE base[f]]
  /\ ran' = [ran EXCEPT ![a] = FALSE]
  /\ answer' = [answer EXCEPT ![a] = "none"]
  /\ UNCHANGED <<rows, todo, inDoubt, looks, bounds>>

(***************************************************************************)
(* The memories meanwhile                                                  *)
(***************************************************************************)
(* deleteMemoryById, soft and hard, restoreMemoryById, a supersession; each*)
(* writes the row.                                                         *)
Edit(m, new) ==
  /\ state[m] \notin {"erased", new}
  /\ edits < MaxEdits
  /\ edits' = edits + 1
  /\ state' = [state EXCEPT ![m] = new]
  /\ Rewritten({m})
  /\ UNCHANGED <<grade, mark, supports, evidence, pc, todo, source, support, unread,
                 base, tx, calls, faults>>

-----------------------------------------------------------------------------
Promote(a) ==
  \/ \E m \in Memories : ReadMetadata(a, m) \/ ReadSupport(a, m)
  \/ ReadRow(a) \/ ReadTarget(a)
  \/ Commit(a) \/ GuardFails(a)
  \/ \E x \in Memories \union Noemas : ReadBack(a, x) \/ ReadLastBack(a, x)

RunStep(r) == StartRun(r) \/ EndJob(r) \/ Promote(r) \/ Drop(r) \/ Settle(r)

RequestStep(f) ==
  \/ \E recalled \in SUBSET Memories \ {{}}, how \in {"next", "accrue"} :
       StartRequest(f, recalled, how)
  \/ \E m \in Memories : AccrueItem(f, m) \/ \E c \in BOOLEAN : PatchItem(f, m, c)
  \/ EndJob(f) \/ Promote(f) \/ Drop(f) \/ Settle(f)

Next ==
  \/ \E r \in Runs : RunStep(r)
  \/ \E f \in Requests : RequestStep(f)
  \/ \E a \in Actors : AnswerLost(a) \/ Land(a) \/ ReadFails(a) \/ ReadBackFails(a)
  \/ \E m \in Memories, new \in {"active", "inactive", "erased"} : Edit(m, new)

Spec == Init /\ [][Next]_vars /\ \A r \in Runs : WF_vars(RunStep(r))

-----------------------------------------------------------------------------
TypeOK ==
  /\ state \in [Memories -> {"active", "inactive", "erased"}]
  /\ grade \in [Memories -> Grades]
  /\ mark \in [Memories -> SUBSET Memories]
  /\ supports \in [Noemas -> SUBSET Memories]
  /\ evidence \in [Noemas -> Nat]
  /\ pc \in [Actors -> {"idle", "next", "accrue", "patched", "row", "target", "supports",
                        "readback", "over"}]
  /\ todo \in [Actors -> SUBSET Memories]
  /\ source \in [Actors -> Memories \union {None}]
  /\ support \in [Actors -> SUBSET Memories]
  /\ unread \in [Actors -> SUBSET (Memories \union Noemas)]
  /\ same \in [Actors -> SUBSET (Memories \union Noemas)]
  /\ mine \in [Actors -> SUBSET (Memories \union Noemas)]
  /\ base \in [Requests -> [Memories -> Grades]]
  /\ inDoubt \subseteq Actors
  /\ ran \in [Actors -> BOOLEAN]
  /\ looks \in [Actors -> SUBSET Outcomes]
  /\ answer \in [Actors -> Outcomes \union {"none", "inconsistent_or_unresolved"}]
  /\ calls \in 0..MaxCalls /\ edits \in 0..MaxEdits /\ faults \in 0..MaxFaults

(***************************************************************************)
(* A noema and the memories behind it agree, whoever promoted in between:  *)
(* its evidence_count is the number of its supports, and the supports a    *)
(* promoted memory was marked with are supports of the noema. The count is *)
(* computed from reads made before the transaction, the supports are a     *)
(* union made in it (phase2-store.ts, the UPDATE of the noema).            *)
(***************************************************************************)
EvidenceAgrees ==
  /\ \A n \in Noemas : evidence[n] = Cardinality(supports[n])
  /\ \A m \in Memories : mark[m] \subseteq supports[ClaimOf[m]]

(***************************************************************************)
(* A memory is promoted only while it is useful and uncorrected and all the*)
(* supports it brings still have a row, although all of that was read      *)
(* several queries earlier, and although a transaction whose answer was    *)
(* lost may be applied when its caller is long gone.                       *)
(***************************************************************************)
PromotesWhatItRead ==
  [][\A m \in Memories : mark'[m] # mark[m] =>
       /\ grade[m] = "useful"
       /\ \A s \in mark'[m] : state[s] # "erased"]_vars

(***************************************************************************)
(* Promotions are atomic: with all their queries, with answers lost and    *)
(* transactions applied late, the rows change only as if each promotion    *)
(* read and wrote in one step, at the moment its transaction is applied.   *)
(***************************************************************************)
Atomic == INSTANCE AtomicPromotion

ImplementsAtomicPromotion == Atomic!Spec

(***************************************************************************)
(* What the read-back says of a transaction that threw is so: 'committed'  *)
(* means that this very transaction was applied, not that another one left *)
(* the same rows, and 'rolled_back' that it was not when the later of the  *)
(* two rows it writes was read. (The database may still apply it after.)   *)
(***************************************************************************)
AnswerIsTrue ==
  [][\A a \in Actors : answer[a] = "none" =>
       /\ answer'[a] = "committed" => ran[a]
       /\ answer'[a] = "rolled_back" => ~ran[a]]_vars

(***************************************************************************)
(* Once requests, edits and faults stop, every memory that may be promoted *)
(* is, by the runs alone: a refusal or a guard that failed leaves it to the*)
(* next one. A noema that lost a support for good is never reinforced      *)
(* again, so its claim is left out.                                        *)
(***************************************************************************)
Promotable(m) ==
  /\ state[m] = "active" /\ grade[m] = "useful"
  /\ \A s \in supports[ClaimOf[m]] : state[s] # "erased"

EveryPromotableIsPromoted ==
  <>[](\A m \in Memories : Promotable(m) => mark[m] # {})
=============================================================================
