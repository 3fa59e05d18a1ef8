---------------------- MODULE NoemaPromotionProofs ----------------------
(***************************************************************************)
(* Theorems about NoemaPromotion, for any number of memories, claims, runs *)
(* and requests                                                            *)
(***************************************************************************)
EXTENDS NoemaPromotion, FiniteSetTheorems, TLAPS

USE PromotionAssumption

(* The steps of the system, one disjunct for each action *)
LEMMA Steps ==
  ASSUME [Next]_vars
  PROVE  \/ \E r \in Runs : StartRun(r)
         \/ \E f \in Requests, recalled \in SUBSET Memories, how \in {"next", "accrue"} :
              StartRequest(f, recalled, how)
         \/ \E f \in Requests, m \in Memories, c \in BOOLEAN : PatchItem(f, m, c)
         \/ \E f \in Requests, m \in Memories : AccrueItem(f, m)
         \/ \E a \in Actors : EndJob(a)
         \/ \E a \in Actors, m \in Memories : ReadMetadata(a, m)
         \/ \E a \in Actors : ReadRow(a)
         \/ \E a \in Actors : ReadTarget(a)
         \/ \E a \in Actors, m \in Memories : ReadSupport(a, m)
         \/ \E a \in Actors : Commit(a)
         \/ \E a \in Actors : GuardFails(a)
         \/ \E a \in Actors : AnswerLost(a)
         \/ \E a \in Actors : Land(a)
         \/ \E a \in Actors : Drop(a)
         \/ \E a \in Actors, x \in Memories \union Noemas : ReadBack(a, x)
         \/ \E a \in Actors, x \in Memories \union Noemas : ReadLastBack(a, x)
         \/ \E a \in Actors : ReadBackFails(a)
         \/ \E a \in Actors : ReadFails(a)
         \/ \E a \in Actors : Settle(a)
         \/ \E m \in Memories, new \in {"active", "inactive", "erased"} : Edit(m, new)
         \/ UNCHANGED vars
<1>1. CASE \E r \in Runs : RunStep(r)
  <2>1. PICK r \in Runs : RunStep(r)
    BY <1>1
  <2>2. r \in Actors
    BY DEF Actors
  <2> QED BY <2>1, <2>2 DEF RunStep, Promote
<1>2. CASE \E f \in Requests : RequestStep(f)
  <2>1. PICK f \in Requests : RequestStep(f)
    BY <1>2
  <2>2. f \in Actors
    BY DEF Actors
  <2> QED BY <2>1, <2>2 DEF RequestStep, Promote
<1>3. CASE \E a \in Actors : AnswerLost(a) \/ Land(a) \/ ReadFails(a) \/ ReadBackFails(a)
  BY <1>3
<1>4. CASE \E m \in Memories, new \in {"active", "inactive", "erased"} : Edit(m, new)
  BY <1>4
<1> QED BY <1>1, <1>2, <1>3, <1>4 DEF Next

-----------------------------------------------------------------------------
(* Types *)
LEMMA ForgottenTyped ==
  ASSUME TypeOK, NEW a \in Actors, Forgotten(a)
  PROVE  /\ source' \in [Actors -> Memories \union {None}]
         /\ support' \in [Actors -> SUBSET Memories]
         /\ unread' \in [Actors -> SUBSET (Memories \union Noemas)]
         /\ same' \in [Actors -> SUBSET (Memories \union Noemas)]
         /\ mine' \in [Actors -> SUBSET (Memories \union Noemas)]
BY DEF TypeOK, Forgotten

LEMMA ThrowTyped ==
  ASSUME TypeOK, NEW a \in Actors, Throw(a, "none") \/ (\E o \in Outcomes \union {"inconsistent_or_unresolved"} : Throw(a, o)), faults' \in 0..MaxFaults
  PROVE  TypeOK'
<1>1. PICK o \in Outcomes \union {"none", "inconsistent_or_unresolved"} : Throw(a, o)
  OBVIOUS
<1>2. /\ source' \in [Actors -> Memories \union {None}]
      /\ support' \in [Actors -> SUBSET Memories]
      /\ unread' \in [Actors -> SUBSET (Memories \union Noemas)]
      /\ same' \in [Actors -> SUBSET (Memories \union Noemas)]
      /\ mine' \in [Actors -> SUBSET (Memories \union Noemas)]
      /\ ran' \in [Actors -> BOOLEAN]
  <2>1. CASE a \in inDoubt
    BY <1>1, <2>1 DEF Throw, TypeOK
  <2>2. CASE a \notin inDoubt
    <3>1. Forgotten(a) /\ ran' = [ran EXCEPT ![a] = FALSE]
      BY <1>1, <2>2 DEF Throw
    <3>2. ran' \in [Actors -> BOOLEAN]
      BY <3>1 DEF TypeOK
    <3> QED BY <3>1, <3>2, ForgottenTyped
  <2> QED BY <2>1, <2>2
<1>3. /\ pc' = [pc EXCEPT ![a] = "over"]
      /\ answer' = [answer EXCEPT ![a] = o]
      /\ todo' = [todo EXCEPT ![a] = {}]
      /\ looks' = [looks EXCEPT ![a] = {}]
      /\ UNCHANGED <<state, grade, mark, supports, evidence, base, inDoubt, calls, edits>>
  BY <1>1 DEF Throw, Goto, rows
<1> QED BY <1>2, <1>3 DEF TypeOK

LEMMA RefuseTyped ==
  ASSUME TypeOK, NEW a \in Actors, Refuse(a), todo' \in [Actors -> SUBSET Memories],
         UNCHANGED <<rows, base, tx, bounds>>
  PROVE  TypeOK'
BY ForgottenTyped DEF TypeOK, Refuse, Goto, rows, tx, bounds

LEMMA TransactionTyped ==
  ASSUME TypeOK, NEW a \in Actors, source[a] \in Memories, Transaction(a)
  PROVE  /\ supports' \in [Noemas -> SUBSET Memories]
         /\ evidence' \in [Noemas -> Nat]
         /\ mark' \in [Memories -> SUBSET Memories]
         /\ UNCHANGED <<state, grade>>
<1>1. Claim(a) \in Noemas
  BY DEF Claim
<1>2. Cardinality(support[a]) \in Nat
  BY FS_Subset, FS_CardinalityType DEF TypeOK
<1>3. Larger(evidence[Claim(a)], Cardinality(support[a])) \in Nat
  BY <1>1, <1>2 DEF Larger, TypeOK
<1> QED BY <1>1, <1>3 DEF Transaction, TypeOK

-----------------------------------------------------------------------------
(***************************************************************************)
(* The inductive invariant. Shape: where a promotion is.                   *)
(***************************************************************************)
Promoting(a) ==
  \/ pc[a] \in {"patched", "row", "target", "supports", "readback"}
  \/ a \in inDoubt
Chosen(a) == pc[a] \in {"target", "supports", "readback"} \/ a \in inDoubt
Compared(a) == pc[a] \in {"supports", "readback"} \/ a \in inDoubt

Shape ==
  \A a \in Actors :
    /\ Promoting(a) => source[a] \in Memories
    /\ Chosen(a) => source[a] \in support[a]
    /\ a \in inDoubt => pc[a] \in {"readback", "over"} /\ ~ran[a]
    /\ ran[a] \/ mine[a] # {} => pc[a] \in {"readback", "over"}
    /\ pc[a] = "supports" => source[a] \notin unread[a]

(* Fresh: what a promotion knows of a row that is as it read it *)
Fresh ==
  \A a \in Actors :
    /\ \A m \in same[a] \intersect Memories : state[m] # "erased"
    /\ Chosen(a) /\ source[a] \in same[a] => grade[source[a]] = "useful"
    /\ Compared(a) /\ Claim(a) \in same[a] => supports[Claim(a)] \subseteq support[a]

(* Told: what the rows read back so far tell *)
Written(a) == {source[a], Claim(a)}
Told ==
  \A a \in Actors : pc[a] = "readback" =>
    /\ mine[a] \intersect unread[a] # {} => ran[a]
    /\ "committed" \in looks[a] /\ ~(Written(a) \subseteq unread[a]) => ran[a]
    /\ ran[a] /\ "rolled_back" \in looks[a]
         => \E x \in Written(a) \intersect unread[a] : x \notin same[a]

IndInv == TypeOK /\ Shape /\ Fresh /\ Told /\ EvidenceAgrees

LEMMA ClaimTyped == \A a \in Actors : source[a] \in Memories => Claim(a) \in Noemas
BY DEF Claim

LEMMA InitInv == Init => IndInv
<1> SUFFICES ASSUME Init PROVE IndInv
  OBVIOUS
<1>1. TypeOK
  BY DEF Init, TypeOK, Grades
<1>2. Shape
  BY DEF Init, Shape, Promoting, Chosen
<1>3. Fresh
  BY DEF Init, Fresh, Chosen, Compared
<1>4. Told
  BY DEF Init, Told
<1>5. EvidenceAgrees
  BY FS_EmptySet DEF Init, EvidenceAgrees
<1> QED BY <1>1, <1>2, <1>3, <1>4, <1>5 DEF IndInv

LEMMA TypesKept == TypeOK /\ Shape /\ [Next]_vars => TypeOK'
<1> SUFFICES ASSUME TypeOK, Shape, [Next]_vars PROVE TypeOK'
  OBVIOUS
<1>1. ASSUME NEW r \in Runs, StartRun(r) PROVE TypeOK'
  <2>1. r \in Actors
    BY DEF Actors
  <2> QED BY <1>1, <2>1 DEF StartRun, Goto, TypeOK, rows, reads, tx, bounds
<1>2. ASSUME NEW f \in Requests, NEW recalled \in SUBSET Memories, NEW how \in {"next", "accrue"},
             StartRequest(f, recalled, how)
      PROVE  TypeOK'
  <2>1. f \in Actors
    BY DEF Actors
  <2>2. pc' \in [Actors -> {"idle", "next", "accrue", "patched", "row", "target", "supports",
                            "readback", "over"}]
    BY <1>2 DEF StartRequest, Goto, TypeOK
  <2>3. todo' \in [Actors -> SUBSET Memories] /\ base' \in [Requests -> [Memories -> Grades]]
    BY <1>2 DEF StartRequest, TypeOK
  <2>4. calls' \in 0..MaxCalls
    BY <1>2 DEF StartRequest, TypeOK
  <2> QED BY <1>2, <2>2, <2>3, <2>4 DEF StartRequest, TypeOK, rows, reads, tx, bounds
<1>3. ASSUME NEW f \in Requests, NEW m \in Memories, NEW g \in Grades, Patch(f, m, g)
      PROVE  /\ grade' \in [Memories -> Grades]
             /\ same' \in [Actors -> SUBSET (Memories \union Noemas)]
             /\ mine' \in [Actors -> SUBSET (Memories \union Noemas)]
             /\ todo' \in [Actors -> SUBSET Memories]
             /\ base' \in [Requests -> [Memories -> Grades]]
  <2>1. grade' \in [Memories -> Grades]
    BY <1>3 DEF Patch, TypeOK
  <2>2. /\ same' \in [Actors -> SUBSET (Memories \union Noemas)]
        /\ mine' \in [Actors -> SUBSET (Memories \union Noemas)]
    BY <1>3 DEF Patch, Rewritten, TypeOK
  <2>3. todo' \in [Actors -> SUBSET Memories]
    BY <1>3 DEF Patch, TypeOK
  <2>4. base' = [base EXCEPT ![f][m] = "unproven"]
    BY <1>3 DEF Patch
  <2>5. base' \in [Requests -> [Memories -> Grades]]
    BY <2>4 DEF TypeOK, Grades
  <2> QED BY <2>1, <2>2, <2>3, <2>5
<1>4. \A f \in Requests, m \in Memories, c \in BOOLEAN : Rated(base[f][m], c) \subseteq Grades
  BY DEF Rated, Grades
<1>5. ASSUME NEW f \in Requests, NEW m \in Memories, NEW c \in BOOLEAN, PatchItem(f, m, c)
      PROVE  TypeOK'
  <2>1. PICK g \in Grades : Patch(f, m, g)
    BY <1>4, <1>5 DEF PatchItem
  <2>2. source' \in [Actors -> Memories \union {None}]
    BY <1>5 DEF PatchItem, TypeOK
  <2>3. pc' \in [Actors -> {"idle", "next", "accrue", "patched", "row", "target", "supports",
                            "readback", "over"}]
    BY <1>5 DEF PatchItem, Goto, TypeOK
  <2>4. UNCHANGED <<state, mark, supports, evidence, support, unread, tx, bounds>>
    BY <2>1 DEF Patch
  <2> QED BY <1>3, <2>1, <2>2, <2>3, <2>4 DEF TypeOK, tx, bounds
<1>6. ASSUME NEW f \in Requests, NEW m \in Memories, AccrueItem(f, m)
      PROVE  TypeOK'
  <2>1. PICK g \in Grades : Patch(f, m, g)
    BY <1>4, <1>6 DEF AccrueItem
  <2>2. UNCHANGED <<state, mark, supports, evidence, support, unread, tx, bounds, source, pc>>
    BY <1>6, <2>1 DEF Patch, AccrueItem
  <2> QED BY <1>3, <2>1, <2>2 DEF TypeOK, tx, bounds
<1>7. ASSUME NEW a \in Actors, EndJob(a) PROVE TypeOK'
  BY <1>7 DEF EndJob, Goto, TypeOK, Grades, rows, reads, tx, bounds
<1>8. ASSUME NEW a \in Actors, NEW m \in Memories, ReadMetadata(a, m) PROVE TypeOK'
  <2>1. todo' \in [Actors -> SUBSET Memories] /\ UNCHANGED <<rows, base, tx, bounds>>
    BY <1>8 DEF ReadMetadata, TypeOK
  <2>2. CASE state[m] = "erased"
    BY <1>8, <2>1, <2>2, RefuseTyped DEF ReadMetadata
  <2>3. CASE state[m] # "erased"
    <3>1. /\ pc' = [pc EXCEPT ![a] = "row"] /\ source' = [source EXCEPT ![a] = m]
          /\ same' = [same EXCEPT ![a] = {m}] /\ UNCHANGED <<support, unread, mine>>
      BY <1>8, <2>3 DEF ReadMetadata, Goto
    <3> QED BY <2>1, <3>1 DEF TypeOK, rows, tx, bounds
  <2> QED BY <2>2, <2>3
<1>9. ASSUME NEW a \in Actors, ReadRow(a) PROVE TypeOK'
  <2>1. todo' \in [Actors -> SUBSET Memories] /\ UNCHANGED <<rows, base, tx, bounds>>
    BY <1>9 DEF ReadRow, TypeOK
  <2>2. CASE ~(source[a] \in same[a] /\ grade[source[a]] = "useful")
    BY <1>9, <2>1, <2>2, RefuseTyped DEF ReadRow
  <2>3. CASE source[a] \in same[a] /\ grade[source[a]] = "useful"
    <3>1. source[a] \in Memories
      BY <1>9 DEF ReadRow, Shape, Promoting
    <3>2. /\ pc' = [pc EXCEPT ![a] = "target"]
          /\ support' = [support EXCEPT ![a] = {source[a]} \union mark[source[a]]]
          /\ UNCHANGED <<source, unread, same, mine>>
      BY <1>9, <2>3 DEF ReadRow, Goto
    <3>3. {source[a]} \union mark[source[a]] \in SUBSET Memories
      BY <3>1 DEF TypeOK
    <3>4. support' \in [Actors -> SUBSET Memories]
      BY <3>2, <3>3 DEF TypeOK
    <3> QED BY <2>1, <3>2, <3>4 DEF TypeOK, rows, tx, bounds
  <2> QED BY <2>2, <2>3
<1>10. ASSUME NEW a \in Actors, ReadTarget(a) PROVE TypeOK'
  <2>1. Claim(a) \in Noemas
    BY <1>10, ClaimTyped DEF ReadTarget, Shape, Promoting
  <2>2. support' \in [Actors -> SUBSET Memories]
    BY <1>10, <2>1 DEF ReadTarget, TypeOK
  <2>3. unread' \in [Actors -> SUBSET (Memories \union Noemas)]
    BY <1>10, <2>2 DEF ReadTarget, TypeOK
  <2>4. same' \in [Actors -> SUBSET (Memories \union Noemas)]
    BY <1>10, <2>1 DEF ReadTarget, TypeOK
  <2>5. pc' = [pc EXCEPT ![a] = "supports"] /\ UNCHANGED <<rows, todo, source, mine, base, tx, bounds>>
    BY <1>10 DEF ReadTarget, Goto
  <2> QED BY <2>2, <2>3, <2>4, <2>5 DEF TypeOK, rows, tx, bounds
<1>11. ASSUME NEW a \in Actors, NEW m \in Memories, ReadSupport(a, m) PROVE TypeOK'
  <2>1. todo' \in [Actors -> SUBSET Memories] /\ UNCHANGED <<rows, base, tx, bounds>>
    BY <1>11 DEF ReadSupport, TypeOK
  <2>2. CASE state[m] = "erased"
    BY <1>11, <2>1, <2>2, RefuseTyped DEF ReadSupport
  <2>3. CASE state[m] # "erased"
    <3>1. /\ unread' = [unread EXCEPT ![a] = @ \ {m}]
          /\ same' = [same EXCEPT ![a] = @ \union {m}]
          /\ UNCHANGED <<pc, source, support, mine>>
      BY <1>11, <2>3 DEF ReadSupport
    <3> QED BY <2>1, <3>1 DEF TypeOK, rows, tx, bounds
  <2> QED BY <2>2, <2>3
<1>12. ASSUME NEW a \in Actors, Commit(a) PROVE TypeOK'
  <2>1. source[a] \in Memories
    BY <1>12 DEF Commit, Ready, Shape, Promoting
  <2>2. /\ supports' \in [Noemas -> SUBSET Memories] /\ evidence' \in [Noemas -> Nat]
        /\ mark' \in [Memories -> SUBSET Memories] /\ UNCHANGED <<state, grade>>
    BY <1>12, <2>1, TransactionTyped DEF Commit
  <2>3. /\ same' \in [Actors -> SUBSET (Memories \union Noemas)]
        /\ mine' \in [Actors -> SUBSET (Memories \union Noemas)]
    BY <1>12 DEF Commit, TypeOK
  <2>4. /\ source' \in [Actors -> Memories \union {None}] /\ support' \in [Actors -> SUBSET Memories]
        /\ pc' = [pc EXCEPT ![a] = "next"]
    BY <1>12 DEF Commit, Goto, TypeOK
  <2>5. UNCHANGED <<todo, unread, base, tx, bounds>>
    BY <1>12 DEF Commit
  <2> QED BY <2>2, <2>3, <2>4, <2>5 DEF TypeOK, tx, bounds
<1>13. ASSUME NEW a \in Actors, Ready(a), StartReadback(a), inDoubt' \subseteq Actors,
              faults' \in 0..MaxFaults
       PROVE  TypeOK'
  <2>1. Claim(a) \in Noemas
    BY <1>13, ClaimTyped DEF Ready, Shape, Promoting
  <2>2. unread' \in [Actors -> SUBSET (Memories \union Noemas)]
    BY <1>13, <2>1 DEF StartReadback, TypeOK
  <2>3. pc' = [pc EXCEPT ![a] = "readback"] /\ looks' = [looks EXCEPT ![a] = Outcomes]
    BY <1>13 DEF StartReadback, Goto
  <2>4. UNCHANGED <<rows, todo, source, support, same, mine, base, ran, answer, calls, edits>>
    BY <1>13 DEF StartReadback
  <2> QED BY <1>13, <2>2, <2>3, <2>4 DEF TypeOK, rows
<1>14. ASSUME NEW a \in Actors, GuardFails(a) PROVE TypeOK'
  BY <1>13, <1>14 DEF GuardFails, TypeOK
<1>15. ASSUME NEW a \in Actors, AnswerLost(a) PROVE TypeOK'
  BY <1>13, <1>15 DEF AnswerLost, Fault, TypeOK
<1>16. ASSUME NEW a \in Actors, Land(a) PROVE TypeOK'
  <2>1. source[a] \in Memories /\ Claim(a) \in Noemas
    BY <1>16, ClaimTyped DEF Land, Shape, Promoting
  <2>2. /\ supports' \in [Noemas -> SUBSET Memories] /\ evidence' \in [Noemas -> Nat]
        /\ mark' \in [Memories -> SUBSET Memories] /\ UNCHANGED <<state, grade>>
    BY <1>16, <2>1, TransactionTyped DEF Land
  <2>3. /\ same' \in [Actors -> SUBSET (Memories \union Noemas)]
        /\ mine' \in [Actors -> SUBSET (Memories \union Noemas)]
    BY <1>16, <2>1 DEF Land, TypeOK
  <2>4. inDoubt' \subseteq Actors /\ ran' \in [Actors -> BOOLEAN]
    BY <1>16 DEF Land, TypeOK
  <2>5. UNCHANGED <<pc, todo, source, support, unread, base, looks, answer, bounds>>
    BY <1>16 DEF Land
  <2> QED BY <2>2, <2>3, <2>4, <2>5 DEF TypeOK, bounds
<1>17. ASSUME NEW a \in Actors, Drop(a) PROVE TypeOK'
  BY <1>17 DEF Drop, TypeOK, rows, reads, bounds
<1>18. ASSUME NEW a \in Actors, NEW x \in Memories \union Noemas, ReadBack(a, x) PROVE TypeOK'
  BY <1>18 DEF ReadBack, TypeOK, rows, bounds
<1>19. ASSUME NEW a \in Actors, NEW x \in Memories \union Noemas, ReadLastBack(a, x) PROVE TypeOK'
  <2>1. \A s : Outcome(s) \in Outcomes \union {"inconsistent_or_unresolved"}
    BY DEF Outcome, Outcomes
  <2>2. faults' \in 0..MaxFaults
    BY <1>19 DEF ReadLastBack, TypeOK
  <2> QED BY <1>19, <2>1, <2>2, ThrowTyped DEF ReadLastBack
<1>20. ASSUME NEW a \in Actors, ReadBackFails(a) PROVE TypeOK'
  BY <1>20, ThrowTyped DEF ReadBackFails, Fault, TypeOK
<1>21. ASSUME NEW a \in Actors, ReadFails(a) PROVE TypeOK'
  BY <1>21, ThrowTyped DEF ReadFails, Fault, TypeOK
<1>22. ASSUME NEW a \in Actors, Settle(a) PROVE TypeOK'
  <2>1. /\ pc' = [pc EXCEPT ![a] = "idle"] /\ ran' \in [Actors -> BOOLEAN]
        /\ answer' = [answer EXCEPT ![a] = "none"]
        /\ base' \in [Requests -> [Memories -> Grades]]
        /\ UNCHANGED <<rows, todo, inDoubt, looks, bounds>>
    BY <1>22 DEF Settle, Goto, TypeOK, Grades
  <2> QED BY <1>22, <2>1, ForgottenTyped DEF Settle, TypeOK, rows, bounds
<1>23. ASSUME NEW m \in Memories, NEW new \in {"active", "inactive", "erased"}, Edit(m, new)
       PROVE  TypeOK'
  BY <1>23 DEF Edit, Rewritten, TypeOK, tx
<1>24. CASE UNCHANGED vars
  BY <1>24 DEF TypeOK, vars, rows, reads, tx, bounds
<1> QED
  BY Steps, <1>1, <1>2, <1>5, <1>6, <1>7, <1>8, <1>9, <1>10, <1>11, <1>12, <1>14, <1>15,
     <1>16, <1>17, <1>18, <1>19, <1>20, <1>21, <1>22, <1>23, <1>24

-----------------------------------------------------------------------------
(* Where a promotion is *)
LEMMA ShapeKept == TypeOK /\ Shape /\ [Next]_vars => Shape'
<1> SUFFICES ASSUME TypeOK, Shape, [Next]_vars PROVE Shape'
  OBVIOUS
<1>0. Runs \subseteq Actors /\ Requests \subseteq Actors
  BY DEF Actors
<1>1. ASSUME NEW a \in Runs, StartRun(a) PROVE Shape'
  BY <1>0, <1>1 DEF StartRun, Goto, reads, tx, Shape, Promoting, Chosen, TypeOK
<1>2. ASSUME NEW a \in Requests, NEW recalled \in SUBSET Memories, NEW how \in {"next", "accrue"}, StartRequest(a, recalled, how) PROVE Shape'
  BY <1>0, <1>2 DEF StartRequest, Goto, reads, tx, Shape, Promoting, Chosen, TypeOK
<1>3. ASSUME NEW a \in Requests, NEW m \in Memories, NEW c \in BOOLEAN, PatchItem(a, m, c) PROVE Shape'
  BY <1>0, <1>3 DEF PatchItem, Patch, Rewritten, Goto, tx, Shape, Promoting, Chosen, TypeOK
<1>4. ASSUME NEW a \in Requests, NEW m \in Memories, AccrueItem(a, m) PROVE Shape'
  BY <1>0, <1>4 DEF AccrueItem, Patch, Rewritten, tx, Shape, Promoting, Chosen, TypeOK
<1>5. ASSUME NEW a \in Actors, EndJob(a) PROVE Shape'
  BY <1>0, <1>5 DEF EndJob, Goto, reads, tx, Shape, Promoting, Chosen, TypeOK
<1>6. ASSUME NEW a \in Actors, NEW m \in Memories, ReadMetadata(a, m) PROVE Shape'
  <2>1. a \notin inDoubt /\ ~ran[a] /\ mine[a] = {}
    BY <1>6 DEF ReadMetadata, Shape
  <2>2. UNCHANGED tx
    BY <1>6 DEF ReadMetadata
  <2>3. CASE state[m] = "erased"
    <3>1. Refuse(a)
      BY <1>6, <2>3 DEF ReadMetadata
    <3> QED BY <2>1, <2>2, <3>1 DEF Refuse, Forgotten, Goto, tx, Shape, Promoting, Chosen, TypeOK
  <2>4. CASE state[m] # "erased"
    <3>1. /\ pc' = [pc EXCEPT ![a] = "row"] /\ source' = [source EXCEPT ![a] = m]
          /\ UNCHANGED <<support, mine, unread>>
      BY <1>6, <2>4 DEF ReadMetadata, Goto
    <3> QED BY <2>1, <2>2, <3>1 DEF tx, Shape, Promoting, Chosen, TypeOK
  <2> QED BY <2>3, <2>4
<1>7. ASSUME NEW a \in Actors, ReadRow(a) PROVE Shape'
  <2>1. a \notin inDoubt /\ ~ran[a] /\ mine[a] = {} /\ source[a] \in Memories /\ pc[a] = "row"
    BY <1>7 DEF ReadRow, Shape, Promoting
  <2>2. UNCHANGED tx
    BY <1>7 DEF ReadRow
  <2>3. CASE Refuse(a)
    BY <2>1, <2>2, <2>3 DEF Refuse, Forgotten, Goto, tx, Shape, Promoting, Chosen, TypeOK
  <2>4. CASE ~Refuse(a)
    <3>1. /\ pc' = [pc EXCEPT ![a] = "target"]
          /\ support' = [support EXCEPT ![a] = {source[a]} \union mark[source[a]]]
          /\ UNCHANGED <<source, mine, unread>>
      BY <1>7, <2>4 DEF ReadRow, Goto
    <3> QED BY <2>1, <2>2, <3>1 DEF tx, Shape, Promoting, Chosen, TypeOK
  <2> QED BY <2>3, <2>4
<1>8. ASSUME NEW a \in Actors, ReadTarget(a) PROVE Shape'
  <2>1. /\ pc' = [pc EXCEPT ![a] = "supports"] /\ UNCHANGED <<source, mine, tx>> /\ pc[a] = "target"
    BY <1>8 DEF ReadTarget, Goto
  <2>2. \A b \in Actors : support[b] \subseteq support'[b]
    BY <1>8 DEF ReadTarget, TypeOK
  <2>3. /\ a \notin inDoubt /\ ~ran[a] /\ mine[a] = {}
        /\ source[a] \in Memories /\ source[a] \in support[a]
    BY <2>1 DEF Shape, Promoting, Chosen
  <2>4. pc'[a] = "supports" /\ \A b \in Actors \ {a} : pc'[b] = pc[b]
    BY <2>1 DEF TypeOK
  <2>5. UNCHANGED <<source, mine, inDoubt, ran>>
    BY <2>1 DEF tx
  <2>6. \A b \in Actors : source[b] \in support[b] => source'[b] \in support'[b]
    BY <2>2, <2>5
  <2>7. /\ source'[a] \notin unread'[a]
        /\ \A b \in Actors \ {a} : unread'[b] = unread[b]
    BY <1>8, <2>5 DEF ReadTarget, TypeOK
  <2> QED BY <2>3, <2>4, <2>5, <2>6, <2>7 DEF Shape, Promoting, Chosen
<1>9. ASSUME NEW a \in Actors, NEW m \in Memories, ReadSupport(a, m) PROVE Shape'
  <2>1. a \notin inDoubt /\ ~ran[a] /\ mine[a] = {}
    BY <1>9 DEF ReadSupport, Shape
  <2>2. UNCHANGED tx
    BY <1>9 DEF ReadSupport
  <2>3. CASE Refuse(a)
    BY <2>1, <2>2, <2>3 DEF Refuse, Forgotten, Goto, tx, Shape, Promoting, Chosen, TypeOK
  <2>4. CASE ~Refuse(a)
    <3>1. UNCHANGED <<pc, source, support, mine>> /\ unread' = [unread EXCEPT ![a] = @ \ {m}]
      BY <1>9, <2>4 DEF ReadSupport
    <3> QED BY <2>1, <2>2, <3>1 DEF tx, Shape, Promoting, Chosen, TypeOK
  <2> QED BY <2>3, <2>4
<1>10. ASSUME NEW a \in Actors, Commit(a) PROVE Shape'
  BY <1>0, <1>10 DEF Commit, Ready, Goto, tx, Shape, Promoting, Chosen, TypeOK
<1>11. ASSUME NEW a \in Actors, GuardFails(a) PROVE Shape'
  BY <1>0, <1>11 DEF GuardFails, Ready, StartReadback, Goto, Shape, Promoting, Chosen, TypeOK
<1>12. ASSUME NEW a \in Actors, AnswerLost(a) PROVE Shape'
  BY <1>0, <1>12 DEF AnswerLost, Ready, StartReadback, Goto, Shape, Promoting, Chosen, TypeOK
<1>13. ASSUME NEW a \in Actors, Land(a) PROVE Shape'
  BY <1>0, <1>13 DEF Land, Shape, Promoting, Chosen, TypeOK
<1>14. ASSUME NEW a \in Actors, Drop(a) PROVE Shape'
  BY <1>0, <1>14 DEF Drop, reads, Shape, Promoting, Chosen, TypeOK
<1>15. ASSUME NEW a \in Actors, NEW x \in Memories \union Noemas, ReadBack(a, x) PROVE Shape'
  BY <1>0, <1>15 DEF ReadBack, Shape, Promoting, Chosen, TypeOK
<1>16. ASSUME NEW a \in Actors, NEW x \in Memories \union Noemas, ReadLastBack(a, x) PROVE Shape'
  BY <1>0, <1>16 DEF ReadLastBack, Throw, Forgotten, Goto, Shape, Promoting, Chosen, TypeOK
<1>17. ASSUME NEW a \in Actors, ReadBackFails(a) PROVE Shape'
  BY <1>0, <1>17 DEF ReadBackFails, Throw, Forgotten, Goto, Shape, Promoting, Chosen, TypeOK
<1>18. ASSUME NEW a \in Actors, ReadFails(a) PROVE Shape'
  BY <1>0, <1>18 DEF ReadFails, Throw, Forgotten, Goto, Shape, Promoting, Chosen, TypeOK
<1>19. ASSUME NEW a \in Actors, Settle(a) PROVE Shape'
  BY <1>0, <1>19 DEF Settle, Forgotten, Goto, Shape, Promoting, Chosen, TypeOK
<1>20. ASSUME NEW m \in Memories, NEW new \in {"active", "inactive", "erased"}, Edit(m, new) PROVE Shape'
  BY <1>0, <1>20 DEF Edit, Rewritten, tx, Shape, Promoting, Chosen, TypeOK
<1>21. CASE UNCHANGED vars
  BY <1>21 DEF vars, reads, tx, Shape, Promoting, Chosen
<1> QED
  BY Steps, <1>1, <1>2, <1>3, <1>4, <1>5, <1>6, <1>7, <1>8, <1>9, <1>10, <1>11, <1>12, <1>13, <1>14, <1>15, <1>16, <1>17, <1>18, <1>19, <1>20, <1>21

LEMMA FreshKept == TypeOK /\ Shape /\ Fresh /\ [Next]_vars => Fresh'
<1> SUFFICES ASSUME TypeOK, Shape, Fresh, [Next]_vars PROVE Fresh'
  OBVIOUS
<1>0. Runs \subseteq Actors /\ Requests \subseteq Actors
  BY DEF Actors
<1>1. ASSUME NEW a \in Runs, StartRun(a) PROVE Fresh'
  BY <1>0, <1>1 DEF StartRun, Goto, rows, reads, tx, Fresh, Shape, Promoting, Chosen, Compared, Claim, TypeOK
<1>2. ASSUME NEW a \in Requests, NEW recalled \in SUBSET Memories, NEW how \in {"next", "accrue"},
              StartRequest(a, recalled, how) PROVE Fresh'
  BY <1>0, <1>2 DEF StartRequest, Goto, rows, reads, tx, Fresh, Shape, Promoting, Chosen, Compared, Claim, TypeOK
<1>3. ASSUME NEW a \in Requests, NEW m \in Memories, NEW c \in BOOLEAN, PatchItem(a, m, c) PROVE Fresh'
  BY <1>0, <1>3 DEF PatchItem, Patch, Rewritten, Goto, tx, Fresh, Shape, Promoting, Chosen, Compared, Claim, TypeOK
<1>4. ASSUME NEW a \in Requests, NEW m \in Memories, AccrueItem(a, m) PROVE Fresh'
  BY <1>0, <1>4 DEF AccrueItem, Patch, Rewritten, tx, Fresh, Shape, Promoting, Chosen, Compared, Claim, TypeOK
<1>5. ASSUME NEW a \in Actors, EndJob(a) PROVE Fresh'
  BY <1>0, <1>5 DEF EndJob, Goto, rows, reads, tx, Fresh, Shape, Promoting, Chosen, Compared, Claim, TypeOK
<1>6. ASSUME NEW a \in Actors, NEW m \in Memories, ReadMetadata(a, m) PROVE Fresh'
  <2>1. a \notin inDoubt
    BY <1>6 DEF ReadMetadata, Shape
  <2>2. UNCHANGED <<rows, tx>>
    BY <1>6 DEF ReadMetadata
  <2>3. CASE state[m] = "erased"
    <3>1. Refuse(a)
      BY <1>6, <2>3 DEF ReadMetadata
    <3> QED BY <2>1, <2>2, <3>1 DEF Refuse, Forgotten, Goto, rows, tx, Fresh, Chosen, Compared, Claim, TypeOK
  <2>4. CASE state[m] # "erased"
    <3>1. /\ pc' = [pc EXCEPT ![a] = "row"] /\ source' = [source EXCEPT ![a] = m]
          /\ same' = [same EXCEPT ![a] = {m}] /\ UNCHANGED support
      BY <1>6, <2>4 DEF ReadMetadata, Goto
    <3> QED BY <2>1, <2>2, <2>4, <3>1 DEF rows, tx, Fresh, Chosen, Compared, Claim, TypeOK
  <2> QED BY <2>3, <2>4
<1>7. ASSUME NEW a \in Actors, ReadRow(a) PROVE Fresh'
  <2>1. a \notin inDoubt
    BY <1>7 DEF ReadRow, Shape
  <2>2. UNCHANGED <<rows, tx>>
    BY <1>7 DEF ReadRow
  <2>3. CASE Refuse(a)
    BY <2>1, <2>2, <2>3 DEF Refuse, Forgotten, Goto, rows, tx, Fresh, Chosen, Compared, Claim, TypeOK
  <2>4. CASE ~Refuse(a)
    <3>1. /\ pc' = [pc EXCEPT ![a] = "target"] /\ grade[source[a]] = "useful"
          /\ support' = [support EXCEPT ![a] = {source[a]} \union mark[source[a]]]
          /\ UNCHANGED <<source, same>>
      BY <1>7, <2>4 DEF ReadRow, Goto
    <3> QED BY <2>1, <2>2, <3>1 DEF rows, tx, Fresh, Chosen, Compared, Claim, TypeOK
  <2> QED BY <2>3, <2>4
<1>8. ASSUME NEW a \in Actors, ReadTarget(a) PROVE Fresh'
  <2>1. /\ a \notin inDoubt /\ pc[a] = "target" /\ source[a] \in Memories /\ Claim(a) \in Noemas
        /\ source[a] \in same[a] => grade[source[a]] = "useful"
    BY <1>8, ClaimTyped DEF ReadTarget, Shape, Promoting, Fresh, Chosen
  <2>2. UNCHANGED <<state, grade, supports, source, inDoubt>>
    BY <1>8 DEF ReadTarget, rows, tx
  <2>3. /\ pc' = [pc EXCEPT ![a] = "supports"]
        /\ same' = [same EXCEPT ![a] = @ \union {Claim(a)}]
        /\ support' = [support EXCEPT ![a] = @ \union supports[Claim(a)]]
    BY <1>8 DEF ReadTarget, Goto
  <2>4. /\ supports[Claim(a)] \subseteq support'[a]
        /\ \A b \in Actors \ {a} : support'[b] = support[b]
    BY <2>1, <2>3 DEF TypeOK
  <2>5. /\ same'[a] = same[a] \union {Claim(a)} /\ pc'[a] = "supports"
        /\ \A b \in Actors \ {a} : same'[b] = same[b] /\ pc'[b] = pc[b]
    BY <2>3 DEF TypeOK
  <2>6. same'[a] \intersect Memories = same[a] \intersect Memories /\ source[a] # Claim(a)
    BY <2>1, <2>5
  <2>7. \A b \in Actors : Claim(b)' = Claim(b)
    BY <2>2 DEF Claim
  <2> SUFFICES ASSUME NEW b \in Actors
               PROVE  /\ \A m \in same'[b] \intersect Memories : state'[m] # "erased"
                      /\ Chosen(b)' /\ source'[b] \in same'[b] => grade'[source'[b]] = "useful"
                      /\ Compared(b)' /\ Claim(b)' \in same'[b]
                           => supports'[Claim(b)'] \subseteq support'[b]
    BY <2>7 DEF Fresh
  <2>8. CASE b = a
    <3>1. \A m \in same[a] \intersect Memories : state[m] # "erased"
      BY DEF Fresh
    <3> QED BY <2>1, <2>2, <2>4, <2>5, <2>6, <2>7, <2>8, <3>1
  <2>9. CASE b # a
    <3>1. /\ same'[b] = same[b] /\ pc'[b] = pc[b] /\ support'[b] = support[b]
      BY <2>4, <2>5, <2>9
    <3> QED BY <2>2, <2>7, <3>1 DEF Fresh, Chosen, Compared
  <2> QED BY <2>8, <2>9
<1>9. ASSUME NEW a \in Actors, NEW m \in Memories, ReadSupport(a, m) PROVE Fresh'
  <2>1. a \notin inDoubt
    BY <1>9 DEF ReadSupport, Shape
  <2>2. UNCHANGED <<rows, tx>>
    BY <1>9 DEF ReadSupport
  <2>3. CASE state[m] = "erased"
    <3>1. Refuse(a)
      BY <1>9, <2>3 DEF ReadSupport
    <3> QED BY <2>1, <2>2, <3>1 DEF Refuse, Forgotten, Goto, rows, tx, Fresh, Chosen, Compared, Claim, TypeOK
  <2>4. CASE state[m] # "erased"
    <3>1. same' = [same EXCEPT ![a] = @ \union {m}] /\ UNCHANGED <<pc, source, support>>
      BY <1>9, <2>4 DEF ReadSupport
    <3>2. m # source[a] /\ m # Claim(a)
      BY <1>9, ClaimTyped DEF ReadSupport, Shape, Promoting
    <3>3. /\ same'[a] = same[a] \union {m}
          /\ \A b \in Actors \ {a} : same'[b] = same[b]
      BY <3>1 DEF TypeOK
    <3>4. \A b \in Actors : \A k \in same'[b] \intersect Memories : state[k] # "erased"
      BY <2>4, <3>3 DEF Fresh
    <3>5. \A b \in Actors : /\ source[b] \in same'[b] => source[b] \in same[b]
                            /\ Claim(b) \in same'[b] => Claim(b) \in same[b]
      BY <3>2, <3>3
    <3> QED BY <2>1, <2>2, <3>1, <3>4, <3>5 DEF rows, tx, Fresh, Chosen, Compared, Claim
  <2> QED BY <2>3, <2>4
<1>10. ASSUME NEW a \in Actors, Commit(a) PROVE Fresh'
  BY <1>0, <1>10 DEF Commit, Transaction, Ready, Goto, tx, Fresh, Shape, Promoting, Chosen, Compared, Claim, TypeOK
<1>11. ASSUME NEW a \in Actors, GuardFails(a) PROVE Fresh'
  BY <1>0, <1>11 DEF GuardFails, Ready, StartReadback, Goto, rows, Fresh, Shape, Promoting, Chosen, Compared, Claim, TypeOK
<1>12. ASSUME NEW a \in Actors, AnswerLost(a) PROVE Fresh'
  BY <1>0, <1>12 DEF AnswerLost, Ready, StartReadback, Goto, rows, Fresh, Shape, Promoting, Chosen, Compared, Claim, TypeOK
<1>13. ASSUME NEW a \in Actors, Land(a) PROVE Fresh'
  BY <1>0, <1>13 DEF Land, Transaction, Fresh, Shape, Promoting, Chosen, Compared, Claim, TypeOK
<1>14. ASSUME NEW a \in Actors, Drop(a) PROVE Fresh'
  BY <1>0, <1>14 DEF Drop, rows, reads, Fresh, Shape, Promoting, Chosen, Compared, Claim, TypeOK
<1>15. ASSUME NEW a \in Actors, NEW x \in Memories \union Noemas, ReadBack(a, x) PROVE Fresh'
  BY <1>0, <1>15 DEF ReadBack, rows, Fresh, Shape, Promoting, Chosen, Compared, Claim, TypeOK
<1>16. ASSUME NEW a \in Actors, NEW x \in Memories \union Noemas, ReadLastBack(a, x) PROVE Fresh'
  BY <1>0, <1>16 DEF ReadLastBack, Throw, Forgotten, Goto, rows, Fresh, Shape, Promoting, Chosen, Compared, Claim, TypeOK
<1>17. ASSUME NEW a \in Actors, ReadBackFails(a) PROVE Fresh'
  BY <1>0, <1>17 DEF ReadBackFails, Throw, Forgotten, Goto, rows, Fresh, Shape, Promoting, Chosen, Compared, Claim, TypeOK
<1>18. ASSUME NEW a \in Actors, ReadFails(a) PROVE Fresh'
  BY <1>0, <1>18 DEF ReadFails, Throw, Forgotten, Goto, rows, Fresh, Shape, Promoting, Chosen, Compared, Claim, TypeOK
<1>19. ASSUME NEW a \in Actors, Settle(a) PROVE Fresh'
  BY <1>0, <1>19 DEF Settle, Forgotten, Goto, rows, Fresh, Shape, Promoting, Chosen, Compared, Claim, TypeOK
<1>20. ASSUME NEW m \in Memories, NEW new \in {"active", "inactive", "erased"}, Edit(m, new) PROVE Fresh'
  BY <1>0, <1>20 DEF Edit, Rewritten, tx, Fresh, Shape, Promoting, Chosen, Compared, Claim, TypeOK
<1>21. CASE UNCHANGED vars
  BY <1>21 DEF vars, rows, reads, tx, Fresh, Chosen, Compared, Claim
<1> QED
  BY Steps, <1>1, <1>2, <1>3, <1>4, <1>5, <1>6, <1>7, <1>8, <1>9, <1>10, <1>11, <1>12, <1>13, <1>14, <1>15, <1>16, <1>17, <1>18, <1>19, <1>20, <1>21

LEMMA ToldKept == TypeOK /\ Shape /\ Told /\ [Next]_vars => Told'
<1> SUFFICES ASSUME TypeOK, Shape, Told, [Next]_vars PROVE Told'
  OBVIOUS
<1>0. Runs \subseteq Actors /\ Requests \subseteq Actors
  BY DEF Actors
<1>1. ASSUME NEW a \in Runs, StartRun(a) PROVE Told'
  BY <1>0, <1>1 DEF StartRun, Goto, reads, tx, Told, Written, Shape, Promoting, Chosen, Claim, TypeOK
<1>2. ASSUME NEW a \in Requests, NEW recalled \in SUBSET Memories, NEW how \in {"next", "accrue"},
              StartRequest(a, recalled, how) PROVE Told'
  BY <1>0, <1>2 DEF StartRequest, Goto, reads, tx, Told, Written, Shape, Promoting, Chosen, Claim, TypeOK
<1>3. ASSUME NEW a \in Requests, NEW m \in Memories, NEW c \in BOOLEAN, PatchItem(a, m, c) PROVE Told'
  BY <1>0, <1>3 DEF PatchItem, Patch, Rewritten, Goto, tx, Told, Written, Shape, Promoting, Chosen, Claim, TypeOK
<1>4. ASSUME NEW a \in Requests, NEW m \in Memories, AccrueItem(a, m) PROVE Told'
  BY <1>0, <1>4 DEF AccrueItem, Patch, Rewritten, tx, Told, Written, Shape, Promoting, Chosen, Claim, TypeOK
<1>5. ASSUME NEW a \in Actors, EndJob(a) PROVE Told'
  BY <1>0, <1>5 DEF EndJob, Goto, reads, tx, Told, Written, Shape, Promoting, Chosen, Claim, TypeOK
<1>6. ASSUME NEW a \in Actors, NEW m \in Memories, ReadMetadata(a, m) PROVE Told'
  BY <1>0, <1>6 DEF ReadMetadata, Refuse, Forgotten, Goto, tx, Told, Written, Shape, Promoting, Chosen, Claim, TypeOK
<1>7. ASSUME NEW a \in Actors, ReadRow(a) PROVE Told'
  BY <1>0, <1>7 DEF ReadRow, Refuse, Forgotten, Goto, tx, Told, Written, Shape, Promoting, Chosen, Claim, TypeOK
<1>8. ASSUME NEW a \in Actors, ReadTarget(a) PROVE Told'
  BY <1>0, <1>8 DEF ReadTarget, Goto, tx, Told, Written, Shape, Promoting, Chosen, Claim, TypeOK
<1>9. ASSUME NEW a \in Actors, NEW m \in Memories, ReadSupport(a, m) PROVE Told'
  BY <1>0, <1>9 DEF ReadSupport, Refuse, Forgotten, Goto, tx, Told, Written, Shape, Promoting, Chosen, Claim, TypeOK
<1>10. ASSUME NEW a \in Actors, Commit(a) PROVE Told'
  BY <1>0, <1>10 DEF Commit, Ready, Goto, tx, Told, Written, Shape, Promoting, Chosen, Claim, TypeOK
<1>11. ASSUME NEW a \in Actors, GuardFails(a) PROVE Told'
  BY <1>0, <1>11 DEF GuardFails, Ready, StartReadback, Goto, Told, Written, Shape, Promoting, Chosen, Claim, TypeOK
<1>12. ASSUME NEW a \in Actors, AnswerLost(a) PROVE Told'
  BY <1>0, <1>12 DEF AnswerLost, Ready, StartReadback, Goto, Told, Written, Shape, Promoting, Chosen, Claim, TypeOK
<1>13. ASSUME NEW a \in Actors, Land(a) PROVE Told'
  <2>1. a \in inDoubt /\ ~ran[a]
    BY <1>13 DEF Land, Shape
  <2>2. UNCHANGED <<pc, source, unread, looks>>
    BY <1>13 DEF Land
  <2>3. /\ mine'[a] = Written(a) /\ same'[a] = same[a] \ Written(a)
        /\ ran'[a] = (Written(a) \intersect unread[a] # {})
    BY <1>13 DEF Land, Written, TypeOK
  <2>4. \A b \in Actors \ {a} : /\ mine'[b] \subseteq mine[b] /\ same'[b] \subseteq same[b]
                               /\ ran'[b] = ran[b]
    BY <1>13 DEF Land, TypeOK
  <2>5. \A b \in Actors : Written(b)' = Written(b)
    BY <2>2 DEF Written, Claim
  <2> SUFFICES ASSUME NEW b \in Actors, pc[b] = "readback"
               PROVE  /\ mine'[b] \intersect unread[b] # {} => ran'[b]
                      /\ "committed" \in looks[b] /\ ~(Written(b) \subseteq unread[b]) => ran'[b]
                      /\ ran'[b] /\ "rolled_back" \in looks[b]
                           => \E x \in Written(b) \intersect unread[b] : x \notin same'[b]
    BY <2>2, <2>5 DEF Told
  <2>6. /\ mine[b] \intersect unread[b] # {} => ran[b]
        /\ "committed" \in looks[b] /\ ~(Written(b) \subseteq unread[b]) => ran[b]
        /\ ran[b] /\ "rolled_back" \in looks[b]
             => \E x \in Written(b) \intersect unread[b] : x \notin same[b]
    BY DEF Told
  <2>7. CASE b = a
    BY <2>1, <2>3, <2>6, <2>7
  <2>8. CASE b # a
    BY <2>4, <2>6, <2>8
  <2> QED BY <2>7, <2>8
<1>14. ASSUME NEW a \in Actors, Drop(a) PROVE Told'
  BY <1>0, <1>14 DEF Drop, reads, Told, Written, Shape, Promoting, Chosen, Claim, TypeOK
<1>15. ASSUME NEW a \in Actors, NEW x \in Memories \union Noemas, ReadBack(a, x) PROVE Told'
  BY <1>0, <1>15 DEF ReadBack, Allows, Told, Written, Shape, Promoting, Chosen, Claim, TypeOK
<1>16. ASSUME NEW a \in Actors, NEW x \in Memories \union Noemas, ReadLastBack(a, x) PROVE Told'
  BY <1>0, <1>16 DEF ReadLastBack, Throw, Forgotten, Goto, Told, Written, Shape, Promoting, Chosen, Claim, TypeOK
<1>17. ASSUME NEW a \in Actors, ReadBackFails(a) PROVE Told'
  BY <1>0, <1>17 DEF ReadBackFails, Throw, Forgotten, Goto, Told, Written, Shape, Promoting, Chosen, Claim, TypeOK
<1>18. ASSUME NEW a \in Actors, ReadFails(a) PROVE Told'
  BY <1>0, <1>18 DEF ReadFails, Throw, Forgotten, Goto, Told, Written, Shape, Promoting, Chosen, Claim, TypeOK
<1>19. ASSUME NEW a \in Actors, Settle(a) PROVE Told'
  BY <1>0, <1>19 DEF Settle, Forgotten, Goto, Told, Written, Shape, Promoting, Chosen, Claim, TypeOK
<1>20. ASSUME NEW m \in Memories, NEW new \in {"active", "inactive", "erased"}, Edit(m, new) PROVE Told'
  BY <1>0, <1>20 DEF Edit, Rewritten, tx, Told, Written, Shape, Promoting, Chosen, Claim, TypeOK
<1>21. CASE UNCHANGED vars
  BY <1>21 DEF vars, reads, tx, Told, Written, Claim
<1> QED
  BY Steps, <1>1, <1>2, <1>3, <1>4, <1>5, <1>6, <1>7, <1>8, <1>9, <1>10, <1>11, <1>12, <1>13, <1>14, <1>15, <1>16, <1>17, <1>18, <1>19, <1>20, <1>21

LEMMA EvidenceKept == IndInv /\ [Next]_vars => EvidenceAgrees'
<1> SUFFICES ASSUME IndInv, [Next]_vars PROVE EvidenceAgrees'
  OBVIOUS
<1>1. ASSUME NEW a \in Actors, Compared(a), Guards(a), Transaction(a) PROVE EvidenceAgrees'
  <2>1. source[a] \in Memories /\ Claim(a) \in Noemas /\ Claim(a) = ClaimOf[source[a]]
    BY <1>1, ClaimTyped DEF Compared, IndInv, Shape, Promoting, Claim
  <2>2. supports[Claim(a)] \subseteq support[a] /\ support[a] \subseteq Memories
    BY <1>1, <2>1 DEF Guards, IndInv, Fresh, TypeOK
  <2>3. IsFiniteSet(support[a]) /\ Cardinality(supports[Claim(a)]) <= Cardinality(support[a])
    BY <2>2, FS_Subset
  <2>4. /\ Cardinality(support[a]) \in Nat /\ Cardinality(supports[Claim(a)]) \in Nat
        /\ evidence[Claim(a)] = Cardinality(supports[Claim(a)])
    BY <2>1, <2>2, <2>3, FS_Subset, FS_CardinalityType DEF IndInv, EvidenceAgrees
  <2>5. Larger(evidence[Claim(a)], Cardinality(support[a])) = Cardinality(support[a])
    BY <2>3, <2>4 DEF Larger
  <2>6. supports' = [supports EXCEPT ![Claim(a)] = support[a]]
    <3>1. supports[Claim(a)] \union support[a] = support[a]
      BY <2>2
    <3> QED BY <1>1, <3>1 DEF Transaction
  <2>7. evidence' = [evidence EXCEPT ![Claim(a)] = Cardinality(support[a])]
    BY <1>1, <2>5 DEF Transaction
  <2>8. \A n \in Noemas : evidence'[n] = Cardinality(supports'[n])
    BY <2>1, <2>6, <2>7 DEF IndInv, TypeOK, EvidenceAgrees
  <2>9. \A n \in Noemas : supports[n] \subseteq supports'[n]
    BY <2>1, <2>2, <2>6 DEF IndInv, TypeOK
  <2>10. mark' = [mark EXCEPT ![source[a]] = support[a]] /\ supports'[Claim(a)] = support[a]
    BY <1>1, <2>1, <2>6 DEF Transaction, IndInv, TypeOK
  <2>11. \A m \in Memories : mark'[m] \subseteq supports'[ClaimOf[m]]
    <3> SUFFICES ASSUME NEW m \in Memories PROVE mark'[m] \subseteq supports'[ClaimOf[m]]
      OBVIOUS
    <3>1. CASE m = source[a]
      BY <2>1, <2>10, <3>1 DEF IndInv, TypeOK
    <3>2. CASE m # source[a]
      <4>1. mark'[m] = mark[m] /\ mark[m] \subseteq supports[ClaimOf[m]] /\ ClaimOf[m] \in Noemas
        BY <2>10, <3>2 DEF IndInv, TypeOK, EvidenceAgrees
      <4> QED BY <2>9, <4>1
    <3> QED BY <3>1, <3>2
  <2> QED BY <2>8, <2>11 DEF EvidenceAgrees
<1>2. ASSUME NEW a \in Actors, Commit(a) \/ Land(a) PROVE EvidenceAgrees'
  BY <1>1, <1>2 DEF Commit, Land, Ready, Compared
<1>3. CASE UNCHANGED <<mark, supports, evidence>>
  BY <1>3 DEF IndInv, EvidenceAgrees
<1>4. \/ \E a \in Actors : Commit(a) \/ Land(a)
      \/ UNCHANGED <<mark, supports, evidence>>
  BY Steps DEF StartRun, StartRequest, PatchItem, AccrueItem, Patch, EndJob, ReadMetadata, ReadRow,
     ReadTarget, ReadSupport, GuardFails, AnswerLost, StartReadback, Drop, ReadBack, ReadLastBack,
     ReadBackFails, ReadFails, Throw, Settle, Edit, rows, vars
<1> QED BY <1>2, <1>3, <1>4

LEMMA InvKept == IndInv /\ [Next]_vars => IndInv'
BY TypesKept, ShapeKept, FreshKept, ToldKept, EvidenceKept DEF IndInv

(* Every variable keeps its type.                                          *)
THEOREM TypeCorrect == Spec => []TypeOK
<1>1. IndInv => TypeOK
  BY DEF IndInv
<1> QED BY InitInv, InvKept, <1>1, PTL DEF Spec

(* A noema's evidence_count is the number of its supports, which include   *)
(* those its promoted memories are marked with, whoever promotes meanwhile *)
(* and whenever a transaction whose answer was lost is applied.            *)
THEOREM EvidenceTheorem == Spec => []EvidenceAgrees
<1>1. IndInv => EvidenceAgrees
  BY DEF IndInv
<1> QED BY InitInv, InvKept, <1>1, PTL DEF Spec

(* A transaction is applied, by its caller or behind its back, only while  *)
(* its source is useful and uncorrected and its supports have rows: the    *)
(* guards carry what several queries read to the moment of the write.      *)
THEOREM PromotionTheorem == Spec => PromotesWhatItRead
<1>1. IndInv /\ [Next]_vars =>
        [\A m \in Memories : mark'[m] # mark[m] =>
           /\ grade[m] = "useful"
           /\ \A s \in mark'[m] : state[s] # "erased"]_vars
  <2> SUFFICES ASSUME IndInv, [Next]_vars, NEW m \in Memories, mark'[m] # mark[m]
               PROVE  grade[m] = "useful" /\ \A s \in mark'[m] : state[s] # "erased"
    OBVIOUS
  <2>1. PICK a \in Actors : Commit(a) \/ Land(a)
    BY Steps DEF StartRun, StartRequest, PatchItem, AccrueItem, Patch, EndJob, ReadMetadata, ReadRow,
       ReadTarget, ReadSupport, GuardFails, AnswerLost, StartReadback, Drop, ReadBack, ReadLastBack,
       ReadBackFails, ReadFails, Throw, Settle, Edit, rows, vars
  <2>2. Guards(a) /\ Transaction(a) /\ Compared(a)
    BY <2>1 DEF Commit, Land, Ready, Compared
  <2>3. source[a] \in support[a] /\ source[a] \in Memories /\ support[a] \subseteq same[a]
    BY <2>2 DEF Guards, Compared, IndInv, Shape, Promoting, Chosen
  <2>4. m = source[a] /\ mark'[m] = support[a]
    BY <2>2, <2>3 DEF Transaction, IndInv, TypeOK
  <2>5. support[a] \subseteq Memories
    BY DEF IndInv, TypeOK
  <2>6. \A s \in same[a] \intersect Memories : state[s] # "erased"
    BY DEF IndInv, Fresh
  <2>7. grade[source[a]] = "useful"
    BY <2>2, <2>3 DEF IndInv, Fresh, Chosen, Compared
  <2> QED BY <2>3, <2>4, <2>5, <2>6, <2>7
<1> QED BY InitInv, InvKept, <1>1, PTL DEF Spec, PromotesWhatItRead

(* A read-back answers 'committed' only for a transaction that was applied,*)
(* and 'rolled_back' only for one that was not when it read the rows the   *)
(* transaction writes.                                                     *)
THEOREM AnswerTheorem == Spec => AnswerIsTrue
<1>1. IndInv /\ [Next]_vars =>
        [\A a \in Actors : answer[a] = "none" =>
           /\ answer'[a] = "committed" => ran[a]
           /\ answer'[a] = "rolled_back" => ~ran[a]]_vars
  <2> SUFFICES ASSUME IndInv, [Next]_vars, NEW a \in Actors, answer[a] = "none",
                      answer'[a] \in {"committed", "rolled_back"}
               PROVE  /\ answer'[a] = "committed" => ran[a]
                      /\ answer'[a] = "rolled_back" => ~ran[a]
    OBVIOUS
  <2>1. PICK x \in Memories \union Noemas : ReadLastBack(a, x)
    <3>1. UNCHANGED answer \/ \E b \in Actors : \/ \E x \in Memories \union Noemas : ReadLastBack(b, x)
                                               \/ ReadBackFails(b) \/ ReadFails(b) \/ Settle(b)
      BY Steps DEF StartRun, StartRequest, PatchItem, AccrueItem, Patch, EndJob, ReadMetadata, ReadRow,
         ReadTarget, ReadSupport, Commit, Land, GuardFails, AnswerLost, StartReadback, Drop, ReadBack,
         Edit, tx, vars
    <3>2. PICK b \in Actors : \/ \E x \in Memories \union Noemas : ReadLastBack(b, x)
                             \/ ReadBackFails(b) \/ ReadFails(b) \/ Settle(b)
      BY <3>1
    <3>3. /\ ReadBackFails(b) => answer' = [answer EXCEPT ![b] = "inconsistent_or_unresolved"]
          /\ ReadFails(b) \/ Settle(b) => answer' = [answer EXCEPT ![b] = "none"]
          /\ \A x \in Memories \union Noemas :
               ReadLastBack(b, x) => \E o : answer' = [answer EXCEPT ![b] = o]
      BY DEF ReadBackFails, ReadFails, Settle, ReadLastBack, Throw
    <3>4. b = a
      BY <3>2, <3>3 DEF IndInv, TypeOK
    <3> QED BY <3>2, <3>3, <3>4 DEF IndInv, TypeOK
  <2>2. pc[a] = "readback" /\ unread[a] = {x}
    BY <2>1 DEF ReadLastBack
  <2>3. answer'[a] \in looks[a] \intersect Allows(a, x)
    BY <2>1 DEF ReadLastBack, Throw, Outcome, IndInv, TypeOK
  <2>4. /\ mine[a] \intersect unread[a] # {} => ran[a]
        /\ "committed" \in looks[a] /\ ~(Written(a) \subseteq unread[a]) => ran[a]
        /\ ran[a] /\ "rolled_back" \in looks[a]
             => \E y \in Written(a) \intersect unread[a] : y \notin same[a]
    BY <2>2 DEF IndInv, Told
  <2>5. source[a] # Claim(a)
    BY <2>2, ClaimTyped DEF IndInv, Shape, Promoting
  <2>6. ASSUME answer'[a] = "committed" PROVE ran[a]
    <3>1. CASE x \in Written(a)
      <4>1. x \in mine[a]
        BY <2>3, <2>6, <3>1 DEF Allows, Written
      <4> QED BY <2>2, <2>4, <4>1
    <3>2. CASE x \notin Written(a)
      BY <2>2, <2>3, <2>4, <2>6, <3>2 DEF Written
    <3> QED BY <3>1, <3>2
  <2>7. ASSUME answer'[a] = "rolled_back", ran[a] PROVE FALSE
    <3>1. x \in Written(a) /\ x \notin same[a]
      BY <2>2, <2>3, <2>4, <2>7
    <3> QED BY <2>3, <2>7, <3>1 DEF Allows, Written
  <2> QED BY <2>6, <2>7
<1> QED BY InitInv, InvKept, <1>1, PTL DEF Spec, AnswerIsTrue


-----------------------------------------------------------------------------
(***************************************************************************)
(* Promotions are atomic. What the transaction is about to write comes     *)
(* from reads made one after the other, and the guards tell only that no   *)
(* row has changed since; that it is nothing but the source and what the   *)
(* noema has now (Backed) is what makes it the step of AtomicPromotion.    *)
(***************************************************************************)
Backed ==
  \A a \in Actors : Chosen(a) => support[a] \subseteq supports[Claim(a)] \union {source[a]}

AtomicInv == IndInv /\ Backed

(* A promotion that goes on with what it chose, while supports only grow *)
LEMMA BackedStays ==
  ASSUME TypeOK, Shape, Backed, \A n \in Noemas : supports[n] \subseteq supports'[n],
         \A a \in Actors : Chosen(a)' => /\ Chosen(a)
                                         /\ source'[a] = source[a] /\ support'[a] = support[a]
  PROVE  Backed'
<1> SUFFICES ASSUME NEW a \in Actors, Chosen(a)'
             PROVE  support'[a] \subseteq supports'[Claim(a)'] \union {source'[a]}
  BY DEF Backed
<1>1. Chosen(a) /\ source'[a] = source[a] /\ support'[a] = support[a]
  OBVIOUS
<1>2. Claim(a)' = Claim(a) /\ Claim(a) \in Noemas
  BY <1>1, ClaimTyped DEF Claim, Shape, Chosen, Promoting
<1>3. support[a] \subseteq supports[Claim(a)] \union {source[a]}
  BY <1>1 DEF Backed
<1> QED BY <1>1, <1>2, <1>3

LEMMA SameCount == \A S : Atomic!Cardinality(S) = Cardinality(S)
BY DEF Cardinality, Atomic!Cardinality

(* The rows a transaction writes, and the moment it is applied *)
LEMMA Applied ==
  ASSUME AtomicInv, NEW a \in Actors, Compared(a), Guards(a), Transaction(a)
  PROVE  Atomic!Promote(source[a])
<1> DEFINE m == source[a]
           n == Claim(a)
<1>1. m \in Memories /\ n \in Noemas /\ n = ClaimOf[m] /\ m \in support[a]
  BY ClaimTyped DEF AtomicInv, IndInv, Shape, Compared, Chosen, Promoting, Claim
<1>2. support[a] \subseteq same[a] /\ n \in same[a] /\ support[a] \subseteq Memories
  BY DEF Guards, AtomicInv, IndInv, TypeOK
<1>3. supports[n] \subseteq support[a]
  BY <1>2 DEF AtomicInv, IndInv, Fresh
<1>4. support[a] \subseteq supports[n] \union {m}
  BY DEF AtomicInv, Backed, Compared, Chosen
<1>5. support[a] = Atomic!Behind(m)
  BY <1>1, <1>3, <1>4 DEF Atomic!Behind
<1>6. grade[m] = "useful"
  BY <1>1, <1>2 DEF AtomicInv, IndInv, Fresh, Compared, Chosen
<1>7. \A s \in support[a] : state[s] # "erased"
  BY <1>2 DEF AtomicInv, IndInv, Fresh
<1>8. supports[n] \union support[a] = support[a]
  BY <1>3
<1>9. Larger(evidence[n], Cardinality(support[a])) = Cardinality(support[a])
  <2>1. IsFiniteSet(support[a]) /\ Cardinality(supports[n]) <= Cardinality(support[a])
    BY <1>2, <1>3, FS_Subset
  <2>2. Cardinality(support[a]) \in Nat /\ Cardinality(supports[n]) \in Nat
    BY <1>3, <2>1, FS_Subset, FS_CardinalityType
  <2>3. evidence[n] = Cardinality(supports[n])
    BY <1>1 DEF AtomicInv, IndInv, EvidenceAgrees
  <2> QED BY <2>1, <2>2, <2>3 DEF Larger
<1>10. /\ supports' = [supports EXCEPT ![n] = support[a]]
       /\ evidence' = [evidence EXCEPT ![n] = Cardinality(support[a])]
       /\ mark' = [mark EXCEPT ![m] = support[a]]
       /\ UNCHANGED <<state, grade>>
  BY <1>8, <1>9 DEF Transaction
<1> HIDE DEF m, n
<1>11. Atomic!Promote(m)
  BY <1>1, <1>5, <1>6, <1>7, <1>10, SameCount DEF Atomic!Promote
<1> QED BY <1>11 DEF m

(* Who changes the rows, and how *)
LEMMA RowSteps ==
  ASSUME AtomicInv, [Next]_vars
  PROVE  \/ \E a \in Actors : Compared(a) /\ (Commit(a) \/ Land(a)) /\ Atomic!Promote(source[a])
         \/ \E m \in Memories, g \in Grades : Atomic!Rate(m, g)
         \/ \E m \in Memories, new \in {"active", "inactive", "erased"} : Atomic!Edit(m, new)
         \/ UNCHANGED rows
<1>1. ASSUME NEW a \in Actors, Commit(a) \/ Land(a)
      PROVE  Compared(a) /\ Atomic!Promote(source[a])
  BY <1>1, Applied DEF Commit, Land, Ready, Compared
<1>2. ASSUME NEW f \in Requests, NEW m \in Memories, NEW g \in Grades, Patch(f, m, g)
      PROVE  Atomic!Rate(m, g) \/ UNCHANGED rows
  BY <1>2 DEF Patch, Atomic!Rate, rows
<1>3. ASSUME NEW f \in Requests, NEW m \in Memories,
             AccrueItem(f, m) \/ \E c \in BOOLEAN : PatchItem(f, m, c)
      PROVE  \E g \in Grades : Patch(f, m, g)
  BY <1>3 DEF AccrueItem, PatchItem, Rated, Grades
<1>4. ASSUME NEW m \in Memories, NEW new \in {"active", "inactive", "erased"}, Edit(m, new)
      PROVE  Atomic!Edit(m, new)
  BY <1>4 DEF Edit, Atomic!Edit
<1>5. ASSUME \/ \E r \in Runs : StartRun(r)
             \/ \E f \in Requests, recalled \in SUBSET Memories, how \in {"next", "accrue"} :
                  StartRequest(f, recalled, how)
             \/ \E a \in Actors : \/ EndJob(a) \/ ReadRow(a) \/ ReadTarget(a) \/ GuardFails(a)
                                  \/ AnswerLost(a) \/ Drop(a) \/ ReadBackFails(a)
                                  \/ ReadFails(a) \/ Settle(a)
             \/ \E a \in Actors, m \in Memories : ReadMetadata(a, m) \/ ReadSupport(a, m)
             \/ \E a \in Actors, x \in Memories \union Noemas : ReadBack(a, x) \/ ReadLastBack(a, x)
             \/ UNCHANGED vars
      PROVE  UNCHANGED rows
  BY <1>5 DEF StartRun, StartRequest, EndJob, ReadMetadata, ReadRow, ReadTarget, ReadSupport,
     GuardFails, AnswerLost, StartReadback, Drop, ReadBack, ReadLastBack, ReadBackFails,
     ReadFails, Throw, Settle, vars
<1> QED BY Steps, <1>1, <1>2, <1>3, <1>4, <1>5

LEMMA SupportsGrow ==
  ASSUME AtomicInv, [Next]_vars
  PROVE  \A n \in Noemas : supports[n] \subseteq supports'[n]
<1>1. ASSUME NEW m \in Memories, Atomic!Promote(m)
      PROVE  \A n \in Noemas : supports[n] \subseteq supports'[n]
  BY <1>1 DEF Atomic!Promote, Atomic!Behind, AtomicInv, IndInv, TypeOK
<1>2. CASE \E a \in Actors : Compared(a) /\ Atomic!Promote(source[a])
  BY <1>1, <1>2 DEF AtomicInv, IndInv, Shape, Compared, Promoting
<1>3. CASE UNCHANGED supports
  BY <1>3
<1> QED BY RowSteps, <1>2, <1>3 DEF Atomic!Rate, Atomic!Edit, rows

LEMMA BackedKept == ASSUME AtomicInv, [Next]_vars PROVE Backed'
<1> USE DEF AtomicInv, IndInv
<1> DEFINE Goes(S) ==
      \A a \in Actors \ S : Chosen(a)' => /\ Chosen(a)
                                          /\ source'[a] = source[a] /\ support'[a] = support[a]
<1>0. Runs \subseteq Actors /\ Requests \subseteq Actors
  BY DEF Actors
<1>1. ASSUME NEW a \in Actors, ReadRow(a) PROVE Backed'
  <2>1. /\ a \notin inDoubt /\ source[a] \in Memories /\ Claim(a) \in Noemas
        /\ UNCHANGED <<supports, inDoubt>> /\ pc[a] = "row"
    BY <1>1, ClaimTyped DEF ReadRow, Shape, Promoting, rows, tx
  <2>2. CASE Refuse(a)
    <3>1. Goes({})
      BY <2>1, <2>2 DEF Refuse, Forgotten, Goto, Chosen, TypeOK
    <3> QED BY <3>1, SupportsGrow, BackedStays
  <2>3. CASE ~Refuse(a)
    <3>1. /\ pc' = [pc EXCEPT ![a] = "target"] /\ source' = source
          /\ support' = [support EXCEPT ![a] = {source[a]} \union mark[source[a]]]
      BY <1>1, <2>3 DEF ReadRow, Goto
    <3>2. support'[a] \subseteq supports[Claim(a)] \union {source[a]}
      BY <2>1, <3>1 DEF EvidenceAgrees, Claim, TypeOK
    <3>3. \A b \in Actors \ {a} : support'[b] = support[b] /\ (Chosen(b)' => Chosen(b))
      BY <2>1, <3>1 DEF Chosen, TypeOK
    <3>4. \A b \in Actors : Claim(b)' = Claim(b)
      BY <3>1 DEF Claim
    <3> QED BY <2>1, <3>1, <3>2, <3>3, <3>4 DEF Backed
  <2> QED BY <2>2, <2>3
<1>2. ASSUME NEW a \in Actors, ReadTarget(a) PROVE Backed'
  <2>1. /\ Chosen(a) /\ UNCHANGED <<supports, inDoubt, source>>
        /\ pc' = [pc EXCEPT ![a] = "supports"]
        /\ support' = [support EXCEPT ![a] = @ \union supports[Claim(a)]]
    BY <1>2 DEF ReadTarget, Goto, Chosen, rows, tx
  <2>2. support'[a] \subseteq supports[Claim(a)] \union {source[a]}
    BY <2>1 DEF Backed, TypeOK
  <2>3. \A b \in Actors \ {a} : support'[b] = support[b] /\ (Chosen(b)' => Chosen(b))
    BY <2>1 DEF Chosen, TypeOK
  <2>4. \A b \in Actors : Claim(b)' = Claim(b)
    BY <2>1 DEF Claim
  <2> QED BY <2>1, <2>2, <2>3, <2>4 DEF Backed
<1>3. ASSUME NEW a \in Actors, NEW m \in Memories,
             ReadMetadata(a, m) \/ ReadSupport(a, m)
      PROVE  Goes({})
  <2>1. a \notin inDoubt /\ UNCHANGED inDoubt
    BY <1>3 DEF ReadMetadata, ReadSupport, Shape, tx
  <2>2. CASE Refuse(a)
    BY <2>1, <2>2 DEF Refuse, Forgotten, Goto, Chosen, TypeOK
  <2>3. CASE ~Refuse(a) /\ ReadMetadata(a, m)
    <3>1. /\ pc' = [pc EXCEPT ![a] = "row"] /\ source' = [source EXCEPT ![a] = m]
          /\ UNCHANGED support
      BY <2>3 DEF ReadMetadata, Goto
    <3> QED BY <2>1, <3>1 DEF Chosen, TypeOK
  <2>4. CASE ~Refuse(a) /\ ReadSupport(a, m)
    <3>1. UNCHANGED <<pc, source, support>>
      BY <2>4 DEF ReadSupport
    <3> QED BY <2>1, <3>1 DEF Chosen
  <2> QED BY <1>3, <2>2, <2>3, <2>4
<1>4. ASSUME NEW a \in Actors, a \notin inDoubt, UNCHANGED <<support, inDoubt>>,
             NEW place \in {"idle", "next", "accrue", "patched"}, pc' = [pc EXCEPT ![a] = place],
             UNCHANGED source \/ \E m \in Memories : source' = [source EXCEPT ![a] = m]
      PROVE  Goes({})
  BY <1>4 DEF Chosen, TypeOK
<1>5. ASSUME NEW r \in Runs, StartRun(r) PROVE Goes({})
  BY <1>0, <1>5, <1>4 DEF StartRun, Goto, reads, tx, Shape
<1>6. ASSUME NEW f \in Requests, NEW recalled \in SUBSET Memories,
              NEW how \in {"next", "accrue"}, StartRequest(f, recalled, how)
       PROVE  Goes({})
  BY <1>0, <1>6, <1>4 DEF StartRequest, Goto, reads, tx, Shape
<1>7. ASSUME NEW f \in Requests, NEW m \in Memories, NEW c \in BOOLEAN, PatchItem(f, m, c)
       PROVE  Goes({})
  <2>1. f \notin inDoubt /\ UNCHANGED <<support, inDoubt>>
    BY <1>0, <1>7 DEF PatchItem, Patch, Shape, tx
  <2>2. pc' = [pc EXCEPT ![f] = "patched"] /\ source' = [source EXCEPT ![f] = m]
    BY <1>7 DEF PatchItem, Goto
  <2> QED BY <1>0, <1>4, <2>1, <2>2
<1>8. ASSUME NEW f \in Requests, NEW m \in Memories, AccrueItem(f, m) PROVE Goes({})
  <2>1. UNCHANGED <<pc, source, support, inDoubt>>
    BY <1>8 DEF AccrueItem, Patch, tx
  <2> QED BY <2>1 DEF Chosen
<1>9. ASSUME NEW a \in Actors, EndJob(a) PROVE Goes({})
  BY <1>9, <1>4 DEF EndJob, Goto, reads, tx, Shape
<1>10. ASSUME NEW a \in Actors, Commit(a) \/ Land(a) \/ Drop(a) \/ GuardFails(a) \/ AnswerLost(a)
      PROVE  Goes({})
  BY <1>10 DEF Commit, Land, Drop, GuardFails, AnswerLost, Ready, StartReadback, Goto, reads, tx,
     Shape, Chosen, TypeOK
<1>11. ASSUME NEW a \in Actors, NEW o, Throw(a, o) PROVE Goes({})
  BY <1>11 DEF Throw, Forgotten, Goto, Chosen, TypeOK
<1>12. ASSUME NEW a \in Actors, NEW x \in Memories \union Noemas,
              ReadBack(a, x) \/ ReadLastBack(a, x)
       PROVE  Goes({})
  BY <1>12, <1>11 DEF ReadBack, ReadLastBack, Chosen
<1>13. ASSUME NEW a \in Actors, ReadBackFails(a) \/ ReadFails(a) PROVE Goes({})
  BY <1>13, <1>11 DEF ReadBackFails, ReadFails
<1>14. ASSUME NEW a \in Actors, Settle(a) PROVE Goes({})
  BY <1>14 DEF Settle, Forgotten, Goto, Chosen, TypeOK
<1>15. ASSUME \/ \E m \in Memories, new \in {"active", "inactive", "erased"} : Edit(m, new)
             \/ UNCHANGED vars
      PROVE  Goes({})
  BY <1>15 DEF Edit, vars, reads, tx, Chosen
<1>16. Goes({}) => Backed'
  BY SupportsGrow, BackedStays
<1> HIDE DEF Goes
<1> QED BY Steps, <1>1, <1>2, <1>3, <1>4, <1>5, <1>6, <1>7, <1>8, <1>9, <1>10, <1>11, <1>12, <1>13, <1>14, <1>15, <1>16

(* The promotion of promoteSemioteToNoema, with all its reads, its guards, *)
(* lost answers and late transactions, implements AtomicPromotion: the     *)
(* rows change as if every promotion were a single step at the moment its  *)
(* transaction is applied.                                                 *)
THEOREM AtomicTheorem == Spec => ImplementsAtomicPromotion
<1>1. Init => Atomic!Init
  BY DEF Init, Atomic!Init
<1>2. Init => AtomicInv
  BY InitInv DEF Init, AtomicInv, Backed, Chosen
<1>3. AtomicInv /\ [Next]_vars => AtomicInv'
  BY InvKept, BackedKept DEF AtomicInv
<1>4. AtomicInv /\ [Next]_vars => [Atomic!Next]_<<state, grade, mark, supports, evidence>>
  <2> SUFFICES ASSUME AtomicInv, [Next]_vars
               PROVE  Atomic!Next \/ UNCHANGED <<state, grade, mark, supports, evidence>>
    OBVIOUS
  <2>1. CASE \E a \in Actors : Compared(a) /\ Atomic!Promote(source[a])
    BY <2>1 DEF Atomic!Next, AtomicInv, IndInv, Shape, Compared, Promoting
  <2>2. CASE \/ \E m \in Memories, g \in Grades : Atomic!Rate(m, g)
             \/ \E m \in Memories, new \in {"active", "inactive", "erased"} : Atomic!Edit(m, new)
    BY <2>2 DEF Atomic!Next, Grades
  <2> QED BY RowSteps, <2>1, <2>2 DEF rows
<1> QED BY <1>1, <1>2, <1>3, <1>4, PTL DEF Spec, ImplementsAtomicPromotion, Atomic!Spec
=============================================================================
