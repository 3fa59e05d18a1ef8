------------------------- MODULE ContinuityBuildProofs -------------------------
(* Theorems about ContinuityBuild, for any number of memories and builds    *)
EXTENDS ContinuityBuild, TLAPS

USE BuildAssumption DEF Ids

-----------------------------------------------------------------------------
(* Types *)
LEMMA InitTyped == Init => TypeOK
BY DEF Init, TypeOK

LEMMA LeaveTyped ==
  ASSUME TypeOK, NEW b \in Builders, Leave(b)
  PROVE  /\ at' \in [Builders -> {"idle", "fetch", "prior", "synthesis", "stamp"}]
         /\ seen' \in [Builders -> Nat] /\ batch' \in [Builders -> SUBSET Ids]
         /\ through' \in [Builders -> Nat] /\ prior' \in [Builders -> SUBSET Ids]
BY DEF TypeOK, Leave

LEMMA SwapTyped ==
  ASSUME TypeOK, NEW b \in Builders, NEW content \in SUBSET Ids, Swap(b, content)
  PROVE  /\ folded' \subseteq Ids /\ moved' \in [Builders -> BOOLEAN]
         /\ status' = status /\ created' = created /\ cursor' = cursor
         /\ edits' = edits /\ unseen' = unseen
BY DEF TypeOK, Swap

LEMMA TypesKept == TypeOK /\ [Next]_vars => TypeOK'
<1> SUFFICES ASSUME TypeOK, [Next]_vars PROVE TypeOK'
  OBVIOUS
<1>1. ASSUME NEW x \in Ids, NEW t \in Times, Capture(x, t) PROVE TypeOK'
  <2>1. t \in Nat
    BY DEF Times
  <2>2. /\ status' \in [Ids -> {"absent", "active", "inactive"}]
        /\ created' \in [Ids -> Nat] /\ edits' \in Nat /\ unseen' \subseteq Ids
    BY <1>1, <2>1 DEF Capture, TypeOK
  <2>3. UNCHANGED <<cursor, folded, at, seen, batch, through, prior, moved, fails>>
    BY <1>1 DEF Capture, buildVars
  <2> QED BY <2>2, <2>3 DEF TypeOK
<1>2. ASSUME NEW x \in Ids, Withdraw(x) PROVE TypeOK'
  BY <1>2 DEF Withdraw, TypeOK, buildVars
<1>3. ASSUME NEW x \in Ids, Restore(x) PROVE TypeOK'
  BY <1>3 DEF Restore, TypeOK, buildVars
<1>4. ASSUME NEW b \in Builders, ReadCursor(b) PROVE TypeOK'
  BY SMTT(40), <1>4 DEF ReadCursor, TypeOK
<1>5. ASSUME NEW b \in Builders, Fetch(b) PROVE TypeOK'
  <2>1. PICK S \in SUBSET Newer(seen[b]), t \in Times \union {0} :
          /\ at' = [at EXCEPT ![b] = "prior"]
          /\ seen' = [seen EXCEPT ![b] = 0]
          /\ batch' = [batch EXCEPT ![b] = S \ Textless]
          /\ through' = [through EXCEPT ![b] = t]
          /\ unseen' = unseen \union CutOff(S, Newer(seen[b]), t)
          /\ UNCHANGED <<status, created, cursor, folded, prior, moved, edits, fails>>
    BY <1>5 DEF Fetch
  <2>2. Newer(seen[b]) \subseteq Ids
    BY DEF Newer, Active
  <2>3. CutOff(S, Newer(seen[b]), t) \subseteq Ids
    BY <2>2 DEF CutOff
  <2>4. t \in Nat
    BY DEF Times
  <2> QED BY <2>1, <2>2, <2>3, <2>4 DEF TypeOK
<1>6. ASSUME NEW b \in Builders, SkipNoEvidence(b) PROVE TypeOK'
  BY <1>6, LeaveTyped DEF SkipNoEvidence, TypeOK
<1>7. ASSUME NEW b \in Builders, ReadPrior(b) PROVE TypeOK'
  BY <1>7 DEF ReadPrior, TypeOK
<1>8. ASSUME NEW b \in Builders, Commit(b) PROVE TypeOK'
  <2>1. prior[b] \union batch[b] \in SUBSET Ids
    BY DEF TypeOK
  <2>2. Swap(b, prior[b] \union batch[b]) /\ UNCHANGED fails
    BY <1>8 DEF Commit
  <2>3. CASE through[b] = 0
    BY <1>8, <2>1, <2>2, <2>3, LeaveTyped, SwapTyped DEF Commit, TypeOK
  <2>4. CASE through[b] # 0
    BY <1>8, <2>1, <2>2, <2>4, SwapTyped DEF Commit, TypeOK
  <2> QED BY <2>3, <2>4
<1>9. ASSUME NEW b \in Builders, CommitPrior(b) PROVE TypeOK'
  <2>1. prior[b] \in SUBSET Ids
    BY DEF TypeOK
  <2>2. Swap(b, prior[b]) /\ Leave(b) /\ fails' = fails + 1
    BY <1>9 DEF CommitPrior
  <2>3. /\ folded' \subseteq Ids /\ moved' \in [Builders -> BOOLEAN]
        /\ status' = status /\ created' = created /\ cursor' = cursor
        /\ edits' = edits /\ unseen' = unseen
    BY <2>1, <2>2, SwapTyped
  <2>4. /\ at' \in [Builders -> {"idle", "fetch", "prior", "synthesis", "stamp"}]
        /\ seen' \in [Builders -> Nat] /\ batch' \in [Builders -> SUBSET Ids]
        /\ through' \in [Builders -> Nat] /\ prior' \in [Builders -> SUBSET Ids]
    BY <2>2, LeaveTyped
  <2> QED BY <2>2, <2>3, <2>4 DEF TypeOK
<1>10. ASSUME NEW b \in Builders, CommitUnacknowledged(b) PROVE TypeOK'
  <2>1. prior[b] \union batch[b] \in SUBSET Ids
    BY DEF TypeOK
  <2>2. Swap(b, prior[b] \union batch[b]) /\ Leave(b) /\ fails' = fails + 1
    BY <1>10 DEF CommitUnacknowledged
  <2>3. /\ folded' \subseteq Ids /\ moved' \in [Builders -> BOOLEAN]
        /\ status' = status /\ created' = created /\ cursor' = cursor
        /\ edits' = edits /\ unseen' = unseen
    BY <2>1, <2>2, SwapTyped
  <2>4. /\ at' \in [Builders -> {"idle", "fetch", "prior", "synthesis", "stamp"}]
        /\ seen' \in [Builders -> Nat] /\ batch' \in [Builders -> SUBSET Ids]
        /\ through' \in [Builders -> Nat] /\ prior' \in [Builders -> SUBSET Ids]
    BY <2>2, LeaveTyped
  <2> QED BY <2>2, <2>3, <2>4 DEF TypeOK
<1>11. ASSUME NEW b \in Builders, CasLost(b) PROVE TypeOK'
  BY <1>11, LeaveTyped DEF CasLost, TypeOK
<1>12. ASSUME NEW b \in Builders, WriteCursor(b) PROVE TypeOK'
  BY <1>12, LeaveTyped DEF WriteCursor, TypeOK
<1>13. ASSUME NEW b \in Builders, BuildFails(b) PROVE TypeOK'
  BY <1>13, LeaveTyped DEF BuildFails, TypeOK
<1>14. CASE UNCHANGED vars
  BY <1>14 DEF vars, buildVars, TypeOK
<1> QED
  BY <1>1, <1>2, <1>3, <1>4, <1>5, <1>6, <1>7, <1>8, <1>9, <1>10, <1>11, <1>12, <1>13,
     <1>14 DEF Next, Write, BuildStep, Failure

(* Every variable keeps its type, for every bound, batch limit, set of     *)
(* builders and set of text-less memories.                                 *)
THEOREM TypeCorrect == Spec => []TypeOK
BY InitTyped, TypesKept, PTL DEF Spec

-----------------------------------------------------------------------------
(* What the cursor has passed, or will have passed when a build under way  *)
(* moves it, is folded or about to be.                                     *)
FetchOK(b) == at[b] = "fetch" =>
  \A x \in Evidence : created[x] <= seen[b] => x \in folded

BatchOK(b) == at[b] \in {"prior", "synthesis"} =>
  \A x \in Evidence : created[x] <= through[b] => x \in folded \union batch[b]

StampOK(b) == at[b] = "stamp" =>
  \A x \in Evidence : created[x] <= through[b] => x \in folded

(* A version that has not moved belongs to the state that was read         *)
PriorOK(b) == at[b] = "synthesis" /\ ~moved[b] => prior[b] = folded

BuildOK(b) == FetchOK(b) /\ BatchOK(b) /\ StampOK(b) /\ PriorOK(b)

BuildInv == TypeOK /\ NoEvidenceBurned /\ \A b \in Builders : BuildOK(b)

-----------------------------------------------------------------------------
(* A write of a capture or a user leaves the evidence as it is, except for *)
(* a memory that appears ahead of the cursor and of every build.           *)
LEMMA WriteNoticed ==
  ASSUME TypeOK, Write
  PROVE  /\ \A y \in Evidence' : \/ y \in Evidence /\ created'[y] = created[y]
                                 \/ created'[y] \in Nat /\ ~Unnoticed(created'[y])
         /\ UNCHANGED <<cursor, folded, buildVars>>
<1>1. ASSUME NEW x \in Ids, NEW t \in Times, Capture(x, t)
      PROVE  \A y \in Evidence' : \/ y \in Evidence /\ created'[y] = created[y]
                                  \/ created'[y] \in Nat /\ ~Unnoticed(created'[y])
  <2> TAKE y \in Evidence'
  <2>1. CASE y = x
    BY <1>1, <2>1 DEF Capture, Evidence, Active, TypeOK, Times
  <2>2. CASE y # x
    BY <1>1, <2>2 DEF Capture, Evidence, Active, TypeOK
  <2> QED BY <2>1, <2>2
<1>2. ASSUME NEW x \in Ids, Withdraw(x)
      PROVE  \A y \in Evidence' : y \in Evidence /\ created'[y] = created[y]
  BY <1>2 DEF Withdraw, Evidence, Active, TypeOK
<1>3. ASSUME NEW x \in Ids, Restore(x)
      PROVE  \A y \in Evidence' : \/ y \in Evidence /\ created'[y] = created[y]
                                  \/ created'[y] \in Nat /\ ~Unnoticed(created'[y])
  <2> TAKE y \in Evidence'
  <2>1. CASE y = x
    BY <1>3, <2>1 DEF Restore, Evidence, Active, TypeOK
  <2>2. CASE y # x
    BY <1>3, <2>2 DEF Restore, Evidence, Active, TypeOK
  <2> QED BY <2>1, <2>2
<1>4. UNCHANGED <<cursor, folded, buildVars>>
  BY DEF Write, Capture, Withdraw, Restore
<1> QED BY <1>1, <1>2, <1>3, <1>4 DEF Write

LEMMA WriteKeeps ==
  ASSUME BuildInv, Write
  PROVE  NoEvidenceBurned' /\ \A b \in Builders : BuildOK(b)'
<1> USE DEF BuildInv
<1>1. /\ cursor' = cursor /\ folded' = folded /\ at' = at /\ seen' = seen
      /\ batch' = batch /\ through' = through /\ prior' = prior /\ moved' = moved
  BY WriteNoticed DEF buildVars
<1>2. ASSUME NEW y \in Evidence'
      PROVE  \/ y \in Evidence /\ created'[y] = created[y]
             \/ created'[y] \in Nat /\ ~Unnoticed(created'[y])
  BY WriteNoticed
<1>3. NoEvidenceBurned'
  BY <1>1, <1>2 DEF NoEvidenceBurned, Unnoticed
<1>4. ASSUME NEW b \in Builders PROVE BuildOK(b)'
  <2>1. BuildOK(b)
    OBVIOUS
  <2>2. FetchOK(b)'
    BY <1>1, <1>2, <2>1 DEF BuildOK, FetchOK, Unnoticed
  <2>3. BatchOK(b)'
    BY <1>1, <1>2, <2>1 DEF BuildOK, BatchOK, Unnoticed
  <2>4. StampOK(b)'
    BY <1>1, <1>2, <2>1 DEF BuildOK, StampOK, Unnoticed
  <2>5. PriorOK(b)'
    BY <1>1, <2>1 DEF BuildOK, PriorOK
  <2> QED BY <2>2, <2>3, <2>4, <2>5 DEF BuildOK
<1> QED BY <1>3, <1>4

-----------------------------------------------------------------------------
(* A build that is not at work has nothing to answer for                    *)
LEMMA IdleOK == ASSUME NEW b \in Builders, at[b] = "idle" PROVE BuildOK(b)
BY DEF BuildOK, FetchOK, BatchOK, StampOK, PriorOK

(* A step that adds no evidence and drops nothing folded leaves a build     *)
(* right that does not take it.                                             *)
LEMMA OtherKeeps ==
  ASSUME NEW c \in Builders, BuildOK(c),
         Evidence' \subseteq Evidence, created' = created, folded \subseteq folded',
         at'[c] = at[c], seen'[c] = seen[c], batch'[c] = batch[c],
         through'[c] = through[c], prior'[c] = prior[c],
         at[c] = "synthesis" => \/ moved'[c]
                                \/ moved'[c] = moved[c] /\ folded' = folded
  PROVE  BuildOK(c)'
<1>1. FetchOK(c)'
  BY DEF BuildOK, FetchOK
<1>2. BatchOK(c)'
  BY DEF BuildOK, BatchOK
<1>3. StampOK(c)'
  BY DEF BuildOK, StampOK
<1>4. PriorOK(c)'
  BY DEF BuildOK, PriorOK
<1> QED BY <1>1, <1>2, <1>3, <1>4 DEF BuildOK

LEMMA LeaveLeaves ==
  ASSUME TypeOK, NEW b \in Builders, Leave(b)
  PROVE  /\ at'[b] = "idle"
         /\ \A c \in Builders \ {b} :
              /\ at'[c] = at[c] /\ seen'[c] = seen[c] /\ batch'[c] = batch[c]
              /\ through'[c] = through[c] /\ prior'[c] = prior[c]
BY DEF TypeOK, Leave

(* The compare-and-swap adds to what is folded                              *)
LEMMA SwapGrows ==
  ASSUME BuildInv, NEW b \in Builders, NEW content, prior[b] \subseteq content, Swap(b, content)
  PROVE  /\ folded \subseteq folded' /\ folded' = content
         /\ cursor' = cursor /\ created' = created /\ Evidence' = Evidence
         /\ \A c \in Builders \ {b} : at[c] = "synthesis" => moved'[c]
<1>1. prior[b] = folded
  BY DEF BuildInv, BuildOK, PriorOK, Swap
<1> QED BY <1>1 DEF Swap, Evidence, Active

(* A build that ends without touching the state                             *)
LEMMA LeaveKeeps ==
  ASSUME BuildInv, NEW b \in Builders, Leave(b),
         UNCHANGED <<status, created, folded, unseen>>,
         \A c \in Builders \ {b} : moved'[c] = moved[c],
         cursor' = cursor \/ (at[b] = "stamp" /\ cursor' = through[b])
  PROVE  NoEvidenceBurned' /\ \A c \in Builders : BuildOK(c)'
<1> USE DEF BuildInv
<1>1. Evidence' = Evidence
  BY DEF Evidence, Active
<1>2. NoEvidenceBurned'
  BY <1>1 DEF NoEvidenceBurned, BuildOK, StampOK
<1>3. ASSUME NEW c \in Builders PROVE BuildOK(c)'
  <2>1. CASE c = b
    BY <2>1, LeaveLeaves DEF BuildOK, FetchOK, BatchOK, StampOK, PriorOK
  <2>2. CASE c # b
    BY <2>2, <1>1, LeaveLeaves, OtherKeeps
  <2> QED BY <2>1, <2>2
<1> QED BY <1>2, <1>3

(* A committed write, with the build over                                   *)
LEMMA SwapLeaveKeeps ==
  ASSUME BuildInv, NEW b \in Builders, NEW content, prior[b] \subseteq content,
         Swap(b, content), Leave(b)
  PROVE  NoEvidenceBurned' /\ \A c \in Builders : BuildOK(c)'
<1> USE DEF BuildInv
<1>1. NoEvidenceBurned'
  BY SwapGrows DEF NoEvidenceBurned
<1>2. ASSUME NEW c \in Builders PROVE BuildOK(c)'
  <2>1. CASE c = b
    BY <2>1, LeaveLeaves DEF BuildOK, FetchOK, BatchOK, StampOK, PriorOK
  <2>2. CASE c # b
    BY <2>2, SwapGrows, LeaveLeaves, OtherKeeps
  <2> QED BY <2>1, <2>2
<1> QED BY <1>1, <1>2

-----------------------------------------------------------------------------
(* The fetch.  A memory newer than the cursor and not after the time the    *)
(* batch is built through is in the batch, has no text, or was cut off.     *)
LEMMA BatchComplete ==
  ASSUME TypeOK, NEW c \in Nat, NEW S \in SUBSET Newer(c), NEW t \in Times \union {0},
         Fetched(S, Newer(c)), BuiltThrough(t, S \ Textless),
         NEW x \in Newer(c), x \notin Textless, created[x] <= t
  PROVE  x \in S \/ x \in CutOff(S, Newer(c), t)
<1> SUFFICES ASSUME x \notin S PROVE x \in CutOff(S, Newer(c), t)
  OBVIOUS
<1> DEFINE B == S \ Textless
<1>1. S \subseteq Ids /\ \A y \in Ids : created[y] \in Nat
  BY DEF Newer, Active, TypeOK
<1>2. x \in Ids /\ created[x] > c
  BY DEF Newer, Active
<1>3. S # Newer(c) /\ Cardinality(S) = Limit /\ \A y \in S : created[y] <= created[x]
  BY DEF Fetched
<1>4. CASE S \intersect Textless # {}
  BY <1>4 DEF CutOff
<1>5. CASE S \intersect Textless = {}
  <2>1. B = S
    BY <1>5
  <2>2. ~(Cardinality(B) < Limit)
    BY <2>1, <1>3
  <2>3. PICK tail \in Times :
          /\ Latest(tail, B)
          /\ IF {y \in B : created[y] < tail} = {} THEN t = 0
             ELSE Latest(t, {y \in B : created[y] < tail})
    BY <2>2 DEF BuiltThrough
  <2>4. tail <= created[x]
    BY <2>1, <2>3, <1>1, <1>2, <1>3 DEF Latest
  <2>5. CASE t = 0
    BY <2>5, <1>1, <1>2
  <2>6. CASE t # 0
    <3>1. PICK y \in B : created[y] < tail /\ t = created[y]
      BY <2>6, <2>3 DEF Latest
    <3> QED BY <3>1, <2>1, <2>4, <1>1, <1>2 DEF Times
  <2> QED BY <2>5, <2>6
<1> QED BY <1>4, <1>5

LEMMA FetchKeeps ==
  ASSUME BuildInv, NEW b \in Builders, Fetch(b)
  PROVE  NoEvidenceBurned' /\ \A c \in Builders : BuildOK(c)'
<1> USE DEF BuildInv
<1>1. PICK S \in SUBSET Newer(seen[b]), t \in Times \union {0} :
        /\ at[b] = "fetch" /\ Fetched(S, Newer(seen[b]))
        /\ BuiltThrough(t, S \ Textless)
        /\ at' = [at EXCEPT ![b] = "prior"]
        /\ seen' = [seen EXCEPT ![b] = 0]
        /\ batch' = [batch EXCEPT ![b] = S \ Textless]
        /\ through' = [through EXCEPT ![b] = t]
        /\ unseen' = unseen \union CutOff(S, Newer(seen[b]), t)
        /\ UNCHANGED <<status, created, cursor, folded, prior, moved, edits, fails>>
  BY DEF Fetch
<1>2. Evidence' \subseteq Evidence /\ created' = created /\ folded' = folded
  BY <1>1 DEF Evidence, Active
<1>3. NoEvidenceBurned'
  BY <1>1, <1>2 DEF NoEvidenceBurned
<1>4. ASSUME NEW c \in Builders PROVE BuildOK(c)'
  <2>1. CASE c = b
    <3>1. ASSUME NEW x \in Evidence', created[x] <= t PROVE x \in folded \union (S \ Textless)
      <4>1. x \in Evidence /\ x \notin CutOff(S, Newer(seen[b]), t) /\ x \notin Textless
        BY <3>1, <1>1 DEF Evidence, Active
      <4>2. created[x] \in Nat /\ seen[b] \in Nat
        BY <4>1 DEF Evidence, Active, TypeOK
      <4>3. CASE created[x] <= seen[b]
        BY <4>3, <4>1, <1>1 DEF BuildOK, FetchOK
      <4>4. CASE created[x] > seen[b]
        <5>1. x \in Newer(seen[b])
          BY <4>1, <4>4 DEF Newer, Evidence
        <5> QED BY <5>1, <4>1, <4>2, <3>1, <1>1, BatchComplete
      <4> QED BY <4>2, <4>3, <4>4
    <3>2. at'[b] = "prior" /\ batch'[b] = S \ Textless /\ through'[b] = t
      BY <1>1 DEF TypeOK
    <3> QED BY <2>1, <3>1, <3>2, <1>2 DEF BuildOK, FetchOK, BatchOK, StampOK, PriorOK
  <2>2. CASE c # b
    <3>1. /\ at'[c] = at[c] /\ seen'[c] = seen[c] /\ batch'[c] = batch[c]
          /\ through'[c] = through[c] /\ prior'[c] = prior[c] /\ moved'[c] = moved[c]
      BY <2>2, <1>1 DEF TypeOK
    <3> QED BY <3>1, <1>2, OtherKeeps
  <2> QED BY <2>1, <2>2
<1> QED BY <1>3, <1>4

LEMMA ReadsKeep ==
  ASSUME BuildInv, NEW b \in Builders, ReadCursor(b) \/ ReadPrior(b)
  PROVE  NoEvidenceBurned' /\ \A c \in Builders : BuildOK(c)'
<1> USE DEF BuildInv
<1>1. Evidence' = Evidence /\ created' = created /\ folded' = folded /\ cursor' = cursor
  BY DEF ReadCursor, ReadPrior, Evidence, Active
<1>2. NoEvidenceBurned'
  BY <1>1 DEF NoEvidenceBurned
<1>3. ASSUME NEW c \in Builders, c # b PROVE BuildOK(c)'
  <2>1. /\ at'[c] = at[c] /\ seen'[c] = seen[c] /\ batch'[c] = batch[c]
        /\ through'[c] = through[c] /\ prior'[c] = prior[c] /\ moved'[c] = moved[c]
    BY <1>3 DEF ReadCursor, ReadPrior, TypeOK
  <2> QED BY <2>1, <1>1, OtherKeeps
<1>4. CASE ReadCursor(b)
  <2>1. at'[b] = "fetch" /\ seen'[b] = cursor
    BY <1>4 DEF ReadCursor, TypeOK
  <2>2. BuildOK(b)'
    BY <2>1, <1>1 DEF BuildOK, FetchOK, BatchOK, StampOK, PriorOK, NoEvidenceBurned
  <2> QED BY <2>2, <1>2, <1>3
<1>5. CASE ReadPrior(b)
  <2>1. /\ at[b] = "prior" /\ at'[b] = "synthesis" /\ prior'[b] = folded
        /\ batch'[b] = batch[b] /\ through'[b] = through[b]
    BY <1>5 DEF ReadPrior, TypeOK
  <2>2. BuildOK(b)'
    BY <2>1, <1>1 DEF BuildOK, FetchOK, BatchOK, StampOK, PriorOK
  <2> QED BY <2>2, <1>2, <1>3
<1> QED BY <1>4, <1>5

LEMMA CommitKeeps ==
  ASSUME BuildInv, NEW b \in Builders, Commit(b)
  PROVE  NoEvidenceBurned' /\ \A c \in Builders : BuildOK(c)'
<1> USE DEF BuildInv
<1> DEFINE content == prior[b] \union batch[b]
<1>1. Swap(b, content) /\ prior[b] \subseteq content
  BY DEF Commit
<1>2. CASE Leave(b)
  BY <1>1, <1>2, SwapLeaveKeeps
<1>3. CASE ~Leave(b)
  <2>1. /\ at' = [at EXCEPT ![b] = "stamp"]
        /\ prior' = [prior EXCEPT ![b] = {}]
        /\ UNCHANGED <<seen, batch, through>>
    BY <1>3 DEF Commit
  <2>2. NoEvidenceBurned'
    BY <1>1, SwapGrows DEF NoEvidenceBurned
  <2>3. ASSUME NEW c \in Builders PROVE BuildOK(c)'
    <3>1. CASE c = b
      <4>1. at[b] = "synthesis" /\ at'[b] = "stamp" /\ through'[b] = through[b]
        BY <1>1, <2>1 DEF Swap, TypeOK
      <4>2. /\ folded \subseteq folded' /\ folded' = content
            /\ created' = created /\ Evidence' = Evidence
        BY <1>1, SwapGrows
      <4>3. StampOK(b)'
        BY <4>1, <4>2 DEF BuildOK, BatchOK, StampOK
      <4> QED BY <3>1, <4>1, <4>3 DEF BuildOK, FetchOK, BatchOK, PriorOK
    <3>2. CASE c # b
      <4>1. /\ at'[c] = at[c] /\ seen'[c] = seen[c] /\ batch'[c] = batch[c]
            /\ through'[c] = through[c] /\ prior'[c] = prior[c]
        BY <3>2, <2>1 DEF TypeOK
      <4> QED BY <3>2, <4>1, <1>1, SwapGrows, OtherKeeps
    <3> QED BY <3>1, <3>2
  <2> QED BY <2>2, <2>3
<1> QED BY <1>2, <1>3

LEMMA EndsKeep ==
  ASSUME BuildInv, NEW b \in Builders,
         SkipNoEvidence(b) \/ CasLost(b) \/ WriteCursor(b) \/ BuildFails(b)
  PROVE  NoEvidenceBurned' /\ \A c \in Builders : BuildOK(c)'
<1>1. Leave(b) /\ UNCHANGED <<status, created, folded, unseen>>
  BY DEF SkipNoEvidence, CasLost, WriteCursor, BuildFails
<1>2. \A c \in Builders \ {b} : moved'[c] = moved[c]
  BY DEF SkipNoEvidence, CasLost, WriteCursor, BuildFails, BuildInv, TypeOK
<1>3. cursor' = cursor \/ (at[b] = "stamp" /\ cursor' = through[b])
  BY DEF SkipNoEvidence, CasLost, WriteCursor, BuildFails
<1> QED BY <1>1, <1>2, <1>3, LeaveKeeps

LEMMA PartialCommitsKeep ==
  ASSUME BuildInv, NEW b \in Builders, CommitPrior(b) \/ CommitUnacknowledged(b)
  PROVE  NoEvidenceBurned' /\ \A c \in Builders : BuildOK(c)'
<1>1. PICK content : prior[b] \subseteq content /\ Swap(b, content) /\ Leave(b)
  BY DEF CommitPrior, CommitUnacknowledged
<1> QED BY <1>1, SwapLeaveKeeps

LEMMA InvKept == BuildInv /\ [Next]_vars => BuildInv'
<1> SUFFICES ASSUME BuildInv, [Next]_vars PROVE BuildInv'
  OBVIOUS
<1>1. TypeOK'
  BY TypesKept DEF BuildInv
<1>2. CASE Next
  <2>1. NoEvidenceBurned' /\ \A c \in Builders : BuildOK(c)'
    BY <1>2, WriteKeeps, FetchKeeps, ReadsKeep, CommitKeeps, EndsKeep, PartialCommitsKeep
       DEF Next, BuildStep, Failure
  <2> QED BY <1>1, <2>1 DEF BuildInv
<1>3. CASE UNCHANGED vars
  <2>1. NoEvidenceBurned'
    BY <1>3 DEF vars, BuildInv, NoEvidenceBurned, Evidence, Active
  <2>2. \A c \in Builders : BuildOK(c)'
    BY <1>3 DEF vars, buildVars, BuildInv, BuildOK, FetchOK, BatchOK, StampOK, PriorOK,
                Evidence, Active
  <2> QED BY <1>1, <2>1, <2>2 DEF BuildInv
<1> QED BY <1>2, <1>3

LEMMA InvInit == Init => BuildInv
<1> SUFFICES ASSUME Init PROVE BuildInv
  OBVIOUS
<1>1. Evidence = {}
  BY DEF Init, Evidence, Active
<1>2. \A b \in Builders : BuildOK(b)
  BY DEF Init, BuildOK, FetchOK, BatchOK, StampOK, PriorOK
<1> QED BY <1>1, <1>2, InitTyped DEF BuildInv, NoEvidenceBurned

(* The cursor burns no evidence, whatever overlaps or fails, for every      *)
(* number of memories, builds and failures and every batch limit.           *)
THEOREM EvidenceKept == Spec => []NoEvidenceBurned
<1>1. BuildInv => NoEvidenceBurned
  BY DEF BuildInv
<1> QED BY <1>1, InvInit, InvKept, PTL DEF Spec

-----------------------------------------------------------------------------
LEMMA StepsFold == BuildInv /\ [Next]_vars => folded \subseteq folded'
<1> SUFFICES ASSUME BuildInv, [Next]_vars PROVE folded \subseteq folded'
  OBVIOUS
<1>1. ASSUME NEW b \in Builders, Commit(b) \/ CommitPrior(b) \/ CommitUnacknowledged(b)
      PROVE  folded \subseteq folded'
  <2>1. PICK content : prior[b] \subseteq content /\ Swap(b, content)
    BY <1>1 DEF Commit, CommitPrior, CommitUnacknowledged
  <2> QED BY <2>1, SwapGrows
<1>2. ASSUME NEW b \in Builders,
             \/ ReadCursor(b) \/ Fetch(b) \/ SkipNoEvidence(b) \/ ReadPrior(b)
             \/ CasLost(b) \/ WriteCursor(b) \/ BuildFails(b)
      PROVE  folded' = folded
  BY <1>2 DEF ReadCursor, Fetch, SkipNoEvidence, ReadPrior, CasLost, WriteCursor, BuildFails
<1>3. Write => folded' = folded
  BY DEF Write, Capture, Withdraw, Restore
<1>4. UNCHANGED vars => folded' = folded
  BY DEF vars
<1> QED BY <1>1, <1>2, <1>3, <1>4 DEF Next, BuildStep, Failure

(* No build undoes another's: the compare-and-swap admits only writes that  *)
(* carry forward what the state rests on.                                   *)
THEOREM BuildsAccumulate == Spec => NoBuildUndone
<1>1. BuildInv /\ [Next]_vars => [folded \subseteq folded']_folded
  BY StepsFold
<1> QED BY <1>1, InvInit, InvKept, PTL DEF Spec, NoBuildUndone
=============================================================================
