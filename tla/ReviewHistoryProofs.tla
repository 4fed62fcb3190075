------------------------- MODULE ReviewHistoryProofs -------------------------
(***************************************************************************)
(* Theorems about ReviewHistory, for any commits, jobs, fingerprints and   *)
(* severities, any number of findings of one fingerprint and of reruns.    *)
(***************************************************************************)
EXTENDS ReviewHistory, FiniteSetTheorems, TLAPS

-----------------------------------------------------------------------------
(* Numbers: choosing a smallest or a largest one *)

LEMMA SmallestThere ==
  ASSUME NEW S \in SUBSET Nat, S # {}
  PROVE  \E n \in S : \A m \in S : n <= m
  <1> DEFINE Below == FiniteSubsetsOf(Nat)
             R == StrictSubsetOrdering(Nat)
             T == {1 .. n : n \in S}
  <1>1. IsWellFoundedOn(R, Below)
    BY FS_StrictSubsetOrderingWellFounded
  <1>2. \A n \in S : 1 .. n \in Below
    <2> TAKE n \in S
    <2>1. n \in Nat /\ 1 \in Int /\ n \in Int
      OBVIOUS
    <2>2. IsFiniteSet(1 .. n)
      BY <2>1, FS_Interval
    <2>3. 1 .. n \in SUBSET Nat
      OBVIOUS
    <2>4. QED
      BY <2>2, <2>3 DEF FiniteSubsetsOf
  <1>3. T \subseteq Below /\ T # {}
    BY <1>2
  <1>4. PICK x \in T : \A y \in T : <<y, x>> \notin R
    <2> HIDE DEF R, Below, T
    <2>1. QED
      BY <1>1, <1>3, WFMin
  <1>5. PICK n \in S : x = 1 .. n
    OBVIOUS
  <1>6. \A m \in S : n <= m
    <2> SUFFICES ASSUME NEW m \in S, m < n PROVE FALSE
      OBVIOUS
    <2>1. 1 .. m \subseteq 1 .. n /\ n \in 1 .. n /\ n \notin 1 .. m
      OBVIOUS
    <2>2. <<1 .. m, 1 .. n>> \in R
      BY <2>1 DEF StrictSubsetOrdering
    <2>3. QED
      BY <1>4, <1>5, <2>2
  <1>7. QED
    BY <1>6

LEMMA LargestThere ==
  ASSUME NEW S \in SUBSET Nat, S # {}, NEW bound \in Nat, \A n \in S : n <= bound
  PROVE  \E n \in S : \A m \in S : m <= n
  <1> DEFINE Gaps == {bound - n : n \in S}
  <1>1. Gaps \in SUBSET Nat /\ Gaps # {}
    <2>1. \A n \in S : bound - n \in Nat
      OBVIOUS
    <2>2. QED
      BY <2>1
  <1>2. PICK gap \in Gaps : \A g \in Gaps : gap <= g
    <2> HIDE DEF Gaps
    <2>1. QED
      BY <1>1, SmallestThere
  <1>3. PICK n \in S : gap = bound - n
    OBVIOUS
  <1>4. \A m \in S : m <= n
    <2> TAKE m \in S
    <2>1. bound - n <= bound - m
      BY <1>2, <1>3
    <2>2. QED
      BY <2>1
  <1>5. QED
    BY <1>4

-----------------------------------------------------------------------------
(* Findings *)

LEMMA FindingFields ==
  ASSUME NEW f \in Finding
  PROVE  /\ f.key \in Keys /\ f.twin \in Twins
         /\ f.lifecycle \in Lifecycles
         /\ f.before \in {"none"} \cup Lifecycles
         /\ f.verdict \in {"none", "valid", "dismissed"}
         /\ Id(f) \in Keys \X Twins
  BY DEF Finding, Id, Verdicts

\* A set of findings has a last one of each of its fingerprints.
LEMMA LastThere ==
  ASSUME NEW findings \in SUBSET Finding, NEW key \in KeysOf(findings)
  PROVE  Last(findings, key) \in findings /\ Last(findings, key).key = key
  <1> DEFINE Same == {f \in findings : f.key = key}
             Places == {f.twin : f \in Same}
  <1>1. Same # {} /\ \A f \in Same : f.twin \in 1 .. MaxTwins
    BY DEF KeysOf, Finding, Twins
  <1>2. Places \in SUBSET Nat /\ Places # {} /\ \A n \in Places : n <= MaxTwins
    BY <1>1, BoundsAreNumbers
  <1>3. PICK n \in Places : \A m \in Places : m <= n
    <2> HIDE DEF Places
    <2>1. QED
      BY <1>2, LargestThere, BoundsAreNumbers
  <1>4. PICK f \in Same : n = f.twin
    OBVIOUS
  <1>5. \A g \in Same : g.twin <= f.twin
    BY <1>3, <1>4
  <1>6. \E g \in findings :
            g.key = key /\ \A h \in findings : h.key = key => h.twin <= g.twin
    BY <1>5
  <1>7. QED
    BY <1>6 DEF Last

\* The lifecycle refresh_finding_lifecycle gives.
Renewed(lifecycle, before, verdict) ==
    IF verdict = "dismissed" THEN "dismissed"
    ELSE IF verdict = "valid" /\ lifecycle = "dismissed"
    THEN IF before = "none" THEN "new" ELSE before
    ELSE lifecycle

LEMMA RefreshedFields ==
  ASSUME NEW f \in Finding
  PROVE  /\ Refreshed(f) \in Finding
         /\ Refreshed(f).key = f.key /\ Refreshed(f).twin = f.twin
         /\ Refreshed(f).before = f.before /\ Refreshed(f).verdict = f.verdict
         /\ Refreshed(f).lifecycle = Renewed(f.lifecycle, f.before, f.verdict)
  BY DEF Refreshed, Renewed, Finding, Lifecycles

LEMMA ClassifiedFields ==
  ASSUME NEW id \in Keys \X Twins, NEW before \in SUBSET Finding
  PROVE  /\ Classified(id, before) \in Finding
         /\ Id(Classified(id, before)) = id
         /\ Classified(id, before).key = id[1]
         /\ Classified(id, before).verdict = "none"
         /\ Classified(id, before).lifecycle =
              IF id[1] \in DismissedKeys(before) THEN "dismissed"
              ELSE IF id[1] \in KeysOf(before) THEN "recurring" ELSE "new"
         /\ Classified(id, before).before =
              IF id[1] \in DismissedKeys(before) THEN "recurring" ELSE "none"
  BY DEF Classified, Finding, Lifecycles, Verdicts, Id

LEMMA JudgedFields ==
  ASSUME NEW f \in Finding, NEW verdict \in {"valid", "dismissed"}
  PROVE  LET before == IF verdict = "dismissed" /\ f.lifecycle # "dismissed" THEN f.lifecycle
                       ELSE f.before
         IN  /\ Judged(f, verdict) \in Finding
             /\ Judged(f, verdict).key = f.key /\ Judged(f, verdict).twin = f.twin
             /\ Judged(f, verdict).verdict = verdict
             /\ Judged(f, verdict).before = before
             /\ Judged(f, verdict).lifecycle = Renewed(f.lifecycle, before, verdict)
  <1> DEFINE g == [f EXCEPT !.before = IF verdict = "dismissed" /\ f.lifecycle # "dismissed"
                                       THEN f.lifecycle ELSE @,
                            !.verdict = verdict]
  <1>1. /\ g \in Finding /\ g.key = f.key /\ g.twin = f.twin /\ g.verdict = verdict
        /\ g.lifecycle = f.lifecycle
        /\ g.before = IF verdict = "dismissed" /\ f.lifecycle # "dismissed" THEN f.lifecycle
                      ELSE f.before
    BY DEF Finding, Verdicts
  <1>2. Judged(f, verdict) = Refreshed(g)
    BY DEF Judged
  <1> HIDE DEF g
  <1>3. QED
    BY <1>1, <1>2, RefreshedFields

\* What the persisted finding p, if there is one, makes of f.
LEMMA WithFeedbackFields ==
  ASSUME NEW f \in Finding, NEW persisted \in SUBSET Finding, f.key \in KeysOf(persisted)
  PROVE  LET p == Last(persisted, f.key)
             g == WithFeedback(f, persisted)
             judged == p.verdict # "none"
             verdict == IF judged THEN p.verdict ELSE f.verdict
             before == IF judged /\ p.before # "none" THEN p.before ELSE f.before
         IN  /\ p \in persisted /\ p.key = f.key
             /\ g \in Finding
             /\ g.key = f.key /\ g.twin = f.twin
             /\ g.verdict = verdict
             /\ g.before = before
             /\ g.lifecycle = Renewed(IF IsDismissed(p) THEN "dismissed" ELSE f.lifecycle,
                                      before, verdict)
  <1> DEFINE p == Last(persisted, f.key)
             judged == p.verdict # "none"
             h == [f EXCEPT !.verdict = IF judged THEN p.verdict ELSE @,
                            !.before = IF judged /\ p.before # "none" THEN p.before ELSE @,
                            !.lifecycle = IF IsDismissed(p) THEN "dismissed" ELSE @]
  <1>1. p \in persisted /\ p.key = f.key /\ p \in Finding
    BY LastThere
  <1> HIDE DEF p
  <1>2. /\ h \in Finding /\ h.key = f.key /\ h.twin = f.twin
        /\ h.verdict = (IF judged THEN p.verdict ELSE f.verdict)
        /\ h.before = (IF judged /\ p.before # "none" THEN p.before ELSE f.before)
        /\ h.lifecycle = (IF IsDismissed(p) THEN "dismissed" ELSE f.lifecycle)
    BY <1>1 DEF Finding, Lifecycles
  <1>3. WithFeedback(f, persisted) = Refreshed(h)
    BY DEF WithFeedback, p
  <1> HIDE DEF h
  <1>4. QED
    BY <1>1, <1>2, <1>3, RefreshedFields DEF p

LEMMA WithFeedbackTyped ==
  ASSUME NEW f \in Finding, NEW persisted \in SUBSET Finding
  PROVE  /\ WithFeedback(f, persisted) \in Finding
         /\ Id(WithFeedback(f, persisted)) = Id(f)
  <1>1. CASE f.key \in KeysOf(persisted)
    BY <1>1, WithFeedbackFields DEF Id
  <1>2. CASE f.key \notin KeysOf(persisted)
    BY <1>2, RefreshedFields DEF WithFeedback, Id
  <1>3. QED
    BY <1>1, <1>2

IdsOf(findings) == {Id(f) : f \in findings}

LEMMA ClassifyTyped ==
  ASSUME NEW ids \in SUBSET (Keys \X Twins), NEW before \in SUBSET Finding
  PROVE  /\ Classify(ids, before) \in SUBSET Finding
         /\ IdsOf(Classify(ids, before)) = ids
         /\ KeysOf(Classify(ids, before)) = {id[1] : id \in ids}
  BY ClassifiedFields DEF Classify, IdsOf, KeysOf

LEMMA ApplyFeedbackTyped ==
  ASSUME NEW findings \in SUBSET Finding, NEW persisted \in SUBSET Finding
  PROVE  /\ ApplyFeedback(findings, persisted) \in SUBSET Finding
         /\ IdsOf(ApplyFeedback(findings, persisted)) = IdsOf(findings)
  <1>1. \A f \in findings : /\ WithFeedback(f, persisted) \in Finding
                            /\ Id(WithFeedback(f, persisted)) = Id(f)
    BY WithFeedbackTyped
  <1>2. QED
    BY <1>1 DEF ApplyFeedback, IdsOf

\* The fingerprints of findings are those of their identities.
LEMMA KeysAreIds ==
  ASSUME NEW findings
  PROVE  KeysOf(findings) = {id[1] : id \in IdsOf(findings)}
  <1>1. \A f : Id(f)[1] = f.key
    BY DEF Id
  <1>2. QED
    BY <1>1 DEF KeysOf, IdsOf

-----------------------------------------------------------------------------
(* The invariant of the numbering *)

Seen == {c \in Commits : row[c].version # 0}

Working(j) == job[j].pc \in {"begun", "analysing"}

\* What the local state of a job says of the rows.
JobFits(j) ==
    LET c == job[j].commit IN
    /\ job[j].pc \in {"locked", "counted"} => holder = j
    /\ job[j].pc = "counted" => row[c].version = 0 /\ job[j].next = Cardinality(Seen) + 1
    /\ Working(j) => row[c].version # 0 /\ row[c].stored # "analysis"

WorkersApart ==
    \A i, j \in Jobs : Working(i) /\ Working(j) /\ job[i].commit = job[j].commit => i = j

Gapless ==
    /\ \A c, d \in Seen : row[c].version = row[d].version => c = d
    /\ {row[c].version : c \in Seen} = 1 .. Cardinality(Seen)

Numbered ==
    /\ \A j \in Jobs : JobFits(j)
    /\ WorkersApart
    /\ Gapless
    /\ \A c \in Commits : row[c].version = 0 => row[c].stored = "no"

Sound == TypeOK /\ Numbered

-----------------------------------------------------------------------------
(* How a step changes the state *)

LEMMA GoesFields ==
  ASSUME TypeOK, NEW j \in Jobs, NEW next \in Nat,
         NEW pc \in {"idle", "locked", "counted", "begun", "analysing", "over"},
         Goes(j, pc, next)
  PROVE  /\ job' \in [Jobs -> JobType]
         /\ job'[j].pc = pc /\ job'[j].next = next
         /\ \A i \in Jobs : job'[i].commit = job[i].commit
         /\ \A i \in Jobs : i # j => job'[i] = job[i]
  <1>1. job[j].commit \in Commits
    BY DEF TypeOK, JobType
  <1>2. Local(pc, job[j].commit, next) \in JobType
    BY <1>1 DEF Local, JobType
  <1>3. job' \in [Jobs -> JobType]
    BY <1>2 DEF Goes, TypeOK
  <1>4. job'[j] = Local(pc, job[j].commit, next)
    BY DEF Goes, TypeOK
  <1>5. \A i \in Jobs : i # j => job'[i] = job[i]
    BY DEF Goes, TypeOK
  <1>6. job'[j].pc = pc /\ job'[j].next = next /\ job'[j].commit = job[j].commit
    BY <1>4 DEF Local
  <1>7. QED
    BY <1>3, <1>5, <1>6

LEMMA RowFields ==
  ASSUME NEW version \in Nat, NEW stored \in {"no", "draft", "analysis"},
         NEW findings \in SUBSET Finding, NEW fixed \in SUBSET Keys, NEW open \in BOOLEAN,
         NEW decision \in {"none", "approve", "reject"}
  PROVE  LET r == Row(version, stored, findings, fixed, open, decision)
         IN  /\ r \in RowType
             /\ r.version = version /\ r.stored = stored /\ r.findings = findings
             /\ r.fixed = fixed /\ r.open = open /\ r.decision = decision
  BY DEF Row, RowType

LEMMA RenumberedFields ==
  ASSUME NEW r \in RowType, NEW version \in Nat
  PROVE  LET q == [r EXCEPT !.version = version]
         IN  /\ q \in RowType
             /\ q.version = version /\ q.stored = r.stored /\ q.findings = r.findings
             /\ q.fixed = r.fixed /\ q.open = r.open /\ q.decision = r.decision
  BY DEF RowType

LEMMA DraftedFields ==
  ASSUME NEW r \in RowType, NEW stored \in {"no", "draft", "analysis"}
  PROVE  LET q == [r EXCEPT !.stored = stored]
         IN  /\ q \in RowType
             /\ q.version = r.version /\ q.stored = stored /\ q.findings = r.findings
             /\ q.fixed = r.fixed /\ q.open = r.open /\ q.decision = r.decision
  BY DEF RowType

LEMMA ToldFields ==
  ASSUME NEW r \in RowType, NEW findings \in SUBSET Finding
  PROVE  LET q == [r EXCEPT !.findings = findings]
         IN  /\ q \in RowType
             /\ q.version = r.version /\ q.stored = r.stored /\ q.findings = findings
             /\ q.fixed = r.fixed /\ q.open = r.open /\ q.decision = r.decision
  BY DEF RowType

\* Only the row of c changes, to r.
RowBecomes(c, r) == row' = [row EXCEPT ![c] = r]

LEMMA RowBecomesFields ==
  ASSUME TypeOK, NEW c \in Commits, NEW r \in RowType, RowBecomes(c, r)
  PROVE  /\ row' \in [Commits -> RowType]
         /\ row'[c] = r
         /\ \A d \in Commits : d # c => row'[d] = row[d]
  BY DEF RowBecomes, TypeOK

LEMMA RowParts ==
  ASSUME TypeOK, NEW c \in Commits
  PROVE  /\ row[c].version \in Nat
         /\ row[c].stored \in {"no", "draft", "analysis"}
         /\ row[c].findings \in SUBSET Finding
         /\ row[c].fixed \in SUBSET Keys
         /\ row[c].open \in BOOLEAN
         /\ row[c].decision \in {"none", "approve", "reject"}
  BY DEF TypeOK, RowType

LEMMA JobParts ==
  ASSUME TypeOK, NEW j \in Jobs
  PROVE  job[j].commit \in Commits /\ job[j].next \in Nat
  BY DEF TypeOK, JobType

LEMMA SeenIsFinite ==
  IsFiniteSet(Seen) /\ Cardinality(Seen) \in Nat
  <1>1. Seen \in SUBSET Commits
    BY DEF Seen
  <1>2. IsFiniteSet(Seen)
    BY <1>1, CommitsAreFinite, FS_Subset
  <1>3. QED
    BY <1>2, FS_CardinalityType

\* Steps that leave every version alone.
LEMMA VersionsKept ==
  ASSUME Gapless, \A c \in Commits : row'[c].version = row[c].version
  PROVE  Seen' = Seen /\ Gapless'
  <1>1. Seen' = Seen
    BY DEF Seen
  <1>2. {row'[c].version : c \in Seen} = {row[c].version : c \in Seen}
    BY DEF Seen
  <1>3. \A c, d \in Seen : row'[c].version = row'[d].version => c = d
    BY DEF Gapless, Seen
  <1>4. QED
    BY <1>1, <1>2, <1>3 DEF Gapless

\* The highest version is the number of commits that have one.
LEMMA HighestVersion ==
  ASSUME Sound, NEW c \in Commits, row[c].version = 0
  PROVE  Highest(Versions) = Cardinality(Seen)
  <1>1. Versions = {0} \cup (1 .. Cardinality(Seen))
    <2>1. Versions = {0} \cup {row[d].version : d \in Seen}
      BY DEF Versions, Seen
    <2>2. QED
      BY <2>1 DEF Sound, Numbered, Gapless
  <1>2. Cardinality(Seen) \in Nat
    BY SeenIsFinite
  <1>3. Cardinality(Seen) \in Versions /\ \A m \in Versions : m <= Cardinality(Seen)
    BY <1>1, <1>2
  <1>4. \A n \in Versions : (\A m \in Versions : m <= n) => n = Cardinality(Seen)
    BY <1>1, <1>2, <1>3
  <1>5. QED
    BY <1>3, <1>4 DEF Highest

\* What Count counted is free when Insert comes.
LEMMA CountedIsFree ==
  ASSUME Sound, NEW j \in Jobs, job[j].pc = "counted"
  PROVE  ~Taken(job[j].commit, job[j].next)
  <1> DEFINE c == job[j].commit
             n == Cardinality(Seen)
  <1>1. /\ c \in Commits /\ row[c].version = 0
        /\ job[j].next = n + 1
    BY JobParts DEF Sound, Numbered, JobFits
  <1>2. n \in Nat
    BY SeenIsFinite
  <1>3. \A d \in Seen : row[d].version \in 1 .. n
    BY DEF Sound, Numbered, Gapless
  <1>4. \A d \in Commits : row[d].version # n + 1
    <2> TAKE d \in Commits
    <2>1. CASE d \in Seen
      BY <1>2, <1>3, <2>1
    <2>2. CASE d \notin Seen
      BY <1>2, <2>2 DEF Seen
    <2>3. QED
      BY <2>1, <2>2
  <1>5. QED
    BY <1>1, <1>4 DEF Taken, Versions

\* The version before is one of the others.
LEMMA PreviousThere ==
  ASSUME TypeOK, NEW c \in Commits, Earlier(c) # {}
  PROVE  Previous(c) \in Earlier(c) /\ Previous(c) \in Commits
  <1> DEFINE Numbers == {row[d].version : d \in Earlier(c)}
  <1>1. \A d \in Earlier(c) :
            d \in Commits /\ row[d].version \in Nat /\ row[d].version <= row[c].version
    BY RowParts DEF Earlier
  <1>2. Numbers \in SUBSET Nat /\ Numbers # {} /\ \A n \in Numbers : n <= row[c].version
    BY <1>1
  <1>3. PICK n \in Numbers : \A m \in Numbers : m <= n
    <2> HIDE DEF Numbers
    <2>1. row[c].version \in Nat
      BY RowParts
    <2>2. QED
      BY <1>2, <2>1, LargestThere
  <1>4. PICK d \in Earlier(c) : n = row[d].version
    OBVIOUS
  <1>5. \A e \in Earlier(c) : row[e].version <= row[d].version
    BY <1>3, <1>4
  <1>6. QED
    BY <1>1, <1>5 DEF Previous

-----------------------------------------------------------------------------
(* Every step keeps the types and the numbering *)

\* A job that does not move fits on, as long as its row does.
LEMMA OtherFits ==
  ASSUME Sound, NEW i \in Jobs, job'[i] = job[i],
         job[i].pc \in {"locked", "counted"} => holder' = i,
         Seen' = Seen,
         row'[job[i].commit].version = row[job[i].commit].version,
         Working(i) => row'[job[i].commit].stored # "analysis"
  PROVE  JobFits(i)'
  BY DEF Sound, Numbered, JobFits, Working

\* A job that works at nothing after the step leaves the workers apart.
LEMMA FewerApart ==
  ASSUME Sound, NEW j \in Jobs, \A i \in Jobs : i # j => job'[i] = job[i],
         Working(j)' => Working(j) /\ job'[j].commit = job[j].commit
  PROVE  WorkersApart'
  BY DEF Sound, Numbered, WorkersApart, Working

LEMMA LockSound ==
  ASSUME Sound, NEW j \in Jobs, Lock(j)
  PROVE  Sound'
  <1>1. TypeOK
    BY DEF Sound
  <1>2. /\ job' \in [Jobs -> JobType] /\ job'[j].pc = "locked"
        /\ \A i \in Jobs : i # j => job'[i] = job[i]
    BY <1>1, GoesFields DEF Lock
  <1>3. TypeOK'
    BY <1>1, <1>2 DEF Lock, TypeOK, history, said, thread
  <1>4. row' = row /\ Seen' = Seen /\ Gapless' /\ holder = Nobody /\ holder' = j
    BY VersionsKept DEF Lock, Sound, Numbered
  <1>5. \A i \in Jobs : JobFits(i)'
    <2> SUFFICES ASSUME NEW i \in Jobs PROVE JobFits(i)'
      OBVIOUS
    <2>1. CASE i = j
      BY <1>2, <1>4, <2>1 DEF JobFits, Working
    <2>2. CASE i # j
      <3>1. job[i].pc \notin {"locked", "counted"}
        BY <1>4, NobodyIsNoJob DEF Sound, Numbered, JobFits
      <3>2. Working(i) => row[job[i].commit].stored # "analysis"
        BY DEF Sound, Numbered, JobFits
      <3>3. QED
        BY <1>2, <1>4, <2>2, <3>1, <3>2, OtherFits
    <2>3. QED
      BY <2>1, <2>2
  <1>6. WorkersApart'
    <2>1. ~Working(j)'
      BY <1>2 DEF Working
    <2>2. QED
      BY <1>2, <2>1, FewerApart
  <1>7. QED
    BY <1>3, <1>4, <1>5, <1>6 DEF Sound, Numbered

LEMMA FindExistingSound ==
  ASSUME Sound, NEW j \in Jobs, FindExisting(j)
  PROVE  Sound'
  <1> DEFINE c == job[j].commit
             free == /\ row[c].stored # "analysis"
                     /\ \A i \in Jobs \ {j} :
                           job[i].commit = c => job[i].pc \notin {"begun", "analysing"}
             pc == IF free THEN "begun" ELSE "over"
  <1>1. TypeOK /\ c \in Commits
    BY JobParts DEF Sound
  <1>2. Goes(j, pc, 0)
    BY DEF FindExisting
  <1>3. /\ job' \in [Jobs -> JobType] /\ job'[j].pc = pc
        /\ \A i \in Jobs : job'[i].commit = job[i].commit
        /\ \A i \in Jobs : i # j => job'[i] = job[i]
    <2>1. pc \in {"idle", "locked", "counted", "begun", "analysing", "over"} /\ 0 \in Nat
      OBVIOUS
    <2> HIDE DEF pc
    <2>2. QED
      BY <1>1, <1>2, <2>1, GoesFields
  <1>4. /\ row' = row /\ Seen' = Seen /\ Gapless' /\ row[c].version # 0
        /\ job[j].pc = "locked" /\ holder' = Nobody /\ holder = j
    BY VersionsKept DEF FindExisting, Sound, Numbered, JobFits
  <1>5. TypeOK'
    BY <1>1, <1>3, <1>4 DEF FindExisting, TypeOK, history, said, thread
  <1>6. \A i \in Jobs : JobFits(i)'
    <2> SUFFICES ASSUME NEW i \in Jobs PROVE JobFits(i)'
      OBVIOUS
    <2>1. CASE i = j
      <3>1. job'[j].pc \in {"begun", "over"}
        BY <1>3
      <3>2. Working(j)' => free
        BY <1>3 DEF Working
      <3>3. QED
        BY <1>3, <1>4, <2>1, <3>1, <3>2 DEF JobFits
    <2>2. CASE i # j
      <3>1. job[i].pc \notin {"locked", "counted"}
        BY <1>4, <2>2 DEF Sound, Numbered, JobFits
      <3>2. Working(i) => row[job[i].commit].stored # "analysis"
        BY DEF Sound, Numbered, JobFits
      <3>3. QED
        BY <1>3, <1>4, <2>2, <3>1, <3>2, OtherFits
    <2>3. QED
      BY <2>1, <2>2
  <1>7. WorkersApart'
    <2>1. CASE free
      <3>1. \A i \in Jobs : i # j /\ Working(i)' => job'[i].commit # job'[j].commit
        BY <1>3, <2>1 DEF Working
      <3>2. \A i, k \in Jobs : i # j /\ k # j /\ Working(i)' /\ Working(k)'
                                 /\ job'[i].commit = job'[k].commit => i = k
        BY <1>3 DEF Working, Sound, Numbered, WorkersApart
      <3>3. QED
        BY <3>1, <3>2 DEF WorkersApart
    <2>2. CASE ~free
      <3>1. ~Working(j)'
        BY <1>3, <2>2 DEF Working
      <3>2. QED
        BY <1>3, <3>1, FewerApart
    <2>3. QED
      BY <2>1, <2>2
  <1>8. QED
    BY <1>4, <1>5, <1>6, <1>7 DEF Sound, Numbered

LEMMA CountSound ==
  ASSUME Sound, NEW j \in Jobs, Count(j)
  PROVE  Sound'
  <1> DEFINE c == job[j].commit
             n == Cardinality(Seen) + 1
  <1>1. TypeOK /\ c \in Commits /\ n \in Nat
    BY JobParts, SeenIsFinite DEF Sound
  <1>2. Goes(j, "counted", n)
    BY <1>1, HighestVersion DEF Count
  <1>3. /\ job' \in [Jobs -> JobType] /\ job'[j].pc = "counted" /\ job'[j].next = n
        /\ \A i \in Jobs : job'[i].commit = job[i].commit
        /\ \A i \in Jobs : i # j => job'[i] = job[i]
    <2> HIDE DEF n
    <2>1. QED
      BY <1>1, <1>2, GoesFields
  <1>4. /\ row' = row /\ Seen' = Seen /\ Gapless' /\ row[c].version = 0
        /\ job[j].pc = "locked" /\ holder' = j /\ holder = j
    BY VersionsKept DEF Count, Sound, Numbered, JobFits
  <1>5. TypeOK'
    BY <1>1, <1>3, <1>4 DEF Count, TypeOK, history, said, thread
  <1>6. \A i \in Jobs : JobFits(i)'
    <2> SUFFICES ASSUME NEW i \in Jobs PROVE JobFits(i)'
      OBVIOUS
    <2>1. CASE i = j
      BY <1>3, <1>4, <2>1 DEF JobFits, Working
    <2>2. CASE i # j
      <3>1. job[i].pc \notin {"locked", "counted"}
        BY <1>4, <2>2 DEF Sound, Numbered, JobFits
      <3>2. Working(i) => row[job[i].commit].stored # "analysis"
        BY DEF Sound, Numbered, JobFits
      <3>3. QED
        BY <1>3, <1>4, <2>2, <3>1, <3>2, OtherFits
    <2>3. QED
      BY <2>1, <2>2
  <1>7. WorkersApart'
    <2>1. ~Working(j)'
      BY <1>3 DEF Working
    <2>2. QED
      BY <1>3, <2>1, FewerApart
  <1>8. QED
    BY <1>4, <1>5, <1>6, <1>7 DEF Sound, Numbered

\* What the insertion does, none being refused.
LEMMA InsertFields ==
  ASSUME Sound, NEW j \in Jobs, Insert(j)
  PROVE  LET c == job[j].commit
             n == Cardinality(Seen) + 1
         IN  /\ c \in Commits /\ row[c].version = 0 /\ row[c].stored = "no"
             /\ holder = j /\ holder' = Nobody
             /\ job' \in [Jobs -> JobType] /\ job'[j].pc = "begun"
             /\ \A i \in Jobs : job'[i].commit = job[i].commit
             /\ \A i \in Jobs : i # j => job'[i] = job[i]
             /\ row' \in [Commits -> RowType]
             /\ row'[c] = [row[c] EXCEPT !.version = n]
             /\ \A d \in Commits : d # c => row'[d] = row[d]
             /\ \A d \in Commits : row'[d].version = IF d = c THEN n ELSE row[d].version
             /\ UNCHANGED <<thread, previous, reruns, history>>
  <1> DEFINE c == job[j].commit
             n == Cardinality(Seen) + 1
             r == [row[c] EXCEPT !.version = n]
  <1>1. TypeOK /\ c \in Commits /\ n \in Nat
    BY JobParts, SeenIsFinite DEF Sound
  <1>2. /\ job[j].pc = "counted" /\ ~Taken(c, job[j].next)
        /\ row[c].version = 0 /\ job[j].next = n /\ holder = j /\ row[c].stored = "no"
    BY <1>1, CountedIsFree DEF Insert, Sound, Numbered, JobFits
  <1>3. r \in RowType /\ r.version = n
    <2>1. row[c] \in RowType
      BY <1>1 DEF TypeOK
    <2> HIDE DEF n
    <2>2. QED
      BY <1>1, <2>1, RenumberedFields
  <1>4. RowBecomes(c, r)
    BY <1>2 DEF Insert, RowBecomes
  <1>5. Goes(j, "begun", 0)
    BY <1>2 DEF Insert
  <1>6. holder' = Nobody /\ UNCHANGED <<thread, previous, reruns, history>>
    BY <1>2 DEF Insert
  <1>7. /\ job' \in [Jobs -> JobType] /\ job'[j].pc = "begun"
        /\ \A i \in Jobs : job'[i].commit = job[i].commit
        /\ \A i \in Jobs : i # j => job'[i] = job[i]
    BY <1>1, <1>5, GoesFields
  <1>8. /\ row' \in [Commits -> RowType] /\ row'[c] = r
        /\ \A d \in Commits : d # c => row'[d] = row[d]
    <2> HIDE DEF r
    <2>1. QED
      BY <1>1, <1>3, <1>4, RowBecomesFields
  <1>9. \A d \in Commits : row'[d].version = IF d = c THEN n ELSE row[d].version
    BY <1>3, <1>8
  <1>10. QED
    BY <1>1, <1>2, <1>6, <1>7, <1>8, <1>9

LEMMA InsertSound ==
  ASSUME Sound, NEW j \in Jobs, Insert(j)
  PROVE  Sound'
  <1> DEFINE c == job[j].commit
             n == Cardinality(Seen) + 1
  <1>1. TypeOK
    BY DEF Sound
  <1>2. /\ c \in Commits /\ row[c].version = 0 /\ row[c].stored = "no"
        /\ holder = j /\ holder' = Nobody
        /\ job' \in [Jobs -> JobType] /\ job'[j].pc = "begun"
        /\ \A i \in Jobs : job'[i].commit = job[i].commit
        /\ \A i \in Jobs : i # j => job'[i] = job[i]
        /\ row' \in [Commits -> RowType]
        /\ row'[c] = [row[c] EXCEPT !.version = n]
        /\ \A d \in Commits : d # c => row'[d] = row[d]
        /\ \A d \in Commits : row'[d].version = IF d = c THEN n ELSE row[d].version
        /\ UNCHANGED <<thread, previous, reruns, history>>
    BY InsertFields
  <1>3. TypeOK'
    <2>1. /\ row' \in [Commits -> RowType] /\ job' \in [Jobs -> JobType] /\ holder' = Nobody
          /\ UNCHANGED <<thread, previous, reruns, history>>
      BY <1>2
    <2>2. QED
      BY <1>1, <2>1 DEF TypeOK, history, said, thread
  <1>4. \A d \in Commits : row'[d].stored = row[d].stored
    <2>1. row[c] \in RowType /\ n \in Nat
      BY <1>1, <1>2, SeenIsFinite DEF TypeOK
    <2> HIDE DEF n
    <2>2. [row[c] EXCEPT !.version = n].stored = row[c].stored
      BY <2>1, RenumberedFields
    <2> HIDE DEF c
    <2>3. QED
      BY <1>2, <2>2
  <1>5. Gapless'
    <2>1. IsFiniteSet(Seen) /\ Cardinality(Seen) \in Nat /\ n \in Nat
      BY SeenIsFinite
    <2>2. Seen' = Seen \cup {c} /\ c \notin Seen
      BY <1>2, <2>1 DEF Seen
    <2>3. Cardinality(Seen)' = n
      BY <2>1, <2>2, FS_AddElement
    <2>4. \A d \in Seen : row[d].version \in 1 .. Cardinality(Seen) /\ d # c /\ d \in Commits
      BY <2>2 DEF Sound, Numbered, Gapless, Seen
    <2>5. \A d, e \in Seen' : row'[d].version = row'[e].version => d = e
      <3> SUFFICES ASSUME NEW d \in Seen', NEW e \in Seen', row'[d].version = row'[e].version
                   PROVE  d = e
        OBVIOUS
      <3>1. CASE d \in Seen /\ e \in Seen
        BY <1>2, <2>4, <3>1 DEF Sound, Numbered, Gapless
      <3>2. CASE d = c /\ e \in Seen
        BY <1>2, <2>1, <2>4, <3>2
      <3>3. CASE d \in Seen /\ e = c
        BY <1>2, <2>1, <2>4, <3>3
      <3>4. QED
        BY <2>2, <3>1, <3>2, <3>3
    <2>6. {row'[d].version : d \in Seen'} = {row[d].version : d \in Seen} \cup {n}
      BY <1>2, <2>2, <2>4
    <2>7. 1 .. n = (1 .. Cardinality(Seen)) \cup {n}
      BY <2>1
    <2>8. QED
      BY <2>3, <2>5, <2>6, <2>7 DEF Sound, Numbered, Gapless
  <1>6. \A i \in Jobs : JobFits(i)'
    <2> SUFFICES ASSUME NEW i \in Jobs PROVE JobFits(i)'
      OBVIOUS
    <2>1. CASE i = j
      <3>1. row'[c].version # 0 /\ row'[c].stored # "analysis" /\ job'[j].commit = c
        BY <1>2, <1>4, SeenIsFinite
      <3>2. QED
        BY <1>2, <2>1, <3>1 DEF JobFits, Working
    <2>2. CASE i # j
      <3>1. job[i].pc \notin {"locked", "counted"}
        BY <1>2, <2>2 DEF Sound, Numbered, JobFits
      <3>2. Working(i) => /\ row[job[i].commit].version # 0
                          /\ row[job[i].commit].stored # "analysis"
        BY DEF Sound, Numbered, JobFits
      <3>3. job[i].commit \in Commits /\ job'[i] = job[i]
        BY <1>1, <1>2, <2>2, JobParts
      <3>4. Working(i) => /\ row'[job[i].commit].version # 0
                          /\ row'[job[i].commit].stored # "analysis"
        BY <1>2, <1>4, <3>2, <3>3
      <3>5. QED
        BY <3>1, <3>3, <3>4 DEF JobFits, Working
    <2>3. QED
      BY <2>1, <2>2
  <1>7. WorkersApart'
    <2>1. \A i \in Jobs : i # j /\ Working(i)' => job'[i].commit # c
      BY <1>2 DEF Working, Sound, Numbered, JobFits
    <2>2. \A i, k \in Jobs : i # j /\ k # j /\ Working(i)' /\ Working(k)'
                               /\ job'[i].commit = job'[k].commit => i = k
      BY <1>2 DEF Working, Sound, Numbered, WorkersApart
    <2>3. job'[j].commit = c
      BY <1>2
    <2>4. QED
      BY <2>1, <2>2, <2>3 DEF WorkersApart
  <1>8. \A d \in Commits : row'[d].version = 0 => row'[d].stored = "no"
    BY <1>2, <1>4, SeenIsFinite DEF Sound, Numbered
  <1>9. QED
    BY <1>3, <1>5, <1>6, <1>7, <1>8 DEF Sound, Numbered

LEMMA DieSound ==
  ASSUME Sound, NEW j \in Jobs, Die(j)
  PROVE  Sound'
  <1>1. TypeOK
    BY DEF Sound
  <1>2. /\ job' \in [Jobs -> JobType] /\ job'[j].pc = "over"
        /\ \A i \in Jobs : i # j => job'[i] = job[i]
    BY <1>1, GoesFields DEF Die
  <1>3. row' = row /\ Seen' = Seen /\ Gapless' /\ holder' = IF holder = j THEN Nobody ELSE holder
    BY VersionsKept DEF Die, Sound, Numbered
  <1>4. TypeOK'
    BY <1>1, <1>2, <1>3 DEF Die, TypeOK, history, said, thread
  <1>5. \A i \in Jobs : JobFits(i)'
    <2> SUFFICES ASSUME NEW i \in Jobs PROVE JobFits(i)'
      OBVIOUS
    <2>1. CASE i = j
      BY <1>2, <2>1 DEF JobFits, Working
    <2>2. CASE i # j
      <3>1. job[i].pc \in {"locked", "counted"} => holder' = i
        BY <1>3, <2>2 DEF Sound, Numbered, JobFits
      <3>2. Working(i) => row[job[i].commit].stored # "analysis"
        BY DEF Sound, Numbered, JobFits
      <3>3. QED
        BY <1>2, <1>3, <2>2, <3>1, <3>2, OtherFits
    <2>3. QED
      BY <2>1, <2>2
  <1>6. WorkersApart'
    <2>1. ~Working(j)'
      BY <1>2 DEF Working
    <2>2. QED
      BY <1>2, <2>1, FewerApart
  <1>7. QED
    BY <1>3, <1>4, <1>5, <1>6 DEF Sound, Numbered

\* A draft's row, or the list of previous findings, changes nothing of this.
LEMMA DraftSound ==
  ASSUME Sound, NEW j \in Jobs, StoreDraft(j)
  PROVE  /\ Sound'
         /\ LET c == job[j].commit
            IN  /\ c \in Commits /\ row[c].stored = "no" /\ row[c].version # 0
                /\ RowBecomes(c, [row[c] EXCEPT !.stored = "draft"])
                /\ \A d \in Commits :
                      /\ row'[d].version = row[d].version /\ row'[d].findings = row[d].findings
                      /\ row'[d].fixed = row[d].fixed /\ row'[d].decision = row[d].decision
                      /\ row'[d].open = row[d].open
                      /\ row'[d].stored = IF d = c THEN "draft" ELSE row[d].stored
  <1> DEFINE c == job[j].commit
             r == [row[c] EXCEPT !.stored = "draft"]
  <1>1. TypeOK /\ c \in Commits /\ row[c] \in RowType
    BY JobParts DEF Sound, TypeOK
  <1>2. /\ job' \in [Jobs -> JobType] /\ job'[j].pc = "over"
        /\ \A i \in Jobs : job'[i].commit = job[i].commit
        /\ \A i \in Jobs : i # j => job'[i] = job[i]
    BY <1>1, GoesFields DEF StoreDraft
  <1>3. /\ r \in RowType
        /\ r.version = row[c].version /\ r.stored = "draft" /\ r.findings = row[c].findings
        /\ r.fixed = row[c].fixed /\ r.open = row[c].open /\ r.decision = row[c].decision
    BY <1>1, DraftedFields
  <1>4. RowBecomes(c, r) /\ row[c].stored = "no"
    BY DEF StoreDraft, RowBecomes
  <1>5. row[c].version # 0
    BY DEF StoreDraft, Sound, Numbered, JobFits, Working
  <1>6. /\ row' \in [Commits -> RowType] /\ row'[c] = r
        /\ \A d \in Commits : d # c => row'[d] = row[d]
    <2> HIDE DEF r
    <2>1. QED
      BY <1>1, <1>3, <1>4, RowBecomesFields
  <1>7. \A d \in Commits :
           /\ row'[d].version = row[d].version /\ row'[d].findings = row[d].findings
           /\ row'[d].fixed = row[d].fixed /\ row'[d].decision = row[d].decision
           /\ row'[d].open = row[d].open
           /\ row'[d].stored = IF d = c THEN "draft" ELSE row[d].stored
    <2> HIDE DEF r
    <2>1. QED
      BY <1>3, <1>6
  <1>8. TypeOK'
    BY <1>1, <1>2, <1>6 DEF StoreDraft, TypeOK, history, said, thread
  <1>9. Sound'
    <2>1. Seen' = Seen /\ Gapless'
      BY <1>7, VersionsKept DEF Sound, Numbered
    <2>2. ASSUME NEW i \in Jobs PROVE JobFits(i)'
      <3>1. CASE i = j
        BY <1>2, <3>1 DEF JobFits, Working
      <3>2. CASE i # j
        <4>1. job[i].pc \in {"locked", "counted"} => holder' = i
          BY DEF StoreDraft, Sound, Numbered, JobFits
        <4>2. Working(i) => row'[job[i].commit].stored # "analysis"
          BY <1>1, <1>7, JobParts DEF Sound, Numbered, JobFits
        <4>3. row'[job[i].commit].version = row[job[i].commit].version
          BY <1>1, <1>7, JobParts
        <4>4. QED
          BY <1>2, <2>1, <3>2, <4>1, <4>2, <4>3, OtherFits
      <3>3. QED
        BY <3>1, <3>2
    <2>3. WorkersApart'
      <3>1. ~Working(j)'
        BY <1>2 DEF Working
      <3>2. QED
        BY <1>2, <3>1, FewerApart
    <2>4. \A d \in Commits : row'[d].version = 0 => row'[d].stored = "no"
      BY <1>5, <1>7 DEF Sound, Numbered
    <2>5. QED
      BY <1>8, <2>1, <2>2, <2>3, <2>4 DEF Sound, Numbered
  <1>10. QED
    BY <1>1, <1>4, <1>5, <1>7, <1>9

LEMMA ReadPreviousSound ==
  ASSUME Sound, NEW j \in Jobs, ReadPrevious(j)
  PROVE  Sound'
  <1> DEFINE c == job[j].commit
             b == IF Earlier(c) = {} THEN {} ELSE row[Previous(c)].findings
             o == {k \in Keys : opinion[k] = "dismissed"}
             l == {k \in Keys : opinion[k] # "none" /\ (Earlier(c) = {} \/ ~HandsOn(Previous(c), k))}
  <1>1. TypeOK /\ c \in Commits
    BY JobParts DEF Sound
  <1>2. /\ job' \in [Jobs -> JobType] /\ job'[j].pc = "analysing"
        /\ \A i \in Jobs : job'[i].commit = job[i].commit
        /\ \A i \in Jobs : i # j => job'[i] = job[i]
    BY <1>1, GoesFields DEF ReadPrevious
  <1>3. b \in SUBSET Finding /\ o \in SUBSET Keys /\ l \in SUBSET Keys
    <2>1. CASE Earlier(c) = {}
      BY <2>1
    <2>2. CASE Earlier(c) # {}
      <3>1. Previous(c) \in Commits
        BY <1>1, <2>2, PreviousThere
      <3>2. row[Previous(c)].findings \in SUBSET Finding
        BY <1>1, <3>1, RowParts
      <3>3. QED
        BY <2>2, <3>2
    <2>3. QED
      BY <2>1, <2>2
  <1>4. /\ previous' = [previous EXCEPT ![c] = b] /\ carried' = [carried EXCEPT ![c] = o]
        /\ lost' = [lost EXCEPT ![c] = l]
        /\ UNCHANGED <<holder, row, thread, reruns, opinion, told, twinned>>
        /\ job[j].pc = "begun"
    BY DEF ReadPrevious
  <1>5. TypeOK'
    <2> HIDE DEF b, o, l
    <2>1. QED
      BY <1>1, <1>2, <1>3, <1>4 DEF TypeOK, thread
  <1>6. Seen' = Seen /\ Gapless'
    BY <1>4, VersionsKept DEF Sound, Numbered
  <1>7. ASSUME NEW i \in Jobs PROVE JobFits(i)'
    <2>1. CASE i = j
      BY <1>2, <1>4, <2>1 DEF JobFits, Working, Sound, Numbered
    <2>2. CASE i # j
      <3>1. job[i].pc \in {"locked", "counted"} => holder' = i
        BY <1>4 DEF Sound, Numbered, JobFits
      <3>2. Working(i) => row'[job[i].commit].stored # "analysis"
        BY <1>4 DEF Sound, Numbered, JobFits
      <3>3. QED
        BY <1>2, <1>4, <1>6, <2>2, <3>1, <3>2, OtherFits
    <2>3. QED
      BY <2>1, <2>2
  <1>8. WorkersApart'
    <2>1. Working(j)
      BY <1>4 DEF Working
    <2>2. QED
      BY <1>2, <2>1, FewerApart
  <1>9. QED
    BY <1>4, <1>5, <1>6, <1>7, <1>8 DEF Sound, Numbered

\* People and analyses change what a row says, not which version it is.
LEMMA HumanSound ==
  ASSUME Sound, TypeOK', UNCHANGED <<holder, job>>,
         \A d \in Commits : row'[d].version = row[d].version /\ row'[d].stored = row[d].stored
  PROVE  Sound'
  <1>1. Seen' = Seen /\ Gapless'
    BY VersionsKept DEF Sound, Numbered
  <1>2. ASSUME NEW i \in Jobs PROVE JobFits(i)'
    <2>1. job[i].commit \in Commits
      BY JobParts DEF Sound
    <2>2. QED
      BY <1>1, <2>1, OtherFits DEF Sound, Numbered, JobFits
  <1>3. WorkersApart'
    BY DEF Sound, Numbered, WorkersApart, Working
  <1>4. QED
    BY <1>1, <1>2, <1>3 DEF Sound, Numbered

LEMMA CheckpointFields ==
  ASSUME NEW findings \in SUBSET Finding, NEW fixed \in SUBSET Keys, NEW done \in BOOLEAN
  PROVE  LET cp == Checkpoint(findings, fixed, done)
         IN  /\ cp \in CheckpointType
             /\ cp.findings = findings /\ cp.fixed = fixed /\ cp.done = done
  BY DEF Checkpoint, CheckpointType

\* The graph ends: its findings stay.
LEMMA EndedFields ==
  ASSUME NEW cp \in CheckpointType
  PROVE  LET end == [cp EXCEPT !.done = TRUE]
         IN  /\ end \in CheckpointType
             /\ end.findings = cp.findings /\ end.fixed = cp.fixed
  BY DEF CheckpointType

LEMMA DecideTyped ==
  ASSUME NEW keys
  PROVE  Decide(keys) \in {"none", "approve", "reject"}
  BY DEF Decide

\* What storing a state of the graph does to the row.
LEMMA StoreFields ==
  ASSUME TypeOK, NEW c \in Commits, NEW cp \in CheckpointType, NEW open \in BOOLEAN,
         NEW decision \in {"none", "approve", "reject"}, Store(c, cp, open, decision)
  PROVE  LET findings == ApplyFeedback(cp.findings, row[c].findings)
         IN  /\ findings \in SUBSET Finding
             /\ row' \in [Commits -> RowType]
             /\ row'[c].version = row[c].version /\ row'[c].stored = "analysis"
             /\ row'[c].findings = findings /\ row'[c].fixed = cp.fixed
             /\ row'[c].open = open /\ row'[c].decision = decision
             /\ \A d \in Commits : d # c => row'[d] = row[d]
             /\ lost' \in [Commits -> SUBSET Keys]
             /\ lost'[c] = lost[c] \cup {k \in Keys \ KeysOf(findings) : told[c][k] # "none"}
             /\ \A d \in Commits : d # c => lost'[d] = lost[d]
  <1> DEFINE findings == ApplyFeedback(cp.findings, row[c].findings)
             r == Row(row[c].version, "analysis", findings, cp.fixed, open, decision)
             more == lost[c] \cup {k \in Keys \ KeysOf(findings) : told[c][k] # "none"}
  <1>1. cp.findings \in SUBSET Finding /\ cp.fixed \in SUBSET Keys
    BY DEF CheckpointType
  <1>2. row[c].findings \in SUBSET Finding /\ row[c].version \in Nat
    BY RowParts
  <1>3. findings \in SUBSET Finding
    BY <1>1, <1>2, ApplyFeedbackTyped
  <1>4. RowBecomes(c, r) /\ lost' = [lost EXCEPT ![c] = more]
    BY DEF Store, RowBecomes
  <1>5. more \in SUBSET Keys
    BY DEF TypeOK
  <1> HIDE DEF more, findings
  <1>6. /\ r \in RowType
        /\ r.version = row[c].version /\ r.stored = "analysis" /\ r.findings = findings
        /\ r.fixed = cp.fixed /\ r.open = open /\ r.decision = decision
    BY <1>1, <1>2, <1>3, RowFields
  <1> HIDE DEF r
  <1>7. /\ row' \in [Commits -> RowType] /\ row'[c] = r
        /\ \A d \in Commits : d # c => row'[d] = row[d]
    BY <1>4, <1>6, RowBecomesFields
  <1>8. /\ lost' \in [Commits -> SUBSET Keys] /\ lost'[c] = more
        /\ \A d \in Commits : d # c => lost'[d] = lost[d]
    BY <1>4, <1>5 DEF TypeOK
  <1>9. QED
    BY <1>3, <1>6, <1>7, <1>8 DEF more, findings

LEMMA GoesToFields ==
  ASSUME TypeOK, NEW c \in Commits, NEW cp \in CheckpointType, GoesTo(c, cp)
  PROVE  /\ analysed' \in [Commits -> CheckpointType]
         /\ checkpoints' \in [Commits -> SUBSET CheckpointType]
         /\ analysed'[c] = cp /\ checkpoints'[c] = checkpoints[c] \cup {cp}
         /\ \A d \in Commits : d # c =>
                analysed'[d] = analysed[d] /\ checkpoints'[d] = checkpoints[d]
  BY DEF GoesTo, TypeOK

\* A step stores cp, a state of the graph, in the row of c.
Keeps(c, cp, open, decision) ==
    /\ c \in Commits /\ cp \in CheckpointType /\ open \in BOOLEAN
    /\ decision \in {"none", "approve", "reject"}
    /\ Store(c, cp, open, decision)
    /\ UNCHANGED <<previous, said>>

\* The latest checkpoint holds what the state held, or nothing moved.
ThreadMoves(c, cp) ==
    \/ UNCHANGED thread
    \/ \E end \in CheckpointType :
          end.findings = cp.findings /\ end.fixed = cp.fixed /\ GoesTo(c, end)

LEMMA KeepsTyped ==
  ASSUME TypeOK, NEW c, NEW cp, NEW open, NEW decision, Keeps(c, cp, open, decision),
         ThreadMoves(c, cp), twinned' \subseteq Keys,
         holder' \in Jobs \cup {Nobody}, job' \in [Jobs -> JobType], reruns' \in Nat
  PROVE  TypeOK'
  <1>1. row' \in [Commits -> RowType] /\ lost' \in [Commits -> SUBSET Keys]
    BY StoreFields DEF Keeps
  <1>2. /\ analysed' \in [Commits -> CheckpointType]
        /\ checkpoints' \in [Commits -> SUBSET CheckpointType]
    <2>1. CASE UNCHANGED thread
      BY <2>1 DEF thread, TypeOK
    <2>2. CASE \E end \in CheckpointType : GoesTo(c, end)
      BY <2>2, GoesToFields DEF Keeps
    <2>3. QED
      BY <2>1, <2>2 DEF ThreadMoves
  <1>3. UNCHANGED <<previous, opinion, told, carried>>
    BY DEF Keeps, said
  <1>4. QED
    BY <1>1, <1>2, <1>3 DEF TypeOK

LEMMA ReportsTyped ==
  ASSUME TypeOK, NEW c \in Commits, NEW ids \in Reports, NEW covered \in SUBSET Keys
  PROVE  /\ Classify(ids, previous[c]) \in SUBSET Finding
         /\ Fixed(ids, previous[c], covered) \in SUBSET Keys
         /\ TwinsIn(ids) \subseteq Keys
  <1>1. ids \in SUBSET (Keys \X Twins) /\ previous[c] \in SUBSET Finding
    BY DEF Reports, TypeOK
  <1>2. QED
    BY <1>1, ClassifyTyped DEF Fixed, TwinsIn

LEMMA AnalyseKeeps ==
  ASSUME TypeOK, NEW c \in Commits, Analyse(c), UNCHANGED <<previous, said>>
  PROVE  \E ids \in Reports, covered \in SUBSET Keys, cp \in CheckpointType, open \in BOOLEAN :
            /\ cp.findings = Classify(ids, previous[c])
            /\ cp.fixed = Fixed(ids, previous[c], covered)
            /\ Keeps(c, cp, open, "none")
            /\ GoesTo(c, cp)
            /\ twinned' = twinned \cup TwinsIn(ids)
            /\ twinned' \subseteq Keys
  <1>1. PICK ids \in Reports, covered \in SUBSET Keys :
          LET cp == Checkpoint(Classify(ids, previous[c]), Fixed(ids, previous[c], covered), FALSE)
          IN  /\ GoesTo(c, cp)
              /\ Store(c, cp, TRUE, "none")
              /\ twinned' = twinned \cup TwinsIn(ids)
    BY DEF Analyse
  <1> DEFINE F == Classify(ids, previous[c])
             X == Fixed(ids, previous[c], covered)
             cp == Checkpoint(F, X, FALSE)
  <1>2. F \in SUBSET Finding /\ X \in SUBSET Keys /\ TwinsIn(ids) \subseteq Keys
    BY ReportsTyped
  <1>3. PICK no \in BOOLEAN : no = FALSE
    OBVIOUS
  <1>4. cp = Checkpoint(F, X, no)
    BY <1>3
  <1>5. cp \in CheckpointType /\ cp.findings = F /\ cp.fixed = X
    <2> HIDE DEF F, X, cp
    <2>1. QED
      BY <1>2, <1>4, CheckpointFields
  <1>6. GoesTo(c, cp) /\ Store(c, cp, TRUE, "none") /\ twinned' = twinned \cup TwinsIn(ids)
    BY <1>1
  <1> HIDE DEF cp
  <1>7. PICK open \in BOOLEAN : Store(c, cp, open, "none")
    BY <1>6
  <1>8. Keeps(c, cp, open, "none")
    BY <1>5, <1>7 DEF Keeps
  <1>9. twinned' \subseteq Keys
    BY <1>2, <1>6 DEF TypeOK
  <1>10. QED
    BY <1>5, <1>6, <1>8, <1>9

\* What an approval, or a rerun that runs no reviewer, stores.
LEMMA ApproveKeeps ==
  ASSUME TypeOK, NEW c \in Commits, Approve(c)
  PROVE  \E cp \in CheckpointType, open \in BOOLEAN :
            LET findings == ApplyFeedback(cp.findings, row[c].findings)
            IN  /\ cp.findings = analysed[c].findings /\ cp.fixed = analysed[c].fixed
                /\ ~open
                /\ Keeps(c, cp, open, Decide(Active(findings)))
                /\ GoesTo(c, cp)
  <1> DEFINE cp == [analysed[c] EXCEPT !.done = TRUE]
             decision == Decide(Active(ApplyFeedback(cp.findings, row[c].findings)))
  <1>1. analysed[c] \in CheckpointType
    BY DEF TypeOK
  <1>2. /\ cp \in CheckpointType
        /\ cp.findings = analysed[c].findings /\ cp.fixed = analysed[c].fixed
    BY <1>1, EndedFields
  <1>3. GoesTo(c, cp) /\ Store(c, cp, FALSE, decision) /\ UNCHANGED <<previous, said>>
    BY DEF Approve
  <1>4. decision \in {"none", "approve", "reject"}
    BY DecideTyped
  <1> HIDE DEF cp
  <1>5. PICK open \in BOOLEAN : ~open /\ Store(c, cp, open, decision)
    BY <1>3
  <1>6. Keeps(c, cp, open, decision)
    BY <1>2, <1>3, <1>4, <1>5 DEF Keeps
  <1>7. QED
    BY <1>2, <1>3, <1>5, <1>6

LEMMA RerunKeeps ==
  ASSUME TypeOK, NEW c \in Commits, RerunDecision(c) \/ RerunResult(c)
  PROVE  \E cp \in checkpoints[c], open \in BOOLEAN :
            /\ open
            /\ Keeps(c, cp, open, Decide(Active(cp.findings)))
            /\ ThreadMoves(c, cp)
  <1>1. UNCHANGED <<previous, said>>
    BY DEF RerunDecision, RerunResult, Reruns
  <1>2. PICK cp \in checkpoints[c] :
            /\ Store(c, cp, TRUE, Decide(Active(cp.findings)))
            /\ GoesTo(c, [cp EXCEPT !.done = TRUE]) \/ UNCHANGED thread
    BY DEF RerunDecision, RerunResult
  <1>3. cp \in CheckpointType
    BY DEF TypeOK
  <1> DEFINE end == [cp EXCEPT !.done = TRUE]
             decision == Decide(Active(cp.findings))
  <1>4. end \in CheckpointType /\ end.findings = cp.findings /\ end.fixed = cp.fixed
    BY <1>3, EndedFields
  <1>5. GoesTo(c, end) \/ UNCHANGED thread
    BY <1>2
  <1>6. decision \in {"none", "approve", "reject"}
    BY DecideTyped
  <1>7. PICK open \in BOOLEAN : open /\ Store(c, cp, open, decision)
    BY <1>2
  <1> HIDE DEF end, decision
  <1>8. Keeps(c, cp, open, decision)
    BY <1>1, <1>3, <1>6, <1>7 DEF Keeps
  <1>9. ThreadMoves(c, cp)
    BY <1>4, <1>5 DEF ThreadMoves
  <1>10. QED
    BY <1>7, <1>8, <1>9 DEF decision

\* What people and reruns store changes no version.
LEMMA KeepsSound ==
  ASSUME Sound, NEW c, NEW cp, NEW open, NEW decision, Keeps(c, cp, open, decision),
         ThreadMoves(c, cp), twinned' \subseteq Keys, row[c].stored = "analysis",
         UNCHANGED <<holder, job>>, reruns' \in Nat
  PROVE  Sound'
  <1>1. TypeOK
    BY DEF Sound
  <1>2. TypeOK'
    <2>1. holder' \in Jobs \cup {Nobody} /\ job' \in [Jobs -> JobType]
      BY <1>1 DEF TypeOK
    <2>2. QED
      BY <1>1, <2>1, KeepsTyped
  <1>3. \A d \in Commits : row'[d].version = row[d].version /\ row'[d].stored = row[d].stored
    <2>1. /\ row'[c].version = row[c].version /\ row'[c].stored = "analysis"
          /\ \A d \in Commits : d # c => row'[d] = row[d]
      BY <1>1, StoreFields DEF Keeps
    <2>2. QED
      BY <2>1
  <1>4. QED
    BY <1>2, <1>3, HumanSound

LEMMA StoreAnalysisSound ==
  ASSUME Sound, NEW j \in Jobs, StoreAnalysis(j)
  PROVE  Sound'
  <1> DEFINE c == job[j].commit
  <1>1. TypeOK /\ c \in Commits
    BY JobParts DEF Sound
  <1>2. /\ job[j].pc = "analysing" /\ holder' = holder /\ reruns' = reruns
        /\ Analyse(c) /\ UNCHANGED <<previous, said>>
    BY DEF StoreAnalysis
  <1>3. /\ job' \in [Jobs -> JobType] /\ job'[j].pc = "over"
        /\ \A i \in Jobs : job'[i].commit = job[i].commit
        /\ \A i \in Jobs : i # j => job'[i] = job[i]
    BY <1>1, GoesFields DEF StoreAnalysis
  <1> HIDE DEF c
  <1>4. PICK cp \in CheckpointType, open \in BOOLEAN :
            Keeps(c, cp, open, "none") /\ GoesTo(c, cp) /\ twinned' \subseteq Keys
    BY <1>1, <1>2, AnalyseKeeps
  <1>5. /\ row'[c].version = row[c].version /\ row'[c].stored = "analysis"
        /\ \A d \in Commits : d # c => row'[d] = row[d]
    BY <1>1, <1>4, StoreFields DEF Keeps
  <1>6. TypeOK'
    <2>1. ThreadMoves(c, cp)
      BY <1>4 DEF ThreadMoves
    <2>2. holder' \in Jobs \cup {Nobody} /\ reruns' \in Nat
      BY <1>1, <1>2 DEF TypeOK
    <2>3. QED
      BY <1>1, <1>3, <1>4, <2>1, <2>2, KeepsTyped
  <1>7. \A d \in Commits : row'[d].version = row[d].version
    BY <1>5
  <1>8. Seen' = Seen /\ Gapless'
    BY <1>7, VersionsKept DEF Sound, Numbered
  <1>9. ASSUME NEW i \in Jobs PROVE JobFits(i)'
    <2>1. CASE i = j
      BY <1>3, <2>1 DEF JobFits, Working
    <2>2. CASE i # j
      <3>1. job[i].pc \in {"locked", "counted"} => holder' = i
        BY <1>2 DEF Sound, Numbered, JobFits
      <3>2. Working(i) => job[i].commit # c
        BY <1>2, <2>2 DEF c, Sound, Numbered, WorkersApart, Working
      <3>3. Working(i) => row'[job[i].commit].stored # "analysis"
        BY <1>1, <1>5, <3>2, JobParts DEF Sound, Numbered, JobFits
      <3>4. row'[job[i].commit].version = row[job[i].commit].version
        BY <1>1, <1>7, JobParts
      <3>5. QED
        BY <1>3, <1>8, <2>2, <3>1, <3>3, <3>4, OtherFits
    <2>3. QED
      BY <2>1, <2>2
  <1>10. WorkersApart'
    <2>1. ~Working(j)'
      BY <1>3 DEF Working
    <2>2. QED
      BY <1>3, <2>1, FewerApart
  <1>11. \A d \in Commits : row'[d].version = 0 => row'[d].stored = "no"
    <2>1. row[c].version # 0
      BY <1>2 DEF c, Sound, Numbered, JobFits, Working
    <2>2. QED
      BY <1>5, <2>1 DEF Sound, Numbered
  <1>12. QED
    BY <1>6, <1>8, <1>9, <1>10, <1>11 DEF Sound, Numbered

Told(c, f, verdict) == {Refreshed(g) : g \in row[c].findings \ {f}} \cup {Judged(f, verdict)}

LEMMA FeedbackFields ==
  ASSUME TypeOK, NEW c \in Commits, NEW f \in row[c].findings,
         NEW verdict \in {"valid", "dismissed"}, Feedback(c, f, verdict)
  PROVE  /\ f \in Finding /\ f.key \in Keys
         /\ row' \in [Commits -> RowType]
         /\ row[c].stored = "analysis"
         /\ row'[c].version = row[c].version /\ row'[c].stored = row[c].stored
         /\ row'[c].findings = Told(c, f, verdict) /\ row'[c].fixed = row[c].fixed
         /\ row'[c].open = row[c].open /\ row'[c].decision = row[c].decision
         /\ \A d \in Commits : d # c => row'[d] = row[d]
         /\ opinion' \in [Keys -> Verdicts]
         /\ \A k \in Keys : opinion'[k] = IF k = f.key THEN verdict ELSE opinion[k]
         /\ told' \in [Commits -> [Keys -> Verdicts]]
         /\ \A k \in Keys : told'[c][k] = IF k = f.key THEN verdict ELSE told[c][k]
         /\ \A d \in Commits : d # c => told'[d] = told[d]
         /\ lost' \in [Commits -> SUBSET Keys]
         /\ lost'[c] = lost[c] \ {f.key}
         /\ \A d \in Commits : d # c => lost'[d] = lost[d]
         /\ UNCHANGED <<holder, job, thread, previous, reruns, carried, twinned>>
  <1> DEFINE findings == Told(c, f, verdict)
             r == [row[c] EXCEPT !.findings = findings]
             less == lost[c] \ {f.key}
  <1>1. row[c] \in RowType /\ row[c].findings \in SUBSET Finding /\ f \in Finding
    BY RowParts DEF TypeOK
  <1>2. findings \in SUBSET Finding
    BY <1>1, RefreshedFields, JudgedFields DEF Told
  <1>3. f.key \in Keys /\ verdict \in Verdicts
    BY <1>1, FindingFields DEF Verdicts
  <1>4. /\ row[c].stored = "analysis"
        /\ RowBecomes(c, r)
        /\ UNCHANGED <<holder, job, thread, previous, reruns, carried, twinned>>
    BY DEF Feedback, RowBecomes, Told
  <1>5. /\ r \in RowType
        /\ r.version = row[c].version /\ r.stored = row[c].stored /\ r.findings = findings
        /\ r.fixed = row[c].fixed /\ r.open = row[c].open /\ r.decision = row[c].decision
    <2> HIDE DEF findings
    <2>1. QED
      BY <1>1, <1>2, ToldFields
  <1>6. /\ row' \in [Commits -> RowType] /\ row'[c] = r
        /\ \A d \in Commits : d # c => row'[d] = row[d]
    <2> HIDE DEF r
    <2>1. QED
      BY <1>4, <1>5, RowBecomesFields
  <1>7. /\ opinion' \in [Keys -> Verdicts]
        /\ \A k \in Keys : opinion'[k] = IF k = f.key THEN verdict ELSE opinion[k]
    <2>1. opinion' = [opinion EXCEPT ![f.key] = verdict]
      BY DEF Feedback
    <2>2. QED
      BY <1>3, <2>1 DEF TypeOK
  <1>8. /\ told' \in [Commits -> [Keys -> Verdicts]]
        /\ \A k \in Keys : told'[c][k] = IF k = f.key THEN verdict ELSE told[c][k]
        /\ \A d \in Commits : d # c => told'[d] = told[d]
    <2>1. told' = [told EXCEPT ![c][f.key] = verdict]
      BY DEF Feedback
    <2>2. told \in [Commits -> [Keys -> Verdicts]]
      BY DEF TypeOK
    <2>3. told' = [told EXCEPT ![c] = [told[c] EXCEPT ![f.key] = verdict]]
      BY <2>1
    <2>4. told[c] \in [Keys -> Verdicts]
      BY <2>2
    <2> DEFINE t == [told[c] EXCEPT ![f.key] = verdict]
    <2>5. /\ t \in [Keys -> Verdicts]
          /\ \A k \in Keys : t[k] = IF k = f.key THEN verdict ELSE told[c][k]
      BY <1>3, <2>4
    <2>6. told' = [told EXCEPT ![c] = t]
      BY <2>3
    <2> HIDE DEF t
    <2>7. told'[c] = t /\ told' \in [Commits -> [Keys -> Verdicts]]
      BY <2>2, <2>5, <2>6
    <2>8. \A d \in Commits : d # c => told'[d] = told[d]
      BY <2>2, <2>6
    <2>9. QED
      BY <2>5, <2>7, <2>8
  <1>9. /\ lost' \in [Commits -> SUBSET Keys] /\ lost'[c] = less
        /\ \A d \in Commits : d # c => lost'[d] = lost[d]
    <2>1. lost' = [lost EXCEPT ![c] = less]
      BY DEF Feedback
    <2>2. less \in SUBSET Keys
      BY DEF TypeOK
    <2> HIDE DEF less
    <2>3. QED
      BY <2>1, <2>2 DEF TypeOK
  <1> HIDE DEF r
  <1>10. QED
    BY <1>1, <1>3, <1>4, <1>5, <1>6, <1>7, <1>8, <1>9, ZenonT(40)

LEMMA FeedbackSound ==
  ASSUME Sound, NEW c \in Commits, NEW f \in row[c].findings,
         NEW verdict \in {"valid", "dismissed"}, Feedback(c, f, verdict)
  PROVE  Sound'
  <1>1. TypeOK
    BY DEF Sound
  <1>2. /\ row' \in [Commits -> RowType]
        /\ row'[c].version = row[c].version /\ row'[c].stored = row[c].stored
        /\ \A d \in Commits : d # c => row'[d] = row[d]
        /\ opinion' \in [Keys -> Verdicts]
        /\ told' \in [Commits -> [Keys -> Verdicts]]
        /\ lost' \in [Commits -> SUBSET Keys]
        /\ UNCHANGED <<holder, job, thread, previous, reruns, carried, twinned>>
    BY <1>1, FeedbackFields
  <1>3. TypeOK'
    BY <1>1, <1>2 DEF TypeOK, thread
  <1>4. QED
    BY <1>2, <1>3, HumanSound

LEMMA ApproveSound ==
  ASSUME Sound, NEW c \in Commits, Approve(c)
  PROVE  Sound'
  <1>1. TypeOK
    BY DEF Sound
  <1>2. /\ row[c].stored = "analysis" /\ UNCHANGED <<holder, job, reruns, twinned>>
    BY DEF Approve
  <1>3. PICK cp \in CheckpointType, open \in BOOLEAN :
            /\ Keeps(c, cp, open, Decide(Active(ApplyFeedback(cp.findings, row[c].findings))))
            /\ GoesTo(c, cp)
    BY <1>1, ApproveKeeps
  <1>4. ThreadMoves(c, cp)
    BY <1>3 DEF ThreadMoves
  <1>5. twinned' \subseteq Keys /\ reruns' \in Nat
    BY <1>1, <1>2 DEF TypeOK
  <1>6. QED
    BY <1>2, <1>3, <1>4, <1>5, KeepsSound

LEMMA RerunSound ==
  ASSUME Sound, NEW c \in Commits, RerunReviewers(c) \/ RerunDecision(c) \/ RerunResult(c)
  PROVE  Sound'
  <1>1. TypeOK
    BY DEF Sound
  <1>2. /\ row[c].stored = "analysis" /\ reruns' \in Nat
        /\ UNCHANGED <<holder, job>> /\ UNCHANGED <<previous, said>>
    <2>1. Reruns(c)
      BY DEF RerunReviewers, RerunDecision, RerunResult
    <2>2. QED
      BY <1>1, <2>1 DEF Reruns, TypeOK
  <1>3. CASE RerunReviewers(c)
    <2>1. PICK cp \in CheckpointType, open \in BOOLEAN :
              Keeps(c, cp, open, "none") /\ GoesTo(c, cp) /\ twinned' \subseteq Keys
      BY <1>1, <1>2, <1>3, AnalyseKeeps DEF RerunReviewers
    <2>2. ThreadMoves(c, cp)
      BY <2>1 DEF ThreadMoves
    <2>3. QED
      BY <1>2, <2>1, <2>2, KeepsSound
  <1>4. CASE RerunDecision(c) \/ RerunResult(c)
    <2>1. PICK cp \in checkpoints[c], open \in BOOLEAN :
              Keeps(c, cp, open, Decide(Active(cp.findings))) /\ ThreadMoves(c, cp)
      BY <1>1, <1>4, RerunKeeps
    <2>2. twinned' \subseteq Keys
      BY <1>1, <1>4 DEF RerunDecision, RerunResult, TypeOK
    <2>3. QED
      BY <1>2, <2>1, <2>2, KeepsSound
  <1>5. QED
    BY <1>3, <1>4

LEMMA InitSound == Init => Sound
  <1> SUFFICES ASSUME Init PROVE Sound
    OBVIOUS
  <1>1. \A c \in Commits : Local("idle", c, 0) \in JobType /\ Local("idle", c, 0).pc = "idle"
    BY DEF Local, JobType
  <1>2. job \in [Jobs -> JobType] /\ \A j \in Jobs : job[j].pc = "idle"
    <2>1. job \in [Jobs -> {Local("idle", c, 0) : c \in Commits}]
      BY DEF Init
    <2>2. QED
      BY <1>1, <2>1
  <1>3. /\ NoRow \in RowType /\ NoRow.version = 0 /\ NoRow.stored = "no"
        /\ NoRow.findings = {} /\ NoRow.fixed = {}
    BY DEF NoRow, Row, RowType
  <1>4. row \in [Commits -> RowType] /\ \A c \in Commits : row[c] = NoRow
    BY <1>3 DEF Init
  <1>5. TypeOK
    <2>1. /\ analysed \in [Commits -> CheckpointType]
          /\ checkpoints \in [Commits -> SUBSET CheckpointType]
      BY DEF Init, Checkpoint, CheckpointType
    <2>2. /\ opinion \in [Keys -> Verdicts] /\ told \in [Commits -> [Keys -> Verdicts]]
          /\ previous \in [Commits -> SUBSET Finding]
          /\ carried \in [Commits -> SUBSET Keys] /\ lost \in [Commits -> SUBSET Keys]
      BY DEF Init, Verdicts
    <2>3. holder \in Jobs \cup {Nobody} /\ reruns \in Nat /\ twinned \subseteq Keys
      BY DEF Init
    <2>4. QED
      BY <1>2, <1>4, <2>1, <2>2, <2>3 DEF TypeOK
  <1>6. Seen = {} /\ Cardinality(Seen) = 0
    BY <1>3, <1>4, FS_EmptySet DEF Seen
  <1>7. Gapless
    BY <1>6 DEF Gapless
  <1>8. (\A j \in Jobs : JobFits(j)) /\ WorkersApart
    BY <1>2 DEF JobFits, WorkersApart, Working
  <1>9. QED
    BY <1>3, <1>4, <1>5, <1>7, <1>8 DEF Sound, Numbered

LEMMA StepSound == Sound /\ [Next]_vars => Sound'
  <1> SUFFICES ASSUME Sound, [Next]_vars PROVE Sound'
    OBVIOUS
  <1>1. CASE UNCHANGED vars
    <2>1. TypeOK'
      BY <1>1 DEF vars, thread, history, said, Sound, TypeOK
    <2>2. QED
      BY <1>1, <2>1, HumanSound DEF vars
  <1>2. ASSUME NEW j \in Jobs, JobStep(j) PROVE Sound'
    BY <1>2, LockSound, FindExistingSound, CountSound, InsertSound, DieSound, DraftSound,
       ReadPreviousSound, StoreAnalysisSound DEF JobStep
  <1>3. ASSUME NEW c \in Commits, HumanStep(c) PROVE Sound'
    BY <1>3, FeedbackSound, ApproveSound, RerunSound DEF HumanStep
  <1>4. QED
    BY <1>1, <1>2, <1>3 DEF Next

LEMMA AlwaysSound == Spec => []Sound
  BY InitSound, StepSound, PTL DEF Spec

\* Every variable has the type the declarations give it, for any number of
\* commits and jobs (pr_reviews of migration 002 and the checkpoints).
THEOREM TypeCorrect == Spec => []TypeOK
  <1>1. Sound => TypeOK
    BY DEF Sound
  <1>2. QED
    BY <1>1, AlwaysSound, PTL

\* The advisory lock of get_or_create_review_version numbers the commits 1, 2,
\* 3, ... and keeps every job clear of the unique indexes.
THEOREM VersionsGapless == Spec => []VersionsAreGapless
  <1>1. Sound => VersionsAreGapless
    <2> SUFFICES ASSUME Sound PROVE VersionsAreGapless
      OBVIOUS
    <2>1. Gapless
      BY DEF Sound, Numbered
    <2>2. \A j \in Jobs : job[j].pc = "counted" => ~Taken(job[j].commit, job[j].next)
      BY CountedIsFree
    <2>3. QED
      BY <2>1, <2>2 DEF VersionsAreGapless, Gapless, Seen
  <1>2. QED
    BY <1>1, AlwaysSound, PTL

-----------------------------------------------------------------------------
(* What findings say of themselves and of the version before *)

\* What the comparison with the version before says of a fingerprint.
Base(key, before) == IF key \in KeysOf(before) THEN "recurring" ELSE "new"

Coherent(f) ==
    /\ f.verdict = "dismissed" => f.lifecycle = "dismissed"
    /\ f.verdict = "valid" => f.lifecycle # "dismissed"
    /\ f.before # "dismissed"

Truthful(f, before) ==
    /\ f.before # "none" => f.before = Base(f.key, before)
    /\ f.lifecycle # "dismissed" => f.lifecycle = Base(f.key, before)
    /\ f.lifecycle = "dismissed" /\ f.before = "none" => Base(f.key, before) = "new"
    /\ f.verdict = "none" => f.lifecycle = Classified(Id(f), before).lifecycle

LEMMA ClassifiedFits ==
  ASSUME NEW id \in Keys \X Twins, NEW before \in SUBSET Finding
  PROVE  LET g == Classified(id, before)
         IN  /\ Coherent(g) /\ Truthful(g, before)
             /\ g.lifecycle = "dismissed" <=> id[1] \in DismissedKeys(before)
  <1>1. DismissedKeys(before) \subseteq KeysOf(before)
    BY DEF DismissedKeys
  <1>2. QED
    BY <1>1, ClassifiedFields DEF Coherent, Truthful, Base

\* Refreshing a finding that is coherent changes nothing.
LEMMA RefreshedIsSame ==
  ASSUME NEW f \in Finding, Coherent(f)
  PROVE  Refreshed(f) = f
  <1>1. Renewed(f.lifecycle, f.before, f.verdict) = f.lifecycle
    BY DEF Coherent, Renewed
  <1>2. Refreshed(f).lifecycle = f.lifecycle
    BY <1>1, RefreshedFields
  <1>3. Refreshed(f) \in Finding /\ Refreshed(f).key = f.key /\ Refreshed(f).twin = f.twin
        /\ Refreshed(f).before = f.before /\ Refreshed(f).verdict = f.verdict
    BY RefreshedFields
  <1>4. QED
    BY <1>2, <1>3 DEF Finding

LEMMA JudgedFits ==
  ASSUME NEW f \in Finding, NEW verdict \in {"valid", "dismissed"},
         NEW before \in SUBSET Finding, Coherent(f)
  PROVE  LET g == Judged(f, verdict)
         IN  /\ g \in Finding /\ Id(g) = Id(f) /\ g.key = f.key /\ g.twin = f.twin
             /\ Coherent(g)
             /\ Truthful(f, before) => Truthful(g, before)
             /\ g.lifecycle = "dismissed" <=> verdict = "dismissed"
  <1> DEFINE g == Judged(f, verdict)
             b == IF verdict = "dismissed" /\ f.lifecycle # "dismissed" THEN f.lifecycle
                  ELSE f.before
  <1>1. /\ g \in Finding /\ g.key = f.key /\ g.twin = f.twin
        /\ g.verdict = verdict /\ g.before = b
        /\ g.lifecycle = Renewed(f.lifecycle, b, verdict)
    BY JudgedFields
  <1>2. f.lifecycle \in Lifecycles /\ f.before \in {"none"} \cup Lifecycles
    BY FindingFields
  <1> HIDE DEF g
  <1>3. Id(g) = Id(f)
    BY <1>1 DEF Id
  <1>4. Coherent(g) /\ (g.lifecycle = "dismissed" <=> verdict = "dismissed")
    <2>1. CASE verdict = "dismissed"
      BY <1>1, <1>2, <2>1 DEF Coherent, Renewed
    <2>2. CASE verdict = "valid"
      BY <1>1, <1>2, <2>2 DEF Coherent, Renewed
    <2>3. QED
      BY <2>1, <2>2
  <1>5. ASSUME Truthful(f, before) PROVE Truthful(g, before)
    <2>1. CASE verdict = "dismissed"
      <3>1. /\ g.verdict = "dismissed" /\ g.lifecycle = "dismissed"
            /\ g.before = IF f.lifecycle # "dismissed" THEN f.lifecycle ELSE f.before
        BY <1>1, <2>1 DEF Renewed
      <3>2. Base(g.key, before) = Base(f.key, before)
        BY <1>1
      <3>3. g.before # "none" => g.before = Base(g.key, before)
        BY <1>5, <3>1, <3>2 DEF Truthful
      <3>4. g.before = "none" => Base(g.key, before) = "new"
        BY <1>2, <1>5, <3>1, <3>2 DEF Truthful, Lifecycles
      <3>5. QED
        BY <3>1, <3>3, <3>4 DEF Truthful
    <2>2. CASE verdict = "valid"
      BY <1>1, <1>2, <1>5, <2>2 DEF Truthful, Renewed
    <2>3. QED
      BY <2>1, <2>2
  <1>6. QED
    BY <1>1, <1>3, <1>4, <1>5 DEF g

\* A finding the graph has produced again, with the feedback of the row.
LEMMA ReappliedFits ==
  ASSUME NEW id \in Keys \X Twins, NEW before \in SUBSET Finding,
         NEW findings \in SUBSET Finding, \A f \in findings : Coherent(f)
  PROVE  LET w == WithFeedback(Classified(id, before), findings)
         IN  /\ w \in Finding /\ Id(w) = id
             /\ Coherent(w)
             /\ (\A f \in findings : f.key = id[1] => Truthful(f, before)) =>
                   /\ Truthful(w, before)
                   /\ id[1] \in KeysOf(findings) =>
                         \E p \in findings :
                            /\ p.key = id[1]
                            /\ w.lifecycle = "dismissed" <=> p.lifecycle = "dismissed"
                   /\ id[1] \notin KeysOf(findings) =>
                         (w.lifecycle = "dismissed" <=> id[1] \in DismissedKeys(before))
  <1> DEFINE g == Classified(id, before)
             w == WithFeedback(g, findings)
  <1>1. /\ g \in Finding /\ Id(g) = id /\ g.key = id[1] /\ g.verdict = "none"
        /\ g.before \in {"none", "recurring"}
        /\ g.lifecycle = "dismissed" => g.before = "recurring"
    BY ClassifiedFields
  <1>2. /\ Coherent(g) /\ Truthful(g, before)
        /\ g.lifecycle = "dismissed" <=> id[1] \in DismissedKeys(before)
    BY ClassifiedFits
  <1>3. g.lifecycle = Classified(id, before).lifecycle
    OBVIOUS
  <1>4. w \in Finding /\ Id(w) = id
    BY <1>1, WithFeedbackTyped
  <1> HIDE DEF g
  <1>5. CASE id[1] \notin KeysOf(findings)
    <2>1. w = Refreshed(g)
      BY <1>1, <1>5 DEF WithFeedback
    <2>2. w = g
      BY <1>1, <1>2, <2>1, RefreshedIsSame
    <2> HIDE DEF w
    <2>3. QED
      BY <1>2, <1>4, <1>5, <2>2 DEF w, g
  <1>6. CASE id[1] \in KeysOf(findings)
    <2> DEFINE p == Last(findings, g.key)
               judged == p.verdict # "none"
               v == IF judged THEN p.verdict ELSE g.verdict
               b == IF judged /\ p.before # "none" THEN p.before ELSE g.before
               l == IF IsDismissed(p) THEN "dismissed" ELSE g.lifecycle
    <2>1. /\ p \in findings /\ p.key = g.key
          /\ w.key = g.key /\ w.verdict = v /\ w.before = b
          /\ w.lifecycle = Renewed(l, b, v)
      BY <1>1, <1>6, WithFeedbackFields
    <2>2. /\ p \in Finding /\ Coherent(p)
          /\ p.lifecycle \in Lifecycles /\ p.before \in {"none"} \cup Lifecycles
          /\ p.verdict \in {"none", "valid", "dismissed"}
      BY <2>1, FindingFields
    <2>3. g.lifecycle \in Lifecycles
      BY <1>1, FindingFields
    <2> HIDE DEF w, p
    <2>4. Coherent(w)
      <3>1. CASE p.verdict = "none"
        BY <1>1, <1>2, <2>1, <2>2, <2>3, <3>1 DEF Coherent, Renewed, IsDismissed
      <3>2. CASE p.verdict = "valid"
        BY <1>1, <1>2, <2>1, <2>2, <2>3, <3>2 DEF Coherent, Renewed, IsDismissed
      <3>3. CASE p.verdict = "dismissed"
        BY <1>1, <1>2, <2>1, <2>2, <2>3, <3>3 DEF Coherent, Renewed, IsDismissed
      <3>4. QED
        BY <2>2, <3>1, <3>2, <3>3
    <2>5. ASSUME \A f \in findings : f.key = id[1] => Truthful(f, before)
          PROVE  Truthful(w, before) /\ (w.lifecycle = "dismissed" <=> p.lifecycle = "dismissed")
      <3>1. Truthful(p, before)
        BY <1>1, <2>1, <2>5
      <3> DEFINE base == Base(g.key, before)
      <3>2. /\ p.before # "none" => p.before = base
            /\ p.lifecycle # "dismissed" => p.lifecycle = base
            /\ p.lifecycle = "dismissed" /\ p.before = "none" => base = "new"
        BY <2>1, <3>1 DEF Truthful
      <3>3. p.verdict = "none" => p.lifecycle = g.lifecycle
        <4>1. Classified(Id(p), before).lifecycle = Classified(id, before).lifecycle
          <5>1. Id(p) \in Keys \X Twins /\ Id(p)[1] = id[1]
            BY <1>1, <2>1, <2>2, FindingFields DEF Id
          <5>2. QED
            BY <5>1, ClassifiedFields
        <4>2. QED
          BY <1>3, <3>1, <4>1 DEF Truthful
      <3>4. /\ g.before # "none" => g.before = base
            /\ g.lifecycle # "dismissed" => g.lifecycle = base
            /\ g.lifecycle = "dismissed" /\ g.before = "none" => base = "new"
        BY <1>2 DEF Truthful
      <3>5. Classified(Id(w), before).lifecycle = g.lifecycle
        BY <1>3, <1>4
      <3>6. base \in {"new", "recurring"}
        BY DEF Base
      <3>7. Base(w.key, before) = base
        BY <2>1
      <3> HIDE DEF base
      <3>8. CASE p.verdict = "none"
        <4>1. /\ w.verdict = "none" /\ w.before = g.before /\ w.lifecycle = g.lifecycle
          BY <1>1, <2>1, <2>2, <3>3, <3>8 DEF Renewed, IsDismissed
        <4>2. QED
          BY <3>3, <3>4, <3>5, <3>7, <3>8, <4>1 DEF Truthful
      <3>9. CASE p.verdict = "valid"
        <4>1. p.lifecycle # "dismissed"
          BY <2>2, <3>9 DEF Coherent
        <4>2. /\ w.verdict = "valid"
              /\ w.before = (IF p.before # "none" THEN p.before ELSE g.before)
              /\ w.lifecycle = Renewed(g.lifecycle, w.before, "valid")
          BY <2>1, <3>9, <4>1 DEF IsDismissed
        <4>3. w.before # "none" => w.before = base
          BY <3>2, <3>4, <4>2
        <4>4. w.lifecycle = base
          <5>1. CASE g.lifecycle = "dismissed"
            BY <1>1, <4>2, <4>3, <5>1 DEF Renewed
          <5>2. CASE g.lifecycle # "dismissed"
            BY <3>4, <4>2, <5>2 DEF Renewed
          <5>3. QED
            BY <5>1, <5>2
        <4>5. QED
          BY <3>6, <3>7, <4>1, <4>2, <4>3, <4>4 DEF Truthful
      <3>10. CASE p.verdict = "dismissed"
        <4>1. p.lifecycle = "dismissed"
          BY <2>2, <3>10 DEF Coherent
        <4>2. /\ w.verdict = "dismissed" /\ w.lifecycle = "dismissed"
              /\ w.before = (IF p.before # "none" THEN p.before ELSE g.before)
          BY <2>1, <3>10 DEF Renewed
        <4>3. QED
          BY <3>2, <3>4, <3>7, <4>1, <4>2 DEF Truthful
      <3>11. QED
        BY <2>2, <3>8, <3>9, <3>10
    <2>6. p.key = id[1]
      BY <1>1, <2>1
    <2>7. QED
      BY <1>4, <1>6, <2>1, <2>4, <2>5, <2>6 DEF w, g
  <1>7. QED
    BY <1>5, <1>6

-----------------------------------------------------------------------------
(* The invariant of the findings *)

Unique(findings) == \A f, g \in findings : Id(f) = Id(g) => f = g

\* A fingerprint that never had twins has one finding, the first.
FindingsFit(c) ==
    /\ \A f \in row[c].findings : Coherent(f)
    /\ Unique(row[c].findings)
    /\ \A f \in row[c].findings : f.key \notin twinned =>
          /\ f.twin = 1
          /\ Truthful(f, previous[c])
          /\ f.key \notin lost[c] => (f.lifecycle = "dismissed" <=> f.key \in Unwanted(c))

PreviousFits(c) ==
    \A k \in Keys \ twinned :
        told[c][k] = "none" /\ k \notin lost[c] =>
            (k \in DismissedKeys(previous[c]) <=> k \in carried[c])

\* What was found in the version before and not dismissed.
Standing(c) == KeysOf(previous[c]) \ DismissedKeys(previous[c])

RowFits(c) ==
    /\ row[c].stored # "analysis" =>
          /\ row[c].findings = {} /\ row[c].fixed = {}
          /\ \A k \in Keys : told[c][k] = "none"
    /\ row[c].fixed \subseteq Standing(c) \ KeysOf(row[c].findings)
    /\ \A k \in Keys \ KeysOf(row[c].findings) : told[c][k] # "none" => k \in lost[c]

\* Where nobody ever said anything there is nothing to lose.
SpokenFits(c) ==
    \A k \in Keys : opinion[k] = "none" =>
        told[c][k] = "none" /\ k \notin carried[c] /\ k \notin lost[c]

\* A state of the graph holds what reviewers reported, compared with previous.
Made(c, cp) ==
    \E ids \in Reports :
        /\ cp.findings = Classify(ids, previous[c])
        /\ TwinsIn(ids) \subseteq twinned
        /\ cp.fixed \subseteq Standing(c) \ {id[1] : id \in ids}

ThreadFits(c) ==
    /\ \A cp \in checkpoints[c] : Made(c, cp)
    /\ row[c].stored # "analysis" => checkpoints[c] = {}
    /\ row[c].stored = "analysis" => analysed[c] \in checkpoints[c]

Fits(c) == FindingsFit(c) /\ PreviousFits(c) /\ RowFits(c) /\ SpokenFits(c) /\ ThreadFits(c)

Remembered == Sound /\ \A c \in Commits : Fits(c)

\* What concerns another commit, and new twins, leave a commit fitting.
LEMMA Unaffected ==
  ASSUME NEW c \in Commits, Fits(c),
         row'[c].findings = row[c].findings, row'[c].fixed = row[c].fixed,
         row'[c].stored = "analysis" <=> row[c].stored = "analysis",
         analysed'[c] = analysed[c], checkpoints'[c] = checkpoints[c],
         previous'[c] = previous[c], told'[c] = told[c], carried'[c] = carried[c],
         lost'[c] = lost[c], \A k \in Keys : opinion'[k] = "none" => opinion[k] = "none",
         twinned \subseteq twinned'
  PROVE  Fits(c)'
  <1>1. Unwanted(c)' = Unwanted(c) /\ Standing(c)' = Standing(c)
    BY DEF Unwanted, Standing
  <1>2. FindingsFit(c)'
    BY <1>1 DEF Fits, FindingsFit
  <1>3. PreviousFits(c)'
    BY DEF Fits, PreviousFits
  <1>4. RowFits(c)'
    BY <1>1 DEF Fits, RowFits
  <1>5. SpokenFits(c)'
    BY DEF Fits, SpokenFits
  <1>6. ThreadFits(c)'
    <2>1. ASSUME NEW cp \in checkpoints[c] PROVE Made(c, cp)'
      <3>1. PICK ids \in Reports :
                /\ cp.findings = Classify(ids, previous[c])
                /\ TwinsIn(ids) \subseteq twinned
                /\ cp.fixed \subseteq Standing(c) \ {id[1] : id \in ids}
        BY DEF Fits, ThreadFits, Made
      <3>2. /\ cp.findings = Classify(ids, previous'[c])
            /\ TwinsIn(ids) \subseteq twinned'
            /\ cp.fixed \subseteq Standing(c)' \ {id[1] : id \in ids}
        BY <1>1, <3>1
      <3>3. QED
        BY <3>2 DEF Made
    <2>2. QED
      BY <2>1 DEF Fits, ThreadFits
  <1>7. QED
    BY <1>2, <1>3, <1>4, <1>5, <1>6 DEF Fits

LEMMA FirstReported ==
  ASSUME NEW ids \in Reports, NEW id \in ids, id[1] \notin TwinsIn(ids)
  PROVE  id \in Keys \X Twins /\ id[2] = 1
  <1>1. id \in Keys \X Twins /\ id[2] \in 1 .. MaxTwins
    BY DEF Reports, Twins
  <1>2. SUFFICES ASSUME id[2] # 1 PROVE FALSE
    BY <1>1
  <1>3. 1 \in Twins /\ 1 < id[2]
    BY <1>1, <1>2, BoundsAreNumbers DEF Twins
  <1>4. <<id[1], 1>> \in ids
    BY <1>3 DEF Reports
  <1>5. id[1] \in TwinsIn(ids)
    <2>1. <<id[1], 1>>[1] = id[1] /\ <<id[1], 1>> # id
      BY <1>1, <1>2
    <2>2. id \in {x \in ids : \E y \in ids : x # y /\ x[1] = y[1]}
      BY <1>4, <2>1
    <2>3. QED
      BY <2>2 DEF TwinsIn
  <1>6. QED
    BY <1>5

\* The findings of a state of the graph, with the feedback of the row.
LEMMA ReappliedAllFit ==
  ASSUME Remembered, NEW c \in Commits, NEW ids \in SUBSET (Keys \X Twins)
  PROVE  LET findings == ApplyFeedback(Classify(ids, previous[c]), row[c].findings)
         IN  /\ IdsOf(findings) = ids /\ Unique(findings)
             /\ \A f \in findings : Coherent(f)
             /\ \A f \in findings : f.key \notin twinned /\ f.twin = 1 =>
                  /\ Truthful(f, previous[c])
                  /\ f.key \notin lost[c] => (f.lifecycle = "dismissed" <=> f.key \in Unwanted(c))
  <1> DEFINE F == row[c].findings
             P == previous[c]
             findings == ApplyFeedback(Classify(ids, P), F)
  <1>1. TypeOK /\ Fits(c)
    BY DEF Remembered, Sound
  <1>2. F \in SUBSET Finding /\ P \in SUBSET Finding /\ \A f \in F : Coherent(f)
    BY <1>1, RowParts DEF TypeOK, Fits, FindingsFit
  <1>3. IdsOf(findings) = ids
    <2>1. Classify(ids, P) \in SUBSET Finding /\ IdsOf(Classify(ids, P)) = ids
      BY <1>2, ClassifyTyped
    <2>2. QED
      BY <1>2, <2>1, ApplyFeedbackTyped
  <1>4. \A f \in findings : \E id \in ids : f = WithFeedback(Classified(id, P), F)
    BY DEF ApplyFeedback, Classify
  <1>5. \A id \in ids : Id(WithFeedback(Classified(id, P), F)) = id
    BY <1>2, ReappliedFits
  <1>6. Unique(findings)
    <2> SUFFICES ASSUME NEW f \in findings, NEW g \in findings, Id(f) = Id(g) PROVE f = g
      BY DEF Unique
    <2> HIDE DEF findings
    <2>1. PICK id \in ids : f = WithFeedback(Classified(id, P), F)
      BY <1>4
    <2>2. PICK other \in ids : g = WithFeedback(Classified(other, P), F)
      BY <1>4
    <2>3. id = other
      BY <1>5, <2>1, <2>2
    <2>4. QED
      BY <2>1, <2>2, <2>3
  <1>7. ASSUME NEW f \in findings
        PROVE  /\ Coherent(f)
               /\ f.key \notin twinned /\ f.twin = 1 =>
                    /\ Truthful(f, P)
                    /\ f.key \notin lost[c] =>
                         (f.lifecycle = "dismissed" <=> f.key \in Unwanted(c))
    <2>1. PICK id \in ids : f = WithFeedback(Classified(id, P), F)
      BY <1>4
    <2>2. id \in Keys \X Twins /\ id[1] \in Keys
      OBVIOUS
    <2> HIDE DEF findings
    <2>3. /\ f \in Finding /\ Id(f) = id /\ Coherent(f)
          /\ (\A g \in F : g.key = id[1] => Truthful(g, P)) =>
                /\ Truthful(f, P)
                /\ id[1] \in KeysOf(F) =>
                      \E p \in F : /\ p.key = id[1]
                                   /\ f.lifecycle = "dismissed" <=> p.lifecycle = "dismissed"
                /\ id[1] \notin KeysOf(F) =>
                      (f.lifecycle = "dismissed" <=> id[1] \in DismissedKeys(P))
      BY <1>2, <2>1, <2>2, ReappliedFits
    <2>4. f.key = id[1] /\ f.key \in Keys
      BY <2>2, <2>3 DEF Id
    <2>5. ASSUME f.key \notin twinned
          PROVE  /\ Truthful(f, P)
                 /\ f.key \notin lost[c] => (f.lifecycle = "dismissed" <=> f.key \in Unwanted(c))
      <3>1. \A g \in F : g.key = id[1] =>
                /\ Truthful(g, P)
                /\ g.key \notin lost[c] =>
                     (g.lifecycle = "dismissed" <=> g.key \in Unwanted(c))
        BY <1>1, <2>4, <2>5 DEF Fits, FindingsFit
      <3>2. CASE id[1] \in KeysOf(F)
        <4>1. PICK p \in F : /\ p.key = id[1]
                             /\ f.lifecycle = "dismissed" <=> p.lifecycle = "dismissed"
          BY <2>3, <3>1, <3>2
        <4>2. QED
          BY <2>3, <2>4, <3>1, <4>1
      <3>3. CASE id[1] \notin KeysOf(F)
        <4>1. Truthful(f, P) /\ (f.lifecycle = "dismissed" <=> f.key \in DismissedKeys(P))
          BY <2>3, <2>4, <3>1, <3>3
        <4>2. ASSUME f.key \notin lost[c]
              PROVE  f.key \in DismissedKeys(P) <=> f.key \in Unwanted(c)
          <5>1. told[c][f.key] = "none"
            BY <1>1, <2>4, <3>3, <4>2 DEF Fits, RowFits
          <5>2. f.key \in Unwanted(c) <=> f.key \in carried[c]
            BY <2>4, <5>1 DEF Unwanted
          <5>3. f.key \in DismissedKeys(P) <=> f.key \in carried[c]
            BY <1>1, <2>4, <2>5, <4>2, <5>1 DEF Fits, PreviousFits
          <5>4. QED
            BY <5>2, <5>3
        <4>3. QED
          BY <4>1, <4>2
      <3>4. QED
        BY <3>2, <3>3
    <2>6. QED
      BY <2>3, <2>5
  <1>8. QED
    BY <1>3, <1>6, <1>7

\* cp is made of what is reported as ids.
MadeOf(c, cp, ids) ==
    /\ ids \in Reports
    /\ cp.findings = Classify(ids, previous[c])
    /\ TwinsIn(ids) \subseteq twinned'
    /\ cp.fixed \subseteq Standing(c) \ {id[1] : id \in ids}

\* What is stored, of a fingerprint that never had twins.
LEMMA StoredFit ==
  ASSUME Remembered, NEW c \in Commits, NEW cp, NEW ids, MadeOf(c, cp, ids),
         twinned \subseteq twinned'
  PROVE  LET findings == ApplyFeedback(cp.findings, row[c].findings)
         IN  /\ KeysOf(findings) = {id[1] : id \in ids}
             /\ Unique(findings) /\ \A f \in findings : Coherent(f)
             /\ \A f \in findings : f.key \notin twinned' =>
                  /\ f.twin = 1
                  /\ Truthful(f, previous[c])
                  /\ f.key \notin lost[c] => (f.lifecycle = "dismissed" <=> f.key \in Unwanted(c))
  <1> DEFINE findings == ApplyFeedback(cp.findings, row[c].findings)
  <1>1. /\ ids \in SUBSET (Keys \X Twins) /\ ids \in Reports
        /\ TwinsIn(ids) \subseteq twinned'
        /\ findings = ApplyFeedback(Classify(ids, previous[c]), row[c].findings)
    BY DEF MadeOf, Reports
  <1> HIDE DEF findings
  <1>2. /\ IdsOf(findings) = ids /\ Unique(findings)
        /\ \A f \in findings : Coherent(f)
        /\ \A f \in findings : f.key \notin twinned /\ f.twin = 1 =>
             /\ Truthful(f, previous[c])
             /\ f.key \notin lost[c] => (f.lifecycle = "dismissed" <=> f.key \in Unwanted(c))
    BY <1>1, ReappliedAllFit
  <1>3. ASSUME NEW f \in findings, f.key \notin twinned' PROVE f.key \notin twinned /\ f.twin = 1
    <2>1. Id(f) \in ids /\ Id(f)[1] = f.key /\ Id(f)[2] = f.twin
      BY <1>2 DEF IdsOf, Id
    <2>2. f.key \notin TwinsIn(ids)
      BY <1>1, <1>3
    <2>3. QED
      BY <1>1, <1>3, <2>1, <2>2, FirstReported
  <1>4. KeysOf(findings) = {id[1] : id \in ids}
    BY <1>2, KeysAreIds
  <1>5. QED
    BY <1>2, <1>3, <1>4 DEF findings

\* A step that stores a state of the graph.
LEMMA KeepsFits ==
  ASSUME Remembered, NEW c, NEW cp, NEW open, NEW decision, NEW ids,
         Keeps(c, cp, open, decision), MadeOf(c, cp, ids), ThreadMoves(c, cp),
         UNCHANGED thread => row[c].stored = "analysis", twinned \subseteq twinned'
  PROVE  \A d \in Commits : Fits(d)'
  <1> DEFINE findings == ApplyFeedback(cp.findings, row[c].findings)
  <1>1. TypeOK /\ c \in Commits /\ Fits(c) /\ cp \in CheckpointType
    BY DEF Remembered, Sound, Keeps
  <1>2. /\ row'[c].stored = "analysis" /\ row'[c].findings = findings /\ row'[c].fixed = cp.fixed
        /\ \A d \in Commits : d # c => row'[d] = row[d]
        /\ lost'[c] = lost[c] \cup {k \in Keys \ KeysOf(findings) : told[c][k] # "none"}
        /\ \A d \in Commits : d # c => lost'[d] = lost[d]
    BY <1>1, StoreFields DEF Keeps
  <1>3. /\ KeysOf(findings) = {id[1] : id \in ids}
        /\ Unique(findings) /\ \A f \in findings : Coherent(f)
        /\ \A f \in findings : f.key \notin twinned' =>
             /\ f.twin = 1
             /\ Truthful(f, previous[c])
             /\ f.key \notin lost[c] => (f.lifecycle = "dismissed" <=> f.key \in Unwanted(c))
    BY <1>1, StoredFit
  <1> HIDE DEF findings
  <1>4. previous' = previous /\ opinion' = opinion /\ told' = told /\ carried' = carried
    BY DEF Keeps, said
  <1>5. /\ \A d \in Commits : Unwanted(d)' = Unwanted(d)
        /\ \A d \in Commits : Standing(d)' = Standing(d)
        /\ lost[c] \subseteq lost'[c]
    BY <1>2, <1>4 DEF Unwanted, Standing
  <1>6. FindingsFit(c)'
    BY <1>1, <1>2, <1>3, <1>4, <1>5 DEF FindingsFit
  <1>7. PreviousFits(c)'
    BY <1>1, <1>4, <1>5 DEF Fits, PreviousFits
  <1>8. RowFits(c)'
    <2>1. cp.fixed \subseteq Standing(c)' \ KeysOf(findings)
      BY <1>1, <1>3, <1>5 DEF MadeOf
    <2>2. \A k \in Keys \ KeysOf(findings) : told[c][k] # "none" => k \in lost'[c]
      BY <1>2
    <2>3. QED
      BY <1>2, <1>4, <2>1, <2>2 DEF RowFits
  <1>9. SpokenFits(c)'
    BY <1>1, <1>2, <1>4 DEF Fits, SpokenFits
  <1>10. ThreadFits(c)'
    <2>1. ASSUME NEW old \in checkpoints[c] PROVE Made(c, old)'
      <3>1. PICK x \in Reports :
                /\ old.findings = Classify(x, previous[c])
                /\ TwinsIn(x) \subseteq twinned
                /\ old.fixed \subseteq Standing(c) \ {id[1] : id \in x}
        BY <1>1 DEF Fits, ThreadFits, Made
      <3>2. /\ old.findings = Classify(x, previous'[c])
            /\ TwinsIn(x) \subseteq twinned'
            /\ old.fixed \subseteq Standing(c)' \ {id[1] : id \in x}
        BY <1>1, <1>4, <1>5, <3>1
      <3>3. QED
        BY <3>2 DEF Made
    <2>2. CASE UNCHANGED thread
      <3>1. analysed' = analysed /\ checkpoints' = checkpoints
        BY <2>2 DEF thread
      <3>2. QED
        BY <1>1, <1>2, <2>1, <2>2, <3>1 DEF Fits, ThreadFits
    <2>3. ASSUME NEW end \in CheckpointType,
                 end.findings = cp.findings, end.fixed = cp.fixed, GoesTo(c, end)
          PROVE  ThreadFits(c)'
      <3>1. analysed'[c] = end /\ checkpoints'[c] = checkpoints[c] \cup {end}
        BY <1>1, <2>3, GoesToFields
      <3>2. Made(c, end)'
        <4>1. /\ ids \in Reports
              /\ end.findings = Classify(ids, previous'[c])
              /\ TwinsIn(ids) \subseteq twinned'
              /\ end.fixed \subseteq Standing(c)' \ {id[1] : id \in ids}
          BY <1>1, <1>4, <1>5, <2>3 DEF MadeOf
        <4>2. QED
          BY <4>1 DEF Made
      <3>3. QED
        BY <1>2, <2>1, <3>1, <3>2 DEF ThreadFits
    <2>4. QED
      BY <2>2, <2>3 DEF ThreadMoves
  <1>11. ASSUME NEW d \in Commits, d # c PROVE Fits(d)'
    <2>1. analysed'[d] = analysed[d] /\ checkpoints'[d] = checkpoints[d]
      <3>1. CASE UNCHANGED thread
        BY <3>1 DEF thread
      <3>2. CASE \E end \in CheckpointType : GoesTo(c, end)
        BY <1>1, <1>11, <3>2, GoesToFields
      <3>3. QED
        BY <3>1, <3>2 DEF ThreadMoves
    <2>2. Fits(d)
      BY DEF Remembered
    <2>3. row'[d] = row[d] /\ lost'[d] = lost[d]
      BY <1>2, <1>11
    <2>4. QED
      BY <1>4, <2>1, <2>2, <2>3, Unaffected
  <1>12. QED
    BY <1>6, <1>7, <1>8, <1>9, <1>10, <1>11 DEF Fits

LEMMA AnalyseFits ==
  ASSUME Remembered, NEW c \in Commits, Analyse(c), UNCHANGED <<previous, said>>
  PROVE  \A d \in Commits : Fits(d)'
  <1>1. TypeOK
    BY DEF Remembered, Sound
  <1>2. PICK ids \in Reports, covered \in SUBSET Keys, cp \in CheckpointType, open \in BOOLEAN :
            /\ cp.findings = Classify(ids, previous[c])
            /\ cp.fixed = Fixed(ids, previous[c], covered)
            /\ Keeps(c, cp, open, "none")
            /\ GoesTo(c, cp)
            /\ twinned' = twinned \cup TwinsIn(ids)
    BY <1>1, AnalyseKeeps
  <1>3. cp.fixed \subseteq Standing(c) \ {id[1] : id \in ids}
    BY <1>2 DEF Fixed, Standing
  <1>4. MadeOf(c, cp, ids)
    BY <1>2, <1>3 DEF MadeOf
  <1>5. ThreadMoves(c, cp)
    BY <1>2 DEF ThreadMoves
  <1>6. UNCHANGED thread => row[c].stored = "analysis"
    <2> SUFFICES ASSUME UNCHANGED thread PROVE row[c].stored = "analysis"
      OBVIOUS
    <2>1. cp \in checkpoints[c]
      <3>1. cp \in checkpoints'[c]
        BY <1>1, <1>2, GoesToFields
      <3>2. QED
        BY <3>1 DEF thread
    <2>2. QED
      BY <2>1 DEF Remembered, Fits, ThreadFits
  <1>7. QED
    BY <1>2, <1>4, <1>5, <1>6, KeepsFits

\* What a checkpoint holds was reported.
LEMMA CheckpointMade ==
  ASSUME Remembered, NEW c \in Commits, NEW old \in checkpoints[c], NEW cp,
         cp.findings = old.findings, cp.fixed = old.fixed, twinned' = twinned
  PROVE  \E ids : MadeOf(c, cp, ids)
  BY DEF Remembered, Fits, ThreadFits, Made, MadeOf

LEMMA ApproveFits ==
  ASSUME Remembered, NEW c \in Commits, Approve(c)
  PROVE  \A d \in Commits : Fits(d)'
  <1>1. TypeOK /\ row[c].stored = "analysis" /\ twinned' = twinned
    BY DEF Remembered, Sound, Approve
  <1>2. PICK cp \in CheckpointType, open \in BOOLEAN :
            /\ cp.findings = analysed[c].findings /\ cp.fixed = analysed[c].fixed
            /\ Keeps(c, cp, open, Decide(Active(ApplyFeedback(cp.findings, row[c].findings))))
            /\ GoesTo(c, cp)
    BY <1>1, ApproveKeeps
  <1>3. PICK ids : MadeOf(c, cp, ids)
    <2>1. analysed[c] \in checkpoints[c]
      BY <1>1 DEF Remembered, Fits, ThreadFits
    <2>2. QED
      BY <1>1, <1>2, <2>1, CheckpointMade
  <1>4. ThreadMoves(c, cp)
    BY <1>2 DEF ThreadMoves
  <1>5. QED
    BY <1>1, <1>2, <1>3, <1>4, KeepsFits

LEMMA RerunFits ==
  ASSUME Remembered, NEW c \in Commits, RerunDecision(c) \/ RerunResult(c)
  PROVE  \A d \in Commits : Fits(d)'
  <1>1. TypeOK /\ row[c].stored = "analysis" /\ twinned' = twinned
    <2>1. Reruns(c) /\ UNCHANGED twinned
      BY DEF RerunDecision, RerunResult
    <2>2. QED
      BY <2>1 DEF Remembered, Sound, Reruns
  <1>2. PICK cp \in checkpoints[c], open \in BOOLEAN :
            Keeps(c, cp, open, Decide(Active(cp.findings))) /\ ThreadMoves(c, cp)
    BY <1>1, RerunKeeps
  <1>3. PICK ids : MadeOf(c, cp, ids)
    BY <1>1, <1>2, CheckpointMade
  <1>4. QED
    BY <1>1, <1>2, <1>3, KeepsFits

LEMMA FeedbackFits ==
  ASSUME Remembered, NEW c \in Commits, NEW f \in row[c].findings,
         NEW verdict \in {"valid", "dismissed"}, Feedback(c, f, verdict)
  PROVE  \A d \in Commits : Fits(d)'
  <1> DEFINE F == row[c].findings
             g == Judged(f, verdict)
             findings == (F \ {f}) \cup {g}
  <1>1. TypeOK /\ Fits(c)
    BY DEF Remembered, Sound
  <1>2. /\ f \in Finding /\ f.key \in Keys
        /\ row[c].stored = "analysis" /\ row'[c].stored = row[c].stored
        /\ row'[c].findings = Told(c, f, verdict) /\ row'[c].fixed = row[c].fixed
        /\ \A d \in Commits : d # c => row'[d] = row[d]
    BY <1>1, FeedbackFields
  <1>3. /\ \A k \in Keys : opinion'[k] = IF k = f.key THEN verdict ELSE opinion[k]
        /\ \A k \in Keys : told'[c][k] = IF k = f.key THEN verdict ELSE told[c][k]
        /\ \A d \in Commits : d # c => told'[d] = told[d]
        /\ lost'[c] = lost[c] \ {f.key}
        /\ \A d \in Commits : d # c => lost'[d] = lost[d]
    BY <1>1, FeedbackFields
  <1>4. UNCHANGED <<thread, previous, carried, twinned>>
    BY DEF Feedback
  <1>5. F \in SUBSET Finding /\ \A h \in F : Coherent(h)
    BY <1>1, RowParts DEF Fits, FindingsFit
  <1>6. \A h \in F : Refreshed(h) = h
    BY <1>5, RefreshedIsSame
  <1>7. row'[c].findings = findings
    BY <1>2, <1>6 DEF Told
  <1>8. /\ Id(g) = Id(f) /\ g.key = f.key /\ g.twin = f.twin /\ Coherent(g)
        /\ Truthful(f, previous[c]) => Truthful(g, previous[c])
        /\ g.lifecycle = "dismissed" <=> verdict = "dismissed"
    <2>1. previous[c] \in SUBSET Finding
      BY <1>1 DEF TypeOK
    <2>2. QED
      BY <1>2, <1>5, <2>1, JudgedFits
  <1> HIDE DEF g
  <1>9. KeysOf(findings) = KeysOf(F)
    BY <1>8 DEF KeysOf
  <1>10. /\ \A k \in Keys : k # f.key => (k \in Unwanted(c)' <=> k \in Unwanted(c))
         /\ f.key \in Unwanted(c)' <=> verdict = "dismissed"
    BY <1>2, <1>3, <1>4 DEF Unwanted
  <1>11. \A h \in F \ {f} : Id(h) # Id(f)
    BY <1>1 DEF Fits, FindingsFit, Unique
  <1>12. FindingsFit(c)'
    <2>1. \A h \in findings : Coherent(h)
      BY <1>5, <1>8
    <2>2. Unique(findings)
      BY <1>1, <1>8, <1>11 DEF Fits, FindingsFit, Unique
    <2>3. ASSUME NEW h \in findings, h.key \notin twinned
          PROVE  /\ h.twin = 1
                 /\ Truthful(h, previous[c])
                 /\ h.key \notin lost'[c] =>
                       (h.lifecycle = "dismissed" <=> h.key \in Unwanted(c)')
      <3>1. CASE h \in F \ {f}
        <4>1. /\ h.twin = 1
              /\ Truthful(h, previous[c])
              /\ h.key \notin lost[c] => (h.lifecycle = "dismissed" <=> h.key \in Unwanted(c))
          BY <1>1, <2>3, <3>1 DEF Fits, FindingsFit
        <4>2. h.key # f.key
          <5>1. h.key = f.key => f.twin = 1
            BY <1>1, <2>3 DEF Fits, FindingsFit
          <5>2. QED
            BY <1>11, <3>1, <4>1, <5>1 DEF Id
        <4>3. h.key \in Keys
          BY <1>5, <3>1, FindingFields
        <4>4. QED
          BY <1>3, <1>10, <4>1, <4>2, <4>3
      <3>2. CASE h = g
        <4>1. f.twin = 1 /\ Truthful(f, previous[c])
          BY <1>1, <1>8, <2>3, <3>2 DEF Fits, FindingsFit
        <4>2. QED
          BY <1>8, <1>10, <3>2, <4>1
      <3>3. QED
        BY <3>1, <3>2
    <2> HIDE DEF findings
    <2>4. QED
      BY <1>4, <1>7, <2>1, <2>2, <2>3 DEF FindingsFit
  <1> HIDE DEF findings
  <1>13. PreviousFits(c)'
    <2> SUFFICES ASSUME NEW k \in Keys \ twinned, told'[c][k] = "none", k \notin lost'[c]
                 PROVE  k \in DismissedKeys(previous[c]) <=> k \in carried[c]
      BY <1>4 DEF PreviousFits
    <2>1. k # f.key
      BY <1>3
    <2>2. told[c][k] = "none" /\ k \notin lost[c]
      BY <1>3, <2>1
    <2>3. QED
      BY <1>1, <2>2 DEF Fits, PreviousFits
  <1>14. RowFits(c)'
    <2>1. Standing(c)' = Standing(c)
      BY <1>4 DEF Standing
    <2>2. f.key \in KeysOf(F)
      BY DEF KeysOf
    <2>3. \A k \in Keys \ KeysOf(F) : told'[c][k] # "none" => k \in lost'[c]
      BY <1>1, <1>3, <2>2 DEF Fits, RowFits
    <2>4. QED
      BY <1>1, <1>2, <1>7, <1>9, <2>1, <2>3 DEF Fits, RowFits
  <1>15. SpokenFits(c)'
    BY <1>1, <1>3, <1>4 DEF Fits, SpokenFits
  <1>16. analysed' = analysed /\ checkpoints' = checkpoints
    BY <1>4 DEF thread
  <1>17. ThreadFits(c)'
    <2>1. \A cp : Made(c, cp) => Made(c, cp)'
      BY <1>4 DEF Made, Standing
    <2>2. QED
      BY <1>1, <1>2, <1>16, <2>1 DEF Fits, ThreadFits
  <1>18. ASSUME NEW d \in Commits, d # c PROVE Fits(d)'
    <2>1. Fits(d)
      BY DEF Remembered
    <2>2. \A k \in Keys : opinion'[k] = "none" => opinion[k] = "none"
      BY <1>3
    <2>3. row'[d] = row[d] /\ lost'[d] = lost[d] /\ told'[d] = told[d]
      BY <1>2, <1>3, <1>18
    <2>4. QED
      BY <1>4, <1>16, <2>1, <2>2, <2>3, Unaffected
  <1>19. QED
    BY <1>12, <1>13, <1>14, <1>15, <1>17, <1>18 DEF Fits

\* A fingerprint that never had twins is dismissed if its finding is.
LEMMA DismissedThere ==
  ASSUME Remembered, NEW d \in Commits, NEW k \in Keys \ twinned,
         k \in KeysOf(row[d].findings), k \notin lost[d]
  PROVE  k \in DismissedKeys(row[d].findings) <=> k \in Unwanted(d)
  <1> DEFINE G == row[d].findings
             p == Last(G, k)
  <1>1. G \in SUBSET Finding /\ Fits(d)
    BY RowParts DEF Remembered, Sound
  <1>2. p \in G /\ p.key = k
    BY <1>1, LastThere
  <1>3. k \in DismissedKeys(G) <=> IsDismissed(p)
    BY DEF DismissedKeys
  <1> HIDE DEF p
  <1>4. IsDismissed(p) <=> p.lifecycle = "dismissed"
    BY <1>1, <1>2 DEF Fits, FindingsFit, Coherent, IsDismissed
  <1>5. p.lifecycle = "dismissed" <=> k \in Unwanted(d)
    BY <1>1, <1>2 DEF Fits, FindingsFit
  <1>6. QED
    BY <1>3, <1>4, <1>5

LEMMA ReadPreviousFits ==
  ASSUME Remembered, NEW j \in Jobs, ReadPrevious(j)
  PROVE  \A d \in Commits : Fits(d)'
  <1>0. PICK c \in Commits : c = job[j].commit
    BY JobParts DEF Remembered, Sound
  <1> DEFINE b == IF Earlier(c) = {} THEN {} ELSE row[Previous(c)].findings
             o == {k \in Keys : opinion[k] = "dismissed"}
             l == {k \in Keys : opinion[k] # "none" /\ (Earlier(c) = {} \/ ~HandsOn(Previous(c), k))}
  <1>1. TypeOK /\ Fits(c)
    BY DEF Remembered, Sound
  <1>2. /\ previous' = [previous EXCEPT ![c] = b] /\ carried' = [carried EXCEPT ![c] = o]
        /\ lost' = [lost EXCEPT ![c] = l]
        /\ UNCHANGED <<row, thread, opinion, told, twinned>> /\ job[j].pc = "begun"
    BY <1>0 DEF ReadPrevious
  <1>3. row[c].stored # "analysis"
    BY <1>0, <1>2 DEF Remembered, Sound, Numbered, JobFits, Working
  <1>4. /\ row[c].findings = {} /\ row[c].fixed = {} /\ checkpoints[c] = {}
        /\ \A k \in Keys : told[c][k] = "none"
    BY <1>1, <1>3 DEF Fits, RowFits, ThreadFits
  <1>5. ASSUME NEW k \in Keys \ twinned, k \notin l
        PROVE  k \in DismissedKeys(b) <=> k \in o
    <2>1. CASE Earlier(c) = {}
      <3>1. k \notin DismissedKeys(b)
        BY <2>1 DEF DismissedKeys, KeysOf
      <3>2. opinion[k] = "none"
        BY <1>5, <2>1
      <3>3. QED
        BY <3>1, <3>2
    <2>2. CASE Earlier(c) # {}
      <3> DEFINE d == Previous(c)
      <3>1. d \in Commits
        BY <1>1, <2>2, PreviousThere
      <3>2. Fits(d) /\ b = row[d].findings
        BY <2>2, <3>1 DEF Remembered
      <3>3. opinion[k] # "none" => HandsOn(d, k)
        BY <1>5
      <3> HIDE DEF d, b, o, l
      <3>4. CASE opinion[k] = "none"
        <4>1. k \notin Unwanted(d) /\ k \notin lost[d]
          BY <3>2, <3>4 DEF Fits, SpokenFits, Unwanted
        <4>2. k \in KeysOf(b) => (k \in DismissedKeys(b) <=> k \in Unwanted(d))
          BY <3>1, <3>2, <4>1, DismissedThere
        <4>3. k \notin DismissedKeys(b)
          BY <4>1, <4>2 DEF DismissedKeys
        <4>4. QED
          BY <3>4, <4>3 DEF o
      <3>5. CASE opinion[k] # "none"
        <4>1. /\ k \in KeysOf(row[d].findings) /\ k \notin lost[d]
              /\ k \in Unwanted(d) <=> opinion[k] = "dismissed"
          BY <3>3, <3>5 DEF HandsOn
        <4>2. k \in DismissedKeys(b) <=> k \in Unwanted(d)
          BY <3>1, <3>2, <4>1, DismissedThere
        <4>3. QED
          BY <4>1, <4>2 DEF o
      <3>6. QED
        BY <3>4, <3>5
    <2>3. QED
      BY <2>1, <2>2
  <1>6. o \subseteq Keys /\ \A k \in Keys : opinion[k] = "none" => k \notin o /\ k \notin l
    OBVIOUS
  <1> HIDE DEF b, o, l
  <1>7. /\ previous'[c] = b /\ carried'[c] = o /\ lost'[c] = l
        /\ \A d \in Commits : d # c =>
              previous'[d] = previous[d] /\ carried'[d] = carried[d] /\ lost'[d] = lost[d]
    BY <1>1, <1>2 DEF TypeOK
  <1>8. FindingsFit(c)'
    BY <1>2, <1>4 DEF FindingsFit, Unique
  <1>9. PreviousFits(c)'
    BY <1>2, <1>5, <1>7 DEF PreviousFits
  <1>10. RowFits(c)'
    BY <1>2, <1>3, <1>4 DEF RowFits
  <1>11. SpokenFits(c)'
    BY <1>2, <1>4, <1>6, <1>7 DEF SpokenFits
  <1>12. analysed' = analysed /\ checkpoints' = checkpoints
    BY <1>2 DEF thread
  <1>13. ThreadFits(c)'
    BY <1>2, <1>3, <1>4, <1>12 DEF ThreadFits
  <1>14. ASSUME NEW d \in Commits, d # c PROVE Fits(d)'
    <2>1. Fits(d)
      BY DEF Remembered
    <2>2. QED
      BY <1>2, <1>7, <1>12, <1>14, <2>1, Unaffected
  <1>15. QED
    BY <1>8, <1>9, <1>10, <1>11, <1>13, <1>14 DEF Fits

\* A step of a job that touches no finding.
LEMMA QuietFits ==
  ASSUME Remembered, UNCHANGED <<thread, previous, history>>,
         \A c \in Commits :
            /\ row'[c].findings = row[c].findings /\ row'[c].fixed = row[c].fixed
            /\ row'[c].stored = "analysis" <=> row[c].stored = "analysis"
  PROVE  \A c \in Commits : Fits(c)'
  <1> SUFFICES ASSUME NEW c \in Commits PROVE Fits(c)'
    OBVIOUS
  <1>1. Fits(c)
    BY DEF Remembered
  <1>2. UNCHANGED <<analysed, checkpoints, previous, opinion, told, carried, lost, twinned>>
    BY DEF thread, history, said
  <1>3. QED
    BY <1>1, <1>2, Unaffected

LEMMA InsertFits ==
  ASSUME Remembered, NEW j \in Jobs, Insert(j)
  PROVE  \A c \in Commits : Fits(c)'
  <1> DEFINE d == job[j].commit
             n == Cardinality(Seen) + 1
  <1>1. /\ row'[d] = [row[d] EXCEPT !.version = n]
        /\ \A c \in Commits : c # d => row'[c] = row[c]
        /\ UNCHANGED <<thread, previous, history>>
    BY InsertFields DEF Remembered
  <1>2. d \in Commits /\ row[d] \in RowType /\ n \in Nat
    BY JobParts, SeenIsFinite DEF Remembered, Sound, TypeOK
  <1>3. LET q == [row[d] EXCEPT !.version = n]
        IN  q.stored = row[d].stored /\ q.findings = row[d].findings /\ q.fixed = row[d].fixed
    <2> HIDE DEF n
    <2>1. QED
      BY <1>2, RenumberedFields
  <1>4. \A c \in Commits :
            /\ row'[c].findings = row[c].findings /\ row'[c].fixed = row[c].fixed
            /\ row'[c].stored = "analysis" <=> row[c].stored = "analysis"
    <2> HIDE DEF n, d
    <2>1. QED
      BY <1>1, <1>3
  <1>5. QED
    BY <1>1, <1>4, QuietFits

LEMMA DraftFits ==
  ASSUME Remembered, NEW j \in Jobs, StoreDraft(j)
  PROVE  \A c \in Commits : Fits(c)'
  <1> DEFINE d == job[j].commit
  <1>1. /\ row[d].stored = "no"
        /\ \A c \in Commits :
              /\ row'[c].findings = row[c].findings /\ row'[c].fixed = row[c].fixed
              /\ row'[c].stored = IF c = d THEN "draft" ELSE row[c].stored
    BY DraftSound DEF Remembered
  <1>2. UNCHANGED <<thread, previous, history>>
    BY DEF StoreDraft
  <1>3. QED
    BY <1>1, <1>2, QuietFits

LEMMA InitRemembered == Init => Remembered
  <1> SUFFICES ASSUME Init PROVE \A c \in Commits : Fits(c)
    BY InitSound DEF Remembered
  <1> SUFFICES ASSUME NEW c \in Commits PROVE Fits(c)
    OBVIOUS
  <1>1. row[c].stored = "no" /\ row[c].findings = {} /\ row[c].fixed = {}
    BY DEF Init, NoRow, Row
  <1>2. /\ carried[c] = {} /\ lost[c] = {} /\ previous[c] = {} /\ checkpoints[c] = {}
        /\ \A k \in Keys : told[c][k] = "none"
    BY DEF Init
  <1>3. FindingsFit(c)
    BY <1>1 DEF FindingsFit, Unique
  <1>4. PreviousFits(c)
    BY <1>2 DEF PreviousFits, DismissedKeys, KeysOf
  <1>5. RowFits(c) /\ SpokenFits(c) /\ ThreadFits(c)
    BY <1>1, <1>2 DEF RowFits, SpokenFits, ThreadFits
  <1>6. QED
    BY <1>3, <1>4, <1>5 DEF Fits

LEMMA StepRemembered == Remembered /\ [Next]_vars => Remembered'
  <1> SUFFICES ASSUME Remembered, [Next]_vars PROVE Remembered'
    OBVIOUS
  <1>1. Sound'
    BY StepSound DEF Remembered
  <1>2. CASE UNCHANGED vars
    <2>1. UNCHANGED <<row, thread, previous, history>>
      BY <1>2 DEF vars
    <2>2. QED
      BY <1>1, <2>1, QuietFits DEF Remembered
  <1>3. ASSUME NEW j \in Jobs, JobStep(j) PROVE Remembered'
    <2>1. CASE Lock(j) \/ FindExisting(j) \/ Count(j) \/ Die(j)
      <3>1. UNCHANGED <<row, thread, previous, history>>
        BY <2>1 DEF Lock, FindExisting, Count, Die
      <3>2. QED
        BY <1>1, <3>1, QuietFits DEF Remembered
    <2>2. CASE Insert(j)
      BY <1>1, <2>2, InsertFits DEF Remembered
    <2>3. CASE StoreDraft(j)
      BY <1>1, <2>3, DraftFits DEF Remembered
    <2>4. CASE ReadPrevious(j)
      BY <1>1, <2>4, ReadPreviousFits DEF Remembered
    <2>5. CASE StoreAnalysis(j)
      <3>1. job[j].commit \in Commits
        BY JobParts DEF Remembered, Sound
      <3>2. Analyse(job[j].commit) /\ UNCHANGED <<previous, said>>
        BY <2>5 DEF StoreAnalysis
      <3>3. QED
        BY <1>1, <3>1, <3>2, AnalyseFits DEF Remembered
    <2>6. QED
      BY <1>3, <2>1, <2>2, <2>3, <2>4, <2>5 DEF JobStep
  <1>4. ASSUME NEW c \in Commits, HumanStep(c) PROVE Remembered'
    <2>1. CASE RerunReviewers(c)
      <3>1. Analyse(c) /\ UNCHANGED <<previous, said>>
        BY <2>1 DEF RerunReviewers, Reruns
      <3>2. QED
        BY <1>1, <3>1, AnalyseFits DEF Remembered
    <2>2. QED
      BY <1>1, <1>4, <2>1, FeedbackFits, ApproveFits, RerunFits DEF HumanStep, Remembered
  <1>5. QED
    BY <1>2, <1>3, <1>4 DEF Next

LEMMA AlwaysRemembered == Spec => []Remembered
  BY InitRemembered, StepRemembered, PTL DEF Spec

\* Through any number of versions, analyses, approvals and reruns a finding is
\* dismissed exactly when people want it out, unless its fingerprint is in lost
\* or twinned (classify_finding_lifecycle and apply_persisted_finding_feedback).
THEOREM DismissalsKept == Spec => []DismissalsAreKept
  <1>1. Remembered => DismissalsAreKept
    BY DEF Remembered, Fits, FindingsFit, DismissalsAreKept
  <1>2. QED
    BY <1>1, AlwaysRemembered, PTL

\* Restoring a finding gives it the lifecycle the comparison with the version
\* before gives (refresh_finding_lifecycle), and fixed findings are gone.
THEOREM LifecycleTrue == Spec => []LifecycleIsTrue
  <1>1. Remembered => LifecycleIsTrue
    <2> SUFFICES ASSUME Remembered, NEW c \in Commits
                 PROVE  /\ \A f \in row[c].findings :
                             f.key \notin twinned /\ f.lifecycle # "dismissed" =>
                               f.lifecycle = IF f.key \in KeysOf(previous[c]) THEN "recurring"
                                             ELSE "new"
                        /\ row[c].fixed \cap carried[c] \subseteq twinned \cup lost[c]
                        /\ row[c].fixed \subseteq KeysOf(previous[c]) \ KeysOf(row[c].findings)
      BY DEF LifecycleIsTrue
    <2>1. Fits(c) /\ row[c].fixed \in SUBSET Keys
      BY RowParts DEF Remembered, Sound
    <2>2. row[c].fixed \subseteq Standing(c) \ KeysOf(row[c].findings)
      BY <2>1 DEF Fits, RowFits
    <2>3. ASSUME NEW k \in row[c].fixed \cap carried[c], k \notin twinned \cup lost[c]
          PROVE  FALSE
      <3>1. told[c][k] = "none"
        BY <2>1, <2>2, <2>3 DEF Fits, RowFits
      <3>2. k \in DismissedKeys(previous[c])
        BY <2>1, <2>3, <3>1 DEF Fits, PreviousFits
      <3>3. QED
        BY <2>2, <3>2 DEF Standing
    <2>4. QED
      BY <2>1, <2>2, <2>3 DEF Fits, FindingsFit, Truthful, Base, Standing
  <1>2. QED
    BY <1>1, AlwaysRemembered, PTL

-----------------------------------------------------------------------------
(* Decisions *)

\* The findings of a set that are not dismissed, and those people want.
LEMMA ActiveAreWanted ==
  ASSUME NEW findings, NEW out,
         \A f \in findings : f.lifecycle = "dismissed" <=> f.key \in out
  PROVE  Active(findings) = KeysOf(findings) \ out
  BY DEF Active, KeysOf

LEMMA ApproveHears ==
  ASSUME Remembered, NEW c \in Commits, Approve(c),
         KeysOf(row'[c].findings) \cap (twinned \cup lost[c]) = {}
  PROVE  Hears(c)
  <1>1. TypeOK /\ row[c].stored = "analysis" /\ twinned' = twinned
    BY DEF Remembered, Sound, Approve
  <1>2. PICK cp \in CheckpointType, open \in BOOLEAN :
            /\ cp.findings = analysed[c].findings /\ cp.fixed = analysed[c].fixed
            /\ ~open
            /\ Keeps(c, cp, open, Decide(Active(ApplyFeedback(cp.findings, row[c].findings))))
            /\ GoesTo(c, cp)
    BY <1>1, ApproveKeeps
  <1> DEFINE findings == ApplyFeedback(cp.findings, row[c].findings)
             wanted == KeysOf(findings) \ Unwanted(c)
  <1>3. PICK ids : MadeOf(c, cp, ids)
    <2>1. analysed[c] \in checkpoints[c]
      BY <1>1 DEF Remembered, Fits, ThreadFits
    <2>2. QED
      BY <1>1, <1>2, <2>1, CheckpointMade
  <1>4. /\ row'[c].findings = findings
        /\ row'[c].open = open /\ row'[c].decision = Decide(Active(findings))
    BY <1>1, <1>2, StoreFields DEF Keeps
  <1>5. \A f \in findings : f.key \notin twinned' /\ f.key \notin lost[c] =>
             (f.lifecycle = "dismissed" <=> f.key \in Unwanted(c))
    BY <1>1, <1>3, StoredFit
  <1> HIDE DEF findings
  <1>6. \A f \in findings : f.key \in KeysOf(findings)
    BY DEF KeysOf
  <1>7. \A f \in findings : f.lifecycle = "dismissed" <=> f.key \in Unwanted(c)
    BY <1>1, <1>4, <1>5, <1>6
  <1>8. Active(findings) = wanted
    BY <1>7, ActiveAreWanted
  <1>9. row'[c].decision = Decide(wanted)
    BY <1>4, <1>8
  <1>10. Decide(wanted) = "reject" \/ Decide(wanted) = "approve"
    BY DEF Decide
  <1>11. QED
    BY <1>4, <1>9, <1>10 DEF Hears

LEMMA RerunHears ==
  ASSUME Remembered, NEW c \in Commits, RerunDecision(c) \/ RerunResult(c),
         KeysOf(row'[c].findings) \cap (twinned \cup lost[c]) = {}
  PROVE  Hears(c)
  <1>1. TypeOK /\ twinned' = twinned /\ Fits(c)
    BY DEF Remembered, Sound, RerunDecision, RerunResult
  <1>2. PICK cp \in checkpoints[c], open \in BOOLEAN :
            open /\ Keeps(c, cp, open, Decide(Active(cp.findings)))
    BY <1>1, RerunKeeps
  <1> DEFINE findings == ApplyFeedback(cp.findings, row[c].findings)
             wanted == KeysOf(findings) \ Unwanted(c)
  <1>3. PICK ids : MadeOf(c, cp, ids)
    BY <1>1, <1>2, CheckpointMade
  <1>4. /\ row'[c].findings = findings
        /\ row'[c].open = open /\ row'[c].decision = Decide(Active(cp.findings))
    <2> DEFINE decision == Decide(Active(cp.findings))
    <2>1. Keeps(c, cp, open, decision)
      BY <1>2
    <2> HIDE DEF decision
    <2>2. row'[c].findings = findings /\ row'[c].open = open /\ row'[c].decision = decision
      BY <1>1, <2>1, StoreFields DEF Keeps
    <2>3. QED
      BY <2>2 DEF decision
  <1>5. KeysOf(findings) = {id[1] : id \in ids}
    BY <1>1, <1>3, StoredFit
  <1> HIDE DEF findings
  <1>6. ids \in SUBSET (Keys \X Twins) /\ previous[c] \in SUBSET Finding
    BY <1>1, <1>3 DEF MadeOf, Reports, TypeOK
  <1>7. ASSUME Decide(Active(cp.findings)) = "approve", \A k \in Keys : told[c][k] # "valid"
        PROVE  Decide(wanted) = "approve"
    <2> SUFFICES ASSUME NEW k \in wanted \cap Grave PROVE FALSE
      BY DEF Decide
    <2>1. k \in KeysOf(findings) /\ k \notin Unwanted(c)
      OBVIOUS
    <2>2. PICK id \in ids : id[1] = k
      BY <1>5, <2>1
    <2>3. id \in Keys \X Twins /\ k \in Keys
      BY <1>6, <2>2
    <2> DEFINE f == Classified(id, previous[c])
    <2>4. f \in cp.findings
      BY <1>3 DEF MadeOf, Classify
    <2>5. f.key = k /\ (f.lifecycle = "dismissed" <=> k \in DismissedKeys(previous[c]))
      BY <1>6, <2>2, <2>3, ClassifiedFields, ClassifiedFits
    <2> HIDE DEF f
    <2>6. k \notin Active(cp.findings)
      BY <1>7 DEF Decide
    <2>7. k \in DismissedKeys(previous[c])
      BY <2>4, <2>5, <2>6 DEF Active, KeysOf
    <2>8. k \notin twinned /\ k \notin lost[c]
      BY <1>4, <2>1
    <2>9. told[c][k] = "none" \/ told[c][k] = "dismissed"
      BY <1>1, <1>7, <2>3 DEF TypeOK, Verdicts
    <2>10. CASE told[c][k] = "none"
      <3>1. k \in carried[c]
        BY <1>1, <2>3, <2>7, <2>8, <2>10 DEF Fits, PreviousFits
      <3>2. QED
        BY <2>1, <2>3, <2>10, <3>1 DEF Unwanted
    <2>11. CASE told[c][k] = "dismissed"
      BY <2>1, <2>3, <2>11 DEF Unwanted
    <2>12. QED
      BY <2>9, <2>10, <2>11
  <1>8. Decide(Active(cp.findings)) = "reject" \/ Decide(Active(cp.findings)) = "approve"
    BY DEF Decide
  <1>9. row'[c].open
    BY <1>2, <1>4
  <1>10. QED
    BY <1>4, <1>7, <1>8, <1>9 DEF Hears

\* Only approvals and the reruns that run no reviewer store decisions.
LEMMA FewDecide ==
  ASSUME Remembered, [Next]_vars, NEW c \in Commits, Decides(c)
  PROVE  Approve(c) \/ RerunDecision(c) \/ RerunResult(c)
  <1>1. TypeOK
    BY DEF Remembered, Sound
  <1>2. <<row'[c].decision, row'[c].open>> # <<row[c].decision, row[c].open>>
    BY DEF Decides
  <1>3. row' # row /\ row'[c] # row[c] /\ row'[c].decision # "none"
    BY <1>2 DEF Decides
  <1>4. ASSUME NEW d \in Commits, Analyse(d), UNCHANGED <<previous, said>> PROVE FALSE
    <2>1. PICK cp \in CheckpointType, open \in BOOLEAN : Keeps(d, cp, open, "none")
      BY <1>1, <1>4, AnalyseKeeps
    <2>2. row'[d].decision = "none" /\ \A e \in Commits : e # d => row'[e] = row[e]
      BY <1>1, <2>1, StoreFields DEF Keeps
    <2>3. QED
      BY <1>3, <2>2
  <1>5. ASSUME NEW j \in Jobs, JobStep(j) PROVE FALSE
    <2>1. CASE Lock(j) \/ FindExisting(j) \/ Count(j) \/ Die(j) \/ ReadPrevious(j)
      BY <1>3, <2>1 DEF Lock, FindExisting, Count, Die, ReadPrevious
    <2>2. CASE Insert(j)
      <3> DEFINE d == job[j].commit
                 n == Cardinality(Seen) + 1
      <3>1. /\ row'[d] = [row[d] EXCEPT !.version = n]
            /\ \A e \in Commits : e # d => row'[e] = row[e]
        BY <2>2, InsertFields DEF Remembered
      <3>2. row[d] \in RowType /\ n \in Nat
        BY <1>1, JobParts, SeenIsFinite DEF TypeOK
      <3>3. LET q == [row[d] EXCEPT !.version = n]
            IN  q.open = row[d].open /\ q.decision = row[d].decision
        <4> HIDE DEF n
        <4>1. QED
          BY <3>2, RenumberedFields
      <3> HIDE DEF n, d
      <3>4. row'[c].decision = row[c].decision /\ row'[c].open = row[c].open
        BY <3>1, <3>3
      <3>5. QED
        BY <1>2, <3>4
    <2>3. CASE StoreDraft(j)
      <3>1. row'[c].decision = row[c].decision /\ row'[c].open = row[c].open
        BY <2>3, DraftSound DEF Remembered
      <3>2. QED
        BY <1>2, <3>1
    <2>4. CASE StoreAnalysis(j)
      <3>1. job[j].commit \in Commits
        BY <1>1, JobParts
      <3>2. Analyse(job[j].commit) /\ UNCHANGED <<previous, said>>
        BY <2>4 DEF StoreAnalysis
      <3>3. QED
        BY <1>4, <3>1, <3>2
    <2>5. QED
      BY <1>5, <2>1, <2>2, <2>3, <2>4 DEF JobStep
  <1>6. ASSUME NEW d \in Commits, HumanStep(d)
        PROVE  Approve(c) \/ RerunDecision(c) \/ RerunResult(c)
    <2>1. ASSUME NEW f \in row[d].findings, NEW verdict \in {"valid", "dismissed"},
                 Feedback(d, f, verdict)
          PROVE  FALSE
      <3>1. /\ row'[d].open = row[d].open /\ row'[d].decision = row[d].decision
            /\ \A e \in Commits : e # d => row'[e] = row[e]
        BY <1>1, <2>1, FeedbackFields
      <3>2. row'[c].decision = row[c].decision /\ row'[c].open = row[c].open
        BY <3>1
      <3>3. QED
        BY <1>2, <3>2
    <2>2. CASE RerunReviewers(d)
      BY <1>4, <2>2 DEF RerunReviewers, Reruns
    <2>3. CASE Approve(d) \/ RerunDecision(d) \/ RerunResult(d)
      <3>1. PICK cp, open, decision : Store(d, cp, open, decision)
        BY <2>3 DEF Approve, RerunDecision, RerunResult
      <3>2. d = c
        BY <1>1, <1>3, <3>1 DEF Store, TypeOK
      <3>3. QED
        BY <2>3, <3>2
    <2>4. QED
      BY <1>6, <2>1, <2>2, <2>3 DEF HumanStep
  <1>7. ~UNCHANGED vars
    BY <1>3 DEF vars
  <1>8. QED
    BY <1>5, <1>6, <1>7 DEF Next

\* An approval decides as people do, and a rerun, which does not hear them,
\* approves nothing they would not, unless they restored a finding
\* (approve_review and rerun_from_checkpoint).
THEOREM DecisionHears == Spec => DecisionHearsPeople
  <1>1. Remembered /\ [Next]_vars =>
          [\A c \in Commits :
             Decides(c) /\ KeysOf(row'[c].findings) \cap (twinned \cup lost[c]) = {} => Hears(c)]_vars
    BY FewDecide, ApproveHears, RerunHears
  <1>2. QED
    BY <1>1, AlwaysRemembered, PTL DEF Spec, DecisionHearsPeople

=============================================================================
