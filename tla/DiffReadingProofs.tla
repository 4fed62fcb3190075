--------------------------- MODULE DiffReadingProofs ---------------------------
(***************************************************************************)
(* Theorems about DiffReading, for diffs and budgets of any size: its      *)
(* types, what the budgets bound, that omissions are told, which files and *)
(* lines parse_diff knows by their number and position, and how far from   *)
(* its line a comment is placed.                                           *)
(*                                                                         *)
(* The loops are folds.  A fold is a recursive function, and the provers   *)
(* know nothing of one but that it is chosen among those that satisfy its  *)
(* equation; so the first part shows that there is one, for every fold as  *)
(* the sequence of the values its accumulator takes.  Induction is over a  *)
(* set of numbers, which needs no operator as a parameter.                 *)
(***************************************************************************)
EXTENDS DiffReading, TLAPS, WellFoundedInduction, SequenceTheorems, FiniteSetTheorems

-----------------------------------------------------------------------------
(* Induction, and functions defined by recursion over initial segments *)

LEMMA NumbersInduct ==
    ASSUME NEW S, 0 \in S, \A n \in Nat : n \in S => n + 1 \in S
    PROVE  Nat \subseteq S
<1> DEFINE T == Nat \ S
<1>1. SUFFICES ASSUME T # {} PROVE FALSE
  OBVIOUS
<1>2. PICK x \in T : \A y \in T : <<y, x>> \notin OpToRel(<, Nat)
  BY <1>1, WFMin, NatLessThanWellFounded
<1>3. x \in Nat /\ x \notin S /\ x # 0
  BY <1>2
<1>4. x - 1 \in Nat /\ x - 1 < x /\ (x - 1) + 1 = x
  BY <1>3
<1>5. x - 1 \in T
  BY <1>3, <1>4
<1>6. <<x - 1, x>> \in OpToRel(<, Nat)
  BY <1>3, <1>4 DEF OpToRel
<1> QED
  BY <1>2, <1>5, <1>6

\* The same up to a bound.
LEMMA UpToInduct ==
    ASSUME NEW n \in Nat, NEW S, 0 \in S, \A k \in 1 .. n : k - 1 \in S => k \in S
    PROVE  0 .. n \subseteq S
<1> DEFINE T == {k \in Nat : k <= n => k \in S}
<1>1. 0 \in T
  OBVIOUS
<1>2. ASSUME NEW k \in Nat, k \in T PROVE k + 1 \in T
  <2>1. SUFFICES ASSUME k + 1 <= n PROVE k + 1 \in S
    OBVIOUS
  <2>2. k \in S /\ k + 1 \in 1 .. n /\ (k + 1) - 1 = k
    BY <1>2, <2>1
  <2> QED
    BY <2>2
<1> HIDE DEF T
<1>3. Nat \subseteq T
  BY <1>1, <1>2, NumbersInduct
<1> QED
  BY <1>3 DEF T

LEMMA LargestOf ==
    ASSUME NEW n \in Nat, NEW s \in SUBSET (1 .. n), s # {}
    PROVE  Max(s) \in s /\ \A y \in s : Max(s) >= y
<1> DEFINE S == {k \in Nat : \A t \in SUBSET (1 .. k) : t # {} => \E x \in t : \A y \in t : x >= y}
<1>1. 0 \in S
  <2>1. 1 .. 0 = {}
    OBVIOUS
  <2> QED
    BY <2>1
<1>2. ASSUME NEW k \in Nat, k \in S PROVE k + 1 \in S
  <2> SUFFICES ASSUME NEW t \in SUBSET (1 .. k + 1), t # {}
               PROVE  \E x \in t : \A y \in t : x >= y
    OBVIOUS
  <2>1. CASE k + 1 \in t
    BY <2>1
  <2>2. CASE k + 1 \notin t
    <3>1. t \in SUBSET (1 .. k)
      BY <2>2
    <3> QED
      BY <1>2, <3>1
  <2> QED
    BY <2>1, <2>2
<1> HIDE DEF S
<1>3. n \in S
  BY <1>1, <1>2, NumbersInduct
<1>4. \E x \in s : \A y \in s : x >= y
  BY <1>3 DEF S
<1> QED
  BY <1>4 DEF Max

LEMMA LastOf ==
    ASSUME NEW n \in Nat, NEW s \in SUBSET (1 .. n), n \in s
    PROVE  Max(s) = n
<1>1. Max(s) \in s /\ Max(s) >= n
  BY LargestOf
<1>2. Max(s) \in 1 .. n
  BY <1>1
<1> QED
  BY <1>1, <1>2

LEMMA Segments ==
    ASSUME NEW n \in Nat, NEW i \in 1 .. n
    PROVE  (1 .. i) \ {i} = 1 .. i - 1 /\ (1 .. i) \in SUBSET (1 .. n) /\ 1 .. i # {}
<1>1. \A x : x \in (1 .. i) \ {i} <=> x \in 1 .. i - 1
  OBVIOUS
<1>2. \A x : x \in 1 .. i => x \in 1 .. n
  OBVIOUS
<1>3. i \in 1 .. i
  OBVIOUS
<1> QED
  BY <1>1, <1>2, <1>3, Zenon

\* The equation of a fold whose loop body is the function step, and the values
\* its accumulator takes.
Folded(h, base, step, n) ==
    h = [s \in SUBSET (1 .. n) |->
            IF s = {} THEN base ELSE step[<<h[s \ {Max(s)}], Max(s)>>]]

Follows(g, A, base, step, n) ==
    /\ g[{}] = base
    /\ \A s \in SUBSET (1 .. n) :
          s # {} /\ g[s \ {Max(s)}] \in A => g[s] = step[<<g[s \ {Max(s)}], Max(s)>>]

Run(acc, base, step, n) ==
    acc[0] = base /\ \A i \in 1 .. n : acc[i] = step[<<acc[i - 1], i>>]

Reaches(value, A, base, step, n) ==
    \E acc \in [0 .. n -> A] : Run(acc, base, step, n) /\ acc[n] = value

\* There is a function that a fold may choose.
LEMMA FoldExists ==
    ASSUME NEW A, NEW base \in A, NEW n \in Nat, NEW step \in [A \X (1 .. n) -> A]
    PROVE  \E h \in [SUBSET (1 .. n) -> A] : Folded(h, base, step, n)
<1> DEFINE Good(k, h) ==
              /\ h \in [SUBSET (1 .. k) -> A]
              /\ \A s \in SUBSET (1 .. k) :
                    h[s] = IF s = {} THEN base ELSE step[<<h[s \ {Max(s)}], Max(s)>>]
           S == {k \in Nat : \E h : Good(k, h)}
<1>1. 0 \in S
  <2> DEFINE h == [s \in SUBSET (1 .. 0) |-> base]
  <2>1. \A s \in SUBSET (1 .. 0) : s = {}
    OBVIOUS
  <2>2. Good(0, h)
    BY <2>1
  <2> HIDE DEF Good
  <2> QED
    BY <2>2
<1>2. ASSUME NEW k \in 1 .. n, k - 1 \in S PROVE k \in S
  <2>1. PICK g : Good(k - 1, g)
    BY <1>2
  <2> DEFINE h == [s \in SUBSET (1 .. k) |->
                      IF k \in s THEN step[<<g[s \ {k}], k>>] ELSE g[s]]
  <2>2. \A s \in SUBSET (1 .. k) : (s \ {k}) \in SUBSET (1 .. k - 1) /\ g[s \ {k}] \in A
    BY <2>1
  <2>3. \A s \in SUBSET (1 .. k) : k \notin s => s \ {k} = s
    OBVIOUS
  <2>4. \A a \in A : step[<<a, k>>] \in A
    OBVIOUS
  <2>5. h \in [SUBSET (1 .. k) -> A]
    BY <2>2, <2>3, <2>4
  <2>6. ASSUME NEW s \in SUBSET (1 .. k)
        PROVE  h[s] = IF s = {} THEN base ELSE step[<<h[s \ {Max(s)}], Max(s)>>]
    <3>1. CASE k \in s
      <4>1. Max(s) = k
        BY <3>1, LastOf
      <4>2. h[s \ {k}] = g[s \ {k}]
        BY <2>2
      <4> QED
        BY <3>1, <4>1, <4>2
    <3>2. CASE k \notin s
      <4>1. s \in SUBSET (1 .. k - 1) /\ (s \ {Max(s)}) \in SUBSET (1 .. k - 1)
        BY <2>2, <2>3, <3>2
      <4>2. h[s] = g[s] /\ h[s \ {Max(s)}] = g[s \ {Max(s)}]
        BY <3>2
      <4>3. g[s] = IF s = {} THEN base ELSE step[<<g[s \ {Max(s)}], Max(s)>>]
        BY <2>1, <4>1
      <4> QED
        BY <4>2, <4>3
    <3> QED
      BY <3>1, <3>2
  <2> HIDE DEF h
  <2>7. Good(k, h)
    BY <2>5, <2>6
  <2> HIDE DEF Good
  <2> QED
    BY <2>7
<1> HIDE DEF S
<1>3. n \in S
  BY <1>1, <1>2, UpToInduct
<1>4. PICK h : Good(n, h)
  BY <1>3 DEF S
<1>5. Folded(h, base, step, n)
  BY <1>4 DEF Folded
<1> QED
  BY <1>4, <1>5

\* What it chooses is known by the values it has on 1 .. 0, 1 .. 1, and so on:
\* those of the accumulator.
LEMMA FoldRuns ==
    ASSUME NEW A, NEW base \in A, NEW n \in Nat, NEW step \in [A \X (1 .. n) -> A],
           NEW g, Follows(g, A, base, step, n)
    PROVE  Reaches(g[1 .. n], A, base, step, n)
<1> DEFINE acc == [i \in 0 .. n |-> g[1 .. i]]
<1>1. acc[0] = base
  <2>1. 1 .. 0 = {}
    OBVIOUS
  <2> QED
    BY <2>1 DEF Follows
<1>2. \A i \in 1 .. n : acc[i - 1] = g[1 .. i - 1] /\ acc[i] = g[1 .. i]
  OBVIOUS
<1>3. ASSUME NEW i \in 1 .. n, acc[i - 1] \in A
      PROVE  acc[i] = step[<<acc[i - 1], i>>]
  <2>1. Max(1 .. i) = i
    BY LastOf
  <2>2. (1 .. i) \ {i} = 1 .. i - 1 /\ (1 .. i) \in SUBSET (1 .. n) /\ 1 .. i # {}
    BY Segments
  <2> HIDE DEF acc
  <2>3. g[1 .. i - 1] \in A
    BY <1>2, <1>3
  <2>4. g[1 .. i] = step[<<g[1 .. i - 1], i>>]
    BY <2>1, <2>2, <2>3 DEF Follows
  <2> QED
    BY <1>2, <2>4
<1>4. acc[n] = g[1 .. n] /\ DOMAIN acc = 0 .. n /\ acc = [i \in 0 .. n |-> acc[i]]
  OBVIOUS
<1> HIDE DEF acc
<1> DEFINE S == {i \in 0 .. n : acc[i] \in A}
<1>5. 0 \in S
  BY <1>1
<1>6. ASSUME NEW i \in 1 .. n, i - 1 \in S PROVE i \in S
  <2>1. acc[i - 1] \in A
    BY <1>6
  <2>2. step[<<acc[i - 1], i>>] \in A
    BY <2>1
  <2> QED
    BY <1>3, <2>1, <2>2
<1>7. 0 .. n \subseteq S
  <2> HIDE DEF S
  <2> QED
    BY <1>5, <1>6, UpToInduct
<1>8. acc \in [0 .. n -> A]
  BY <1>4, <1>7
<1>9. \A i \in 1 .. n : acc[i] = step[<<acc[i - 1], i>>]
  BY <1>3, <1>8
<1> QED
  BY <1>1, <1>4, <1>8, <1>9 DEF Run, Reaches

-----------------------------------------------------------------------------
(* Cutting *)

Limits == [files : Nat, lines : Nat, total : Nat]

LEMMA CutFacts ==
    ASSUME NEW S, NEW s \in Seq(S), NEW n \in Nat
    PROVE  /\ Cut(s, n) \in Seq(S)
           /\ Len(Cut(s, n)) = IF n < Len(s) THEN n ELSE Len(s)
           /\ \A i \in 1 .. Len(Cut(s, n)) : Cut(s, n)[i] = s[i]
           /\ Len(s) <= n => Cut(s, n) = s
<1> DEFINE m == IF n < Len(s) THEN n ELSE Len(s)
<1>1. Len(s) \in Nat /\ m \in 0 .. Len(s)
  OBVIOUS
<1>2. Cut(s, n) = SubSeq(s, 1, m)
  BY DEF Cut
<1> HIDE DEF m
<1>3. /\ SubSeq(s, 1, m) \in Seq(S) /\ Len(SubSeq(s, 1, m)) = m
      /\ \A i \in 1 .. m : SubSeq(s, 1, m)[i] = s[i]
  BY <1>1
<1>4. m = Len(s) => SubSeq(s, 1, m) = s
  BY <1>1
<1> QED
  BY <1>1, <1>2, <1>3, <1>4 DEF m

LEMMA SizeTyped ==
    ASSUME NEW part, part.added \in Seq(Detail), part.removed \in Seq(Detail)
    PROVE  Size(part) \in Nat /\ Size(part) = Len(part.added) + Len(part.removed)
<1>1. Len(part.added) \in Nat /\ Len(part.removed) \in Nat
  OBVIOUS
<1>2. \A m, n \in Nat : m + n \in Nat
  OBVIOUS
<1>3. Size(part) = Len(part.added) + Len(part.removed)
  BY Zenon DEF Size
<1> QED
  BY <1>1, <1>2, <1>3, Zenon

LEMMA CutChunkFacts ==
    ASSUME NEW chunk \in Chunk, NEW n \in Nat
    PROVE  /\ CutChunk(chunk, n) \in Chunk
           /\ Size(CutChunk(chunk, n)) \in Nat
           /\ Len(chunk.added) <= n /\ Len(chunk.removed) <= n => CutChunk(chunk, n) = chunk
<1>1. /\ chunk.added \in Seq(Detail) /\ chunk.removed \in Seq(Detail)
      /\ chunk = [added |-> chunk.added, removed |-> chunk.removed]
  BY DEF Chunk
<1>2. Cut(chunk.added, n) \in Seq(Detail) /\ Cut(chunk.removed, n) \in Seq(Detail)
  BY <1>1, CutFacts
<1>3. CutChunk(chunk, n) \in Chunk
  BY <1>2 DEF CutChunk, Chunk
<1>4. Size(CutChunk(chunk, n)) \in Nat
  BY <1>2, SizeTyped DEF CutChunk
<1>5. ASSUME Len(chunk.added) <= n, Len(chunk.removed) <= n
      PROVE  CutChunk(chunk, n) = chunk
  <2>1. Cut(chunk.added, n) = chunk.added /\ Cut(chunk.removed, n) = chunk.removed
    BY <1>1, <1>5, CutFacts
  <2> QED
    BY <1>1, <2>1 DEF CutChunk
<1> QED
  BY <1>3, <1>4, <1>5

-----------------------------------------------------------------------------
(* The loop over the chunks of a file *)

ChunkAcc == [chunks : Seq(Chunk), size : Nat, over : BOOLEAN]

LEMMA NoChunksTyped ==
    /\ NoChunks \in ChunkAcc
    /\ NoChunks.chunks = <<>> /\ NoChunks.size = 0 /\ ~NoChunks.over
BY DEF NoChunks, ChunkAcc

\* A chunk is kept, or the loop is over.
LEMMA KeepChunkFacts ==
    ASSUME NEW acc \in ChunkAcc, NEW chunk \in Chunk, NEW limits \in Limits, NEW room \in Int
    PROVE  LET cut  == CutChunk(chunk, limits.lines)
               next == KeepChunk(acc, chunk, limits, room)
           IN  /\ next \in ChunkAcc
               /\ \/ next.over /\ next.chunks = acc.chunks /\ next.size = acc.size
                  \/ /\ ~acc.over /\ ~next.over
                     /\ acc.size + Size(cut) <= room
                     /\ next.chunks = Append(acc.chunks, cut)
                     /\ next.size = acc.size + Size(cut)
<1> DEFINE cut  == CutChunk(chunk, limits.lines)
           next == KeepChunk(acc, chunk, limits, room)
<1>1. limits.lines \in Nat
  BY DEF Limits
<1>2. cut \in Chunk /\ Size(cut) \in Nat
  BY <1>1, CutChunkFacts
<1>3. acc.chunks \in Seq(Chunk) /\ acc.size \in Nat /\ acc.over \in BOOLEAN
  BY DEF ChunkAcc
<1> HIDE DEF cut
<1>4. CASE acc.over \/ acc.size + Size(cut) > room
  <2>1. next = [acc EXCEPT !.over = TRUE]
    BY <1>4 DEF KeepChunk, cut
  <2> QED
    BY <1>3, <2>1 DEF ChunkAcc, cut
<1>5. CASE ~(acc.over \/ acc.size + Size(cut) > room)
  <2>1. next = [acc EXCEPT !.chunks = Append(@, cut), !.size = @ + Size(cut)]
    BY <1>5 DEF KeepChunk, cut
  <2>2. Append(acc.chunks, cut) \in Seq(Chunk) /\ acc.size + Size(cut) \in Nat
    BY <1>2, <1>3
  <2>3. next \in ChunkAcc /\ next.over = acc.over
        /\ next.chunks = Append(acc.chunks, cut) /\ next.size = acc.size + Size(cut)
    BY <1>3, <2>1, <2>2 DEF ChunkAcc
  <2> QED
    BY <1>2, <1>3, <1>5, <2>3 DEF cut
<1> QED
  BY <1>4, <1>5

\* The values of the accumulator.
LEMMA ChunksRun ==
    ASSUME NEW file \in File, NEW limits \in Limits, NEW room \in Int
    PROVE  \E acc \in [0 .. Len(file.chunks) -> ChunkAcc] :
              /\ acc[0] = NoChunks
              /\ \A i \in 1 .. Len(file.chunks) :
                    acc[i] = KeepChunk(acc[i - 1], file.chunks[i], limits, room)
              /\ acc[Len(file.chunks)] = KeptChunks(file, limits, room)
<1> DEFINE n == Len(file.chunks)
           step == [x \in ChunkAcc \X (1 .. n) |-> KeepChunk(x[1], file.chunks[x[2]], limits, room)]
           eqn(h) == h = [s \in SUBSET DOMAIN file.chunks |->
                             IF s = {} THEN NoChunks
                             ELSE KeepChunk(h[s \ {Max(s)}], file.chunks[Max(s)], limits, room)]
           g == CHOOSE h : eqn(h)
<1>1. /\ file.chunks \in Seq(Chunk) /\ n \in Nat /\ DOMAIN file.chunks = 1 .. n
      /\ \A i \in 1 .. n : file.chunks[i] \in Chunk
  BY DEF File
<1>2. /\ step \in [ChunkAcc \X (1 .. n) -> ChunkAcc]
      /\ \A a \in ChunkAcc, i \in 1 .. n :
            step[<<a, i>>] = KeepChunk(a, file.chunks[i], limits, room)
  <2>1. \A a \in ChunkAcc, i \in 1 .. n : KeepChunk(a, file.chunks[i], limits, room) \in ChunkAcc
    BY <1>1, KeepChunkFacts
  <2> QED
    BY <2>1
<1>3. g[DOMAIN file.chunks] = KeptChunks(file, limits, room)
  BY Zenon DEF KeptChunks, FoldLeft, MapThenFoldSet
<1> HIDE DEF n, step
<1>4. \E h : eqn(h)
  <2>1. PICK h \in [SUBSET (1 .. n) -> ChunkAcc] : Folded(h, NoChunks, step, n)
    BY <1>1, <1>2, NoChunksTyped, FoldExists
  <2>2. ASSUME NEW s \in SUBSET (1 .. n), s # {}
        PROVE  step[<<h[s \ {Max(s)}], Max(s)>>]
                  = KeepChunk(h[s \ {Max(s)}], file.chunks[Max(s)], limits, room)
    <3>1. Max(s) \in 1 .. n
      BY <1>1, <2>2, LargestOf
    <3>2. h[s \ {Max(s)}] \in ChunkAcc
      BY <2>1
    <3> QED
      BY <1>2, <3>1, <3>2
  <2>3. eqn(h)
    BY <1>1, <2>1, <2>2 DEF Folded
  <2> HIDE DEF eqn
  <2> QED
    BY <2>3
<1>5. eqn(g)
  <2> HIDE DEF eqn
  <2> QED
    BY <1>4
<1> HIDE DEF g
<1>6. Follows(g, ChunkAcc, NoChunks, step, n)
  <2>1. ASSUME NEW s \in SUBSET (1 .. n), s # {}, g[s \ {Max(s)}] \in ChunkAcc
        PROVE  g[s] = step[<<g[s \ {Max(s)}], Max(s)>>]
    <3>1. Max(s) \in 1 .. n
      BY <1>1, <2>1, LargestOf
    <3>2. g[s] = KeepChunk(g[s \ {Max(s)}], file.chunks[Max(s)], limits, room)
      BY <1>1, <1>5, <2>1
    <3> QED
      BY <1>2, <2>1, <3>1, <3>2
  <2> QED
    BY <1>5, <2>1 DEF Follows
<1> HIDE DEF eqn
<1>7. PICK acc \in [0 .. n -> ChunkAcc] : Run(acc, NoChunks, step, n) /\ acc[n] = g[1 .. n]
  <2>1. n \in Nat /\ NoChunks \in ChunkAcc /\ step \in [ChunkAcc \X (1 .. n) -> ChunkAcc]
    BY <1>1, <1>2, NoChunksTyped
  <2>2. Reaches(g[1 .. n], ChunkAcc, NoChunks, step, n)
    BY <1>6, <2>1, FoldRuns, Zenon
  <2> QED
    BY <2>2 DEF Reaches
<1>8. \A i \in 1 .. n : acc[i] = KeepChunk(acc[i - 1], file.chunks[i], limits, room)
  <2>1. \A i \in 1 .. n : acc[i - 1] \in ChunkAcc
    BY <1>1
  <2> QED
    BY <1>2, <1>7, <2>1 DEF Run
<1> QED
  BY <1>1, <1>3, <1>7, <1>8 DEF n, Run

-----------------------------------------------------------------------------
(* Totals *)

LEMMA TotalRun ==
    ASSUME NEW w \in Seq(Nat)
    PROVE  \E acc \in [0 .. Len(w) -> Nat] :
              /\ acc[0] = 0
              /\ \A i \in 1 .. Len(w) : acc[i] = acc[i - 1] + w[i]
              /\ acc[Len(w)] = Total(w)
<1> DEFINE n == Len(w)
           step == [x \in Nat \X (1 .. n) |-> x[1] + w[x[2]]]
           eqn(h) == h = [s \in SUBSET DOMAIN w |->
                             IF s = {} THEN 0 ELSE h[s \ {Max(s)}] + w[Max(s)]]
           g == CHOOSE h : eqn(h)
<1>1. n \in Nat /\ DOMAIN w = 1 .. n /\ \A i \in 1 .. n : w[i] \in Nat
  OBVIOUS
<1>2. /\ step \in [Nat \X (1 .. n) -> Nat]
      /\ \A a \in Nat, i \in 1 .. n : step[<<a, i>>] = a + w[i]
  <2>1. \A a \in Nat, i \in 1 .. n : a + w[i] \in Nat
    BY <1>1
  <2> QED
    BY <2>1
<1>3. g[DOMAIN w] = Total(w)
  BY Zenon DEF Total, FoldLeft, MapThenFoldSet
<1> HIDE DEF n, step
<1>4. \E h : eqn(h)
  <2>1. PICK h \in [SUBSET (1 .. n) -> Nat] : Folded(h, 0, step, n)
    BY <1>1, <1>2, FoldExists
  <2>2. ASSUME NEW s \in SUBSET (1 .. n), s # {}
        PROVE  step[<<h[s \ {Max(s)}], Max(s)>>] = h[s \ {Max(s)}] + w[Max(s)]
    <3>1. Max(s) \in 1 .. n
      BY <1>1, <2>2, LargestOf
    <3>2. h[s \ {Max(s)}] \in Nat
      BY <2>1
    <3> QED
      BY <1>2, <3>1, <3>2
  <2>3. eqn(h)
    BY <1>1, <2>1, <2>2 DEF Folded
  <2> HIDE DEF eqn
  <2> QED
    BY <2>3
<1>5. eqn(g)
  <2> HIDE DEF eqn
  <2> QED
    BY <1>4
<1> HIDE DEF g
<1>6. Follows(g, Nat, 0, step, n)
  <2>1. ASSUME NEW s \in SUBSET (1 .. n), s # {}, g[s \ {Max(s)}] \in Nat
        PROVE  g[s] = step[<<g[s \ {Max(s)}], Max(s)>>]
    <3>1. Max(s) \in 1 .. n
      BY <1>1, <2>1, LargestOf
    <3>2. g[s] = g[s \ {Max(s)}] + w[Max(s)]
      BY <1>1, <1>5, <2>1
    <3> QED
      BY <1>2, <2>1, <3>1, <3>2
  <2> QED
    BY <1>5, <2>1 DEF Follows
<1> HIDE DEF eqn
<1>7. PICK acc \in [0 .. n -> Nat] : Run(acc, 0, step, n) /\ acc[n] = g[1 .. n]
  <2>1. 0 \in Nat
    OBVIOUS
  <2>2. Reaches(g[1 .. n], Nat, 0, step, n)
    BY <1>1, <1>2, <1>6, <2>1, FoldRuns, Zenon
  <2> QED
    BY <2>2 DEF Reaches
<1>8. \A i \in 1 .. n : acc[i] = acc[i - 1] + w[i]
  <2>1. \A i \in 1 .. n : acc[i - 1] \in Nat
    BY <1>1
  <2> QED
    BY <1>2, <1>7, <2>1 DEF Run
<1> QED
  BY <1>1, <1>3, <1>7, <1>8 DEF n, Run

LEMMA TotalFacts ==
    ASSUME NEW w \in Seq(Nat)
    PROVE  /\ Total(w) \in Nat
           /\ w = <<>> => Total(w) = 0
           /\ \A n \in Nat : Total(Append(w, n)) = Total(w) + n
<1>1. PICK a \in [0 .. Len(w) -> Nat] :
         /\ a[0] = 0
         /\ \A i \in 1 .. Len(w) : a[i] = a[i - 1] + w[i]
         /\ a[Len(w)] = Total(w)
  BY TotalRun
<1>2. Len(w) \in Nat
  OBVIOUS
<1>3. Total(w) \in Nat /\ (w = <<>> => Total(w) = 0)
  BY <1>1, <1>2
<1>4. ASSUME NEW n \in Nat PROVE Total(Append(w, n)) = Total(w) + n
  <2> DEFINE v == Append(w, n)
  <2>1. v \in Seq(Nat) /\ Len(v) = Len(w) + 1 /\ v[Len(v)] = n
        /\ \A i \in 1 .. Len(w) : v[i] = w[i]
    OBVIOUS
  <2> HIDE DEF v
  <2>2. PICK b \in [0 .. Len(v) -> Nat] :
           /\ b[0] = 0
           /\ \A i \in 1 .. Len(v) : b[i] = b[i - 1] + v[i]
           /\ b[Len(v)] = Total(v)
    BY <2>1, TotalRun
  <2> DEFINE S == {i \in 0 .. Len(w) : a[i] = b[i]}
  <2>3. 0 \in S
    BY <1>1, <1>2, <2>2
  <2>4. ASSUME NEW i \in 1 .. Len(w), i - 1 \in S PROVE i \in S
    <3>1. a[i] = a[i - 1] + w[i] /\ b[i] = b[i - 1] + v[i] /\ v[i] = w[i] /\ a[i - 1] = b[i - 1]
      BY <1>1, <1>2, <2>1, <2>2, <2>4
    <3> QED
      BY <1>2, <3>1
  <2> HIDE DEF S
  <2>5. 0 .. Len(w) \subseteq S
    BY <1>2, <2>3, <2>4, UpToInduct
  <2>6. b[Len(w)] = Total(w)
    BY <1>1, <1>2, <2>5 DEF S
  <2>7. Len(v) \in 1 .. Len(v) /\ Len(v) - 1 = Len(w)
    BY <1>2, <2>1
  <2>8. b[Len(v)] = b[Len(w)] + n
    BY <2>1, <2>2, <2>7
  <2> QED
    BY <2>2, <2>6, <2>8 DEF v
<1> QED
  BY <1>3, <1>4

LEMMA SizeOfFacts ==
    ASSUME NEW chunks \in Seq(Chunk)
    PROVE  /\ SizeOf(chunks) \in Nat
           /\ chunks = <<>> => SizeOf(chunks) = 0
           /\ \A chunk \in Chunk : SizeOf(Append(chunks, chunk)) = SizeOf(chunks) + Size(chunk)
<1> DEFINE w == [i \in DOMAIN chunks |-> Size(chunks[i])]
<1>1. \A chunk \in Chunk : Size(chunk) \in Nat
  BY SizeTyped DEF Chunk
<1>2. w \in Seq(Nat) /\ (chunks = <<>> => w = <<>>)
  BY <1>1
<1>3. SizeOf(chunks) = Total(w)
  BY Zenon DEF SizeOf
<1>4. ASSUME NEW chunk \in Chunk
      PROVE  SizeOf(Append(chunks, chunk)) = Total(Append(w, Size(chunk)))
  <2> DEFINE t == Append(chunks, chunk)
             v == [i \in DOMAIN t |-> Size(t[i])]
  <2>1. SizeOf(t) = Total(v)
    BY Zenon DEF SizeOf
  <2>2. v = Append(w, Size(chunk))
    BY <1>1
  <2> QED
    BY <2>1, <2>2
<1> HIDE DEF w
<1> QED
  BY <1>1, <1>2, <1>3, <1>4, TotalFacts

LEMMA TotalOfFiles ==
    ASSUME NEW fs \in Seq(File), NEW file \in File
    PROVE  LET w == [i \in DOMAIN fs |-> SizeOf(fs[i].chunks)]
               t == Append(fs, file)
               v == [i \in DOMAIN t |-> SizeOf(t[i].chunks)]
           IN  /\ Total(w) \in Nat
               /\ fs = <<>> => Total(w) = 0
               /\ Total(v) = Total(w) + SizeOf(file.chunks)
<1> DEFINE w == [i \in DOMAIN fs |-> SizeOf(fs[i].chunks)]
           t == Append(fs, file)
           v == [i \in DOMAIN t |-> SizeOf(t[i].chunks)]
<1>1. \A f \in File : SizeOf(f.chunks) \in Nat
  BY SizeOfFacts DEF File
<1>2. w \in Seq(Nat) /\ (fs = <<>> => w = <<>>)
  BY <1>1
<1>3. v = Append(w, SizeOf(file.chunks))
  BY <1>1
<1> HIDE DEF w, t, v
<1>4. /\ Total(w) \in Nat
      /\ fs = <<>> => Total(w) = 0
      /\ Total(v) = Total(w) + SizeOf(file.chunks)
  BY <1>1, <1>2, <1>3, TotalFacts
<1> QED
  BY <1>4 DEF w, t, v


-----------------------------------------------------------------------------
(* What the loop over the chunks keeps *)

\* Every chunk so far, cut, and none more; or the loop is over, and a chunk is
\* missing.
LEMMA KeptChunksFacts ==
    ASSUME NEW file \in File, NEW limits \in Limits, NEW room \in Nat
    PROVE  LET kept == KeptChunks(file, limits, room)
           IN  /\ kept \in ChunkAcc
               /\ kept.size <= room
               /\ kept.size = SizeOf(kept.chunks)
               /\ kept.over => Len(kept.chunks) < Len(file.chunks)
               /\ ~kept.over =>
                     /\ Len(kept.chunks) = Len(file.chunks)
                     /\ \A j \in 1 .. Len(file.chunks) :
                           kept.chunks[j] = CutChunk(file.chunks[j], limits.lines)
<1> DEFINE n == Len(file.chunks)
           cut(j) == CutChunk(file.chunks[j], limits.lines)
           Holds(a, i) ==
              /\ a.size <= room
              /\ a.size = SizeOf(a.chunks)
              /\ a.over => Len(a.chunks) < i
              /\ ~a.over => /\ Len(a.chunks) = i
                            /\ \A j \in 1 .. i : a.chunks[j] = cut(j)
<1>1. /\ n \in Nat /\ limits.lines \in Nat
      /\ \A i \in 1 .. n : file.chunks[i] \in Chunk
  BY DEF File, Limits
<1>2. PICK acc \in [0 .. n -> ChunkAcc] :
         /\ acc[0] = NoChunks
         /\ \A i \in 1 .. n : acc[i] = KeepChunk(acc[i - 1], file.chunks[i], limits, room)
         /\ acc[n] = KeptChunks(file, limits, room)
  BY ChunksRun
<1> HIDE DEF n
<1>3. Holds(NoChunks, 0)
  <2>1. NoChunks.chunks \in Seq(Chunk)
    BY NoChunksTyped DEF ChunkAcc
  <2>2. SizeOf(NoChunks.chunks) = 0
    BY <2>1, NoChunksTyped, SizeOfFacts
  <2> QED
    BY <2>2, NoChunksTyped
<1>4. ASSUME NEW i \in 1 .. n, Holds(acc[i - 1], i - 1)
      PROVE  Holds(acc[i], i)
  <2> DEFINE a == acc[i - 1]
             b == acc[i]
  <2>1. a \in ChunkAcc /\ b = KeepChunk(a, file.chunks[i], limits, room) /\ file.chunks[i] \in Chunk
    BY <1>1, <1>2
  <2>2. a.chunks \in Seq(Chunk) /\ cut(i) \in Chunk
    BY <1>1, <2>1, CutChunkFacts DEF ChunkAcc
  <2>3. \/ b.over /\ b.chunks = a.chunks /\ b.size = a.size
        \/ /\ ~a.over /\ ~b.over
           /\ a.size + Size(cut(i)) <= room
           /\ b.chunks = Append(a.chunks, cut(i))
           /\ b.size = a.size + Size(cut(i))
    BY <2>1, KeepChunkFacts, SMTT(20)
  <2> HIDE DEF a, b
  <2>4. Holds(a, i - 1)
    BY <1>4 DEF a
  <2>5. CASE b.over /\ b.chunks = a.chunks /\ b.size = a.size
    <3>1. Len(a.chunks) \in Nat /\ Len(a.chunks) <= i - 1
      BY <1>1, <2>2, <2>4
    <3> QED
      BY <1>1, <2>4, <2>5, <3>1 DEF b
  <2>6. CASE /\ ~a.over /\ ~b.over
             /\ a.size + Size(cut(i)) <= room
             /\ b.chunks = Append(a.chunks, cut(i))
             /\ b.size = a.size + Size(cut(i))
    <3>1. Len(a.chunks) = i - 1 /\ \A j \in 1 .. i - 1 : a.chunks[j] = cut(j)
      BY <2>4, <2>6
    <3>2. SizeOf(b.chunks) = SizeOf(a.chunks) + Size(cut(i))
      BY <2>2, <2>6, SizeOfFacts
    <3> HIDE DEF cut
    <3>3. Len(b.chunks) = i /\ b.chunks[i] = cut(i) /\ \A j \in 1 .. i - 1 : b.chunks[j] = a.chunks[j]
      BY <1>1, <2>2, <2>6, <3>1
    <3>4. \A j \in 1 .. i : b.chunks[j] = cut(j)
      BY <1>1, <3>1, <3>3
    <3> QED
      BY <2>4, <2>6, <3>2, <3>3, <3>4 DEF b
  <2> QED
    BY <2>3, <2>5, <2>6
<1> DEFINE S == {i \in 0 .. n : Holds(acc[i], i)}
<1> HIDE DEF Holds
<1>5. 0 \in S
  BY <1>1, <1>2, <1>3
<1>6. ASSUME NEW i \in 1 .. n, i - 1 \in S PROVE i \in S
  BY <1>1, <1>4, <1>6
<1> HIDE DEF S
<1>7. 0 .. n \subseteq S
  BY <1>1, <1>5, <1>6, UpToInduct
<1>8. Holds(acc[n], n) /\ acc[n] \in ChunkAcc
  BY <1>1, <1>2, <1>7 DEF S
<1> QED
  BY <1>2, <1>8 DEF Holds, n

-----------------------------------------------------------------------------
(* The loop over the files *)

FileAcc == [files : Seq(File), total : Nat, told : BOOLEAN, full : BOOLEAN]

\* Every chunk of a file holds lines of the file.
Fits(chunk, file) ==
    Len(chunk.added) <= Len(file.added) /\ Len(chunk.removed) <= Len(file.removed)

ChunksFit(file) == \A i \in DOMAIN file.chunks : Fits(file.chunks[i], file)

LEMMA NoFilesTyped ==
    /\ NoFiles \in FileAcc
    /\ NoFiles.files = <<>> /\ NoFiles.total = 0 /\ ~NoFiles.told /\ ~NoFiles.full
BY DEF NoFiles, FileAcc

LEMMA CutBounds ==
    ASSUME NEW S, NEW s \in Seq(S), NEW n \in Nat
    PROVE  /\ Cut(s, n) \in Seq(S) /\ Len(Cut(s, n)) \in Nat
           /\ Len(Cut(s, n)) <= n /\ Len(Cut(s, n)) <= Len(s)
           /\ Len(Cut(s, n)) = Len(s) => Len(s) <= n /\ Cut(s, n) = s
<1>1. Len(s) \in Nat
  OBVIOUS
<1> QED
  BY <1>1, CutFacts

LEMMA SameSeq ==
    ASSUME NEW S, NEW s \in Seq(S), NEW t \in Seq(S), Len(s) = Len(t),
           \A i \in 1 .. Len(t) : s[i] = t[i]
    PROVE  s = t
OBVIOUS

LEMMA SumsAgree ==
    ASSUME NEW a \in Nat, NEW b \in Nat, NEW c \in Nat, NEW d \in Nat,
           a <= c, b <= d, ~(a + b < c + d)
    PROVE  a = c /\ b = d
OBVIOUS

\* What is kept of a file.
Short(acc, file, limits) ==
    [file EXCEPT !.added = Cut(@, limits.lines), !.removed = Cut(@, limits.lines),
                 !.chunks = KeptChunks(file, limits, limits.total - acc.total).chunks]

IsCutOf(short, file, lines) ==
    /\ short.name = file.name /\ short.of = file.of
    /\ short.added = Cut(file.added, lines) /\ short.removed = Cut(file.removed, lines)

\* A file that is kept is within the limits, and told to be cut exactly if it
\* is.
OneMore(acc, next, short, file, limits) ==
    /\ ~acc.full
    /\ short \in File
    /\ Len(short.added) <= limits.lines /\ Len(short.removed) <= limits.lines
    /\ IsCutOf(short, file, limits.lines)
    /\ next.files = Append(acc.files, short)
    /\ next.total = acc.total + SizeOf(short.chunks)
    /\ next.told <=> acc.told \/ short # file
    /\ next.full => next.total = limits.total

LEMMA KeepFileFacts ==
    ASSUME NEW limits \in Limits, NEW acc \in FileAcc, acc.total <= limits.total,
           NEW file \in File, ChunksFit(file)
    PROVE  LET next == KeepFile(acc, file, limits)
           IN  /\ next \in FileAcc
               /\ next.total <= limits.total
               /\ (acc.full /\ next = acc) \/ OneMore(acc, next, Short(acc, file, limits), file, limits)
<1> DEFINE next == KeepFile(acc, file, limits)
           short == Short(acc, file, limits)
           room == limits.total - acc.total
           kept == KeptChunks(file, limits, room)
<1>1. /\ acc.files \in Seq(File) /\ acc.total \in Nat /\ acc.told \in BOOLEAN /\ acc.full \in BOOLEAN
      /\ limits.lines \in Nat /\ limits.total \in Nat
  BY DEF FileAcc, Limits
<1>2. /\ file.name \in Names \cup {NoName} /\ file.of \in Nat /\ file.added \in Seq(Detail) /\ file.removed \in Seq(Detail)
      /\ file.chunks \in Seq(Chunk)
      /\ file = [name |-> file.name, of |-> file.of, added |-> file.added, removed |-> file.removed, chunks |-> file.chunks]
  BY DEF File
<1>3. room \in Nat
  BY <1>1
<1>4. /\ kept \in ChunkAcc /\ kept.size <= room /\ kept.size = SizeOf(kept.chunks)
      /\ kept.over => Len(kept.chunks) < Len(file.chunks)
      /\ ~kept.over => /\ Len(kept.chunks) = Len(file.chunks)
                       /\ \A j \in 1 .. Len(file.chunks) :
                             kept.chunks[j] = CutChunk(file.chunks[j], limits.lines)
  BY <1>3, KeptChunksFacts
<1>5. kept.chunks \in Seq(Chunk) /\ kept.size \in Nat /\ kept.over \in BOOLEAN
  BY <1>4 DEF ChunkAcc
<1> DEFINE added == Cut(file.added, limits.lines)
           removed == Cut(file.removed, limits.lines)
<1>6. /\ added \in Seq(Detail) /\ Len(added) \in Nat
      /\ Len(added) <= limits.lines /\ Len(added) <= Len(file.added)
      /\ Len(added) = Len(file.added) => Len(file.added) <= limits.lines /\ added = file.added
      /\ removed \in Seq(Detail) /\ Len(removed) \in Nat
      /\ Len(removed) <= limits.lines /\ Len(removed) <= Len(file.removed)
      /\ Len(removed) = Len(file.removed) => Len(file.removed) <= limits.lines /\ removed = file.removed
  BY <1>1, <1>2, CutBounds
<1>7. short = [name |-> file.name, of |-> file.of, added |-> added, removed |-> removed, chunks |-> kept.chunks]
  <2>1. short = [file EXCEPT !.added = added, !.removed = removed, !.chunks = kept.chunks]
    BY Zenon DEF Short
  <2> HIDE DEF added, removed, kept, short
  <2> QED
    BY <1>2, <2>1
<1> HIDE DEF added, removed
<1>8. short \in File
  BY <1>2, <1>5, <1>6, <1>7 DEF File
<1> HIDE DEF kept, room, short
<1>9. short.added = added /\ short.removed = removed
      /\ short.chunks = kept.chunks /\ short.name = file.name /\ short.of = file.of
  BY <1>7
<1>10. /\ Size(short) \in Nat /\ Size(short) = Len(short.added) + Len(short.removed)
       /\ Size(file) \in Nat /\ Size(file) = Len(file.added) + Len(file.removed)
  BY <1>2, <1>6, <1>9, SizeTyped
<1>11. ASSUME kept.over \/ Size(short) < Size(file)
       PROVE  short # file
  <2>1. CASE kept.over
    BY <1>2, <1>4, <1>5, <1>9, <2>1
  <2>2. CASE Size(short) < Size(file)
    <3>1. \A n \in Nat : ~(n < n)
      OBVIOUS
    <3> QED
      BY <1>10, <2>2, <3>1, Zenon
  <2> QED
    BY <1>11, <2>1, <2>2
<1>12. ASSUME ~(kept.over \/ Size(short) < Size(file))
       PROVE  short = file
  <2>1. Len(short.added) \in Nat /\ Len(short.removed) \in Nat
        /\ Len(file.added) \in Nat /\ Len(file.removed) \in Nat
    BY <1>2, <1>6, <1>9
  <2>2. Len(short.added) = Len(file.added) /\ Len(short.removed) = Len(file.removed)
    <3>1. ~(Len(short.added) + Len(short.removed) < Len(file.added) + Len(file.removed))
      BY <1>10, <1>12, Zenon
    <3>2. Len(short.added) <= Len(file.added) /\ Len(short.removed) <= Len(file.removed)
      BY <1>6, <1>9, Zenon
    <3> QED
      BY <2>1, <3>1, <3>2, SumsAgree, Zenon
  <2>3. /\ short.added = file.added /\ short.removed = file.removed
        /\ Len(file.added) <= limits.lines /\ Len(file.removed) <= limits.lines
    BY <1>6, <1>9, <2>2
  <2>4. ASSUME NEW j \in 1 .. Len(file.chunks)
        PROVE  kept.chunks[j] = file.chunks[j]
    <3>1. file.chunks[j] \in Chunk /\ Fits(file.chunks[j], file)
      BY <1>2 DEF ChunksFit
    <3>2. Len(file.chunks[j].added) \in Nat /\ Len(file.chunks[j].removed) \in Nat
      BY <3>1 DEF Chunk
    <3>3. Len(file.chunks[j].added) <= limits.lines /\ Len(file.chunks[j].removed) <= limits.lines
      BY <1>1, <2>1, <2>3, <3>1, <3>2, SMTT(20) DEF Fits
    <3>4. CutChunk(file.chunks[j], limits.lines) = file.chunks[j]
      BY <1>1, <3>1, <3>3, CutChunkFacts
    <3> QED
      BY <1>4, <1>12, <3>4
  <2>5. kept.chunks = file.chunks
    BY <1>2, <1>4, <1>5, <1>12, <2>4, SameSeq
  <2> QED
    BY <1>2, <1>7, <2>3, <2>5
<1>13. /\ acc.total + kept.size \in Nat
       /\ acc.total + kept.size <= limits.total
       /\ acc.total + kept.size >= limits.total => acc.total + kept.size = limits.total
  BY <1>1, <1>4, <1>5, SMTT(20) DEF room
<1>14. CASE acc.full
  <2>1. next = acc
    BY <1>14, Zenon DEF KeepFile
  <2> QED
    BY <1>14, <2>1 DEF short
<1>15. CASE ~acc.full
  <2> DEFINE told == acc.told \/ kept.over \/ Size(short) < Size(file)
             full == acc.total + kept.size >= limits.total
  <2>1. next = [files |-> Append(acc.files, short), total |-> acc.total + kept.size,
                told |-> told, full |-> full]
    BY <1>15, Zenon DEF KeepFile, Short, short, kept, room, added, removed
  <2>2. told \in BOOLEAN /\ full \in BOOLEAN /\ (told <=> acc.told \/ short # file)
    BY <1>11, <1>12
  <2>3. Append(acc.files, short) \in Seq(File)
    BY <1>1, <1>8
  <2>4. full => acc.total + kept.size = limits.total
    BY <1>13
  <2> HIDE DEF told, full, next
  <2>5. /\ next.files = Append(acc.files, short) /\ next.total = acc.total + kept.size
        /\ next.told = told /\ next.full = full
    BY <2>1
  <2>6. next \in FileAcc
    BY <1>13, <2>1, <2>2, <2>3 DEF FileAcc
  <2>7. next.total = acc.total + SizeOf(short.chunks) /\ next.total <= limits.total
    BY <1>4, <1>9, <1>13, <2>5
  <2>8. Len(short.added) <= limits.lines /\ Len(short.removed) <= limits.lines
    BY <1>6, <1>9
  <2> QED
    BY <1>8, <1>9, <1>15, <2>2, <2>4, <2>5, <2>6, <2>7, <2>8 DEF short, next, added, removed, OneMore, IsCutOf
<1> QED
  BY <1>14, <1>15

\* The values of the accumulator.
FilesSoFar(limits) == {acc \in FileAcc : acc.total <= limits.total}

LEMMA FilesRun ==
    ASSUME NEW limits \in Limits, NEW parsed \in Seq(File),
           \A i \in DOMAIN parsed : ChunksFit(parsed[i])
    PROVE  LET fs == Cut(parsed, limits.files)
           IN  \E acc \in [0 .. Len(fs) -> FilesSoFar(limits)] :
                  /\ acc[0] = NoFiles
                  /\ \A i \in 1 .. Len(fs) : acc[i] = KeepFile(acc[i - 1], fs[i], limits)
                  /\ acc[Len(fs)] = KeptFiles(parsed, limits)
<1> DEFINE fs == Cut(parsed, limits.files)
           n == Len(fs)
           A == FilesSoFar(limits)
           step == [x \in A \X (1 .. n) |-> KeepFile(x[1], fs[x[2]], limits)]
           eqn(h) == h = [s \in SUBSET DOMAIN fs |->
                             IF s = {} THEN NoFiles
                             ELSE KeepFile(h[s \ {Max(s)}], fs[Max(s)], limits)]
           g == CHOOSE h : eqn(h)
<1>1. /\ n \in Nat /\ DOMAIN fs = 1 .. n
      /\ \A i \in 1 .. n : fs[i] \in File /\ ChunksFit(fs[i])
  <2>1. limits.files \in Nat
    BY DEF Limits
  <2>2. /\ fs \in Seq(File) /\ Len(fs) <= Len(parsed)
        /\ \A i \in 1 .. Len(fs) : fs[i] = parsed[i]
    BY <2>1, CutFacts, CutBounds
  <2> HIDE DEF fs
  <2> QED
    BY <2>2
<1>2. /\ step \in [A \X (1 .. n) -> A]
      /\ \A a \in A, i \in 1 .. n : step[<<a, i>>] = KeepFile(a, fs[i], limits)
  <2>1. \A a \in A, i \in 1 .. n : KeepFile(a, fs[i], limits) \in A
    BY <1>1, KeepFileFacts DEF FilesSoFar
  <2> HIDE DEF A, n, fs
  <2> QED
    BY <2>1
<1>3. NoFiles \in A
  BY NoFilesTyped DEF FilesSoFar, Limits
<1>4. g[DOMAIN fs] = KeptFiles(parsed, limits)
  BY Zenon DEF KeptFiles, FoldLeft, MapThenFoldSet
<1> HIDE DEF n, step, A, fs
<1>5. \E h : eqn(h)
  <2>1. PICK h \in [SUBSET (1 .. n) -> A] : Folded(h, NoFiles, step, n)
    BY <1>1, <1>2, <1>3, FoldExists
  <2>2. ASSUME NEW s \in SUBSET (1 .. n), s # {}
        PROVE  step[<<h[s \ {Max(s)}], Max(s)>>] = KeepFile(h[s \ {Max(s)}], fs[Max(s)], limits)
    <3>1. Max(s) \in 1 .. n
      BY <1>1, <2>2, LargestOf
    <3>2. h[s \ {Max(s)}] \in A
      BY <2>1
    <3> QED
      BY <1>2, <3>1, <3>2
  <2>3. eqn(h)
    BY <1>1, <2>1, <2>2 DEF Folded
  <2> HIDE DEF eqn
  <2> QED
    BY <2>3
<1>6. eqn(g)
  <2> HIDE DEF eqn
  <2> QED
    BY <1>5
<1> HIDE DEF g
<1>7. Follows(g, A, NoFiles, step, n)
  <2>1. ASSUME NEW s \in SUBSET (1 .. n), s # {}, g[s \ {Max(s)}] \in A
        PROVE  g[s] = step[<<g[s \ {Max(s)}], Max(s)>>]
    <3>1. Max(s) \in 1 .. n
      BY <1>1, <2>1, LargestOf
    <3>2. g[s] = KeepFile(g[s \ {Max(s)}], fs[Max(s)], limits)
      BY <1>1, <1>6, <2>1
    <3> QED
      BY <1>2, <2>1, <3>1, <3>2
  <2> QED
    BY <1>6, <2>1 DEF Follows
<1> HIDE DEF eqn
<1>8. PICK acc \in [0 .. n -> A] : Run(acc, NoFiles, step, n) /\ acc[n] = g[1 .. n]
  <2>1. Reaches(g[1 .. n], A, NoFiles, step, n)
    BY <1>1, <1>2, <1>3, <1>7, FoldRuns, Zenon
  <2> QED
    BY <2>1 DEF Reaches
<1>9. \A i \in 1 .. n : acc[i] = KeepFile(acc[i - 1], fs[i], limits)
  <2>1. \A i \in 1 .. n : acc[i - 1] \in A
    BY <1>1
  <2> QED
    BY <1>2, <1>8, <2>1 DEF Run
<1>10. acc[n] = KeptFiles(parsed, limits)
  BY <1>1, <1>4, <1>8
<1>11. acc[0] = NoFiles
  BY <1>8 DEF Run
<1> QED
  BY <1>8, <1>9, <1>10, <1>11 DEF n, A, fs

-----------------------------------------------------------------------------
(* What the loop over the files keeps *)

\* Every file so far, or all up to the one that filled the total.
LEMMA KeptFilesFacts ==
    ASSUME NEW limits \in Limits, NEW parsed \in Seq(File),
           \A i \in DOMAIN parsed : ChunksFit(parsed[i])
    PROVE  LET kept == KeptFiles(parsed, limits)
           IN  /\ kept \in FileAcc
               /\ kept.total <= limits.total
               /\ kept.total = Total([j \in DOMAIN kept.files |-> SizeOf(kept.files[j].chunks)])
               /\ Len(kept.files) <= limits.files /\ Len(kept.files) <= Len(parsed)
               /\ \A j \in DOMAIN kept.files :
                     /\ Len(kept.files[j].added) <= limits.lines
                     /\ Len(kept.files[j].removed) <= limits.lines
               /\ \A j \in 1 .. Len(kept.files) : IsCutOf(kept.files[j], parsed[j], limits.lines)
               /\ kept.told <=> \E j \in 1 .. Len(kept.files) : kept.files[j] # parsed[j]
               /\ Len(parsed) <= limits.files /\ Len(kept.files) # Len(parsed)
                     => kept.total = limits.total
<1> DEFINE fs == Cut(parsed, limits.files)
           n == Len(fs)
           Held(a) == [j \in DOMAIN a.files |-> SizeOf(a.files[j].chunks)]
           Within(a) == \A j \in 1 .. Len(a.files) : /\ Len(a.files[j].added) <= limits.lines
                                                     /\ Len(a.files[j].removed) <= limits.lines
           Starts(a) == \A j \in 1 .. Len(a.files) : IsCutOf(a.files[j], fs[j], limits.lines)
           Differs(a) == \E j \in 1 .. Len(a.files) : a.files[j] # fs[j]
           Holds(a, i) ==
              /\ a.total = Total(Held(a))
              /\ Within(a)
              /\ Starts(a)
              /\ a.told <=> Differs(a)
              /\ Len(a.files) <= i
              /\ a.full => a.total = limits.total
              /\ ~a.full => Len(a.files) = i
<1>1. /\ n \in Nat /\ n <= Len(parsed) /\ n <= limits.files
      /\ Len(parsed) <= limits.files => n = Len(parsed)
      /\ \A i \in 1 .. n : fs[i] = parsed[i] /\ fs[i] \in File /\ ChunksFit(fs[i])
  <2>1. limits.files \in Nat
    BY DEF Limits
  <2>2. /\ fs \in Seq(File) /\ Len(fs) <= Len(parsed) /\ Len(fs) <= limits.files
        /\ Len(parsed) <= limits.files => fs = parsed
        /\ \A i \in 1 .. Len(fs) : fs[i] = parsed[i]
    BY <2>1, CutFacts, CutBounds
  <2> HIDE DEF fs
  <2> QED
    BY <2>2
<1>2. PICK acc \in [0 .. n -> FilesSoFar(limits)] :
         /\ acc[0] = NoFiles
         /\ \A i \in 1 .. n : acc[i] = KeepFile(acc[i - 1], fs[i], limits)
         /\ acc[n] = KeptFiles(parsed, limits)
  BY FilesRun
<1> HIDE DEF n, fs
<1>3. Holds(NoFiles, 0)
  <2>1. Held(NoFiles) = <<>> /\ NoFiles.files = <<>>
    BY NoFilesTyped
  <2>2. Total(<<>>) = 0
    <3>1. <<>> \in Seq(Nat)
      OBVIOUS
    <3> QED
      BY <3>1, TotalFacts
  <2> HIDE DEF Held
  <2>3. NoFiles.total = Total(Held(NoFiles)) /\ Len(NoFiles.files) = 0
    BY <2>1, <2>2, NoFilesTyped
  <2> QED
    BY <2>1, <2>3, NoFilesTyped
<1>4. ASSUME NEW i \in 1 .. n, Holds(acc[i - 1], i - 1)
      PROVE  Holds(acc[i], i)
  <2> DEFINE a == acc[i - 1]
             b == acc[i]
             short == Short(a, fs[i], limits)
  <2>1. a \in FileAcc /\ a.total <= limits.total /\ b = KeepFile(a, fs[i], limits)
    BY <1>1, <1>2 DEF FilesSoFar
  <2>2. a.files \in Seq(File) /\ Len(a.files) \in Nat
    BY <2>1 DEF FileAcc
  <2>3. (a.full /\ b = a) \/ OneMore(a, b, short, fs[i], limits)
    <3>1. fs[i] \in File /\ ChunksFit(fs[i])
      BY <1>1
    <3> HIDE DEF a, b
    <3>2. \/ a.full /\ KeepFile(a, fs[i], limits) = a
          \/ OneMore(a, KeepFile(a, fs[i], limits), short, fs[i], limits)
      BY <2>1, <3>1, KeepFileFacts, Zenon
    <3> QED
      BY <2>1, <3>2, Zenon
  <2> HIDE DEF a, b, short
  <2>4. Holds(a, i - 1)
    BY <1>4 DEF a
  <2>5. CASE a.full /\ b = a
    <3>1. Len(a.files) <= i
      BY <1>1, <2>2, <2>4
    <3> HIDE DEF Within, Starts, Differs, Held
    <3> QED
      BY <2>4, <2>5, <3>1 DEF b
  <2>6. CASE OneMore(a, b, short, fs[i], limits)
    <3>0. /\ ~a.full
          /\ short \in File
          /\ Len(short.added) <= limits.lines /\ Len(short.removed) <= limits.lines
          /\ IsCutOf(short, fs[i], limits.lines)
          /\ b.files = Append(a.files, short)
          /\ b.total = a.total + SizeOf(short.chunks)
          /\ b.told <=> a.told \/ short # fs[i]
          /\ b.full => b.total = limits.total
      BY <2>6, Zenon DEF OneMore
    <3>1. Len(a.files) = i - 1
      BY <2>4, <3>0
    <3>2. /\ Len(b.files) = i /\ b.files[i] = short
          /\ \A j \in 1 .. i - 1 : b.files[j] = a.files[j]
      BY <1>1, <2>2, <3>0, <3>1
    <3>3. Within(b)
      BY <1>1, <2>4, <3>0, <3>1, <3>2
    <3>4. Differs(b) <=> Differs(a) \/ short # fs[i]
      <4>1. i \in 1 .. i /\ \A j : j \in 1 .. i <=> j = i \/ j \in 1 .. i - 1
        BY <1>1
      <4>2. Differs(b) <=> \E j \in 1 .. i : b.files[j] # fs[j]
        BY <3>2, Zenon
      <4>3. Differs(a) <=> \E j \in 1 .. i - 1 : a.files[j] # fs[j]
        BY <3>1, Zenon
      <4> HIDE DEF Differs
      <4> QED
        BY <3>2, <4>1, <4>2, <4>3, Zenon
    <3>5. b.total = Total(Held(b))
      <4>1. Held(b) = [j \in DOMAIN Append(a.files, short) |-> SizeOf(Append(a.files, short)[j].chunks)]
        BY <3>0
      <4>2. Total(Held(b)) = Total(Held(a)) + SizeOf(short.chunks)
        BY <2>2, <3>0, <4>1, TotalOfFiles
      <4> HIDE DEF Held
      <4> QED
        BY <2>4, <3>0, <4>2
    <3>6. Len(b.files) <= i
      BY <1>1, <3>2
    <3> HIDE DEF Within, Starts, Differs, Held
    <3>7. b.told <=> Differs(b)
      BY <2>4, <3>0, <3>4
    <3>8. Starts(b)
      BY <1>1, <2>4, <3>0, <3>1, <3>2 DEF Starts
    <3> QED
      BY <3>0, <3>2, <3>3, <3>5, <3>6, <3>7, <3>8 DEF b
  <2> QED
    BY <2>3, <2>5, <2>6
<1> DEFINE S == {i \in 0 .. n : Holds(acc[i], i)}
<1> HIDE DEF Holds
<1>5. 0 \in S
  BY <1>1, <1>2, <1>3
<1>6. ASSUME NEW i \in 1 .. n, i - 1 \in S PROVE i \in S
  BY <1>1, <1>4, <1>6
<1> HIDE DEF S
<1>7. 0 .. n \subseteq S
  BY <1>1, <1>5, <1>6, UpToInduct
<1> DEFINE kept == KeptFiles(parsed, limits)
<1>8. Holds(kept, n) /\ kept \in FileAcc /\ kept.total <= limits.total
  BY <1>1, <1>2, <1>7 DEF S, FilesSoFar
<1> HIDE DEF kept
<1>9. kept.files \in Seq(File) /\ Len(kept.files) \in Nat /\ DOMAIN kept.files = 1 .. Len(kept.files)
  BY <1>8 DEF FileAcc
<1>10. limits.files \in Nat /\ Len(parsed) \in Nat
  BY DEF Limits
<1>11. Len(kept.files) <= limits.files /\ Len(kept.files) <= Len(parsed)
  <2>1. Len(kept.files) <= n
    BY <1>8 DEF Holds
  <2> QED
    BY <1>1, <1>9, <1>10, <2>1
<1>12. kept.told <=> \E j \in 1 .. Len(kept.files) : kept.files[j] # parsed[j]
  <2>1. Len(kept.files) <= n
    BY <1>8 DEF Holds
  <2>2. \A j \in 1 .. Len(kept.files) : fs[j] = parsed[j]
    BY <1>1, <1>9, <2>1
  <2> QED
    BY <1>8, <2>2 DEF Holds
<1>13. ASSUME Len(parsed) <= limits.files, Len(kept.files) # Len(parsed)
       PROVE  kept.total = limits.total
  BY <1>1, <1>8, <1>13 DEF Holds
<1>15. \A j \in 1 .. Len(kept.files) : IsCutOf(kept.files[j], parsed[j], limits.lines)
  <2>1. Len(kept.files) <= n
    BY <1>8 DEF Holds
  <2>2. \A j \in 1 .. Len(kept.files) : fs[j] = parsed[j]
    BY <1>1, <1>9, <2>1
  <2>3. Starts(kept)
    BY <1>8 DEF Holds
  <2> QED
    BY <2>2, <2>3
<1>14. Within(kept) /\ kept.total = Total(Held(kept))
  BY <1>8 DEF Holds
<1> QED
  BY <1>8, <1>9, <1>11, <1>12, <1>13, <1>14, <1>15 DEF kept

-----------------------------------------------------------------------------
(* parse_diff *)

Parser == [file : File, chunk : Chunk, inChunk : BOOLEAN, old : Nat \cup {None}, new : Nat \cup {None},
           position : Nat, deleted : BOOLEAN]

\* The chunks of the file the parser is in hold lines of the file; a chunk that
\* is not open holds none.
ParserFits(c) == Fits(c.chunk, c.file) /\ ChunksFit(c.file) /\ (~c.inChunk => c.chunk = EmptyChunk)

LEMMA EmptyChunkFacts == EmptyChunk \in Chunk /\ EmptyChunk.added = <<>> /\ EmptyChunk.removed = <<>>
BY DEF EmptyChunk, Chunk

LEMMA NewFileFacts ==
    ASSUME NEW name \in Names \cup {NoName}, NEW of \in Nat
    PROVE  LET file == NewFile(name, of)
           IN  /\ file \in File /\ ChunksFit(file)
               /\ file.name = name /\ file.of = of /\ file.chunks = <<>>
               /\ file["added"] = <<>> /\ file["removed"] = <<>>
<1> DEFINE file == NewFile(name, of)
<1>1. <<>> \in Seq(Detail) /\ <<>> \in Seq(Chunk)
  OBVIOUS
<1>2. /\ file \in File /\ file.name = name /\ file.of = of /\ file.chunks = <<>>
      /\ file["added"] = <<>> /\ file["removed"] = <<>>
  BY <1>1 DEF File, NewFile
<1>3. DOMAIN <<>> = {}
  OBVIOUS
<1> HIDE DEF file
<1>4. ChunksFit(file)
  BY <1>2, <1>3 DEF ChunksFit
<1> QED
  BY <1>2, <1>4 DEF file

LEMMA StartFacts ==
    ASSUME NEW file \in File, ChunksFit(file), NEW deleted \in BOOLEAN
    PROVE  LET c == Start(file, deleted)
           IN  /\ c \in Parser /\ ParserFits(c)
               /\ c.file = file /\ ~c.inChunk /\ c.position = 0 /\ WithChunk(c) = file
<1> DEFINE c == Start(file, deleted)
<1>1. None \in Nat \cup {None} /\ 0 \in Nat
  OBVIOUS
<1>2. /\ c \in Parser
      /\ c.file = file /\ ~c.inChunk /\ c.position = 0 /\ c.chunk = EmptyChunk
  BY <1>1, EmptyChunkFacts DEF Start, Parser
<1>3. Fits(EmptyChunk, file)
  BY EmptyChunkFacts DEF Fits, File
<1> HIDE DEF c
<1>4. ParserFits(c) /\ WithChunk(c) = file
  BY <1>2, <1>3 DEF ParserFits, WithChunk
<1> QED
  BY <1>2, <1>4 DEF c

LEMMA WithChunkFacts ==
    ASSUME NEW c \in Parser, ParserFits(c)
    PROVE  /\ WithChunk(c) \in File /\ ChunksFit(WithChunk(c))
           /\ WithChunk(c).name = c.file.name /\ WithChunk(c).of = c.file.of
           /\ \A change \in Changes : WithChunk(c)[change] = c.file[change]
           /\ WithChunk(c).chunks = IF c.inChunk THEN Append(c.file.chunks, c.chunk) ELSE c.file.chunks
<1>1. /\ c.file \in File /\ c.chunk \in Chunk /\ Fits(c.chunk, c.file) /\ ChunksFit(c.file)
      /\ c.file.chunks \in Seq(Chunk)
  BY DEF Parser, ParserFits, File
<1>2. CASE ~c.inChunk
  BY <1>1, <1>2 DEF WithChunk
<1>3. CASE c.inChunk
  <2> DEFINE more == Append(c.file.chunks, c.chunk)
  <2>1. WithChunk(c) = [c.file EXCEPT !.chunks = more]
    BY <1>3 DEF WithChunk
  <2>2. more \in Seq(Chunk) /\ \A i \in DOMAIN more : \/ i \in DOMAIN c.file.chunks /\ more[i] = c.file.chunks[i]
                                                     \/ more[i] = c.chunk
    BY <1>1
  <2> HIDE DEF more
  <2>3. /\ WithChunk(c) \in File /\ WithChunk(c).chunks = more
        /\ WithChunk(c).name = c.file.name /\ WithChunk(c).of = c.file.of
        /\ WithChunk(c)["added"] = c.file["added"] /\ WithChunk(c)["removed"] = c.file["removed"]
    BY <1>1, <2>1, <2>2 DEF File
  <2>4. \A i \in DOMAIN more : Fits(more[i], c.file)
    BY <1>1, <2>2 DEF ChunksFit
  <2>5. ChunksFit(WithChunk(c))
    BY <2>3, <2>4 DEF ChunksFit, Fits
  <2> QED
    BY <1>3, <2>3, <2>5 DEF Changes, more
<1> QED
  BY <1>2, <1>3

LEMMA FlushedFacts ==
    ASSUME files \in Seq(File), \A i \in DOMAIN files : ChunksFit(files[i]),
           NEW c \in Parser, ParserFits(c)
    PROVE  Flushed(c) \in Seq(File) /\ \A i \in DOMAIN Flushed(c) : ChunksFit(Flushed(c)[i])
<1>1. WithChunk(c) \in File /\ ChunksFit(WithChunk(c))
  BY WithChunkFacts
<1> DEFINE more == Append(files, WithChunk(c))
<1>2. more \in Seq(File) /\ \A i \in DOMAIN more : \/ i \in DOMAIN files /\ more[i] = files[i]
                                                  \/ more[i] = WithChunk(c)
  BY <1>1
<1>3. Flushed(c) = more \/ Flushed(c) = files
  BY Zenon DEF Flushed
<1> QED
  BY <1>1, <1>2, <1>3

LEMMA OpenChunkFacts ==
    ASSUME NEW c \in Parser, ParserFits(c), NEW old \in Nat \cup {None}, NEW new \in Nat \cup {None}
    PROVE  LET r == OpenChunk(c, old, new)
           IN  /\ r \in Parser /\ ParserFits(r)
               /\ r.file = WithChunk(c) /\ r.chunk = EmptyChunk /\ r.inChunk
               /\ r.old = old /\ r.new = new /\ r.position = c.position
<1> DEFINE r == OpenChunk(c, old, new)
           file == WithChunk(c)
<1>1. file \in File /\ ChunksFit(file)
  BY WithChunkFacts
<1>2. Fits(EmptyChunk, file)
  BY <1>1, EmptyChunkFacts DEF Fits, File
<1>6. r = [c EXCEPT !.file = file, !.chunk = EmptyChunk, !.inChunk = TRUE, !.old = old, !.new = new]
  BY DEF OpenChunk
<1> HIDE DEF file, r
<1>7. c = [file |-> c.file, chunk |-> c.chunk, inChunk |-> c.inChunk, old |-> c.old, new |-> c.new,
           position |-> c.position, deleted |-> c.deleted]
  BY DEF Parser
<1>3. r = [file |-> file, chunk |-> EmptyChunk, inChunk |-> TRUE, old |-> old, new |-> new,
           position |-> c.position, deleted |-> c.deleted]
  BY <1>6, <1>7
<1>4. r \in Parser /\ r.file = file /\ r.chunk = EmptyChunk /\ r.inChunk
      /\ r.old = old /\ r.new = new /\ r.position = c.position
  <2>1. c.position \in Nat /\ c.deleted \in BOOLEAN
    BY DEF Parser
  <2> QED
    BY <1>1, <1>3, <2>1, EmptyChunkFacts DEF Parser
<1>5. ParserFits(r)
  BY <1>1, <1>2, <1>4 DEF ParserFits
<1> QED
  BY <1>4, <1>5 DEF r, file

\* A file is given another name.
LEMMA RenamedFacts ==
    ASSUME NEW c \in Parser, ParserFits(c), NEW name \in Names \cup {NoName}
    PROVE  LET r == [c EXCEPT !.file.name = name]
           IN  /\ r \in Parser /\ ParserFits(r)
               /\ r.file.of = c.file.of /\ r.file.chunks = c.file.chunks
               /\ r.file["added"] = c.file["added"] /\ r.file["removed"] = c.file["removed"]
               /\ r.chunk = c.chunk /\ r.inChunk = c.inChunk
<1> DEFINE r == [c EXCEPT !.file.name = name]
           file == [c.file EXCEPT !.name = name]
<1>1. /\ c.file \in File /\ Fits(c.chunk, c.file) /\ ChunksFit(c.file)
      /\ ~c.inChunk => c.chunk = EmptyChunk
      /\ c.file["added"] \in Seq(Detail) /\ c.file["removed"] \in Seq(Detail)
  BY DEF Parser, File, ParserFits
<1>2. /\ file \in File /\ file.of = c.file.of /\ file.chunks = c.file.chunks
      /\ file["added"] = c.file["added"] /\ file["removed"] = c.file["removed"]
  BY <1>1 DEF File
<1>3. r = [c EXCEPT !.file = file]
  BY DEF Parser
<1> HIDE DEF file, r
<1>4. r \in Parser /\ r.file = file /\ r.chunk = c.chunk /\ r.inChunk = c.inChunk
  BY <1>2, <1>3 DEF Parser
<1>5. Fits(c.chunk, file) /\ ChunksFit(file)
  BY <1>1, <1>2, Zenon DEF Fits, ChunksFit
<1>6. ParserFits(r)
  BY <1>1, <1>4, <1>5 DEF ParserFits
<1> QED
  BY <1>2, <1>4, <1>6 DEF r

LEMMA ModeFacts ==
    ASSUME NEW c \in Parser, ParserFits(c), NEW deleted \in BOOLEAN
    PROVE  LET r == [c EXCEPT !.deleted = deleted]
           IN  /\ r \in Parser /\ ParserFits(r) /\ WithChunk(r) = WithChunk(c)
               /\ r.file = c.file /\ r.inChunk = c.inChunk
<1> DEFINE r == [c EXCEPT !.deleted = deleted]
<1>1. r \in Parser /\ r.file = c.file /\ r.chunk = c.chunk /\ r.inChunk = c.inChunk
  BY DEF Parser
<1> HIDE DEF r
<1> QED
  BY <1>1 DEF ParserFits, WithChunk, r

LEMMA DetailAppended ==
    ASSUME NEW s \in Seq(Detail), NEW d \in Detail
    PROVE  Append(s, d) \in Seq(Detail) /\ Len(Append(s, d)) = Len(s) + 1
OBVIOUS

LEMMA PartTyped ==
    ASSUME NEW part, part \in Chunk \/ part \in File
    PROVE  /\ part.added \in Seq(Detail) /\ part.removed \in Seq(Detail)
           /\ Len(part.added) \in Nat /\ Len(part.removed) \in Nat
<1>1. part.added \in Seq(Detail) /\ part.removed \in Seq(Detail)
  BY DEF Chunk, File
<1> QED
  BY <1>1

\* A file that grows still holds the lines of its chunks.
LEMMA FitsGrows ==
    ASSUME NEW file \in File, NEW more \in File, more.chunks = file.chunks, ChunksFit(file),
           Len(file.added) <= Len(more.added), Len(file.removed) <= Len(more.removed)
    PROVE  ChunksFit(more)
<1>1. file.chunks \in Seq(Chunk)
  BY DEF File
<1>2. ASSUME NEW i \in DOMAIN file.chunks
      PROVE  Fits(file.chunks[i], more)
  <2>1. file.chunks[i] \in Chunk
    BY <1>1
  <2>2. Fits(file.chunks[i], file)
    BY Zenon DEF ChunksFit
  <2>3. \A k, m, n \in Nat : k <= m /\ m <= n => k <= n
    OBVIOUS
  <2> QED
    BY <2>1, <2>2, <2>3, PartTyped, Zenon DEF Fits
<1> QED
  BY <1>2 DEF ChunksFit

LEMMA FurtherTyped ==
    ASSUME NEW n \in Nat \cup {None}
    PROVE  Further(n) \in Nat \cup {None} /\ (n \in Nat => Further(n) = n + 1)
BY DEF Further, None

\* The line a branch appends to the lists of the changes of its kind.
Appended(c, branch) == [line |-> IF branch = "added" THEN c.new ELSE c.old, position |-> c.position + 1]

\* What a branch does to the file, the chunk and the counters.
LEMMA ReadFacts ==
    ASSUME NEW c \in Parser, NEW branch
    PROVE  LET r == Read(c, branch)
               d == Appended(c, branch)
           IN  /\ r \in Parser /\ d \in Detail
               /\ r.file.name = c.file.name /\ r.file.of = c.file.of /\ r.file.chunks = c.file.chunks
               /\ branch \notin Changes => r.file = c.file /\ r.chunk = c.chunk /\ r.inChunk = c.inChunk
               /\ branch \in Changes => r.inChunk
               /\ \A x \in Changes :
                     /\ r.file[x] = IF x = branch THEN Append(c.file[x], d) ELSE c.file[x]
                     /\ r.chunk[x] = IF x = branch THEN Append(c.chunk[x], d) ELSE c.chunk[x]
               /\ r.old = IF branch = "added" THEN c.old ELSE Further(c.old)
               /\ r.new = IF branch = "removed" THEN c.new ELSE Further(c.new)
               /\ r.position = IF branch \in Changes \/ c.inChunk THEN c.position + 1 ELSE c.position
<1> DEFINE r == Read(c, branch)
           d == Appended(c, branch)
<1>1. /\ c.file \in File /\ c.chunk \in Chunk /\ c.inChunk \in BOOLEAN /\ c.deleted \in BOOLEAN
      /\ c.old \in Nat \cup {None} /\ c.new \in Nat \cup {None} /\ c.position \in Nat /\ c.position + 1 \in Nat
      /\ c = [file |-> c.file, chunk |-> c.chunk, inChunk |-> c.inChunk,
              old |-> c.old, new |-> c.new, position |-> c.position, deleted |-> c.deleted]
  BY DEF Parser
<1>2. /\ c.file.added \in Seq(Detail) /\ c.file.removed \in Seq(Detail)
      /\ c.chunk.added \in Seq(Detail) /\ c.chunk.removed \in Seq(Detail)
  BY <1>1, PartTyped
<1>3. Further(c.old) \in Nat \cup {None} /\ Further(c.new) \in Nat \cup {None}
  BY <1>1, FurtherTyped
<1>4. d \in Detail
  <2>1. c.position + 1 \in Nat /\ (IF branch = "added" THEN c.new ELSE c.old) \in Nat \cup {None}
    BY <1>1
  <2> QED
    BY <2>1 DEF Detail, Appended
<1> DEFINE yes == TRUE
<1>8. yes \in BOOLEAN /\ yes
  OBVIOUS
<1>5. CASE branch = "added"
  <2> DEFINE inFile == Append(c.file.added, d)
             inChunk == Append(c.chunk.added, d)
             file == [c.file EXCEPT !.added = inFile]
             chunk == [c.chunk EXCEPT !.added = inChunk]
  <2>1. inFile \in Seq(Detail) /\ inChunk \in Seq(Detail)
    BY <1>2, <1>4, DetailAppended
  <2>2. d = [line |-> c.new, position |-> c.position + 1]
    BY <1>5 DEF Appended
  <2>3. r = [WithAdded(c, c.new) EXCEPT !.new = Further(WithAdded(c, c.new).new)]
    BY <1>5 DEF Read
  <2>4. WithAdded(c, c.new) = [c EXCEPT !.file.added = inFile, !.chunk.added = inChunk,
                                        !.inChunk = yes, !.position = @ + 1]
    BY <2>2 DEF WithAdded
  <2> HIDE DEF inFile, inChunk, r, d, yes
  <2>5. /\ file \in File /\ file["added"] = inFile /\ file["removed"] = c.file["removed"]
        /\ file.name = c.file.name /\ file.of = c.file.of /\ file.chunks = c.file.chunks
        /\ chunk \in Chunk /\ chunk["added"] = inChunk /\ chunk["removed"] = c.chunk["removed"]
    BY <1>1, <2>1 DEF File, Chunk
  <2>6. WithAdded(c, c.new) = [file |-> file, chunk |-> chunk, inChunk |-> yes, old |-> c.old, new |-> c.new,
                               position |-> c.position + 1, deleted |-> c.deleted]
    BY <1>1, <2>4
  <2> HIDE DEF file, chunk
  <2>10. WithAdded(c, c.new).new = c.new
    BY <2>6
  <2>7. r = [file |-> file, chunk |-> chunk, inChunk |-> yes, old |-> c.old, new |-> Further(c.new),
             position |-> c.position + 1, deleted |-> c.deleted]
    <3> DEFINE w == WithAdded(c, c.new)
               n == Further(c.new)
    <3>1. r = [w EXCEPT !.new = n]
      BY <2>3, <2>10
    <3>3. w = [file |-> file, chunk |-> chunk, inChunk |-> yes, old |-> c.old, new |-> c.new,
               position |-> c.position + 1, deleted |-> c.deleted]
      BY <2>6
    <3> HIDE DEF w, n
    <3>2. [w EXCEPT !.new = n] = [file |-> file, chunk |-> chunk, inChunk |-> yes, old |-> c.old, new |-> n,
                                        position |-> c.position + 1, deleted |-> c.deleted]
      BY <3>3
    <3> QED
      BY <3>1, <3>2 DEF n
  <2>8. /\ r \in Parser /\ r.file = file /\ r.chunk = chunk /\ r.inChunk
        /\ r.old = c.old /\ r.new = Further(c.new) /\ r.position = c.position + 1
    BY <1>1, <1>3, <1>8, <2>5, <2>7 DEF Parser
  <2>9. \A x \in Changes :
           /\ r.file[x] = IF x = branch THEN Append(c.file[x], d) ELSE c.file[x]
           /\ r.chunk[x] = IF x = branch THEN Append(c.chunk[x], d) ELSE c.chunk[x]
    BY <1>5, <2>5, <2>8, Zenon DEF Changes, inFile, inChunk
  <2> QED
    BY <1>4, <1>5, <2>5, <2>8, <2>9 DEF Changes, r, d
<1>6. CASE branch = "removed"
  <2> DEFINE inFile == Append(c.file.removed, d)
             inChunk == Append(c.chunk.removed, d)
             file == [c.file EXCEPT !.removed = inFile]
             chunk == [c.chunk EXCEPT !.removed = inChunk]
  <2>1. inFile \in Seq(Detail) /\ inChunk \in Seq(Detail)
    BY <1>2, <1>4, DetailAppended
  <2>2. d = [line |-> c.old, position |-> c.position + 1]
    BY <1>6 DEF Appended
  <2>3. r = [WithRemoved(c, c.old) EXCEPT !.old = Further(WithRemoved(c, c.old).old)]
    BY <1>6 DEF Read
  <2>4. WithRemoved(c, c.old) = [c EXCEPT !.file.removed = inFile, !.chunk.removed = inChunk,
                                          !.inChunk = yes, !.position = @ + 1]
    BY <2>2 DEF WithRemoved
  <2> HIDE DEF inFile, inChunk, r, d, yes
  <2>5. /\ file \in File /\ file["removed"] = inFile /\ file["added"] = c.file["added"]
        /\ file.name = c.file.name /\ file.of = c.file.of /\ file.chunks = c.file.chunks
        /\ chunk \in Chunk /\ chunk["removed"] = inChunk /\ chunk["added"] = c.chunk["added"]
    BY <1>1, <2>1 DEF File, Chunk
  <2>6. WithRemoved(c, c.old) = [file |-> file, chunk |-> chunk, inChunk |-> yes, old |-> c.old, new |-> c.new,
                                 position |-> c.position + 1, deleted |-> c.deleted]
    BY <1>1, <2>4
  <2> HIDE DEF file, chunk
  <2>10. WithRemoved(c, c.old).old = c.old
    BY <2>6
  <2>7. r = [file |-> file, chunk |-> chunk, inChunk |-> yes, old |-> Further(c.old), new |-> c.new,
             position |-> c.position + 1, deleted |-> c.deleted]
    <3> DEFINE w == WithRemoved(c, c.old)
               n == Further(c.old)
    <3>1. r = [w EXCEPT !.old = n]
      BY <2>3, <2>10
    <3>3. w = [file |-> file, chunk |-> chunk, inChunk |-> yes, old |-> c.old, new |-> c.new,
               position |-> c.position + 1, deleted |-> c.deleted]
      BY <2>6
    <3> HIDE DEF w, n
    <3>2. [w EXCEPT !.old = n] = [file |-> file, chunk |-> chunk, inChunk |-> yes, old |-> n, new |-> c.new,
                                        position |-> c.position + 1, deleted |-> c.deleted]
      BY <3>3
    <3> QED
      BY <3>1, <3>2 DEF n
  <2>8. /\ r \in Parser /\ r.file = file /\ r.chunk = chunk /\ r.inChunk
        /\ r.old = Further(c.old) /\ r.new = c.new /\ r.position = c.position + 1
    BY <1>1, <1>3, <1>8, <2>5, <2>7 DEF Parser
  <2>9. \A x \in Changes :
           /\ r.file[x] = IF x = branch THEN Append(c.file[x], d) ELSE c.file[x]
           /\ r.chunk[x] = IF x = branch THEN Append(c.chunk[x], d) ELSE c.chunk[x]
    BY <1>6, <2>5, <2>8, Zenon DEF Changes, inFile, inChunk
  <2> QED
    BY <1>4, <1>6, <2>5, <2>8, <2>9 DEF Changes, r, d
<1>7. CASE branch \notin {"added", "removed"}
  <2> DEFINE position == IF c.inChunk THEN c.position + 1 ELSE c.position
  <2>1. r = [c EXCEPT !.old = Further(@), !.new = Further(@), !.position = IF c.inChunk THEN @ + 1 ELSE @]
    BY <1>7 DEF Read
  <2> HIDE DEF r, d
  <2>2. r = [file |-> c.file, chunk |-> c.chunk, inChunk |-> c.inChunk, old |-> Further(c.old),
             new |-> Further(c.new), position |-> position, deleted |-> c.deleted]
    BY <1>1, <2>1
  <2>3. position \in Nat
    BY <1>1
  <2> HIDE DEF position
  <2>4. /\ r \in Parser /\ r.file = c.file /\ r.chunk = c.chunk /\ r.inChunk = c.inChunk
        /\ r.old = Further(c.old) /\ r.new = Further(c.new) /\ r.position = position
    BY <1>1, <1>3, <2>2, <2>3 DEF Parser
  <2>5. branch \notin Changes /\ \A x \in Changes : x # branch
    BY <1>7 DEF Changes
  <2> QED
    BY <1>4, <1>7, <2>4, <2>5 DEF r, d, position
<1> QED
  BY <1>5, <1>6, <1>7

LEMMA ReadFits ==
    ASSUME NEW c \in Parser, ParserFits(c), NEW branch
    PROVE  ParserFits(Read(c, branch))
<1> DEFINE r == Read(c, branch)
           d == Appended(c, branch)
<1>1. /\ r \in Parser /\ d \in Detail /\ r.file.chunks = c.file.chunks
      /\ branch \notin Changes => r.file = c.file /\ r.chunk = c.chunk /\ r.inChunk = c.inChunk
      /\ branch \in Changes => r.inChunk
      /\ \A x \in Changes :
            /\ r.file[x] = IF x = branch THEN Append(c.file[x], d) ELSE c.file[x]
            /\ r.chunk[x] = IF x = branch THEN Append(c.chunk[x], d) ELSE c.chunk[x]
  BY ReadFacts
<1> HIDE DEF r, d
<1>2. Fits(c.chunk, c.file) /\ ChunksFit(c.file) /\ (~c.inChunk => c.chunk = EmptyChunk)
  BY DEF ParserFits
<1>3. CASE branch \notin Changes
  BY <1>1, <1>2, <1>3 DEF ParserFits, r
<1>4. CASE branch \in Changes
  <2>1. c.file \in File /\ c.chunk \in Chunk /\ r.file \in File /\ r.chunk \in Chunk
    BY <1>1 DEF Parser
  <2>2. ASSUME NEW x \in Changes
        PROVE  /\ Len(r.chunk[x]) <= Len(r.file[x])
               /\ Len(c.file[x]) <= Len(r.file[x])
    <3>1. /\ c.file[x] \in Seq(Detail) /\ c.chunk[x] \in Seq(Detail)
          /\ Len(c.file[x]) \in Nat /\ Len(c.chunk[x]) \in Nat
      BY <2>1, PartTyped DEF Changes
    <3>2. Len(c.chunk[x]) <= Len(c.file[x])
      BY <1>2 DEF Fits, Changes
    <3>3. CASE x = branch
      <4>1. Len(Append(c.file[x], d)) = Len(c.file[x]) + 1 /\ Len(Append(c.chunk[x], d)) = Len(c.chunk[x]) + 1
        BY <1>1, <3>1, DetailAppended
      <4>2. r.file[x] = Append(c.file[x], d) /\ r.chunk[x] = Append(c.chunk[x], d)
        BY <1>1, <3>3
      <4>3. \A m, n \in Nat : m <= n => m + 1 <= n + 1 /\ n <= n + 1
        OBVIOUS
      <4> QED
        BY <3>1, <3>2, <4>1, <4>2, <4>3, Zenon
    <3>4. CASE x # branch
      <4>1. r.file[x] = c.file[x] /\ r.chunk[x] = c.chunk[x]
        BY <1>1, <3>4
      <4>2. \A n \in Nat : n <= n
        OBVIOUS
      <4> QED
        BY <3>1, <3>2, <4>1, <4>2, Zenon
    <3> QED
      BY <3>3, <3>4
  <2>3. Fits(r.chunk, r.file) /\ Len(c.file.added) <= Len(r.file.added) /\ Len(c.file.removed) <= Len(r.file.removed)
    BY <2>2 DEF Fits, Changes
  <2>4. ChunksFit(r.file)
    BY <1>1, <1>2, <2>1, <2>3, FitsGrows
  <2>5. r.inChunk
    BY <1>1, <1>4
  <2> QED
    BY <2>3, <2>4, <2>5, Zenon DEF ParserFits, r
<1> QED
  BY <1>3, <1>4

-----------------------------------------------------------------------------
(* The invariant *)

\* A line is read in a hunk, and a hunk in a file of the diff.
InAFile ==
    /\ git.header \notin {"none", "textless"} => truth # <<>>
    /\ git.last # "file" => git.header \notin {"none", "textless"} /\ git.hunk # 0

ChunksAreOfTheirFile ==
    ParserFits(current) /\ \A i \in DOMAIN files : ChunksFit(files[i])

DiffInv == TypeOK /\ InAFile /\ ChunksAreOfTheirFile

Place == [header : {"none", "modified", "added", "deleted", "textless"},
          last : {"file", "hunk", "line", "noeol"}, lines : 0 .. MaxLines,
          old : Nat, new : Nat, position : Nat, hunk : Nat, numbered : BOOLEAN]

\* The context while none is made, and what the invariant is in parts.
Shown == [done : BOOLEAN, files : Seq(File), total : Nat, told : BOOLEAN,
          limits : [files : Nat, lines : Nat, total : Nat]]

LEMMA DiffInvParts ==
    DiffInv <=> /\ git \in Place /\ truth \in Seq(TrueFile) /\ odd \in 0 .. MaxOdd /\ current \in Parser
                /\ files \in Seq(File) /\ context \in Shown
                /\ InAFile /\ ParserFits(current) /\ \A i \in DOMAIN files : ChunksFit(files[i])
BY Zenon DEF DiffInv, TypeOK, ChunksAreOfTheirFile, Place, Parser, Shown

\* The same after a step.
LEMMA DiffInvPartsNext ==
    DiffInv' <=> /\ git' \in Place /\ truth' \in Seq(TrueFile) /\ odd' \in 0 .. MaxOdd /\ current' \in Parser
                 /\ files' \in Seq(File) /\ context' \in Shown
                 /\ InAFile' /\ ParserFits(current') /\ \A i \in DOMAIN files' : ChunksFit(files'[i])
BY Zenon DEF DiffInv, TypeOK, ChunksAreOfTheirFile, Place, Parser, Shown

\* The truth about the last file, changed.
Revised(lines, whole, rests) ==
    [truth EXCEPT ![Len(truth)] = [name |-> @.name, lines |-> lines, whole |-> whole, rests |-> rests]]

LEMMA RevisedFacts ==
    ASSUME truth \in Seq(TrueFile), truth # <<>>,
           NEW lines \in Seq(TrueLine), NEW whole \in BOOLEAN, NEW rests \in Nat
    PROVE  LET n == Len(truth)
               next == Revised(lines, whole, rests)
           IN  /\ n \in Nat /\ n \in 1 .. n /\ truth[n] \in TrueFile
               /\ next \in Seq(TrueFile) /\ next # <<>> /\ Len(next) = n
               /\ \A i \in 1 .. n : i # n => next[i] = truth[i]
               /\ next[n] = [name |-> truth[n].name, lines |-> lines, whole |-> whole, rests |-> rests]
<1> DEFINE n == Len(truth)
           file == [name |-> truth[n].name, lines |-> lines, whole |-> whole, rests |-> rests]
           next == [truth EXCEPT ![n] = file]
<1>1. n \in Nat /\ n \in 1 .. n
  OBVIOUS
<1>2. truth[n] \in TrueFile
  BY <1>1, ElementOfSeq
<1>3. file \in TrueFile
  BY <1>2 DEF TrueFile
<1>4. Revised(lines, whole, rests) = next
  BY DEF Revised
<1> HIDE DEF file
<1>5. /\ next \in Seq(TrueFile) /\ Len(next) = n
      /\ \A i \in 1 .. n : next[i] = IF i = n THEN file ELSE truth[i]
  BY <1>1, <1>3, ExceptSeq
<1> HIDE DEF next
<1>6. next # <<>>
  BY <1>1, <1>5
<1> QED
  BY <1>1, <1>2, <1>4, <1>5, <1>6 DEF file

LEMMA RevisedTyped ==
    ASSUME truth \in Seq(TrueFile), truth # <<>>,
           NEW lines \in Seq(TrueLine), NEW whole \in BOOLEAN, NEW rests \in Nat
    PROVE  Revised(lines, whole, rests) \in Seq(TrueFile) /\ Revised(lines, whole, rests) # <<>>
BY RevisedFacts

\* The line of the diff that is next.
Line(kind) ==
    [change |-> Change(kind), line |-> IF Change(kind) = "added" THEN git.new ELSE git.old,
     position |-> git.position + 1, hunk |-> git.hunk,
     numbered |-> git.numbered /\ kind \in Plain, placed |-> truth[Len(truth)].rests = 0]

Lines(kind) ==
    IF Change(kind) = "none" THEN truth[Len(truth)].lines ELSE Append(truth[Len(truth)].lines, Line(kind))

LEMMA LineTyped ==
    ASSUME git \in Place, truth \in Seq(TrueFile), truth # <<>>, NEW kind
    PROVE  /\ Change(kind) # "none" => Line(kind) \in TrueLine
           /\ Lines(kind) \in Seq(TrueLine)
           /\ truth[Len(truth)].lines \in Seq(TrueLine) /\ truth[Len(truth)].whole \in BOOLEAN
           /\ truth[Len(truth)].rests \in Nat
<1>1. truth[Len(truth)] \in TrueFile
  BY ElementOfSeq
<1>2. /\ truth[Len(truth)].lines \in Seq(TrueLine) /\ truth[Len(truth)].whole \in BOOLEAN
      /\ truth[Len(truth)].rests \in Nat
  BY <1>1 DEF TrueFile
<1>3. Change(kind) \in {"added", "removed", "none"}
  BY DEF Change
<1>4. /\ git.new \in Nat /\ git.old \in Nat /\ git.position + 1 \in Nat /\ git.hunk \in Nat
      /\ git.numbered \in BOOLEAN
  BY DEF Place
<1>5. Change(kind) # "none" => Line(kind) \in TrueLine
  <2> DEFINE numbered == git.numbered /\ kind \in Plain
             placed == truth[Len(truth)].rests = 0
             line == IF Change(kind) = "added" THEN git.new ELSE git.old
  <2>1. numbered \in BOOLEAN /\ placed \in BOOLEAN /\ line \in Nat
    BY <1>4
  <2>2. Line(kind) = [change |-> Change(kind), line |-> line, position |-> git.position + 1, hunk |-> git.hunk,
                      numbered |-> numbered, placed |-> placed]
    BY DEF Line
  <2> HIDE DEF numbered, placed, line
  <2> QED
    BY <1>3, <1>4, <2>1, <2>2 DEF TrueLine
<1> QED
  BY <1>2, <1>5 DEF Lines

LEMMA WrittenIs ==
    ASSUME git \in Place, truth \in Seq(TrueFile), truth # <<>>, NEW kind
    PROVE  LET last == truth[Len(truth)]
           IN  /\ Written(kind) = Revised(Lines(kind), last.whole, last.rests)
               /\ [Written(kind) EXCEPT ![Len(truth)].whole = FALSE] = Revised(Lines(kind), FALSE, last.rests)
               /\ Divided = Revised(last.lines, last.whole, last.rests + 1)
               /\ Lost = Revised(last.lines, FALSE, last.rests + 1)
<1> DEFINE n == Len(truth)
           last == truth[n]
           no == FALSE
           it == Line(kind)
           lines == Lines(kind)
<1>1. n \in Nat /\ n \in 1 .. n /\ last \in TrueFile /\ DOMAIN truth = 1 .. n
  BY ElementOfSeq
<1>2. last = [name |-> last.name, lines |-> last.lines, whole |-> last.whole, rests |-> last.rests]
  BY <1>1 DEF TrueFile
<1>3. truth = [truth EXCEPT ![n] = last]
  BY <1>1
<1>4. Written(kind) = [truth EXCEPT ![n] = [name |-> last.name, lines |-> lines, whole |-> last.whole,
                                            rests |-> last.rests]]
  <2>1. CASE Change(kind) = "none"
    <3>1. Written(kind) = truth /\ lines = last.lines
      BY <2>1 DEF Written, Lines
    <3> HIDE DEF n, last, lines
    <3> QED
      BY <1>2, <1>3, <3>1
  <2>2. CASE Change(kind) # "none"
    <3>1. Written(kind) = [truth EXCEPT ![n].lines = Append(@, it)] /\ lines = Append(last.lines, it)
      BY <2>2, Zenon DEF Written, Lines, Line
    <3> HIDE DEF it, lines
    <3> DEFINE more == Append(last.lines, it)
    <3>2. [truth EXCEPT ![n].lines = Append(@, it)] = [truth EXCEPT ![n] = [last EXCEPT !.lines = more]]
      BY <1>1
    <3> HIDE DEF more
    <3>3. [last EXCEPT !.lines = more] =
             [name |-> last.name, lines |-> more, whole |-> last.whole, rests |-> last.rests]
      <4> HIDE DEF last
      <4> QED
        BY <1>2
    <3> QED
      BY <3>1, <3>2, <3>3 DEF more
  <2> QED
    BY <2>1, <2>2
<1>5. Written(kind) = Revised(lines, last.whole, last.rests)
  BY <1>4 DEF Revised
<1>6. [Written(kind) EXCEPT ![n].whole = no] = Revised(lines, no, last.rests)
  <2> DEFINE w == Written(kind)
             was == [name |-> last.name, lines |-> lines, whole |-> last.whole, rests |-> last.rests]
             is == [name |-> last.name, lines |-> lines, whole |-> no, rests |-> last.rests]
  <2>1. w = [truth EXCEPT ![n] = was]
    BY <1>4
  <2>2. [was EXCEPT !.whole = no] = is
    <3> HIDE DEF no, lines, last
    <3> QED
      OBVIOUS
  <2>3. Revised(lines, no, last.rests) = [truth EXCEPT ![n] = is]
    BY DEF Revised
  <2> HIDE DEF w, was, is, no, lines
  <2>4. DOMAIN w = DOMAIN truth /\ w[n] = was
    BY <1>1, <2>1
  <2>5. [w EXCEPT ![n].whole = no] = [w EXCEPT ![n] = [was EXCEPT !.whole = no]]
    BY <2>4
  <2>6. [w EXCEPT ![n] = is] = [truth EXCEPT ![n] = is]
    BY <1>1, <2>1, <2>4
  <2> QED
    BY <2>2, <2>3, <2>5, <2>6 DEF w
<1>7. Divided = Revised(last.lines, last.whole, last.rests + 1)
  <2>1. Divided = [truth EXCEPT ![n] = [last EXCEPT !.rests = @ + 1]]
    BY <1>1 DEF Divided
  <2>2. [last EXCEPT !.rests = @ + 1] =
           [name |-> last.name, lines |-> last.lines, whole |-> last.whole, rests |-> last.rests + 1]
    <3> HIDE DEF last
    <3> QED
      BY <1>2
  <2> QED
    BY <2>1, <2>2 DEF Revised
<1>8. Lost = Revised(last.lines, no, last.rests + 1)
  <2> DEFINE d == Divided
             was == [name |-> last.name, lines |-> last.lines, whole |-> last.whole, rests |-> last.rests + 1]
             is == [name |-> last.name, lines |-> last.lines, whole |-> no, rests |-> last.rests + 1]
  <2>1. d = [truth EXCEPT ![n] = was]
    BY <1>7 DEF Revised
  <2>2. Lost = [d EXCEPT ![n].whole = no]
    BY DEF Lost, Divided
  <2>3. [was EXCEPT !.whole = no] = is
    <3> HIDE DEF no, last
    <3> QED
      OBVIOUS
  <2>4. Revised(last.lines, no, last.rests + 1) = [truth EXCEPT ![n] = is]
    BY DEF Revised
  <2> HIDE DEF d, was, is, no
  <2>5. DOMAIN d = DOMAIN truth /\ d[n] = was
    BY <1>1, <2>1
  <2>6. [d EXCEPT ![n].whole = no] = [d EXCEPT ![n] = [was EXCEPT !.whole = no]]
    BY <2>5
  <2>7. [d EXCEPT ![n] = is] = [truth EXCEPT ![n] = is]
    BY <1>1, <2>1, <2>5
  <2> QED
    BY <2>2, <2>3, <2>4, <2>6, <2>7
<1> HIDE DEF lines, last
<1> QED
  BY <1>5, <1>6, <1>7, <1>8 DEF lines, last

\* A file without a name, in which nothing is read.
LEMMA NothingStarts ==
    ASSUME NEW of \in Nat
    PROVE  LET c == Start(NewFile(NoName, of), FALSE)
           IN  /\ c \in Parser /\ ParserFits(c) /\ c.file = NewFile(NoName, of)
               /\ c.file.name = NoName /\ c.file.of = of /\ ~c.inChunk /\ c.position = 0
               /\ WithChunk(c) = NewFile(NoName, of)
<1> DEFINE file == NewFile(NoName, of)
           no == FALSE
<1>1. file \in File /\ ChunksFit(file) /\ file.name = NoName /\ file.of = of
  BY NewFileFacts
<1>2. no \in BOOLEAN
  OBVIOUS
<1> HIDE DEF file, no
<1>3. LET c == Start(file, no)
      IN  /\ c \in Parser /\ ParserFits(c) /\ c.file = file
          /\ ~c.inChunk /\ c.position = 0 /\ WithChunk(c) = file
  BY <1>1, <1>2, StartFacts
<1> QED
  BY <1>1, <1>3 DEF file, no

LEMMA InitHolds == Init => DiffInv
<1> SUFFICES ASSUME Init PROVE DiffInv
  OBVIOUS
<1>1. /\ truth = <<>> /\ odd = 0 /\ files = <<>> /\ context = NoContext
      /\ current = Start(NewFile(NoName, 0), FALSE)
      /\ git = [header |-> "none", last |-> "file", lines |-> 0, old |-> 0, new |-> 0, position |-> 0,
                hunk |-> 0, numbered |-> TRUE]
  BY DEF Init
<1>2. current \in Parser /\ ParserFits(current)
  BY <1>1, NothingStarts
<1>3. truth \in Seq(TrueFile) /\ files \in Seq(File) /\ DOMAIN files = {}
  BY <1>1
<1>4. odd \in 0 .. MaxOdd /\ 0 \in 0 .. MaxLines
  BY <1>1, BoundsAreNumbers
<1>5. git \in Place /\ git.header = "none" /\ git.last = "file"
  BY <1>1, <1>4 DEF Place
<1>6. context \in Shown
  <2>1. <<>> \in Seq(File)
    OBVIOUS
  <2> QED
    BY <1>1, <2>1 DEF NoContext, Shown
<1>7. InAFile
  BY <1>5 DEF InAFile
<1> QED
  BY <1>2, <1>3, <1>4, <1>5, <1>6, <1>7, DiffInvParts

LEMMA OpenFileHolds ==
    ASSUME DiffInv, NEW header \in {"modified", "added", "deleted"}, NEW name \in Names \cup {NoName},
           OpenFile(header, name)
    PROVE  DiffInv'
<1> DEFINE file == NewFile(name, Len(truth) + 1)
           deleted == header = "deleted"
           whole == name # NoName
           true == [name |-> name, lines |-> <<>>, whole |-> whole, rests |-> 0]
<1>1. /\ git \in Place /\ truth \in Seq(TrueFile) /\ odd \in 0 .. MaxOdd /\ current \in Parser
      /\ files \in Seq(File) /\ context \in Shown
      /\ ParserFits(current) /\ \A i \in DOMAIN files : ChunksFit(files[i])
  BY DiffInvParts
<1>2. /\ git' = [git EXCEPT !.header = header, !.last = "file", !.old = 1, !.new = 1, !.position = 0,
                            !.hunk = 0, !.numbered = TRUE]
      /\ truth' = Append(truth, true) /\ files' = Flushed(current)
      /\ current' = Start(file, deleted) /\ UNCHANGED <<odd, context>>
  BY DEF OpenFile
<1>3. current' \in Parser /\ ParserFits(current')
  <2>1. file \in File /\ ChunksFit(file)
    <3>1. Len(truth) + 1 \in Nat
      BY <1>1
    <3> QED
      BY <3>1, NewFileFacts
  <2>2. deleted \in BOOLEAN
    OBVIOUS
  <2> HIDE DEF file, deleted
  <2> QED
    BY <1>2, <2>1, <2>2, StartFacts
<1>4. files' \in Seq(File) /\ \A i \in DOMAIN files' : ChunksFit(files'[i])
  BY <1>1, <1>2, FlushedFacts
<1>5. truth' \in Seq(TrueFile) /\ truth' # <<>>
  <2>1. whole \in BOOLEAN /\ <<>> \in Seq(TrueLine)
    OBVIOUS
  <2> HIDE DEF whole
  <2>2. true \in TrueFile
    BY <2>1 DEF TrueFile
  <2> HIDE DEF true
  <2> QED
    BY <1>1, <1>2, <2>2
<1>6. git' \in Place /\ git'.last = "file"
  BY <1>1, <1>2 DEF Place
<1>7. InAFile'
  BY <1>5, <1>6 DEF InAFile
<1> QED
  BY <1>1, <1>2, <1>3, <1>4, <1>5, <1>6, <1>7, DiffInvPartsNext

LEMMA OpenTextlessHolds ==
    ASSUME DiffInv, OpenTextless
    PROVE  DiffInv'
<1>1. /\ git \in Place /\ truth \in Seq(TrueFile) /\ odd \in 0 .. MaxOdd /\ current \in Parser
      /\ files \in Seq(File) /\ context \in Shown
      /\ ParserFits(current) /\ \A i \in DOMAIN files : ChunksFit(files[i])
  BY DiffInvParts
<1>2. /\ git' = [git EXCEPT !.header = "textless", !.last = "file", !.old = 1, !.new = 1, !.position = 0,
                            !.hunk = 0, !.numbered = TRUE]
      /\ files' = Flushed(current)
      /\ current' = Start(NewFile(NoName, 0), FALSE) /\ UNCHANGED <<truth, odd, context>>
  BY DEF OpenTextless
<1>3. current' \in Parser /\ ParserFits(current')
  BY <1>2, NothingStarts
<1>4. files' \in Seq(File) /\ \A i \in DOMAIN files' : ChunksFit(files'[i])
  BY <1>1, <1>2, FlushedFacts
<1>5. git' \in Place /\ git'.last = "file" /\ git'.header = "textless"
  BY <1>1, <1>2 DEF Place
<1>6. InAFile'
  BY <1>5 DEF InAFile
<1> QED
  BY <1>1, <1>2, <1>3, <1>4, <1>5, <1>6, DiffInvPartsNext

LEMMA OpenHunkHolds ==
    ASSUME DiffInv, NEW gap \in Gaps, OpenHunk(gap)
    PROVE  DiffInv'
<1> DEFINE old == FirstLine("old", gap)
           new == FirstLine("new", gap)
<1>1. /\ git \in Place /\ truth \in Seq(TrueFile) /\ odd \in 0 .. MaxOdd /\ current \in Parser
      /\ files \in Seq(File) /\ context \in Shown /\ InAFile
      /\ ParserFits(current) /\ \A i \in DOMAIN files : ChunksFit(files[i])
  BY DiffInvParts
<1>2. /\ git.header \notin {"none", "textless"} /\ git.lines < MaxLines
      /\ git' = [git EXCEPT !.last = "hunk", !.lines = @ + 1, !.old = old, !.new = new, !.hunk = @ + 1,
                            !.position = IF git.hunk = 0 THEN 0 ELSE @ + 1, !.numbered = TRUE]
      /\ current' = OpenChunk(current, old, new)
      /\ UNCHANGED <<truth, odd, files, context>>
  BY DEF OpenHunk
<1>3. /\ git.old \in Nat /\ git.new \in Nat /\ git.hunk \in Nat /\ git.position \in Nat
      /\ git.lines \in 0 .. MaxLines
  BY <1>1 DEF Place
<1>4. old \in Nat /\ new \in Nat
  <2>1. gap \in Nat
    BY BoundsAreNumbers
  <2> QED
    BY <1>3, <2>1 DEF FirstLine
<1> HIDE DEF old, new
<1>5. current' \in Parser /\ ParserFits(current')
  BY <1>1, <1>2, <1>4, OpenChunkFacts
<1>6. git' \in Place /\ git'.header = git.header /\ git'.hunk # 0
  <2>1. git.lines + 1 \in 0 .. MaxLines
    BY <1>2, <1>3, BoundsAreNumbers
  <2>2. git.hunk + 1 \in Nat /\ git.hunk + 1 # 0 /\ (IF git.hunk = 0 THEN 0 ELSE git.position + 1) \in Nat
    BY <1>3
  <2> QED
    BY <1>1, <1>2, <1>4, <2>1, <2>2 DEF Place
<1>7. InAFile'
  BY <1>1, <1>2, <1>6 DEF InAFile
<1> QED
  BY <1>1, <1>2, <1>5, <1>6, <1>7, DiffInvPartsNext

\* What a line of the diff does, however it is read.
LEMMA NextLineFacts ==
    ASSUME DiffInv, NEW kind \in Plain \cup Odd, NextLine(kind)
    PROVE  /\ git' \in Place /\ odd' \in 0 .. MaxOdd
           /\ git.header \notin {"none", "textless"} /\ git.hunk # 0 /\ truth # <<>> /\ ~context.done
           /\ git'.header = git.header /\ git'.hunk = git.hunk /\ git'.position = git.position + 1
           /\ git'.numbered = (git.numbered /\ kind \in Plain)
           /\ git'.old = IF kind = "noeol" \/ Change(kind) = "added" THEN git.old ELSE git.old + 1
           /\ git'.new = IF kind = "noeol" \/ Change(kind) = "removed" THEN git.new ELSE git.new + 1
           /\ UNCHANGED <<files, context>>
<1> DEFINE numbered == git.numbered /\ kind \in Plain
           old == IF kind = "noeol" \/ Change(kind) = "added" THEN git.old ELSE git.old + 1
           new == IF kind = "noeol" \/ Change(kind) = "removed" THEN git.new ELSE git.new + 1
           last == IF kind = "noeol" THEN "noeol" ELSE "line"
<1>1. git \in Place /\ InAFile /\ odd \in 0 .. MaxOdd
  BY DiffInvParts
<1>2. /\ ~context.done /\ git.last # "file" /\ git.lines < MaxLines
      /\ odd' = (IF kind \in Odd THEN odd + 1 ELSE odd) /\ odd' <= MaxOdd
      /\ git' = [git EXCEPT !.last = last, !.lines = @ + 1, !.position = @ + 1, !.old = old, !.new = new,
                            !.numbered = numbered]
      /\ UNCHANGED <<files, context>>
  BY DEF NextLine
<1>3. /\ git.old \in Nat /\ git.new \in Nat /\ git.hunk \in Nat /\ git.position \in Nat
      /\ git.lines \in 0 .. MaxLines /\ git.numbered \in BOOLEAN
  BY <1>1 DEF Place
<1>4. /\ git.lines + 1 \in 0 .. MaxLines /\ git.position + 1 \in Nat /\ old \in Nat /\ new \in Nat
      /\ numbered \in BOOLEAN /\ last \in {"file", "hunk", "line", "noeol"}
  BY <1>2, <1>3, BoundsAreNumbers
<1> HIDE DEF numbered, old, new, last
<1>5. git' \in Place /\ git'.header = git.header /\ git'.hunk = git.hunk /\ git'.position = git.position + 1
      /\ git'.numbered = numbered /\ git'.old = old /\ git'.new = new
  BY <1>1, <1>2, <1>4 DEF Place
<1>6. odd' \in 0 .. MaxOdd
  BY <1>1, <1>2
<1>7. git.header \notin {"none", "textless"} /\ git.hunk # 0 /\ truth # <<>>
  BY <1>1, <1>2 DEF InAFile
<1> QED
  BY <1>2, <1>5, <1>6, <1>7 DEF numbered, old, new

LEMMA NextPieceFacts ==
    ASSUME DiffInv, NextPiece
    PROVE  /\ git' \in Place /\ odd' \in 0 .. MaxOdd
           /\ git.header \notin {"none", "textless"} /\ git.hunk # 0 /\ truth # <<>> /\ ~context.done
           /\ git'.header = git.header /\ git'.hunk = git.hunk /\ git'.position = git.position
           /\ ~git'.numbered /\ UNCHANGED context
<1>1. git \in Place /\ InAFile /\ odd \in 0 .. MaxOdd
  BY DiffInvParts
<1>2. /\ ~context.done /\ git.last # "file" /\ odd < MaxOdd /\ odd' = odd + 1
      /\ git' = [git EXCEPT !.numbered = FALSE] /\ UNCHANGED context
  BY DEF NextPiece
<1>3. git' \in Place /\ git'.header = git.header /\ git'.hunk = git.hunk /\ git'.position = git.position
      /\ ~git'.numbered
  BY <1>1, <1>2 DEF Place
<1>4. odd' \in 0 .. MaxOdd
  BY <1>1, <1>2, BoundsAreNumbers
<1> QED
  BY <1>1, <1>2, <1>3, <1>4 DEF InAFile

\* The truth about the last file is changed, and nothing of the others.
LEMMA RevisionHolds ==
    ASSUME DiffInv, git' \in Place, odd' \in 0 .. MaxOdd, UNCHANGED context, truth # <<>>,
           git.header \notin {"none", "textless"}, git.hunk # 0,
           git'.header = git.header, git'.hunk = git.hunk,
           NEW lines \in Seq(TrueLine), NEW whole \in BOOLEAN, NEW rests \in Nat,
           truth' = Revised(lines, whole, rests),
           current' \in Parser, ParserFits(current'),
           files' \in Seq(File), \A i \in DOMAIN files' : ChunksFit(files'[i])
    PROVE  DiffInv'
<1>1. truth \in Seq(TrueFile) /\ context \in Shown
  BY DiffInvParts
<1>2. truth' \in Seq(TrueFile) /\ truth' # <<>>
  <2>1. Revised(lines, whole, rests) \in Seq(TrueFile) /\ Revised(lines, whole, rests) # <<>>
    BY <1>1, RevisedTyped
  <2> QED
    BY <2>1
<1>3. InAFile'
  BY <1>2 DEF InAFile
<1> QED
  BY <1>1, <1>2, <1>3, DiffInvPartsNext

LEMMA ReadLineHolds ==
    ASSUME DiffInv, NEW kind \in Plain \cup Odd, ReadLine(kind)
    PROVE  DiffInv'
<1> DEFINE last == truth[Len(truth)]
<1>1. /\ git \in Place /\ truth \in Seq(TrueFile) /\ current \in Parser /\ files \in Seq(File)
      /\ ParserFits(current) /\ \A i \in DOMAIN files : ChunksFit(files[i])
  BY DiffInvParts
<1>2. NextLine(kind) /\ truth' = Written(kind) /\ current' = Read(current, kind)
  BY DEF ReadLine
<1>3. /\ git' \in Place /\ odd' \in 0 .. MaxOdd /\ UNCHANGED <<files, context>> /\ truth # <<>>
      /\ git.header \notin {"none", "textless"} /\ git.hunk # 0
      /\ git'.header = git.header /\ git'.hunk = git.hunk
  BY <1>2, NextLineFacts
<1>4. /\ truth' = Revised(Lines(kind), last.whole, last.rests)
      /\ Lines(kind) \in Seq(TrueLine) /\ last.whole \in BOOLEAN /\ last.rests \in Nat
  BY <1>1, <1>2, <1>3, WrittenIs, LineTyped
<1>5. current' \in Parser /\ ParserFits(current')
  BY <1>1, <1>2, ReadFacts, ReadFits
<1> HIDE DEF last
<1> QED
  BY <1>1, <1>3, <1>4, <1>5, RevisionHolds

LEMMA ReadAsNameHolds ==
    ASSUME DiffInv, NEW kind \in Odd, NEW name \in Names \cup {NoName}, ReadAsName(kind, name)
    PROVE  DiffInv'
<1> DEFINE last == truth[Len(truth)]
           no == FALSE
<1>1. /\ git \in Place /\ truth \in Seq(TrueFile) /\ current \in Parser /\ files \in Seq(File)
      /\ ParserFits(current) /\ \A i \in DOMAIN files : ChunksFit(files[i])
  BY DiffInvParts
<1>2. /\ NextLine(kind) /\ truth' = [Written(kind) EXCEPT ![Len(truth)].whole = FALSE]
      /\ current' = [current EXCEPT !.file.name = name]
  BY DEF ReadAsName
<1>3. /\ git' \in Place /\ odd' \in 0 .. MaxOdd /\ UNCHANGED <<files, context>> /\ truth # <<>>
      /\ git.header \notin {"none", "textless"} /\ git.hunk # 0
      /\ git'.header = git.header /\ git'.hunk = git.hunk
  BY <1>2, NextLineFacts
<1>4. /\ truth' = Revised(Lines(kind), no, last.rests)
      /\ Lines(kind) \in Seq(TrueLine) /\ no \in BOOLEAN /\ last.rests \in Nat
  BY <1>1, <1>2, <1>3, WrittenIs, LineTyped
<1>5. current' \in Parser /\ ParserFits(current')
  BY <1>1, <1>2, RenamedFacts
<1> HIDE DEF last, no
<1> QED
  BY <1>1, <1>3, <1>4, <1>5, RevisionHolds

LEMMA PieceHolds ==
    ASSUME DiffInv, Pieces
    PROVE  DiffInv'
<1> DEFINE last == truth[Len(truth)]
           no == FALSE
<1>1. /\ git \in Place /\ truth \in Seq(TrueFile) /\ current \in Parser /\ files \in Seq(File)
      /\ ParserFits(current) /\ \A i \in DOMAIN files : ChunksFit(files[i])
  BY DiffInvParts
<1>2. NextPiece
  BY DEF Pieces, PieceIsLine, PieceIsMode, PieceIsHunk, PieceIsName, PieceIsFile
<1>3. /\ git' \in Place /\ odd' \in 0 .. MaxOdd /\ UNCHANGED context /\ truth # <<>>
      /\ git.header \notin {"none", "textless"} /\ git.hunk # 0
      /\ git'.header = git.header /\ git'.hunk = git.hunk
  BY <1>2, NextPieceFacts
<1>4. /\ last.lines \in Seq(TrueLine) /\ last.whole \in BOOLEAN /\ no \in BOOLEAN /\ last.rests + 1 \in Nat
      /\ Divided = Revised(last.lines, last.whole, last.rests + 1)
      /\ Lost = Revised(last.lines, no, last.rests + 1)
  <2>1. /\ last.lines \in Seq(TrueLine) /\ last.whole \in BOOLEAN /\ last.rests \in Nat
    BY <1>1, <1>3, LineTyped
  <2>2. last.rests + 1 \in Nat
    BY <2>1
  <2> QED
    BY <1>1, <1>3, <2>1, <2>2, WrittenIs
<1> DEFINE Goes == /\ truth' \in {Divided, Lost}
                   /\ current' \in Parser /\ ParserFits(current')
                   /\ files' \in Seq(File) /\ \A i \in DOMAIN files' : ChunksFit(files'[i])
<1>5. Goes
  <2>1. ASSUME NEW branch \in {"added", "removed", "other"}, PieceIsLine(branch) PROVE Goes
    BY <1>1, <2>1, ReadFacts, ReadFits DEF PieceIsLine
  <2>2. ASSUME NEW deleted \in BOOLEAN, PieceIsMode(deleted) PROVE Goes
    BY <1>1, <2>2, ModeFacts DEF PieceIsMode
  <2>3. ASSUME NEW old \in Stray, NEW new \in Stray, PieceIsHunk(old, new) PROVE Goes
    <3>1. old \in Nat \cup {None} /\ new \in Nat \cup {None}
      BY BoundsAreNumbers
    <3> QED
      BY <1>1, <2>3, <3>1, OpenChunkFacts DEF PieceIsHunk
  <2>4. ASSUME NEW name \in Names \cup {NoName}, PieceIsName(name) PROVE Goes
    BY <1>1, <2>4, RenamedFacts DEF PieceIsName
  <2>5. ASSUME PieceIsFile PROVE Goes
    <3>1. Len(truth) \in Nat
      BY <1>1
    <3>2. current' = Start(NewFile(NoName, Len(truth)), FALSE) /\ files' = Flushed(current) /\ truth' = Lost
      BY <2>5 DEF PieceIsFile
    <3>3. current' \in Parser /\ ParserFits(current')
      BY <3>1, <3>2, NothingStarts
    <3> QED
      BY <1>1, <3>2, <3>3, FlushedFacts
  <2> QED
    BY <2>1, <2>2, <2>3, <2>4, <2>5 DEF Pieces
<1> HIDE DEF last, no
<1>6. CASE truth' = Divided
  BY <1>3, <1>4, <1>5, <1>6, RevisionHolds
<1>7. CASE truth' = Lost
  BY <1>3, <1>4, <1>5, <1>7, RevisionHolds
<1> QED
  BY <1>5, <1>6, <1>7

LEMMA PrefixOf ==
    ASSUME NEW S, NEW s \in Seq(S), NEW t \in Seq(S), Len(s) <= Len(t),
           \A j \in 1 .. Len(s) : s[j] = t[j]
    PROVE  IsPrefix(s, t) /\ (Len(s) = Len(t) => s = t)
<1>1. Len(s) \in Nat /\ Len(t) \in Nat
  OBVIOUS
<1>2. SubSeq(s, 1, Len(s)) = SubSeq(t, 1, Len(s))
  <2>1. SubSeq(s, 1, Len(s)) \in Seq(S) /\ SubSeq(t, 1, Len(s)) \in Seq(S)
    BY <1>1
  <2>2. Len(SubSeq(s, 1, Len(s))) = Len(s) /\ Len(SubSeq(t, 1, Len(s))) = Len(s)
    BY <1>1
  <2>3. \A j \in 1 .. Len(s) : SubSeq(s, 1, Len(s))[j] = s[j] /\ SubSeq(t, 1, Len(s))[j] = t[j]
    BY <1>1
  <2> QED
    BY <2>1, <2>2, <2>3, SameSeq
<1>3. IsPrefix(s, t)
  BY <1>2, Zenon DEF IsPrefix
<1>4. Len(s) = Len(t) => s = t
  BY SameSeq
<1> QED
  BY <1>3, <1>4

LEMMA FinishHolds ==
    ASSUME DiffInv, NEW asked \in Asked \X Asked \X Asked, Finish(asked)
    PROVE  DiffInv' /\ BudgetBoundsTheChunks' /\ OmissionsAreTold'
<1> DEFINE parsed == Flushed(current)
           limits == [files |-> Positive(asked[1], DefaultFiles), lines |-> Positive(asked[2], DefaultLines),
                      total |-> Positive(asked[3], DefaultTotal)]
           kept == KeptFiles(parsed, limits)
           told == kept.told \/ Len(parsed) > limits.files
<1>1. /\ git \in Place /\ truth \in Seq(TrueFile) /\ odd \in 0 .. MaxOdd /\ current \in Parser
      /\ files \in Seq(File) /\ InAFile /\ ParserFits(current) /\ \A i \in DOMAIN files : ChunksFit(files[i])
  BY DiffInvParts
<1>2. limits \in Limits
  <2>1. \A n \in Int : n > 0 => n \in Nat
    OBVIOUS
  <2>2. asked[1] \in Int /\ asked[2] \in Int /\ asked[3] \in Int
    BY BudgetsAreNumbers
  <2>3. DefaultFiles \in Nat /\ DefaultLines \in Nat /\ DefaultTotal \in Nat
    BY BudgetsAreNumbers
  <2> QED
    BY <2>1, <2>2, <2>3 DEF Limits, Positive
<1>3. parsed \in Seq(File) /\ \A i \in DOMAIN parsed : ChunksFit(parsed[i])
  BY <1>1, FlushedFacts
<1>4. /\ files' = parsed
      /\ current' = Start(NewFile(NoName, 0), FALSE)
      /\ context' = [done |-> TRUE, files |-> kept.files, total |-> kept.total, told |-> told, limits |-> limits]
      /\ UNCHANGED <<git, truth, odd>>
  BY Zenon DEF Finish
<1> HIDE DEF limits, parsed
<1>5. /\ kept \in FileAcc
      /\ kept.total <= limits.total
      /\ kept.total = Total([j \in DOMAIN kept.files |-> SizeOf(kept.files[j].chunks)])
      /\ Len(kept.files) <= limits.files /\ Len(kept.files) <= Len(parsed)
      /\ \A j \in DOMAIN kept.files :
            /\ Len(kept.files[j].added) <= limits.lines
            /\ Len(kept.files[j].removed) <= limits.lines
      /\ kept.told <=> \E j \in 1 .. Len(kept.files) : kept.files[j] # parsed[j]
      /\ Len(parsed) <= limits.files /\ Len(kept.files) # Len(parsed) => kept.total = limits.total
  BY <1>2, <1>3, KeptFilesFacts
<1> HIDE DEF kept
<1>6. /\ kept.files \in Seq(File) /\ kept.total \in Nat /\ kept.told \in BOOLEAN
      /\ Len(kept.files) \in Nat /\ Len(parsed) \in Nat /\ limits.files \in Nat
  BY <1>2, <1>3, <1>5 DEF FileAcc, Limits
<1>7. told \in BOOLEAN
  BY <1>6
<1>8. told => kept.files # parsed
  <2>1. CASE kept.told
    BY <1>5, <2>1
  <2>2. CASE Len(parsed) > limits.files
    BY <1>5, <1>6, <2>2
  <2> QED
    BY <2>1, <2>2
<1>9. ASSUME ~told
      PROVE  /\ IsPrefix(kept.files, parsed)
             /\ kept.files # parsed => kept.total = limits.total
  <2>1. \A j \in 1 .. Len(kept.files) : kept.files[j] = parsed[j]
    BY <1>5, <1>9
  <2>2. IsPrefix(kept.files, parsed) /\ (Len(kept.files) = Len(parsed) => kept.files = parsed)
    BY <1>3, <1>5, <1>6, <2>1, PrefixOf
  <2>3. Len(parsed) <= limits.files
    BY <1>6, <1>9
  <2> QED
    BY <1>5, <2>2, <2>3
<1> HIDE DEF told
<1>10. /\ context'.done /\ context'.files = kept.files /\ context'.total = kept.total
       /\ context'.told = told /\ context'.limits = limits
       /\ context' \in Shown
  BY <1>2, <1>4, <1>6, <1>7 DEF Limits, Shown
<1>11. current' \in Parser /\ ParserFits(current')
  BY <1>4, NothingStarts
<1>12. DiffInv'
  <2>1. InAFile'
    BY <1>1, <1>4 DEF InAFile
  <2> QED
    BY <1>1, <1>3, <1>4, <1>10, <1>11, <2>1, DiffInvPartsNext
<1>13. BudgetBoundsTheChunks'
  <2>1. context'.total = Total([j \in DOMAIN context'.files |-> SizeOf(context'.files[j].chunks)])
    BY <1>5, <1>10
  <2>2. \A i \in DOMAIN kept.files : \A change \in Changes : Len(kept.files[i][change]) <= limits.lines
    BY <1>5 DEF Changes
  <2> QED
    BY <1>5, <1>10, <2>1, <2>2 DEF BudgetBoundsTheChunks
<1>14. OmissionsAreTold'
  BY <1>4, <1>8, <1>9, <1>10 DEF OmissionsAreTold
<1> QED
  BY <1>12, <1>13, <1>14


-----------------------------------------------------------------------------
(* Theorems *)

LEMMA StepHolds ==
    DiffInv /\ BudgetBoundsTheChunks /\ OmissionsAreTold /\ [Next]_vars
        => DiffInv' /\ BudgetBoundsTheChunks' /\ OmissionsAreTold'
<1> SUFFICES ASSUME DiffInv, BudgetBoundsTheChunks, OmissionsAreTold, [Next]_vars
             PROVE  DiffInv' /\ BudgetBoundsTheChunks' /\ OmissionsAreTold'
  OBVIOUS
<1>1. ASSUME ~context.done, UNCHANGED context
      PROVE  BudgetBoundsTheChunks' /\ OmissionsAreTold'
  BY <1>1 DEF BudgetBoundsTheChunks, OmissionsAreTold
<1>2. ASSUME NEW header \in {"modified", "added", "deleted"}, NEW name \in Names \cup {NoName},
             OpenFile(header, name)
      PROVE  DiffInv' /\ BudgetBoundsTheChunks' /\ OmissionsAreTold'
  BY <1>1, <1>2, OpenFileHolds DEF OpenFile
<1>3. ASSUME OpenTextless
      PROVE  DiffInv' /\ BudgetBoundsTheChunks' /\ OmissionsAreTold'
  BY <1>1, <1>3, OpenTextlessHolds DEF OpenTextless
<1>4. ASSUME NEW gap \in Gaps, OpenHunk(gap)
      PROVE  DiffInv' /\ BudgetBoundsTheChunks' /\ OmissionsAreTold'
  BY <1>1, <1>4, OpenHunkHolds DEF OpenHunk
<1>5. ASSUME NEW kind \in Plain \cup Odd, ReadLine(kind)
      PROVE  DiffInv' /\ BudgetBoundsTheChunks' /\ OmissionsAreTold'
  BY <1>1, <1>5, ReadLineHolds DEF ReadLine, NextLine
<1>6. ASSUME NEW kind \in Odd, NEW name \in Names \cup {NoName}, ReadAsName(kind, name)
      PROVE  DiffInv' /\ BudgetBoundsTheChunks' /\ OmissionsAreTold'
  BY <1>1, <1>6, ReadAsNameHolds DEF ReadAsName, NextLine
<1>7. ASSUME Pieces
      PROVE  DiffInv' /\ BudgetBoundsTheChunks' /\ OmissionsAreTold'
  <2>1. NextPiece
    BY <1>7 DEF Pieces, PieceIsLine, PieceIsMode, PieceIsHunk, PieceIsName, PieceIsFile
  <2> QED
    BY <1>1, <1>7, <2>1, PieceHolds DEF NextPiece
<1>8. ASSUME NEW asked \in Asked \X Asked \X Asked, Finish(asked)
      PROVE  DiffInv' /\ BudgetBoundsTheChunks' /\ OmissionsAreTold'
  BY <1>8, FinishHolds
<1>9. CASE UNCHANGED vars
  BY <1>9 DEF vars, DiffInv, TypeOK, InAFile, ChunksAreOfTheirFile, BudgetBoundsTheChunks, OmissionsAreTold
<1> QED
  BY <1>2, <1>3, <1>4, <1>5, <1>6, <1>7, <1>8, <1>9, Zenon DEF Next

LEMMA DiffInvariant == Spec => [](DiffInv /\ BudgetBoundsTheChunks /\ OmissionsAreTold)
<1>1. Init => DiffInv /\ BudgetBoundsTheChunks /\ OmissionsAreTold
  <2>1. Init => ~context.done
    BY DEF Init, NoContext
  <2> QED
    BY <2>1, InitHolds DEF BudgetBoundsTheChunks, OmissionsAreTold
<1>2. DiffInv /\ BudgetBoundsTheChunks /\ OmissionsAreTold /\ [Next]_vars
        => (DiffInv /\ BudgetBoundsTheChunks /\ OmissionsAreTold)'
  BY StepHolds
<1> QED
  BY <1>1, <1>2, PTL DEF Spec

\* Every state of the reading is of its type: no line of a diff and no piece of
\* one, whatever parse_diff takes it for, makes a counter or a position that is
\* none.
THEOREM DiffTyped == Spec => []TypeOK
<1>1. DiffInv => TypeOK
  BY DEF DiffInv
<1> QED
  BY <1>1, DiffInvariant, PTL

\* However long the diff and whatever the review rules ask,
\* prune_diff_with_budget bounds the files, the lines of every list and the
\* lines of all chunks together, and reports how many these are.  It bounds no
\* more: nothing is said of the lists' lines in total.
THEOREM BudgetHolds == Spec => []BudgetBoundsTheChunks
BY DiffInvariant, PTL

\* A context that is not called truncated is the whole diff, or ends at the
\* file that filled the total to its last line.
THEOREM OmissionsTold == Spec => []OmissionsAreTold
BY DiffInvariant, PTL

-----------------------------------------------------------------------------
(* Sequences that grow *)

LEMMA ToSetGrows ==
    ASSUME NEW S, NEW s \in Seq(S), NEW x \in S
    PROVE  ToSet(Append(s, x)) = ToSet(s) \cup {x}
<1> DEFINE t == Append(s, x)
<1>1. /\ DOMAIN t = 1 .. Len(s) + 1 /\ DOMAIN s = 1 .. Len(s) /\ Len(s) \in Nat
      /\ t[Len(s) + 1] = x /\ \A j \in 1 .. Len(s) : t[j] = s[j]
  OBVIOUS
<1>2. \A j : j \in 1 .. Len(s) + 1 <=> j \in 1 .. Len(s) \/ j = Len(s) + 1
  BY <1>1
<1> HIDE DEF t
<1>3. \A y : y \in ToSet(t) <=> y \in ToSet(s) \/ y = x
  BY <1>1, <1>2, Zenon DEF ToSet
<1> QED
  BY <1>3, Zenon DEF t

\* The changed lines of one kind.
Count(lines, change) == Cardinality({j \in DOMAIN lines : lines[j].change = change})

LEMMA CountGrows ==
    ASSUME NEW lines \in Seq(TrueLine), NEW it \in TrueLine, NEW change
    PROVE  /\ Count(lines, change) \in Nat
           /\ Count(Append(lines, it), change)
                 = IF it.change = change THEN Count(lines, change) + 1 ELSE Count(lines, change)
<1> DEFINE n == Len(lines)
           more == Append(lines, it)
           S == {j \in DOMAIN lines : lines[j].change = change}
           T == {j \in DOMAIN more : more[j].change = change}
<1>1. /\ n \in Nat /\ DOMAIN lines = 1 .. n /\ DOMAIN more = 1 .. n + 1
      /\ more[n + 1] = it /\ \A j \in 1 .. n : more[j] = lines[j]
  OBVIOUS
<1> HIDE DEF n, more
<1>2. IsFiniteSet(S)
  <2>1. IsFiniteSet(1 .. n)
    BY <1>1, FS_Interval
  <2> QED
    BY <1>1, <2>1, FS_Subset
<1>3. \A j : j \in 1 .. n + 1 <=> j \in 1 .. n \/ j = n + 1
  BY <1>1
<1>4. n + 1 \notin S
  BY <1>1
<1>5. T = IF it.change = change THEN S \cup {n + 1} ELSE S
  BY <1>1, <1>3
<1>6. Cardinality(S) \in Nat
  BY <1>2, FS_CardinalityType
<1>7. Cardinality(S \cup {n + 1}) = Cardinality(S) + 1
  BY <1>2, <1>4, FS_AddElement
<1> HIDE DEF S, T
<1> QED
  BY <1>5, <1>6, <1>7 DEF Count, S, T, more

LEMMA ConcatGrows ==
    ASSUME NEW S, NEW s \in Seq(S), NEW t \in Seq(S), NEW x \in S
    PROVE  s \o Append(t, x) = Append(s \o t, x)
<1> DEFINE u == s \o Append(t, x)
           v == Append(s \o t, x)
<1>1. Len(s) \in Nat /\ Len(t) \in Nat
  OBVIOUS
<1>2. u \in Seq(S) /\ Len(u) = Len(s) + Len(t) + 1
  OBVIOUS
<1>3. v \in Seq(S) /\ Len(v) = Len(s) + Len(t) + 1
  OBVIOUS
<1>4. ASSUME NEW i \in 1 .. Len(s) + Len(t) + 1 PROVE u[i] = v[i]
  BY <1>1
<1> HIDE DEF u, v
<1>5. u = v
  BY <1>2, <1>3, <1>4, SameSeq
<1> QED
  BY <1>5 DEF u, v

\* The values of the function that FlattenSeq chooses.
LEMMA FlattenRun ==
    ASSUME NEW S, NEW seqs \in Seq(Seq(S)), Len(seqs) # 0
    PROVE  \E f \in [1 .. Len(seqs) -> Seq(S)] :
              /\ \A i \in 1 .. Len(seqs) : f[i] = IF i = 1 THEN seqs[i] ELSE f[i - 1] \o seqs[i]
              /\ f[Len(seqs)] = FlattenSeq(seqs)
<1> DEFINE n == Len(seqs)
           eqn(h) == h = [i \in 1 .. n |-> IF i = 1 THEN seqs[i] ELSE h[i - 1] \o seqs[i]]
           g == CHOOSE h : eqn(h)
           Good(k, h) == /\ h \in [1 .. k -> Seq(S)]
                         /\ \A i \in 1 .. k : h[i] = IF i = 1 THEN seqs[i] ELSE h[i - 1] \o seqs[i]
<1>1. n \in Nat /\ n # 0 /\ \A i \in 1 .. n : seqs[i] \in Seq(S)
  OBVIOUS
<1>2. FlattenSeq(seqs) = g[n]
  BY Zenon DEF FlattenSeq
<1> HIDE DEF n, g
<1> DEFINE T == {k \in 0 .. n : \E h : Good(k, h)}
<1>3. 0 \in T
  <2> DEFINE h == [i \in 1 .. 0 |-> <<>>]
  <2>1. 1 .. 0 = {}
    OBVIOUS
  <2>2. Good(0, h)
    BY <2>1
  <2> HIDE DEF Good
  <2> QED
    BY <1>1, <2>2
<1>4. ASSUME NEW k \in 1 .. n, k - 1 \in T PROVE k \in T
  <2>1. PICK h : Good(k - 1, h)
    BY <1>4
  <2> DEFINE value == IF k = 1 THEN seqs[k] ELSE h[k - 1] \o seqs[k]
             f == [i \in 1 .. k |-> IF i = k THEN value ELSE h[i]]
  <2>2. k \in Nat /\ k # 0 /\ seqs[k] \in Seq(S)
    BY <1>1
  <2>3. value \in Seq(S)
    <3>1. CASE k = 1
      BY <2>2, <3>1
    <3>2. CASE k # 1
      <4>1. h[k - 1] \in Seq(S)
        BY <2>1, <2>2, <3>2
      <4> QED
        BY <2>2, <3>2, <4>1
    <3> QED
      BY <3>1, <3>2
  <2>4. f \in [1 .. k -> Seq(S)]
    <3> HIDE DEF value
    <3>1. \A i \in 1 .. k : i # k => i \in 1 .. k - 1
      BY <2>2
    <3> QED
      BY <2>1, <2>3, <3>1
  <2>5. ASSUME NEW i \in 1 .. k
        PROVE  f[i] = IF i = 1 THEN seqs[i] ELSE f[i - 1] \o seqs[i]
    <3>1. CASE i = k
      <4>1. i # 1 => f[i - 1] = h[i - 1]
        BY <2>2, <3>1
      <4> QED
        BY <3>1, <4>1
    <3>2. CASE i # k
      <4>1. i \in 1 .. k - 1 /\ f[i] = h[i]
        BY <2>2, <3>2
      <4>2. i # 1 => f[i - 1] = h[i - 1]
        BY <2>2, <4>1
      <4> QED
        BY <2>1, <4>1, <4>2
    <3> QED
      BY <3>1, <3>2
  <2> HIDE DEF f
  <2>6. Good(k, f)
    BY <2>4, <2>5
  <2> HIDE DEF Good
  <2> QED
    BY <1>1, <2>6
<1> HIDE DEF T
<1>5. n \in T
  <2>1. 0 .. n \subseteq T
    BY <1>1, <1>3, <1>4, UpToInduct
  <2> QED
    BY <1>1, <2>1
<1>6. PICK h : Good(n, h)
  BY <1>5 DEF T
<1>7. eqn(h)
  BY <1>6
<1>8. eqn(g)
  <2> HIDE DEF eqn
  <2> QED
    BY <1>7 DEF g
<1>9. \A i \in 1 .. n : g[i] = IF i = 1 THEN seqs[i] ELSE g[i - 1] \o seqs[i]
  BY <1>8
<1> DEFINE U == {i \in 0 .. n : i # 0 => g[i] \in Seq(S)}
<1>10. 0 \in U
  BY <1>1
<1>11. ASSUME NEW i \in 1 .. n, i - 1 \in U PROVE i \in U
  <2>1. CASE i = 1
    BY <1>1, <1>9, <2>1
  <2>2. CASE i # 1
    <3>1. g[i - 1] \in Seq(S) /\ seqs[i] \in Seq(S)
      BY <1>1, <1>11, <2>2
    <3>2. g[i] = g[i - 1] \o seqs[i]
      BY <1>9, <2>2
    <3>3. \A a, b \in Seq(S) : a \o b \in Seq(S)
      OBVIOUS
    <3>4. g[i] \in Seq(S)
      BY <3>1, <3>2, <3>3, Zenon
    <3> QED
      BY <3>4
  <2> QED
    BY <2>1, <2>2
<1> HIDE DEF U
<1>12. 0 .. n \subseteq U
  BY <1>1, <1>10, <1>11, UpToInduct
<1>13. g \in [1 .. n -> Seq(S)]
  <2>1. \A i \in 1 .. n : g[i] \in Seq(S)
    BY <1>1, <1>12 DEF U
  <2>2. g = [i \in 1 .. n |-> g[i]]
    BY <1>8
  <2> QED
    BY <2>1, <2>2
<1> QED
  BY <1>2, <1>9, <1>13 DEF n

LEMMA FlattenFacts ==
    ASSUME NEW S, NEW seqs \in Seq(Seq(S))
    PROVE  /\ FlattenSeq(seqs) \in Seq(S)
           /\ Len(seqs) = 0 => FlattenSeq(seqs) = <<>>
           /\ \A s \in Seq(S) : FlattenSeq(Append(seqs, s)) = FlattenSeq(seqs) \o s
<1>1. Len(seqs) \in Nat /\ (Len(seqs) = 0 => seqs = <<>>)
  OBVIOUS
<1>2. Len(seqs) = 0 => FlattenSeq(seqs) = <<>>
  BY <1>1, Zenon DEF FlattenSeq
<1>3. FlattenSeq(seqs) \in Seq(S)
  <2>1. CASE Len(seqs) = 0
    <3>1. <<>> \in Seq(S)
      OBVIOUS
    <3> QED
      BY <1>2, <2>1, <3>1, Zenon
  <2>2. CASE Len(seqs) # 0
    <3>1. PICK f \in [1 .. Len(seqs) -> Seq(S)] : f[Len(seqs)] = FlattenSeq(seqs)
      BY <2>2, FlattenRun
    <3>2. Len(seqs) \in 1 .. Len(seqs)
      BY <1>1, <2>2
    <3> QED
      BY <3>1, <3>2
  <2> QED
    BY <2>1, <2>2
<1>4. ASSUME NEW s \in Seq(S) PROVE FlattenSeq(Append(seqs, s)) = FlattenSeq(seqs) \o s
  <2> DEFINE n == Len(seqs)
             more == Append(seqs, s)
  <2>1. /\ more \in Seq(Seq(S)) /\ Len(more) = n + 1 /\ more[n + 1] = s
        /\ \A i \in 1 .. n : more[i] = seqs[i]
    OBVIOUS
  <2> HIDE DEF n, more
  <2>2. PICK g \in [1 .. n + 1 -> Seq(S)] :
           /\ \A i \in 1 .. n + 1 : g[i] = IF i = 1 THEN more[i] ELSE g[i - 1] \o more[i]
           /\ g[n + 1] = FlattenSeq(more)
    <3>1. Len(more) # 0
      BY <1>1, <2>1 DEF n
    <3>2. \E g \in [1 .. Len(more) -> Seq(S)] :
             /\ \A i \in 1 .. Len(more) : g[i] = IF i = 1 THEN more[i] ELSE g[i - 1] \o more[i]
             /\ g[Len(more)] = FlattenSeq(more)
      BY <2>1, <3>1, FlattenRun, Zenon
    <3> QED
      BY <2>1, <3>2, Zenon
  <2>3. CASE n = 0
    <3>1. FlattenSeq(more) = s
      BY <2>1, <2>2, <2>3
    <3>2. <<>> \o s = s
      OBVIOUS
    <3> QED
      BY <1>2, <2>3, <3>1, <3>2 DEF n, more
  <2>4. CASE n # 0
    <3>1. PICK f \in [1 .. n -> Seq(S)] :
             /\ \A i \in 1 .. n : f[i] = IF i = 1 THEN seqs[i] ELSE f[i - 1] \o seqs[i]
             /\ f[n] = FlattenSeq(seqs)
      BY <2>4, FlattenRun DEF n
    <3> DEFINE T == {i \in 0 .. n : i # 0 => f[i] = g[i]}
    <3>2. 0 \in T
      BY <1>1 DEF n
    <3>3. ASSUME NEW i \in 1 .. n, i - 1 \in T PROVE i \in T
      <4>1. i \in 0 .. n /\ i \in 1 .. n + 1
        BY <1>1 DEF n
      <4>2. CASE i = 1
        <5>1. f[i] = g[i]
          BY <2>1, <2>2, <3>1, <4>1, <4>2
        <5> QED
          BY <4>1, <5>1
      <4>3. CASE i # 1
        <5>1. f[i - 1] = g[i - 1]
          BY <1>1, <3>3, <4>3 DEF n
        <5>2. f[i] = f[i - 1] \o seqs[i] /\ g[i] = g[i - 1] \o more[i] /\ more[i] = seqs[i]
          BY <2>1, <2>2, <3>1, <4>1, <4>3
        <5>3. f[i] = g[i]
          BY <5>1, <5>2, Zenon
        <5> QED
          BY <4>1, <5>3
      <4> QED
        BY <4>2, <4>3
    <3> HIDE DEF T
    <3>4. 0 .. n \subseteq T
      BY <1>1, <3>2, <3>3, UpToInduct DEF n
    <3>5. g[n] = FlattenSeq(seqs)
      BY <1>1, <2>4, <3>1, <3>4, SMTT(20) DEF n, T
    <3>6. g[n + 1] = g[n] \o s
      <4>1. n + 1 \in 1 .. n + 1 /\ n + 1 # 1 /\ (n + 1) - 1 = n
        BY <1>1, <2>4 DEF n
      <4> QED
        BY <2>1, <2>2, <4>1
    <3> QED
      BY <2>2, <3>5, <3>6 DEF more
  <2> QED
    BY <2>3, <2>4
<1> QED
  BY <1>2, <1>3, <1>4

-----------------------------------------------------------------------------
(* What a file that is parsed says of its lines *)

Flat(chunks, change) == FlattenSeq([c \in DOMAIN chunks |-> chunks[c][change]])

Reported(position, hunk) == position - HeadersBefore(hunk)

Known(details, t) ==
    \E d \in ToSet(details) : d.line = t.line /\ (t.placed => d.position = Reported(t.position, t.hunk))

Sound(lines) == \A t \in ToSet(lines) : t.numbered

\* What ParsedIsTrue says of a file; and that the lines of one without odd
\* lines and pieces are all true.
FileIsTrue(file, lines, rests) ==
    /\ \A t \in ToSet(lines) : t.numbered => Known(file[t.change], t)
    /\ \A change \in Changes : Len(file[change]) <= Count(lines, change) + rests

FileIsBacked(file, lines, rests) ==
    Sound(lines) /\ rests = 0 =>
        \A change \in Changes : \A d \in ToSet(file[change]) : \E t \in ToSet(lines) :
            /\ t.change = change
            /\ t.line = d.line
            /\ d.position = Reported(t.position, t.hunk)

ChunksAreTrue(file) == \A change \in Changes : Flat(file.chunks, change) = file[change]

LEMMA FieldsTyped ==
    ASSUME NEW part, part \in Chunk \/ part \in File, NEW change \in Changes
    PROVE  part[change] \in Seq(Detail) /\ Len(part[change]) \in Nat
<1>1. part["added"] \in Seq(Detail) /\ part["removed"] \in Seq(Detail)
  BY DEF Chunk, File
<1>2. change = "added" \/ change = "removed"
  BY DEF Changes
<1>3. part[change] \in Seq(Detail)
  BY <1>1, <1>2
<1> QED
  BY <1>3

LEMMA FlatGrows ==
    ASSUME NEW chunks \in Seq(Chunk), NEW chunk \in Chunk, NEW change \in Changes
    PROVE  /\ Flat(chunks, change) \in Seq(Detail)
           /\ Len(chunks) = 0 => Flat(chunks, change) = <<>>
           /\ Flat(Append(chunks, chunk), change) = Flat(chunks, change) \o chunk[change]
<1> DEFINE n == Len(chunks)
           seqs == [c \in DOMAIN chunks |-> chunks[c][change]]
           more == Append(chunks, chunk)
           moreSeqs == [c \in DOMAIN more |-> more[c][change]]
<1>1. \A c \in Chunk : c[change] \in Seq(Detail)
  BY FieldsTyped
<1>2. /\ n \in Nat /\ DOMAIN chunks = 1 .. n /\ \A c \in 1 .. n : chunks[c] \in Chunk
      /\ DOMAIN more = 1 .. n + 1 /\ more[n + 1] = chunk /\ \A c \in 1 .. n : more[c] = chunks[c]
  OBVIOUS
<1> HIDE DEF n, more
<1>3. seqs \in Seq(Seq(Detail)) /\ Len(seqs) = n
  BY <1>1, <1>2
<1>4. moreSeqs \in Seq(Seq(Detail)) /\ Len(moreSeqs) = n + 1
  <2>1. \A c \in 1 .. n + 1 : more[c] \in Chunk
    BY <1>2
  <2> QED
    BY <1>1, <1>2, <2>1
<1>5. chunk[change] \in Seq(Detail)
  BY <1>1
<1>6. moreSeqs = Append(seqs, chunk[change])
  <2>1. /\ Append(seqs, chunk[change]) \in Seq(Seq(Detail)) /\ Len(Append(seqs, chunk[change])) = n + 1
        /\ Append(seqs, chunk[change])[n + 1] = chunk[change]
        /\ \A c \in 1 .. n : Append(seqs, chunk[change])[c] = chunks[c][change]
    BY <1>2, <1>3, <1>5
  <2>2. \A c \in 1 .. n + 1 : moreSeqs[c] = Append(seqs, chunk[change])[c]
    BY <1>2, <2>1
  <2> HIDE DEF seqs, moreSeqs
  <2> QED
    BY <1>4, <2>1, <2>2, SameSeq
<1>7. Flat(chunks, change) = FlattenSeq(seqs)
  BY Zenon DEF Flat
<1>8. Flat(more, change) = FlattenSeq(moreSeqs)
  BY Zenon DEF Flat
<1> HIDE DEF seqs, moreSeqs
<1> QED
  BY <1>3, <1>5, <1>6, <1>7, <1>8, FlattenFacts DEF n, more

\* A chunk that is not open holds nothing.
LEMMA FlatOfWithChunk ==
    ASSUME NEW c \in Parser, ParserFits(c), NEW change \in Changes
    PROVE  /\ Flat(c.file.chunks, change) \in Seq(Detail) /\ c.chunk[change] \in Seq(Detail)
           /\ Flat(WithChunk(c).chunks, change) = Flat(c.file.chunks, change) \o c.chunk[change]
<1> DEFINE flat == Flat(c.file.chunks, change)
           chunk == c.chunk[change]
<1>1. c.file.chunks \in Seq(Chunk) /\ c.chunk \in Chunk
  BY DEF Parser, File
<1>2. flat \in Seq(Detail) /\ chunk \in Seq(Detail)
  BY <1>1, FieldsTyped, FlatGrows
<1>3. CASE c.inChunk
  <2>1. WithChunk(c).chunks = Append(c.file.chunks, c.chunk)
    BY <1>3, WithChunkFacts
  <2> QED
    BY <1>1, <1>2, <2>1, FlatGrows
<1>4. CASE ~c.inChunk
  <2>1. WithChunk(c).chunks = c.file.chunks
    BY <1>4 DEF WithChunk
  <2>2. chunk = <<>>
    BY <1>4, EmptyChunkFacts DEF ParserFits, Changes
  <2> HIDE DEF flat, chunk
  <2>3. flat \o chunk = flat
    BY <1>2, <2>2
  <2> QED
    BY <1>2, <2>1, <2>3 DEF flat, chunk
<1> QED
  BY <1>3, <1>4

\* A step that changes no list of lines leaves the chunks true.
LEMMA ChunksCarry ==
    ASSUME NEW c \in Parser, ParserFits(c), NEW r \in Parser, ParserFits(r), ChunksAreTrue(WithChunk(c)),
           r.file.chunks = c.file.chunks,
           \A change \in Changes : r.file[change] = c.file[change] /\ r.chunk[change] = c.chunk[change]
    PROVE  ChunksAreTrue(WithChunk(r)) /\ \A change \in Changes : WithChunk(r)[change] = WithChunk(c)[change]
<1>1. ASSUME NEW change \in Changes
      PROVE  WithChunk(r)[change] = WithChunk(c)[change] /\ Flat(WithChunk(r).chunks, change) = WithChunk(r)[change]
  <2>1. WithChunk(r)[change] = r.file[change] /\ WithChunk(c)[change] = c.file[change]
    BY WithChunkFacts
  <2>2. /\ Flat(WithChunk(c).chunks, change) = Flat(c.file.chunks, change) \o c.chunk[change]
        /\ Flat(WithChunk(r).chunks, change) = Flat(r.file.chunks, change) \o r.chunk[change]
    BY FlatOfWithChunk
  <2>3. Flat(WithChunk(c).chunks, change) = WithChunk(c)[change]
    BY DEF ChunksAreTrue
  <2> QED
    BY <2>1, <2>2, <2>3
<1> QED
  BY <1>1 DEF ChunksAreTrue

LEMMA OpenChunkCarries ==
    ASSUME NEW c \in Parser, ParserFits(c), NEW old \in Nat \cup {None}, NEW new \in Nat \cup {None},
           ChunksAreTrue(WithChunk(c))
    PROVE  LET r == OpenChunk(c, old, new)
           IN  ChunksAreTrue(WithChunk(r)) /\ \A change \in Changes : WithChunk(r)[change] = WithChunk(c)[change]
<1> DEFINE r == OpenChunk(c, old, new)
<1>1. r \in Parser /\ ParserFits(r) /\ r.file = WithChunk(c) /\ r.chunk = EmptyChunk
  BY OpenChunkFacts
<1> HIDE DEF r
<1>2. ASSUME NEW change \in Changes
      PROVE  WithChunk(r)[change] = WithChunk(c)[change] /\ Flat(WithChunk(r).chunks, change) = WithChunk(r)[change]
  <2>1. WithChunk(r)[change] = WithChunk(c)[change]
    BY <1>1, WithChunkFacts
  <2>2. /\ Flat(WithChunk(c).chunks, change) \in Seq(Detail)
        /\ Flat(WithChunk(r).chunks, change) = Flat(WithChunk(c).chunks, change) \o EmptyChunk[change]
    BY <1>1, FlatOfWithChunk
  <2>3. EmptyChunk[change] = <<>>
    BY EmptyChunkFacts DEF Changes
  <2>4. \A s \in Seq(Detail) : s \o <<>> = s
    OBVIOUS
  <2>5. Flat(WithChunk(c).chunks, change) = WithChunk(c)[change]
    BY DEF ChunksAreTrue
  <2> QED
    BY <2>1, <2>2, <2>3, <2>4, <2>5
<1> QED
  BY <1>2 DEF ChunksAreTrue, r

LEMMA ReadCarries ==
    ASSUME NEW c \in Parser, ParserFits(c), NEW branch, ChunksAreTrue(WithChunk(c))
    PROVE  LET r == Read(c, branch)
           IN  /\ ChunksAreTrue(WithChunk(r))
               /\ \A change \in Changes :
                     WithChunk(r)[change] = IF change = branch THEN Append(WithChunk(c)[change], Appended(c, branch))
                                                               ELSE WithChunk(c)[change]
<1> DEFINE r == Read(c, branch)
           d == Appended(c, branch)
<1>1. /\ r \in Parser /\ d \in Detail /\ r.file.chunks = c.file.chunks
      /\ \A x \in Changes :
            /\ r.file[x] = IF x = branch THEN Append(c.file[x], d) ELSE c.file[x]
            /\ r.chunk[x] = IF x = branch THEN Append(c.chunk[x], d) ELSE c.chunk[x]
  BY ReadFacts
<1>2. ParserFits(r)
  BY ReadFits
<1> HIDE DEF r, d
<1>3. ASSUME NEW change \in Changes
      PROVE  /\ WithChunk(r)[change] = IF change = branch THEN Append(WithChunk(c)[change], d) ELSE WithChunk(c)[change]
             /\ Flat(WithChunk(r).chunks, change) = WithChunk(r)[change]
  <2> DEFINE flat == Flat(c.file.chunks, change)
             chunk == c.chunk[change]
  <2>1. WithChunk(r)[change] = r.file[change] /\ WithChunk(c)[change] = c.file[change]
    BY <1>1, <1>2, WithChunkFacts
  <2>2. /\ flat \in Seq(Detail) /\ chunk \in Seq(Detail)
        /\ Flat(WithChunk(c).chunks, change) = flat \o chunk
        /\ Flat(WithChunk(r).chunks, change) = flat \o r.chunk[change]
    BY <1>1, <1>2, FlatOfWithChunk
  <2>3. Flat(WithChunk(c).chunks, change) = WithChunk(c)[change]
    BY DEF ChunksAreTrue
  <2>4. r.chunk[change] = IF change = branch THEN Append(chunk, d) ELSE chunk
    BY <1>1
  <2>5. r.file[change] = IF change = branch THEN Append(c.file[change], d) ELSE c.file[change]
    BY <1>1
  <2> HIDE DEF flat, chunk
  <2>6. flat \o Append(chunk, d) = Append(flat \o chunk, d)
    BY <1>1, <2>2, ConcatGrows
  <2> QED
    BY <2>1, <2>2, <2>3, <2>4, <2>5, <2>6
<1> QED
  BY <1>3 DEF ChunksAreTrue, r, d

\* A file in which nothing has been read yet.
LEMMA NothingRead ==
    ASSUME NEW name \in Names \cup {NoName}, NEW of \in Nat
    PROVE  LET file == NewFile(name, of)
           IN  FileIsTrue(file, <<>>, 0) /\ FileIsBacked(file, <<>>, 0) /\ ChunksAreTrue(file)
<1> DEFINE file == NewFile(name, of)
<1>1. file.chunks = <<>> /\ file["added"] = <<>> /\ file["removed"] = <<>>
  BY NewFileFacts
<1>2. \A change \in Changes : file[change] = <<>>
  BY <1>1 DEF Changes
<1> HIDE DEF file
<1>3. ToSet(<<>>) = {} /\ Len(<<>>) = 0
  BY DEF ToSet
<1>4. \A change : Count(<<>>, change) \in Nat
  <2>1. \A change : {j \in DOMAIN <<>> : <<>>[j].change = change} = {}
    OBVIOUS
  <2> QED
    BY <2>1, FS_EmptySet DEF Count
<1>5. FileIsTrue(file, <<>>, 0)
  <2>1. \A n \in Nat : 0 <= n + 0
    OBVIOUS
  <2> QED
    BY <1>2, <1>3, <1>4, <2>1, Zenon DEF FileIsTrue
<1>6. FileIsBacked(file, <<>>, 0)
  BY <1>2, <1>3, Zenon DEF FileIsBacked
<1>7. ChunksAreTrue(file)
  <2>1. \A change \in Changes : Flat(<<>>, change) = <<>>
    <3>1. <<>> \in Seq(Chunk) /\ EmptyChunk \in Chunk
      BY EmptyChunkFacts
    <3> QED
      BY <1>3, <3>1, FlatGrows
  <2> QED
    BY <1>1, <1>2, <2>1, Zenon DEF ChunksAreTrue
<1> QED
  BY <1>5, <1>6, <1>7 DEF file

\* A changed line is read, and known.
LEMMA LineIsKnown ==
    ASSUME NEW file \in File, NEW more \in File, NEW lines \in Seq(TrueLine), NEW it \in TrueLine,
           NEW d \in Detail, NEW rests \in Nat, FileIsTrue(file, lines, rests),
           FileIsBacked(file, lines, rests), rests = 0 => it.placed,
           \A change \in Changes :
              more[change] = IF change = it.change THEN Append(file[change], d) ELSE file[change],
           it.numbered => d.line = it.line,
           it.placed => d.position = Reported(it.position, it.hunk)
    PROVE  FileIsTrue(more, Append(lines, it), rests) /\ FileIsBacked(more, Append(lines, it), rests)
<1> DEFINE now == Append(lines, it)
<1>1. ToSet(now) = ToSet(lines) \cup {it} /\ \A t \in ToSet(now) : t \in TrueLine
  <2>1. ToSet(now) = ToSet(lines) \cup {it}
    BY ToSetGrows
  <2>2. \A t \in ToSet(lines) : t \in TrueLine
    BY DEF ToSet
  <2> QED
    BY <2>1, <2>2
<1>2. \A t \in TrueLine : t.change \in Changes
  BY DEF TrueLine, Changes
<1>3. \A change \in Changes :
         ToSet(more[change]) = IF change = it.change THEN ToSet(file[change]) \cup {d} ELSE ToSet(file[change])
  <2>1. \A change \in Changes : ToSet(Append(file[change], d)) = ToSet(file[change]) \cup {d}
    BY FieldsTyped, ToSetGrows
  <2> QED
    BY <2>1
<1> HIDE DEF now
<1>4. ASSUME NEW t \in ToSet(now), t.numbered PROVE Known(more[t.change], t)
  <2>1. CASE t \in ToSet(lines)
    <3>1. Known(file[t.change], t)
      BY <1>4, <2>1 DEF FileIsTrue
    <3>2. \A x \in ToSet(file[t.change]) : x \in ToSet(more[t.change])
      BY <1>1, <1>2, <1>3
    <3> QED
      BY <3>1, <3>2, Zenon DEF Known
  <2>2. CASE t = it
    <3>1. d \in ToSet(more[it.change])
      BY <1>2, <1>3
    <3>2. d.line = it.line
      BY <1>4, <2>2
    <3>3. Known(more[it.change], it)
      BY <3>1, <3>2, Zenon DEF Known
    <3> QED
      BY <2>2, <3>3
  <2> QED
    BY <1>1, <2>1, <2>2
<1>5. ASSUME NEW change \in Changes PROVE Len(more[change]) <= Count(now, change) + rests
  <2>1. Len(file[change]) <= Count(lines, change) + rests
    BY DEF FileIsTrue
  <2>2. /\ Count(lines, change) \in Nat
        /\ Count(now, change) = IF it.change = change THEN Count(lines, change) + 1 ELSE Count(lines, change)
    BY CountGrows DEF now
  <2>3. file[change] \in Seq(Detail) /\ Len(file[change]) \in Nat
    BY FieldsTyped
  <2>4. CASE change = it.change
    <3>1. Len(more[change]) = Len(file[change]) + 1
      <4>1. more[change] = Append(file[change], d)
        BY <2>4, Zenon
      <4>2. \A s \in Seq(Detail) : Len(Append(s, d)) = Len(s) + 1
        OBVIOUS
      <4> QED
        BY <2>3, <4>1, <4>2, Zenon
    <3> QED
      BY <2>1, <2>2, <2>3, <2>4, <3>1
  <2>5. CASE change # it.change
    BY <2>1, <2>2, <2>5
  <2> QED
    BY <2>4, <2>5
<1>6. ASSUME Sound(now), rests = 0, NEW change \in Changes, NEW x \in ToSet(more[change])
      PROVE  \E t \in ToSet(now) :
                t.change = change /\ t.line = x.line /\ x.position = Reported(t.position, t.hunk)
  <2>1. CASE x \in ToSet(file[change])
    <3>1. Sound(lines)
      BY <1>1, <1>6, Zenon DEF Sound
    <3>2. PICK t \in ToSet(lines) :
             t.change = change /\ t.line = x.line /\ x.position = Reported(t.position, t.hunk)
      BY <1>6, <2>1, <3>1, Zenon DEF FileIsBacked
    <3> QED
      BY <1>1, <3>2, Zenon
  <2>2. CASE x = d /\ change = it.change
    <3>1. it \in ToSet(now) /\ it.numbered /\ it.placed
      BY <1>1, <1>6 DEF Sound
    <3> QED
      BY <2>2, <3>1, Zenon
  <2>3. x \in ToSet(file[change]) \/ (x = d /\ change = it.change)
    <3>1. x \in ToSet(more[change])
      BY <1>6
    <3>2. ToSet(more[change]) = IF change = it.change THEN ToSet(file[change]) \cup {d} ELSE ToSet(file[change])
      BY <1>3, <1>6
    <3> QED
      BY <3>1, <3>2, Zenon
  <2> QED
    BY <2>1, <2>2, <2>3, Zenon
<1> QED
  BY <1>4, <1>5, <1>6 DEF FileIsTrue, FileIsBacked, now

\* A changed line is missed.
LEMMA LineIsMissed ==
    ASSUME NEW file \in File, NEW lines \in Seq(TrueLine), NEW it \in TrueLine, NEW rests \in Nat,
           FileIsTrue(file, lines, rests), ~it.numbered
    PROVE  FileIsTrue(file, Append(lines, it), rests) /\ FileIsBacked(file, Append(lines, it), rests)
<1>1. ToSet(Append(lines, it)) = ToSet(lines) \cup {it}
  BY ToSetGrows
<1>2. FileIsBacked(file, Append(lines, it), rests)
  BY <1>1 DEF FileIsBacked, Sound
<1>3. \A t \in ToSet(Append(lines, it)) : t.numbered => Known(file[t.change], t)
  BY <1>1 DEF FileIsTrue
<1>4. ASSUME NEW change \in Changes PROVE Len(file[change]) <= Count(Append(lines, it), change) + rests
  <2>1. Len(file[change]) <= Count(lines, change) + rests /\ Len(file[change]) \in Nat
    BY FieldsTyped DEF FileIsTrue
  <2>2. /\ Count(lines, change) \in Nat
        /\ Count(Append(lines, it), change) \in {Count(lines, change), Count(lines, change) + 1}
    BY CountGrows
  <2> QED
    BY <2>1, <2>2
<1> QED
  BY <1>2, <1>3, <1>4 DEF FileIsTrue

LEMMA CountIsNat ==
    ASSUME NEW lines \in Seq(TrueLine), NEW change
    PROVE  Count(lines, change) \in Nat
<1> DEFINE S == {j \in DOMAIN lines : lines[j].change = change}
<1>1. IsFiniteSet(1 .. Len(lines))
  <2>1. Len(lines) \in Nat
    OBVIOUS
  <2> QED
    BY <2>1, FS_Interval
<1>2. S \subseteq 1 .. Len(lines)
  OBVIOUS
<1> HIDE DEF S
<1>3. Cardinality(S) \in Nat
  BY <1>1, <1>2, FS_Subset, FS_CardinalityType
<1> QED
  BY <1>3 DEF Count, S

\* The list of this change, if it is one, has a line more.
Grown(more, file, branch, d) ==
    \A change \in Changes : more[change] = IF change = branch THEN Append(file[change], d) ELSE file[change]

\* A piece is read, as a line or not.
LEMMA PieceIsRead ==
    ASSUME NEW file \in File, NEW more, NEW lines \in Seq(TrueLine), NEW rests \in Nat,
           NEW d \in Detail, NEW branch, FileIsTrue(file, lines, rests), Grown(more, file, branch, d)
    PROVE  FileIsTrue(more, lines, rests + 1) /\ FileIsBacked(more, lines, rests + 1)
<1>1. \A t \in ToSet(lines) : t.change \in Changes
  <2>1. \A t \in ToSet(lines) : t \in TrueLine
    BY DEF ToSet
  <2> QED
    BY <2>1 DEF TrueLine, Changes
<1>2. ASSUME NEW change \in Changes
      PROVE  /\ \A x \in ToSet(file[change]) : x \in ToSet(more[change])
             /\ Len(more[change]) <= Count(lines, change) + (rests + 1)
  <2>1. file[change] \in Seq(Detail) /\ Len(file[change]) \in Nat
    BY FieldsTyped
  <2>2. Len(file[change]) <= Count(lines, change) + rests /\ Count(lines, change) \in Nat
    <3>1. Count(lines, change) \in Nat
      BY CountIsNat
    <3> QED
      BY <3>1 DEF FileIsTrue
  <2>3. ToSet(Append(file[change], d)) = ToSet(file[change]) \cup {d}
    BY <2>1, ToSetGrows
  <2>4. Len(Append(file[change], d)) = Len(file[change]) + 1
    BY <2>1, DetailAppended
  <2>5. more[change] = Append(file[change], d) \/ more[change] = file[change]
    BY Zenon DEF Grown
  <2>6. \A x \in ToSet(file[change]) : x \in ToSet(more[change])
    BY <2>3, <2>5
  <2>7. Len(more[change]) \in {Len(file[change]), Len(file[change]) + 1}
    BY <2>4, <2>5
  <2> QED
    BY <2>1, <2>2, <2>6, <2>7
<1>3. ASSUME NEW t \in ToSet(lines), t.numbered PROVE Known(more[t.change], t)
  <2>1. Known(file[t.change], t)
    BY <1>3 DEF FileIsTrue
  <2> QED
    BY <1>1, <1>2, <2>1, Zenon DEF Known
<1>4. rests + 1 # 0
  OBVIOUS
<1> QED
  BY <1>2, <1>3, <1>4 DEF FileIsTrue, FileIsBacked

\* Only the lines of a file matter to these two.
LEMMA SameLines ==
    ASSUME NEW file, NEW more, NEW lines \in Seq(TrueLine), NEW rests \in Nat,
           FileIsTrue(file, lines, rests), FileIsBacked(file, lines, rests),
           \A change \in Changes : more[change] = file[change]
    PROVE  FileIsTrue(more, lines, rests) /\ FileIsBacked(more, lines, rests)
<1>1. \A t \in ToSet(lines) : t \in TrueLine
  BY DEF ToSet
<1>2. \A t \in TrueLine : t.change \in Changes
  BY DEF TrueLine, Changes
<1>3. ASSUME NEW t \in ToSet(lines), t.numbered PROVE Known(more[t.change], t)
  <2>1. more[t.change] = file[t.change]
    BY <1>1, <1>2
  <2>2. Known(file[t.change], t)
    BY <1>3, Zenon DEF FileIsTrue
  <2> QED
    BY <2>1, <2>2, Zenon
<1>4. ASSUME NEW change \in Changes PROVE Len(more[change]) <= Count(lines, change) + rests
  <2>1. more[change] = file[change]
    OBVIOUS
  <2>2. Len(file[change]) <= Count(lines, change) + rests
    BY Zenon DEF FileIsTrue
  <2> QED
    BY <2>1, <2>2, Zenon
<1>5. FileIsBacked(more, lines, rests)
  <2> SUFFICES ASSUME Sound(lines), rests = 0, NEW change \in Changes, NEW d \in ToSet(more[change])
               PROVE  \E t \in ToSet(lines) :
                         t.change = change /\ t.line = d.line /\ d.position = Reported(t.position, t.hunk)
    BY Zenon DEF FileIsBacked
  <2>1. more[change] = file[change]
    OBVIOUS
  <2>2. d \in ToSet(file[change])
    BY <2>1, Zenon
  <2> QED
    BY <2>2, Zenon DEF FileIsBacked
<1>6. FileIsTrue(more, lines, rests)
  BY <1>3, <1>4, Zenon DEF FileIsTrue
<1> QED
  BY <1>5, <1>6

-----------------------------------------------------------------------------
(* git and parse_diff, in step *)

\* git is in a file that parse_diff has not finished.
InLast == ~context.done /\ git.header \notin {"none", "textless"}

FileIsRead(file, true) ==
    /\ file.name = true.name
    /\ FileIsTrue(file, true.lines, true.rests)
    /\ FileIsBacked(file, true.lines, true.rests)

FoundOnce(fs, i, true) ==
    \E k \in DOMAIN fs : FileIsRead(fs[k], true) /\ \A j \in DOMAIN fs : fs[j].of = i <=> j = k

EveryFileIsRead ==
    /\ \A k \in DOMAIN files : files[k].of \in 1 .. Len(truth) /\ ChunksAreTrue(files[k])
    /\ ChunksAreTrue(WithChunk(current))
    /\ \A i \in DOMAIN truth : truth[i].whole =>
          /\ truth[i].name # NoName
          /\ IF InLast /\ i = Len(truth)
             THEN FileIsRead(WithChunk(current), truth[i]) /\ \A k \in DOMAIN files : files[k].of # i
             ELSE FoundOnce(files, i, truth[i])

\* While no odd line and no piece is in the way, the counters of both agree, but
\* for the headers of the hunks.
Agree(c, g, rests) ==
    /\ c.inChunk <=> g.hunk # 0
    /\ g.hunk # 0 /\ g.numbered => c.old = g.old /\ c.new = g.new
    /\ rests = 0 => c.position = IF g.hunk = 0 THEN 0 ELSE g.position - HeadersBefore(g.hunk)

InStep ==
    /\ InLast => current.file.of = Len(truth)
    /\ ~InLast => current.file.name = NoName
    /\ InLast /\ truth[Len(truth)].whole => Agree(current, git, truth[Len(truth)].rests)

\* The context shows lines of the files.
ContextIsOfFiles ==
    \A i \in DOMAIN context.files :
        /\ context.done
        /\ i \in DOMAIN files
        /\ context.files[i].name = files[i].name /\ context.files[i].of = files[i].of
        /\ \A change \in Changes : ToSet(context.files[i][change]) \subseteq ToSet(files[i][change])

ReadInv == DiffInv /\ EveryFileIsRead /\ InStep /\ ContextIsOfFiles

LEMMA ReadInvParts ==
    ASSUME ReadInv
    PROVE  /\ DiffInv /\ EveryFileIsRead /\ InStep /\ ContextIsOfFiles
           /\ git \in Place /\ truth \in Seq(TrueFile) /\ current \in Parser /\ files \in Seq(File)
           /\ context \in Shown /\ InAFile /\ ParserFits(current)
           /\ \A i \in DOMAIN files : ChunksFit(files[i])
           /\ git.old \in Nat /\ git.new \in Nat /\ git.hunk \in Nat /\ git.position \in Nat
           /\ git.numbered \in BOOLEAN
           /\ Len(truth) \in Nat /\ DOMAIN truth = 1 .. Len(truth) /\ \A i \in DOMAIN truth : truth[i] \in TrueFile
<1>1. DiffInv /\ EveryFileIsRead /\ InStep /\ ContextIsOfFiles
  BY Zenon DEF ReadInv
<1>2. /\ git \in Place /\ truth \in Seq(TrueFile) /\ current \in Parser /\ files \in Seq(File)
      /\ context \in Shown /\ InAFile /\ ParserFits(current)
      /\ \A i \in DOMAIN files : ChunksFit(files[i])
  BY <1>1, DiffInvParts
<1>3. /\ git.old \in Nat /\ git.new \in Nat /\ git.hunk \in Nat /\ git.position \in Nat
      /\ git.numbered \in BOOLEAN
  BY <1>2 DEF Place
<1>4. Len(truth) \in Nat /\ DOMAIN truth = 1 .. Len(truth) /\ \A i \in DOMAIN truth : truth[i] \in TrueFile
  BY <1>2
<1> QED
  BY <1>1, <1>2, <1>3, <1>4, Zenon

\* Once the current file is finished, every whole file is found.
LEMMA FlushedIsRead ==
    ASSUME ReadInv
    PROVE  LET fs == Flushed(current)
           IN  /\ fs \in Seq(File) /\ \A k \in DOMAIN fs : ChunksFit(fs[k])
               /\ \A k \in DOMAIN fs : fs[k].of \in 1 .. Len(truth) /\ ChunksAreTrue(fs[k])
               /\ \A i \in DOMAIN truth : truth[i].whole => truth[i].name # NoName /\ FoundOnce(fs, i, truth[i])
<1> DEFINE fs == Flushed(current)
           last == WithChunk(current)
           n == Len(files)
<1>1. /\ DiffInv /\ EveryFileIsRead /\ InStep /\ truth \in Seq(TrueFile) /\ current \in Parser
      /\ files \in Seq(File) /\ ParserFits(current) /\ \A i \in DOMAIN files : ChunksFit(files[i])
      /\ Len(truth) \in Nat /\ DOMAIN truth = 1 .. Len(truth) /\ InAFile
  BY ReadInvParts
<1>2. fs \in Seq(File) /\ \A k \in DOMAIN fs : ChunksFit(fs[k])
  BY <1>1, FlushedFacts
<1>3. last \in File /\ last.name = current.file.name /\ last.of = current.file.of /\ ChunksAreTrue(last)
  BY <1>1, WithChunkFacts DEF EveryFileIsRead
<1>4. /\ \A k \in DOMAIN files : files[k].of \in 1 .. Len(truth) /\ ChunksAreTrue(files[k])
      /\ \A i \in DOMAIN truth : truth[i].whole =>
            /\ truth[i].name # NoName
            /\ IF InLast /\ i = Len(truth)
               THEN FileIsRead(last, truth[i]) /\ \A k \in DOMAIN files : files[k].of # i
               ELSE FoundOnce(files, i, truth[i])
  BY <1>1, Zenon DEF EveryFileIsRead
<1>5. n \in Nat /\ DOMAIN files = 1 .. n
  BY <1>1
<1> HIDE DEF last
<1>6. CASE current.file.name = NoName
  <2>1. fs = files
    BY <1>6 DEF Flushed
  <2>2. \A i \in DOMAIN truth : truth[i].whole => ~(InLast /\ i = Len(truth))
    BY <1>3, <1>4, <1>6 DEF FileIsRead
  <2> QED
    BY <1>2, <1>4, <2>1, <2>2
<1>7. CASE current.file.name # NoName
  <2>1. InLast /\ last.of = Len(truth)
    BY <1>1, <1>3, <1>7 DEF InStep
  <2>2. truth # <<>> /\ Len(truth) \in 1 .. Len(truth)
    <3>1. truth # <<>>
      BY <1>1, <2>1 DEF InLast, InAFile
    <3> QED
      BY <1>1, <3>1
  <2>3. fs = Append(files, last)
    BY <1>7 DEF Flushed, last
  <2>4. /\ DOMAIN fs = 1 .. n + 1 /\ fs[n + 1] = last /\ \A k \in 1 .. n : fs[k] = files[k]
    BY <1>1, <2>3
  <2>5. \A k : k \in DOMAIN fs <=> k \in DOMAIN files \/ k = n + 1
    BY <1>5, <2>4
  <2>6. n + 1 \notin DOMAIN files
    BY <1>5
  <2> HIDE DEF fs
  <2>7. \A k \in DOMAIN fs : fs[k].of \in 1 .. Len(truth) /\ ChunksAreTrue(fs[k])
    BY <1>3, <1>4, <1>5, <2>1, <2>2, <2>4, <2>5
  <2>8. ASSUME NEW i \in DOMAIN truth, truth[i].whole
        PROVE  FoundOnce(fs, i, truth[i])
    <3>1. CASE i = Len(truth)
      <4>1. FileIsRead(last, truth[i]) /\ \A k \in DOMAIN files : files[k].of # i
        BY <1>4, <2>1, <2>8, <3>1
      <4>2. n + 1 \in DOMAIN fs /\ FileIsRead(fs[n + 1], truth[i])
        BY <2>4, <2>5, <4>1
      <4>3. \A j \in DOMAIN fs : fs[j].of = i <=> j = n + 1
        BY <1>5, <2>1, <2>4, <2>5, <3>1, <4>1
      <4> QED
        BY <4>2, <4>3 DEF FoundOnce
    <3>2. CASE i # Len(truth)
      <4>1. FoundOnce(files, i, truth[i])
        BY <1>4, <2>8, <3>2
      <4>2. PICK k \in DOMAIN files :
               FileIsRead(files[k], truth[i]) /\ \A j \in DOMAIN files : files[j].of = i <=> j = k
        BY <4>1 DEF FoundOnce
      <4>3. k \in DOMAIN fs /\ FileIsRead(fs[k], truth[i])
        BY <1>5, <2>4, <2>5, <4>2
      <4>4. \A j \in DOMAIN fs : fs[j].of = i <=> j = k
        BY <1>5, <2>1, <2>4, <2>5, <2>6, <3>2, <4>2
      <4> QED
        BY <4>3, <4>4 DEF FoundOnce
    <3> QED
      BY <3>1, <3>2
  <2> QED
    BY <1>2, <1>4, <2>7, <2>8 DEF fs
<1> QED
  BY <1>6, <1>7

LEMMA InitIsRead == Init => ReadInv
<1> SUFFICES ASSUME Init PROVE ReadInv
  OBVIOUS
<1>1. DiffInv
  BY InitHolds
<1>2. /\ files = <<>> /\ truth = <<>> /\ context.files = <<>> /\ git.header = "none"
      /\ current = Start(NewFile(NoName, 0), FALSE)
  BY DEF Init, NoContext
<1>3. ~InLast
  BY <1>2 DEF InLast
<1>4. /\ current.file.name = NoName /\ WithChunk(current) = NewFile(NoName, 0)
      /\ ChunksAreTrue(NewFile(NoName, 0))
  <2>1. 0 \in Nat /\ NoName \in Names \cup {NoName}
    OBVIOUS
  <2>2. NewFile(NoName, 0).name = NoName
    BY <2>1, NewFileFacts
  <2>3. current.file = NewFile(NoName, 0) /\ WithChunk(current) = NewFile(NoName, 0)
    BY <1>2, NothingStarts
  <2> QED
    BY <2>1, <2>2, <2>3, NothingRead
<1>5. EveryFileIsRead
  <2>1. DOMAIN files = {} /\ DOMAIN truth = {}
    BY <1>2
  <2> QED
    BY <1>4, <2>1, Zenon DEF EveryFileIsRead
<1>6. InStep
  BY <1>3, <1>4 DEF InStep
<1>7. ContextIsOfFiles
  BY <1>2 DEF ContextIsOfFiles
<1> QED
  BY <1>1, <1>5, <1>6, <1>7 DEF ReadInv

LEMMA OneLonger ==
    ASSUME NEW S, NEW s \in Seq(S), NEW e \in S
    PROVE  /\ Len(Append(s, e)) = Len(s) + 1 /\ DOMAIN Append(s, e) = 1 .. Len(s) + 1
           /\ Append(s, e)[Len(s) + 1] = e /\ \A i \in 1 .. Len(s) : Append(s, e)[i] = s[i]
OBVIOUS

LEMMA OpenFileIsRead ==
    ASSUME ReadInv, NEW header \in {"modified", "added", "deleted"}, NEW name \in Names \cup {NoName},
           OpenFile(header, name)
    PROVE  ReadInv'
<1> DEFINE n == Len(truth)
           file == NewFile(name, n + 1)
           deleted == header = "deleted"
           whole == name # NoName
           true == [name |-> name, lines |-> <<>>, whole |-> whole, rests |-> 0]
<1>1. /\ DiffInv /\ ContextIsOfFiles /\ git \in Place /\ truth \in Seq(TrueFile) /\ n \in Nat
      /\ DOMAIN truth = 1 .. n
  BY ReadInvParts
<1>2. DiffInv'
  BY <1>1, OpenFileHolds
<1>3. /\ ~context.done /\ UNCHANGED context /\ files' = Flushed(current)
      /\ current' = Start(file, deleted) /\ truth' = Append(truth, true)
      /\ git'.header = header /\ git'.hunk = 0
  BY <1>1 DEF OpenFile, Place
<1>4. /\ file \in File /\ ChunksFit(file) /\ file.name = name /\ file.of = n + 1
      /\ FileIsTrue(file, <<>>, 0) /\ FileIsBacked(file, <<>>, 0) /\ ChunksAreTrue(file)
  <2>1. n + 1 \in Nat
    BY <1>1
  <2> QED
    BY <2>1, NewFileFacts, NothingRead
<1>5. /\ current'.file = file /\ ~current'.inChunk /\ current'.position = 0 /\ WithChunk(current') = file
  <2>1. deleted \in BOOLEAN
    OBVIOUS
  <2> HIDE DEF file, deleted
  <2> QED
    BY <1>3, <1>4, <2>1, StartFacts
<1>6. /\ \A k \in DOMAIN files' : files'[k].of \in 1 .. n /\ ChunksAreTrue(files'[k])
      /\ \A i \in DOMAIN truth : truth[i].whole => truth[i].name # NoName /\ FoundOnce(files', i, truth[i])
  BY <1>3, FlushedIsRead
<1>7. true.name = name /\ true.lines = <<>> /\ true.rests = 0 /\ true.whole = whole /\ true \in TrueFile
  <2>1. whole \in BOOLEAN /\ <<>> \in Seq(TrueLine)
    OBVIOUS
  <2> HIDE DEF whole
  <2> QED
    BY <2>1 DEF TrueFile
<1> HIDE DEF file, true
<1>8. /\ Len(truth') = n + 1 /\ DOMAIN truth' = 1 .. n + 1
      /\ truth'[n + 1] = true /\ \A i \in 1 .. n : truth'[i] = truth[i]
  <2>1. truth \in Seq(TrueFile) /\ true \in TrueFile /\ truth' = Append(truth, true)
    BY <1>1, <1>3, <1>7
  <2>2. \A s \in Seq(TrueFile) : \A e \in TrueFile :
           /\ Len(Append(s, e)) = Len(s) + 1 /\ DOMAIN Append(s, e) = 1 .. Len(s) + 1
           /\ Append(s, e)[Len(s) + 1] = e /\ \A i \in 1 .. Len(s) : Append(s, e)[i] = s[i]
    BY OneLonger
  <2> QED
    BY <2>1, <2>2, Zenon
<1> HIDE DEF n
<1>9. EveryFileIsRead'
  <2>1. \A k \in DOMAIN files' : files'[k].of \in 1 .. n + 1 /\ files'[k].of # n + 1 /\ ChunksAreTrue(files'[k])
    BY <1>1, <1>6
  <2>2. ASSUME NEW i \in DOMAIN truth', truth'[i].whole
        PROVE  /\ truth'[i].name # NoName
               /\ IF InLast' /\ i = Len(truth')
                  THEN FileIsRead(WithChunk(current'), truth'[i]) /\ \A k \in DOMAIN files' : files'[k].of # i
                  ELSE FoundOnce(files', i, truth'[i])
    <3>1. CASE i = n + 1
      <4>1. InLast'
        BY <1>3 DEF InLast
      <4>2. name # NoName
        BY <1>7, <1>8, <2>2, <3>1
      <4>3. FileIsRead(file, true)
        BY <1>4, <1>7 DEF FileIsRead
      <4> QED
        BY <1>5, <1>7, <1>8, <2>1, <3>1, <4>1, <4>2, <4>3
    <3>2. CASE i # n + 1
      <4>1. i \in 1 .. n
        BY <1>1, <1>8, <3>2
      <4> QED
        BY <1>1, <1>6, <1>8, <2>2, <3>2, <4>1
    <3> QED
      BY <3>1, <3>2
  <2> QED
    BY <1>4, <1>5, <1>8, <2>1, <2>2 DEF EveryFileIsRead
<1>10. InStep'
  <2>1. InLast'
    BY <1>3 DEF InLast
  <2>2. Agree(current', git', 0)
    BY <1>3, <1>5 DEF Agree
  <2> QED
    BY <1>4, <1>5, <1>7, <1>8, <2>1, <2>2 DEF InStep
<1>11. ContextIsOfFiles'
  BY <1>1, <1>3 DEF ContextIsOfFiles
<1> QED
  BY <1>2, <1>9, <1>10, <1>11 DEF ReadInv

\* The current file is finished, and none is opened.
LEMMA NothingIsOpenIsRead ==
    ASSUME ReadInv, DiffInv', ~InLast', UNCHANGED truth, files' = Flushed(current),
           current' = Start(NewFile(NoName, 0), FALSE)
    PROVE  EveryFileIsRead' /\ InStep'
<1>1. /\ \A k \in DOMAIN files' : files'[k].of \in 1 .. Len(truth) /\ ChunksAreTrue(files'[k])
      /\ \A i \in DOMAIN truth : truth[i].whole => truth[i].name # NoName /\ FoundOnce(files', i, truth[i])
  BY FlushedIsRead
<1>2. current'.file.name = NoName /\ ChunksAreTrue(WithChunk(current'))
  <2>1. 0 \in Nat /\ NoName \in Names \cup {NoName}
    OBVIOUS
  <2>2. NewFile(NoName, 0).name = NoName
    BY <2>1, NewFileFacts
  <2>3. current'.file = NewFile(NoName, 0) /\ WithChunk(current') = NewFile(NoName, 0)
    BY NothingStarts
  <2> QED
    BY <2>1, <2>2, <2>3, NothingRead
<1>3. EveryFileIsRead'
  BY <1>1, <1>2 DEF EveryFileIsRead
<1> QED
  BY <1>2, <1>3 DEF InStep

LEMMA OpenTextlessIsRead ==
    ASSUME ReadInv, OpenTextless
    PROVE  ReadInv'
<1>1. DiffInv /\ ContextIsOfFiles /\ git \in Place
  BY ReadInvParts
<1>2. DiffInv'
  BY <1>1, OpenTextlessHolds
<1>3. /\ ~context.done /\ UNCHANGED <<truth, context>> /\ files' = Flushed(current)
      /\ current' = Start(NewFile(NoName, 0), FALSE) /\ git'.header = "textless"
  BY <1>1 DEF OpenTextless, Place
<1>4. ~InLast'
  BY <1>3 DEF InLast
<1>5. EveryFileIsRead' /\ InStep'
  BY <1>2, <1>3, <1>4, NothingIsOpenIsRead
<1>6. ContextIsOfFiles'
  BY <1>1, <1>3 DEF ContextIsOfFiles
<1> QED
  BY <1>2, <1>5, <1>6 DEF ReadInv

LEMMA OpenHunkIsRead ==
    ASSUME ReadInv, NEW gap \in Gaps, OpenHunk(gap)
    PROVE  ReadInv'
<1> DEFINE old == FirstLine("old", gap)
           new == FirstLine("new", gap)
           last == truth[Len(truth)]
           file == WithChunk(current)
           more == WithChunk(OpenChunk(current, old, new))
<1>1. /\ DiffInv /\ EveryFileIsRead /\ InStep /\ ContextIsOfFiles /\ current \in Parser /\ ParserFits(current)
      /\ git \in Place /\ truth \in Seq(TrueFile) /\ InAFile
      /\ git.hunk \in Nat /\ git.position \in Nat
      /\ DOMAIN truth = 1 .. Len(truth) /\ \A i \in DOMAIN truth : truth[i] \in TrueFile
  BY ReadInvParts
<1>2. DiffInv'
  BY <1>1, OpenHunkHolds
<1>3. /\ ~context.done /\ git.header \notin {"none", "textless"}
      /\ current' = OpenChunk(current, old, new) /\ UNCHANGED <<truth, files, context>>
      /\ git' = [git EXCEPT !.last = "hunk", !.lines = @ + 1, !.old = old, !.new = new, !.hunk = @ + 1,
                            !.position = IF git.hunk = 0 THEN 0 ELSE @ + 1, !.numbered = TRUE]
  BY DEF OpenHunk
<1>4. /\ git'.header = git.header /\ git'.hunk = git.hunk + 1 /\ git'.old = old /\ git'.new = new
      /\ git'.position = IF git.hunk = 0 THEN 0 ELSE git.position + 1
  BY <1>1, <1>3 DEF Place
<1>5. InLast /\ InLast'
  BY <1>3, <1>4 DEF InLast
<1>6. old \in Nat \cup {None} /\ new \in Nat \cup {None}
  <2>1. gap \in Nat
    BY BoundsAreNumbers
  <2>2. git.old \in Nat /\ git.new \in Nat
    BY <1>1 DEF Place
  <2> QED
    BY <2>1, <2>2 DEF FirstLine
<1> HIDE DEF old, new
<1>7. /\ current'.file = file /\ current'.inChunk /\ current'.old = old /\ current'.new = new
      /\ current'.position = current.position
      /\ file \in File /\ file.of = current.file.of
  <2>1. /\ current'.file = file /\ current'.inChunk /\ current'.old = old /\ current'.new = new
        /\ current'.position = current.position
    <3>1. current \in Parser /\ ParserFits(current)
      BY <1>1
    <3>2. current' = OpenChunk(current, old, new)
      BY <1>3
    <3> QED
      BY <1>6, <3>1, <3>2, OpenChunkFacts
  <2> QED
    BY <1>1, <2>1, WithChunkFacts
<1>8. /\ ChunksAreTrue(more) /\ \A change \in Changes : more[change] = file[change]
      /\ more.name = file.name /\ more.of = file.of
  <2>1. ChunksAreTrue(file)
    BY <1>1 DEF EveryFileIsRead
  <2>2. ChunksAreTrue(more) /\ \A change \in Changes : more[change] = file[change]
    BY <1>1, <1>6, <2>1, OpenChunkCarries
  <2>3. current' \in Parser /\ ParserFits(current')
    BY <1>1, <1>3, <1>6, OpenChunkFacts
  <2>4. more.name = current'.file.name /\ more.of = current'.file.of
    BY <1>3, <2>3, WithChunkFacts
  <2> QED
    BY <1>7, <2>2, <2>4
<1>9. WithChunk(current') = more
  BY <1>3
<1> HIDE DEF file, more
<1>10. EveryFileIsRead'
  <2>1. ASSUME NEW i \in DOMAIN truth, i = Len(truth), FileIsRead(file, truth[i])
        PROVE  FileIsRead(more, truth[i])
    <3>1. truth[i].lines \in Seq(TrueLine) /\ truth[i].rests \in Nat
      BY <1>1 DEF TrueFile
    <3>2. /\ file.name = truth[i].name
          /\ FileIsTrue(file, truth[i].lines, truth[i].rests) /\ FileIsBacked(file, truth[i].lines, truth[i].rests)
      BY <2>1 DEF FileIsRead
    <3>3. FileIsTrue(more, truth[i].lines, truth[i].rests) /\ FileIsBacked(more, truth[i].lines, truth[i].rests)
      BY <1>8, <3>1, <3>2, SameLines
    <3> QED
      BY <1>8, <3>2, <3>3 DEF FileIsRead
  <2>2. /\ \A k \in DOMAIN files : files[k].of \in 1 .. Len(truth) /\ ChunksAreTrue(files[k])
        /\ \A i \in DOMAIN truth : truth[i].whole =>
              /\ truth[i].name # NoName
              /\ IF i = Len(truth)
                 THEN FileIsRead(file, truth[i]) /\ \A k \in DOMAIN files : files[k].of # i
                 ELSE FoundOnce(files, i, truth[i])
    BY <1>1, <1>5 DEF EveryFileIsRead, file
  <2> QED
    BY <1>3, <1>5, <1>8, <1>9, <2>1, <2>2 DEF EveryFileIsRead
<1>11. InStep'
  <2>1. ASSUME last.whole PROVE Agree(current', git', last.rests)
    <3>1. last.rests = 0 => current.position = IF git.hunk = 0 THEN 0 ELSE git.position - (git.hunk - 1)
      BY <1>1, <1>5, <2>1 DEF InStep, Agree, HeadersBefore
    <3>2. git.hunk + 1 # 0 /\ (git.hunk + 1) - 1 = git.hunk
      BY <1>1
    <3>3. git.hunk # 0 => (git.position + 1) - git.hunk = git.position - (git.hunk - 1)
      <4>1. \A p, h \in Nat : (p + 1) - h = p - (h - 1)
        OBVIOUS
      <4> QED
        BY <1>1, <4>1
    <3>4. last.rests = 0 => current'.position = git'.position - (git'.hunk - 1)
      <4>1. CASE git.hunk = 0
        BY <1>4, <1>7, <3>1, <3>2, <4>1
      <4>2. CASE git.hunk # 0
        BY <1>4, <1>7, <3>1, <3>2, <3>3, <4>2
      <4> QED
        BY <4>1, <4>2
    <3> QED
      BY <1>4, <1>7, <3>2, <3>4 DEF Agree, HeadersBefore
  <2> QED
    BY <1>1, <1>3, <1>5, <1>7, <2>1 DEF InStep
<1>12. ContextIsOfFiles'
  BY <1>1, <1>3 DEF ContextIsOfFiles
<1> QED
  BY <1>2, <1>10, <1>11, <1>12 DEF ReadInv

\* A step within the last file.
LEMMA StaysInFile ==
    ASSUME ReadInv, DiffInv', ~context.done, git.header \notin {"none", "textless"}, git'.header = git.header,
           UNCHANGED <<files, context>>,
           NEW lines \in Seq(TrueLine), NEW whole \in BOOLEAN, NEW rests \in Nat,
           truth' = Revised(lines, whole, rests),
           ChunksAreTrue(WithChunk(current')), current'.file.of = current.file.of,
           whole => /\ truth[Len(truth)].whole
                    /\ WithChunk(current').name = WithChunk(current).name
                    /\ FileIsTrue(WithChunk(current'), lines, rests)
                    /\ FileIsBacked(WithChunk(current'), lines, rests)
                    /\ Agree(current', git', rests)
    PROVE  ReadInv'
<1> DEFINE n == Len(truth)
<1>1. /\ EveryFileIsRead /\ InStep /\ ContextIsOfFiles /\ InAFile /\ truth \in Seq(TrueFile) /\ DOMAIN truth = 1 .. n
  BY ReadInvParts
<1>2. truth # <<>> /\ InLast /\ InLast'
  BY <1>1 DEF InAFile, InLast
<1>3. /\ n \in Nat /\ n \in 1 .. n /\ Len(truth') = n /\ DOMAIN truth' = 1 .. n
      /\ \A i \in 1 .. n : i # n => truth'[i] = truth[i]
      /\ truth'[n] = [name |-> truth[n].name, lines |-> lines, whole |-> whole, rests |-> rests]
  <2>1. /\ n \in Nat /\ n \in 1 .. n /\ Len(truth') = n /\ truth' \in Seq(TrueFile)
        /\ \A i \in 1 .. n : i # n => truth'[i] = truth[i]
        /\ truth'[n] = [name |-> truth[n].name, lines |-> lines, whole |-> whole, rests |-> rests]
    <3> DEFINE next == Revised(lines, whole, rests)
    <3>1. /\ n \in Nat /\ n \in 1 .. n /\ Len(next) = n /\ next \in Seq(TrueFile)
          /\ \A i \in 1 .. n : i # n => next[i] = truth[i]
          /\ next[n] = [name |-> truth[n].name, lines |-> lines, whole |-> whole, rests |-> rests]
      <4>1. truth \in Seq(TrueFile) /\ truth # <<>>
        BY <1>1, <1>2
      <4> QED
        BY <4>1, RevisedFacts
    <3> QED
      BY <3>1
  <2>2. DOMAIN truth' = 1 .. n
    BY <2>1
  <2> QED
    BY <2>1, <2>2
<1> HIDE DEF n
<1>4. /\ truth'[n].name = truth[n].name /\ truth'[n].lines = lines /\ truth'[n].whole = whole
      /\ truth'[n].rests = rests
  BY <1>3
<1>5. /\ \A k \in DOMAIN files : files[k].of \in 1 .. n /\ ChunksAreTrue(files[k])
      /\ \A i \in 1 .. n : truth[i].whole =>
            /\ truth[i].name # NoName
            /\ IF i = n
               THEN FileIsRead(WithChunk(current), truth[i]) /\ \A k \in DOMAIN files : files[k].of # i
               ELSE FoundOnce(files, i, truth[i])
  BY <1>1, <1>2 DEF EveryFileIsRead, n
<1>6. ASSUME NEW i \in 1 .. n, truth'[i].whole
      PROVE  /\ truth'[i].name # NoName
             /\ IF i = n
                THEN FileIsRead(WithChunk(current'), truth'[i]) /\ \A k \in DOMAIN files' : files'[k].of # i
                ELSE FoundOnce(files', i, truth'[i])
  <2>1. CASE i = n
    <3>1. whole /\ truth[n].whole
      BY <1>4, <1>6, <2>1 DEF n
    <3>2. WithChunk(current').name = truth[n].name
      BY <1>5, <2>1, <3>1 DEF FileIsRead
    <3>3. FileIsRead(WithChunk(current'), truth'[n])
      BY <1>4, <3>1, <3>2 DEF FileIsRead
    <3> QED
      BY <1>4, <1>5, <2>1, <3>1, <3>3
  <2>2. CASE i # n
    BY <1>3, <1>5, <1>6, <2>2
  <2> QED
    BY <2>1, <2>2
<1>7. EveryFileIsRead'
  BY <1>2, <1>3, <1>5, <1>6 DEF EveryFileIsRead
<1>8. InStep'
  BY <1>1, <1>2, <1>3, <1>4 DEF InStep, n
<1>9. ContextIsOfFiles'
  BY <1>1 DEF ContextIsOfFiles
<1> QED
  BY <1>7, <1>8, <1>9 DEF ReadInv

LEMMA OneFurther ==
    ASSUME NEW p \in Nat, NEW h \in Nat, NEW q \in Int, q = p - (h - 1)
    PROVE  q + 1 = (p + 1) - (h - 1)
OBVIOUS

\* What is known of the last file while git is in it.
LEMMA LastFacts ==
    ASSUME ReadInv, ~context.done, git.header \notin {"none", "textless"}
    PROVE  LET last == truth[Len(truth)]
           IN  /\ truth # <<>> /\ last \in TrueFile
               /\ last.lines \in Seq(TrueLine) /\ last.whole \in BOOLEAN /\ last.rests \in Nat
               /\ WithChunk(current) \in File /\ ChunksAreTrue(WithChunk(current))
               /\ last.whole => /\ FileIsTrue(WithChunk(current), last.lines, last.rests)
                                /\ FileIsBacked(WithChunk(current), last.lines, last.rests)
                                /\ Agree(current, git, last.rests)
<1> DEFINE last == truth[Len(truth)]
<1>1. /\ EveryFileIsRead /\ InStep /\ InAFile /\ truth \in Seq(TrueFile) /\ current \in Parser /\ ParserFits(current)
  BY ReadInvParts
<1>2. truth # <<>> /\ InLast
  BY <1>1 DEF InAFile, InLast
<1>3. last \in TrueFile /\ Len(truth) \in DOMAIN truth
  BY <1>1, <1>2, ElementOfSeq
<1>4. last.lines \in Seq(TrueLine) /\ last.whole \in BOOLEAN /\ last.rests \in Nat
  BY <1>3 DEF TrueFile
<1>5. WithChunk(current) \in File /\ ChunksAreTrue(WithChunk(current))
  BY <1>1, WithChunkFacts DEF EveryFileIsRead
<1>6. ASSUME last.whole
      PROVE  /\ FileIsTrue(WithChunk(current), last.lines, last.rests)
             /\ FileIsBacked(WithChunk(current), last.lines, last.rests)
             /\ Agree(current, git, last.rests)
  <2>1. FileIsRead(WithChunk(current), last)
    BY <1>1, <1>2, <1>3, <1>6 DEF EveryFileIsRead
  <2> QED
    BY <1>1, <1>2, <1>6, <2>1 DEF FileIsRead, InStep
<1> QED
  BY <1>2, <1>3, <1>4, <1>5, <1>6

LEMMA ReadLineIsRead ==
    ASSUME ReadInv, NEW kind \in Plain \cup Odd, ReadLine(kind)
    PROVE  ReadInv'
<1> DEFINE change == Change(kind)
           it == Line(kind)
           last == truth[Len(truth)]
           c == current
           r == Read(c, kind)
           d == Appended(c, kind)
           file == WithChunk(c)
           more == WithChunk(r)
<1>1. /\ DiffInv /\ c \in Parser /\ ParserFits(c) /\ git \in Place /\ truth \in Seq(TrueFile)
      /\ git.old \in Nat /\ git.new \in Nat /\ git.hunk \in Nat /\ git.position \in Nat
  BY ReadInvParts
<1>2. NextLine(kind) /\ truth' = Written(kind) /\ current' = r
  BY DEF ReadLine
<1>3. /\ git.header \notin {"none", "textless"} /\ git.hunk # 0 /\ truth # <<>> /\ ~context.done
      /\ git'.header = git.header /\ git'.hunk = git.hunk /\ git'.position = git.position + 1
      /\ git'.numbered = (git.numbered /\ kind \in Plain)
      /\ git'.old = IF kind = "noeol" \/ change = "added" THEN git.old ELSE git.old + 1
      /\ git'.new = IF kind = "noeol" \/ change = "removed" THEN git.new ELSE git.new + 1
      /\ UNCHANGED <<files, context>>
  BY <1>1, <1>2, NextLineFacts
<1>4. DiffInv'
  BY <1>1, ReadLineHolds
<1>5. /\ last.lines \in Seq(TrueLine) /\ last.whole \in BOOLEAN /\ last.rests \in Nat
      /\ file \in File /\ ChunksAreTrue(file)
      /\ last.whole => /\ FileIsTrue(file, last.lines, last.rests) /\ FileIsBacked(file, last.lines, last.rests)
                       /\ Agree(c, git, last.rests)
  BY <1>3, LastFacts
<1>6. /\ truth' = Revised(Lines(kind), last.whole, last.rests)
      /\ Lines(kind) \in Seq(TrueLine) /\ (change # "none" => it \in TrueLine)
  BY <1>1, <1>2, <1>3, WrittenIs, LineTyped
<1>7. /\ it.change = change /\ it.line = (IF change = "added" THEN git.new ELSE git.old)
      /\ it.position = git.position + 1 /\ it.hunk = git.hunk
      /\ it.numbered = (git.numbered /\ kind \in Plain) /\ it.placed = (last.rests = 0)
      /\ Lines(kind) = IF change = "none" THEN last.lines ELSE Append(last.lines, it)
  BY DEF Line, Lines
<1>8. /\ r \in Parser /\ d \in Detail /\ r.file.name = c.file.name /\ r.file.of = c.file.of
      /\ kind \notin Changes => r.inChunk = c.inChunk
      /\ kind \in Changes => r.inChunk
      /\ r.old = IF kind = "added" THEN c.old ELSE Further(c.old)
      /\ r.new = IF kind = "removed" THEN c.new ELSE Further(c.new)
      /\ r.position = IF kind \in Changes \/ c.inChunk THEN c.position + 1 ELSE c.position
  BY <1>1, ReadFacts
<1>9. ParserFits(r)
  BY <1>1, ReadFits
<1>10. /\ ChunksAreTrue(more)
       /\ \A x \in Changes : more[x] = IF x = kind THEN Append(file[x], d) ELSE file[x]
  BY <1>1, <1>5, ReadCarries
<1>11. more \in File /\ more.name = file.name
  BY <1>1, <1>8, <1>9, WithChunkFacts
<1>12. d.line = (IF kind = "added" THEN c.new ELSE c.old) /\ d.position = c.position + 1
  BY DEF Appended
<1>13. /\ change \in {"added", "removed", "none"} /\ (kind \in Changes => change = kind)
       /\ kind \in Plain \ Changes => change = "none"
       /\ kind \in Plain => kind # "noeol"
       /\ kind \notin Plain => kind \notin Changes
  BY DEF Change, Changes, Plain, Odd
<1>14. ASSUME last.whole
       PROVE  Agree(r, git', last.rests)
  <2>1. /\ c.inChunk
        /\ git.numbered => c.old = git.old /\ c.new = git.new
        /\ last.rests = 0 => c.position = git.position - (git.hunk - 1)
    BY <1>3, <1>5, <1>14 DEF Agree, HeadersBefore
  <2>2. r.inChunk /\ r.position = c.position + 1
    BY <1>8, <2>1
  <2>3. ASSUME git'.numbered PROVE r.old = git'.old /\ r.new = git'.new
    <3>1. git.numbered /\ kind \in Plain /\ kind # "noeol"
      BY <1>3, <1>13, <2>3
    <3>2. c.old = git.old /\ c.new = git.new
      BY <2>1, <3>1
    <3>3. Further(c.old) = git.old + 1 /\ Further(c.new) = git.new + 1
      BY <1>1, <3>2, FurtherTyped
    <3>4. (change = "added" <=> kind = "added") /\ (change = "removed" <=> kind = "removed")
      BY <3>1 DEF Change, Plain
    <3> QED
      BY <1>3, <1>8, <3>1, <3>2, <3>3, <3>4
  <2>4. ASSUME last.rests = 0 PROVE r.position = git'.position - (git'.hunk - 1)
    <3>1. c.position = git.position - (git.hunk - 1) /\ c.position \in Int
      BY <1>1, <2>1, <2>4 DEF Parser
    <3>2. c.position + 1 = (git.position + 1) - (git.hunk - 1)
      BY <1>1, <3>1, OneFurther
    <3> QED
      BY <1>3, <2>2, <3>2
  <2> HIDE DEF r, c
  <2> QED
    BY <1>3, <2>2, <2>3, <2>4 DEF Agree, HeadersBefore
<1>15. ASSUME last.whole
       PROVE  FileIsTrue(more, Lines(kind), last.rests) /\ FileIsBacked(more, Lines(kind), last.rests)
  <2>1. FileIsTrue(file, last.lines, last.rests) /\ FileIsBacked(file, last.lines, last.rests)
    BY <1>5, <1>15
  <2>2. CASE kind \in Changes
    <3>1. change = kind /\ change # "none" /\ it \in TrueLine
      BY <1>6, <1>13, <2>2 DEF Changes
    <3>2. /\ git.numbered => c.old = git.old /\ c.new = git.new
          /\ last.rests = 0 => c.position = git.position - HeadersBefore(git.hunk)
      BY <1>3, <1>5, <1>15 DEF Agree
    <3>3. it.numbered => d.line = it.line
      BY <1>7, <1>12, <3>1, <3>2
    <3>4. it.placed => d.position = Reported(it.position, it.hunk)
      <4>1. ASSUME last.rests = 0 PROVE c.position + 1 = (git.position + 1) - (git.hunk - 1)
        <5>1. c.position = git.position - (git.hunk - 1) /\ c.position \in Int
          BY <1>1, <3>2, <4>1 DEF Parser, HeadersBefore
        <5> QED
          BY <1>1, <5>1, OneFurther
      <4> QED
        BY <1>7, <1>12, <4>1 DEF Reported, HeadersBefore
    <3>5. \A x \in Changes : more[x] = IF x = it.change THEN Append(file[x], d) ELSE file[x]
      BY <1>7, <1>10, <3>1
    <3>6. last.rests = 0 => it.placed
      BY <1>7
    <3> HIDE DEF it, d, more, file, last
    <3>7. FileIsTrue(more, Append(last.lines, it), last.rests) /\ FileIsBacked(more, Append(last.lines, it), last.rests)
      BY <1>5, <1>8, <1>11, <2>1, <3>1, <3>3, <3>4, <3>5, <3>6, LineIsKnown
    <3> QED
      BY <1>7, <3>1, <3>7
  <2>3. CASE kind \notin Changes
    <3>1. \A x \in Changes : more[x] = file[x]
      BY <1>10, <2>3
    <3> HIDE DEF it, d, more, file, last
    <3>2. FileIsTrue(file, Lines(kind), last.rests) /\ FileIsBacked(file, Lines(kind), last.rests)
      <4>1. CASE change = "none"
        BY <1>7, <2>1, <4>1
      <4>2. CASE change # "none"
        <5>1. ~it.numbered /\ it \in TrueLine
          BY <1>6, <1>7, <1>13, <2>3, <4>2
        <5>2. FileIsTrue(file, Append(last.lines, it), last.rests) /\ FileIsBacked(file, Append(last.lines, it), last.rests)
          BY <1>5, <2>1, <5>1, LineIsMissed
        <5> QED
          BY <1>7, <4>2, <5>2
      <4> QED
        BY <4>1, <4>2
    <3> QED
      BY <1>5, <1>6, <3>1, <3>2, SameLines
  <2> QED
    BY <2>2, <2>3
<1>16. WithChunk(current') = more /\ current'.file.of = c.file.of
  BY <1>2, <1>8
<1> DEFINE lines == Lines(kind)
           whole == last.whole
           rests == last.rests
<1>17. /\ lines \in Seq(TrueLine) /\ whole \in BOOLEAN /\ rests \in Nat /\ truth' = Revised(lines, whole, rests)
       /\ whole => /\ truth[Len(truth)].whole
                   /\ WithChunk(current').name = WithChunk(current).name
                   /\ FileIsTrue(WithChunk(current'), lines, rests)
                   /\ FileIsBacked(WithChunk(current'), lines, rests)
                   /\ Agree(current', git', rests)
  BY <1>2, <1>5, <1>6, <1>11, <1>14, <1>15, <1>16
<1> HIDE DEF lines, whole, rests
<1> QED
  BY <1>3, <1>4, <1>10, <1>16, <1>17, StaysInFile

LEMMA ReadAsNameIsRead ==
    ASSUME ReadInv, NEW kind \in Odd, NEW name \in Names \cup {NoName}, ReadAsName(kind, name)
    PROVE  ReadInv'
<1> DEFINE c == current
           r == [c EXCEPT !.file.name = name]
           last == truth[Len(truth)]
           lines == Lines(kind)
           no == FALSE
           rests == last.rests
<1>1. DiffInv /\ c \in Parser /\ ParserFits(c) /\ git \in Place /\ truth \in Seq(TrueFile)
  BY ReadInvParts
<1>2. NextLine(kind) /\ current' = r /\ truth' = [Written(kind) EXCEPT ![Len(truth)].whole = FALSE]
  BY DEF ReadAsName
<1>3. /\ git.header \notin {"none", "textless"} /\ truth # <<>> /\ ~context.done
      /\ git'.header = git.header /\ UNCHANGED <<files, context>>
  BY <1>1, <1>2, NextLineFacts
<1>4. DiffInv'
  BY <1>1, ReadAsNameHolds
<1>5. rests \in Nat /\ ChunksAreTrue(WithChunk(c))
  BY <1>3, LastFacts
<1>6. lines \in Seq(TrueLine) /\ no \in BOOLEAN /\ ~no /\ truth' = Revised(lines, no, rests)
  BY <1>1, <1>2, <1>3, WrittenIs, LineTyped
<1>7. ChunksAreTrue(WithChunk(r)) /\ r.file.of = c.file.of
  <2>1. /\ r \in Parser /\ ParserFits(r) /\ r.file.of = c.file.of /\ r.file.chunks = c.file.chunks
        /\ r.file["added"] = c.file["added"] /\ r.file["removed"] = c.file["removed"] /\ r.chunk = c.chunk
    BY <1>1, RenamedFacts
  <2> HIDE DEF r, c
  <2> QED
    BY <1>1, <1>5, <2>1, ChunksCarry DEF Changes
<1>8. ChunksAreTrue(WithChunk(current')) /\ current'.file.of = c.file.of
  BY <1>2, <1>7
<1> HIDE DEF lines, no, rests
<1> QED
  BY <1>3, <1>4, <1>5, <1>6, <1>8, StaysInFile

\* What a piece does to the truth.
LEMMA PieceRevises ==
    ASSUME truth \in Seq(TrueFile), truth # <<>>, git \in Place
    PROVE  /\ Divided = Revised(truth[Len(truth)].lines, truth[Len(truth)].whole, truth[Len(truth)].rests + 1)
           /\ Lost = Revised(truth[Len(truth)].lines, FALSE, truth[Len(truth)].rests + 1)
           /\ truth[Len(truth)].rests + 1 \in Nat /\ truth[Len(truth)].rests + 1 # 0
<1>1. \A kind : LET last == truth[Len(truth)]
                IN  /\ Written(kind) = Revised(Lines(kind), last.whole, last.rests)
                    /\ Divided = Revised(last.lines, last.whole, last.rests + 1)
                    /\ Lost = Revised(last.lines, FALSE, last.rests + 1)
  BY WrittenIs
<1>2. truth[Len(truth)].rests \in Nat
  BY LineTyped
<1>3. truth[Len(truth)].rests + 1 \in Nat /\ truth[Len(truth)].rests + 1 # 0
  BY <1>2
<1> QED
  BY <1>1, <1>3, Zenon

\* A piece that leaves the file whole.
LEMMA DividedIsRead ==
    ASSUME ReadInv, DiffInv', NextPiece, UNCHANGED files, truth' = Divided,
           ChunksAreTrue(WithChunk(current')), current'.file.of = current.file.of,
           WithChunk(current').name = WithChunk(current).name, current.inChunk => current'.inChunk,
           NEW branch, NEW d \in Detail, Grown(WithChunk(current'), WithChunk(current), branch, d)
    PROVE  ReadInv'
<1> DEFINE last == truth[Len(truth)]
           file == WithChunk(current)
           more == WithChunk(current')
           lines == last.lines
           whole == last.whole
           rests == last.rests + 1
<1>1. DiffInv /\ git \in Place /\ truth \in Seq(TrueFile)
  BY ReadInvParts
<1>2. /\ git.header \notin {"none", "textless"} /\ git.hunk # 0 /\ truth # <<>> /\ ~context.done
      /\ git'.header = git.header /\ git'.hunk = git.hunk /\ ~git'.numbered /\ UNCHANGED context
  BY <1>1, NextPieceFacts
<1>3. /\ last.lines \in Seq(TrueLine) /\ last.whole \in BOOLEAN /\ last.rests \in Nat
      /\ file \in File
      /\ last.whole => FileIsTrue(file, last.lines, last.rests) /\ Agree(current, git, last.rests)
  BY <1>2, LastFacts
<1>4. /\ lines \in Seq(TrueLine) /\ whole \in BOOLEAN /\ rests \in Nat /\ rests # 0
      /\ truth' = Revised(lines, whole, rests)
  BY <1>1, <1>2, <1>3, PieceRevises
<1>5. ASSUME whole
      PROVE  FileIsTrue(more, lines, rests) /\ FileIsBacked(more, lines, rests)
  <2>1. FileIsTrue(file, lines, last.rests)
    BY <1>3, <1>5
  <2>2. Grown(more, file, branch, d)
    OBVIOUS
  <2>3. last.rests \in Nat /\ rests = last.rests + 1
    BY <1>3
  <2> HIDE DEF file, more, lines, last, rests
  <2>4. file \in File /\ lines \in Seq(TrueLine)
    BY <1>3, <1>4
  <2>5. FileIsTrue(more, lines, last.rests + 1) /\ FileIsBacked(more, lines, last.rests + 1)
    BY <2>1, <2>2, <2>3, <2>4, PieceIsRead
  <2> QED
    BY <2>3, <2>5
<1>6. ASSUME whole PROVE Agree(current', git', rests)
  <2>1. current'.inChunk
    BY <1>2, <1>3, <1>6 DEF Agree
  <2> HIDE DEF rests
  <2> QED
    BY <1>2, <1>4, <2>1 DEF Agree
<1>7. whole => truth[Len(truth)].whole
  OBVIOUS
<1> HIDE DEF lines, whole, rests
<1> QED
  BY <1>2, <1>4, <1>5, <1>6, <1>7, StaysInFile DEF more

LEMMA PieceIsFileIsRead ==
    ASSUME ReadInv, DiffInv', PieceIsFile
    PROVE  ReadInv'
<1> DEFINE n == Len(truth)
           last == truth[n]
           no == FALSE
           lines == last.lines
           rests == last.rests + 1
           fs == Flushed(current)
<1>1. /\ DiffInv /\ InStep /\ ContextIsOfFiles /\ git \in Place /\ truth \in Seq(TrueFile)
      /\ context \in Shown /\ current \in Parser
  BY ReadInvParts
<1>2. /\ NextPiece /\ truth' = Lost /\ files' = fs
      /\ current' = Start(NewFile(NoName, n), FALSE)
  BY DEF PieceIsFile
<1>3. /\ git.header \notin {"none", "textless"} /\ truth # <<>> /\ ~context.done
      /\ git'.header = git.header /\ UNCHANGED context
  BY <1>1, <1>2, NextPieceFacts
<1>4. InLast /\ InLast'
  BY <1>3 DEF InLast
<1>5. lines \in Seq(TrueLine) /\ last.rests \in Nat
  BY <1>3, LastFacts
<1>6. rests \in Nat /\ no \in BOOLEAN /\ ~no /\ truth' = Revised(lines, no, rests)
  BY <1>1, <1>2, <1>3, <1>5, PieceRevises
<1> HIDE DEF no, lines, rests
<1>7. /\ n \in Nat /\ Len(truth') = n /\ truth' \in Seq(TrueFile) /\ ~truth'[n].whole
      /\ \A i \in 1 .. n : i # n => truth'[i] = truth[i]
  <2>1. LET next == Revised(lines, no, rests)
        IN  /\ n \in Nat /\ Len(next) = n /\ next \in Seq(TrueFile)
            /\ \A i \in 1 .. n : i # n => next[i] = truth[i]
            /\ n \in 1 .. n /\ next[n] = [name |-> truth[n].name, lines |-> lines, whole |-> no, rests |-> rests]
    <3>1. truth \in Seq(TrueFile) /\ truth # <<>> /\ no \in BOOLEAN /\ rests \in Nat /\ lines \in Seq(TrueLine)
      BY <1>1, <1>3, <1>5, <1>6
    <3> QED
      BY <3>1, RevisedFacts
  <2> QED
    BY <1>6, <2>1
<1>8. DOMAIN truth = 1 .. n /\ DOMAIN truth' = 1 .. n
  BY <1>1, <1>7
<1>9. /\ \A k \in DOMAIN fs : fs[k].of \in 1 .. n /\ ChunksAreTrue(fs[k])
      /\ \A i \in DOMAIN truth : truth[i].whole => truth[i].name # NoName /\ FoundOnce(fs, i, truth[i])
  BY FlushedIsRead
<1>10. current'.file.of = n /\ ChunksAreTrue(WithChunk(current'))
  <2>1. NoName \in Names \cup {NoName}
    OBVIOUS
  <2>2. current'.file.of = n /\ WithChunk(current') = NewFile(NoName, n)
    BY <1>2, <1>7, NothingStarts
  <2> QED
    BY <1>7, <2>1, <2>2, NothingRead
<1> HIDE DEF fs, n
<1>11. ASSUME NEW i \in DOMAIN truth', truth'[i].whole
       PROVE  i # n /\ truth'[i].name # NoName /\ FoundOnce(files', i, truth'[i])
  BY <1>2, <1>7, <1>8, <1>9, <1>11
<1>12. EveryFileIsRead'
  BY <1>2, <1>7, <1>9, <1>10, <1>11 DEF EveryFileIsRead
<1>13. InStep'
  BY <1>4, <1>7, <1>10 DEF InStep
<1>14. ContextIsOfFiles'
  BY <1>1, <1>3 DEF ContextIsOfFiles
<1> QED
  BY <1>12, <1>13, <1>14 DEF ReadInv

LEMMA PiecesAreRead ==
    ASSUME ReadInv, Pieces
    PROVE  ReadInv'
<1> DEFINE c == current
           none == [line |-> 0, position |-> 0]
<1>1. DiffInv /\ c \in Parser /\ ParserFits(c) /\ EveryFileIsRead
  BY ReadInvParts
<1>2. DiffInv'
  BY <1>1, PieceHolds
<1>3. ChunksAreTrue(WithChunk(c)) /\ none \in Detail
  BY <1>1 DEF EveryFileIsRead, Detail
<1> HIDE DEF none
<1>4. ASSUME NEW branch \in {"added", "removed", "other"}, PieceIsLine(branch) PROVE ReadInv'
  <2> DEFINE r == Read(c, branch)
             d == Appended(c, branch)
  <2>1. NextPiece /\ truth' = Divided /\ current' = r /\ UNCHANGED files
    BY <1>4 DEF PieceIsLine
  <2>2. /\ r \in Parser /\ d \in Detail /\ r.file.name = c.file.name /\ r.file.of = c.file.of
        /\ c.inChunk => r.inChunk
    BY <1>1, ReadFacts
  <2>3. ParserFits(r)
    BY <1>1, ReadFits
  <2>4. ChunksAreTrue(WithChunk(r)) /\ Grown(WithChunk(r), WithChunk(c), branch, d)
    BY <1>1, <1>3, ReadCarries DEF Grown
  <2> HIDE DEF r, d
  <2>5. WithChunk(r).name = WithChunk(c).name
    BY <1>1, <2>2, <2>3, WithChunkFacts
  <2> QED
    BY <1>2, <2>1, <2>2, <2>4, <2>5, DividedIsRead
<1>5. ASSUME NEW deleted \in BOOLEAN, PieceIsMode(deleted) PROVE ReadInv'
  <2> DEFINE r == [c EXCEPT !.deleted = deleted]
  <2>1. NextPiece /\ truth' = Divided /\ current' = r /\ UNCHANGED files
    BY <1>5 DEF PieceIsMode
  <2>2. WithChunk(r) = WithChunk(c) /\ r.file = c.file /\ r.inChunk = c.inChunk
    BY <1>1, ModeFacts
  <2> HIDE DEF r
  <2>3. Grown(WithChunk(r), WithChunk(c), "other", none)
    BY <2>2 DEF Grown, Changes
  <2> QED
    BY <1>2, <1>3, <2>1, <2>2, <2>3, DividedIsRead
<1>6. ASSUME NEW old \in Stray, NEW new \in Stray, PieceIsHunk(old, new) PROVE ReadInv'
  <2> DEFINE r == OpenChunk(c, old, new)
  <2>1. NextPiece /\ truth' = Divided /\ current' = r /\ UNCHANGED files
    BY <1>6 DEF PieceIsHunk
  <2>2. old \in Nat \cup {None} /\ new \in Nat \cup {None}
    BY BoundsAreNumbers
  <2>3. r \in Parser /\ ParserFits(r) /\ r.file = WithChunk(c) /\ r.inChunk
    BY <1>1, <2>2, OpenChunkFacts
  <2>4. ChunksAreTrue(WithChunk(r)) /\ \A x \in Changes : WithChunk(r)[x] = WithChunk(c)[x]
    BY <1>1, <1>3, <2>2, OpenChunkCarries
  <2> HIDE DEF r
  <2>5. WithChunk(r).name = WithChunk(c).name /\ r.file.of = c.file.of
    BY <1>1, <2>3, WithChunkFacts
  <2>6. Grown(WithChunk(r), WithChunk(c), "other", none)
    BY <2>4 DEF Grown, Changes
  <2> QED
    BY <1>2, <1>3, <2>1, <2>3, <2>4, <2>5, <2>6, DividedIsRead
<1>7. ASSUME NEW name \in Names \cup {NoName}, PieceIsName(name) PROVE ReadInv'
  <2> DEFINE r == [c EXCEPT !.file.name = name]
             last == truth[Len(truth)]
             no == FALSE
             lines == last.lines
             rests == last.rests + 1
  <2>1. NextPiece /\ truth' = Lost /\ current' = r /\ UNCHANGED files
    BY <1>7 DEF PieceIsName
  <2>2. ChunksAreTrue(WithChunk(r)) /\ r.file.of = c.file.of
    <3>1. /\ r \in Parser /\ ParserFits(r) /\ r.file.of = c.file.of /\ r.file.chunks = c.file.chunks
          /\ r.file["added"] = c.file["added"] /\ r.file["removed"] = c.file["removed"] /\ r.chunk = c.chunk
      BY <1>1, RenamedFacts
    <3> HIDE DEF r, c
    <3> QED
      BY <1>1, <1>3, <3>1, ChunksCarry DEF Changes
  <2>3. /\ git.header \notin {"none", "textless"} /\ truth # <<>> /\ ~context.done
        /\ git'.header = git.header /\ UNCHANGED context
    BY <1>1, <2>1, NextPieceFacts
  <2>4. lines \in Seq(TrueLine) /\ last.rests \in Nat
    BY <2>3, LastFacts
  <2>5. git \in Place /\ truth \in Seq(TrueFile)
    BY ReadInvParts
  <2>6. rests \in Nat /\ no \in BOOLEAN /\ ~no /\ truth' = Revised(lines, no, rests)
    BY <2>1, <2>3, <2>4, <2>5, PieceRevises
  <2>7. ChunksAreTrue(WithChunk(current')) /\ current'.file.of = c.file.of
    BY <2>1, <2>2
  <2> HIDE DEF no, lines, rests
  <2> QED
    BY <1>2, <2>1, <2>3, <2>4, <2>6, <2>7, StaysInFile
<1>8. ASSUME PieceIsFile PROVE ReadInv'
  BY <1>2, <1>8, PieceIsFileIsRead
<1> QED
  BY <1>4, <1>5, <1>6, <1>7, <1>8, Zenon DEF Pieces

LEMMA CutIsOf ==
    ASSUME NEW S, NEW s \in Seq(S), NEW n \in Nat
    PROVE  ToSet(Cut(s, n)) \subseteq ToSet(s)
<1>1. /\ Cut(s, n) \in Seq(S) /\ Len(Cut(s, n)) \in Nat /\ Len(s) \in Nat /\ Len(Cut(s, n)) <= Len(s)
      /\ \A i \in 1 .. Len(Cut(s, n)) : Cut(s, n)[i] = s[i]
  BY CutBounds, CutFacts
<1>2. \A i \in DOMAIN Cut(s, n) : i \in DOMAIN s /\ Cut(s, n)[i] = s[i]
  BY <1>1
<1> QED
  BY <1>2, Zenon DEF ToSet

LEMMA FinishIsRead ==
    ASSUME ReadInv, NEW asked \in Asked \X Asked \X Asked, Finish(asked)
    PROVE  ReadInv'
<1> DEFINE limits == [files |-> Positive(asked[1], DefaultFiles), lines |-> Positive(asked[2], DefaultLines),
                      total |-> Positive(asked[3], DefaultTotal)]
           parsed == Flushed(current)
           kept == KeptFiles(parsed, limits)
<1>1. DiffInv
  BY ReadInvParts
<1>2. DiffInv'
  BY <1>1, FinishHolds
<1>3. parsed \in Seq(File) /\ \A k \in DOMAIN parsed : ChunksFit(parsed[k])
  BY FlushedIsRead
<1>4. /\ files' = parsed /\ truth' = truth
      /\ current' = Start(NewFile(NoName, 0), FALSE)
      /\ context'.done /\ context'.files = kept.files
  BY DEF Finish
<1>5. limits \in Limits
  <2>1. \A n \in Int : n > 0 => n \in Nat
    OBVIOUS
  <2>2. asked[1] \in Int /\ asked[2] \in Int /\ asked[3] \in Int
    BY BudgetsAreNumbers
  <2>3. DefaultFiles \in Nat /\ DefaultLines \in Nat /\ DefaultTotal \in Nat
    BY BudgetsAreNumbers
  <2> QED
    BY <2>1, <2>2, <2>3 DEF Limits, Positive
<1>6. ~InLast'
  BY <1>4 DEF InLast
<1>7. EveryFileIsRead' /\ InStep'
  BY <1>2, <1>4, <1>6, NothingIsOpenIsRead
<1> HIDE DEF limits, parsed
<1>8. /\ kept.files \in Seq(File) /\ Len(kept.files) <= Len(parsed)
      /\ \A j \in 1 .. Len(kept.files) : IsCutOf(kept.files[j], parsed[j], limits.lines)
  <2>1. /\ kept \in FileAcc /\ Len(kept.files) <= Len(parsed)
        /\ \A j \in 1 .. Len(kept.files) : IsCutOf(kept.files[j], parsed[j], limits.lines)
    BY <1>3, <1>5, KeptFilesFacts
  <2> QED
    BY <2>1 DEF FileAcc
<1> HIDE DEF kept
<1>9. ContextIsOfFiles'
  <2>1. ASSUME NEW i \in DOMAIN kept.files
        PROVE  /\ i \in DOMAIN parsed
               /\ kept.files[i].name = parsed[i].name /\ kept.files[i].of = parsed[i].of
               /\ \A change \in Changes : ToSet(kept.files[i][change]) \subseteq ToSet(parsed[i][change])
    <3>1. i \in 1 .. Len(kept.files) /\ i \in DOMAIN parsed
      BY <1>3, <1>8
    <3>2. parsed[i] \in File /\ limits.lines \in Nat
      BY <1>3, <1>5, <3>1 DEF Limits
    <3>3. IsCutOf(kept.files[i], parsed[i], limits.lines)
      BY <1>8, <3>1
    <3>4. ASSUME NEW change \in Changes
          PROVE  ToSet(kept.files[i][change]) \subseteq ToSet(parsed[i][change])
      <4>1. kept.files[i][change] = Cut(parsed[i][change], limits.lines)
        BY <3>3 DEF IsCutOf, Changes
      <4>2. parsed[i][change] \in Seq(Detail)
        BY <3>2, FieldsTyped
      <4> QED
        BY <3>2, <4>1, <4>2, CutIsOf
    <3> QED
      BY <3>1, <3>3, <3>4 DEF IsCutOf
  <2> QED
    BY <1>4, <2>1, Zenon DEF ContextIsOfFiles
<1> QED
  BY <1>2, <1>7, <1>9 DEF ReadInv

LEMMA StepIsRead == ReadInv /\ [Next]_vars => ReadInv'
<1> SUFFICES ASSUME ReadInv, [Next]_vars PROVE ReadInv'
  OBVIOUS
<1>1. CASE UNCHANGED vars
  <2>1. DiffInv'
    BY <1>1, ReadInvParts DEF vars, DiffInv, TypeOK, InAFile, ChunksAreOfTheirFile
  <2>2. EveryFileIsRead'
    BY <1>1, ReadInvParts DEF vars, EveryFileIsRead, InLast
  <2>3. InStep' /\ ContextIsOfFiles'
    BY <1>1, ReadInvParts DEF vars, InStep, InLast, ContextIsOfFiles
  <2> QED
    BY <2>1, <2>2, <2>3 DEF ReadInv
<1> QED
  BY <1>1, OpenFileIsRead, OpenTextlessIsRead, OpenHunkIsRead, ReadLineIsRead, ReadAsNameIsRead, PiecesAreRead,
     FinishIsRead DEF Next

LEMMA ReadInvariant == Spec => []ReadInv
BY InitIsRead, StepIsRead, PTL DEF Spec

\* However many files, hunks and lines a diff has, wherever its odd lines are
\* and whatever the pieces of its lines are taken for: a file whose name and
\* header parse_diff has read is found once, with every changed line of it that
\* has nothing odd before it in its hunk.
THEOREM DiffIsParsed == Spec => []ParsedIsTrue
<1>1. ReadInv => ParsedIsTrue
  <2> SUFFICES ASSUME ReadInv PROVE ParsedIsTrue
    OBVIOUS
  <2>1. EveryFileIsRead /\ InStep
    BY ReadInvParts
  <2>2. /\ \A k \in DOMAIN Parsed : ChunksAreTrue(Parsed[k])
        /\ \A i \in DOMAIN truth : truth[i].whole => FoundOnce(Parsed, i, truth[i])
    <3>1. CASE context.done
      <4>1. ~InLast /\ Parsed = files
        BY <3>1 DEF Parsed, InLast
      <4> QED
        BY <2>1, <4>1 DEF EveryFileIsRead
    <3>2. CASE ~context.done
      BY <3>2, FlushedIsRead DEF Parsed
    <3> QED
      BY <3>1, <3>2
  <2>3. \A file, true : FileIsRead(file, true) => IsReadAs(true, file)
    BY Zenon DEF FileIsRead, FileIsTrue, IsReadAs, Knows, Known, Reported, Count
  <2>4. \A i \in DOMAIN truth : truth[i].whole =>
           \E k \in DOMAIN Parsed :
              /\ IsReadAs(truth[i], Parsed[k])
              /\ \A j \in DOMAIN Parsed : Parsed[j].of = i <=> j = k
    <3> SUFFICES ASSUME NEW i \in DOMAIN truth, truth[i].whole
                 PROVE  \E k \in DOMAIN Parsed :
                           /\ IsReadAs(truth[i], Parsed[k])
                           /\ \A j \in DOMAIN Parsed : Parsed[j].of = i <=> j = k
      OBVIOUS
    <3>1. FoundOnce(Parsed, i, truth[i])
      BY <2>2
    <3>2. PICK k \in DOMAIN Parsed :
             FileIsRead(Parsed[k], truth[i]) /\ \A j \in DOMAIN Parsed : Parsed[j].of = i <=> j = k
      BY <3>1, Zenon DEF FoundOnce
    <3>3. IsReadAs(truth[i], Parsed[k])
      BY <2>3, <3>2, Zenon
    <3> QED
      BY <3>2, <3>3, Zenon
  <2> QED
    BY <2>2, <2>4, Zenon DEF ParsedIsTrue, ChunksAreTrue, Flat
<1> QED
  BY <1>1, ReadInvariant, PTL

-----------------------------------------------------------------------------
(* Where a comment goes *)

LEMMA MinOfSome ==
    ASSUME NEW I, I \subseteq Nat, I # {}
    PROVE  Min(I) \in I
<1>1. \E x \in I : \A y \in I : x <= y
  <2>1. PICK x \in I : \A y \in I : <<y, x>> \notin OpToRel(<, Nat)
    BY WFMin, NatLessThanWellFounded
  <2>2. \A y \in I : ~(y < x)
    BY <2>1 DEF OpToRel
  <2>3. x \in Nat /\ \A y \in I : y \in Nat
    OBVIOUS
  <2>4. \A y \in I : x <= y
    BY <2>2, <2>3
  <2> QED
    BY <2>4
<1> QED
  BY <1>1 DEF Min

LEMMA FirstFacts ==
    ASSUME NEW details \in Seq(Detail), NEW line, First(details, line) # 0
    PROVE  First(details, line) \in DOMAIN details /\ details[First(details, line)].line = line
<1> DEFINE I == {i \in 1 .. Len(details) : details[i].line = line}
<1>1. First(details, line) = IF I # {} THEN Min(I) ELSE 0
  BY Zenon DEF First, SelectInSeq
<1>2. I # {} /\ First(details, line) = Min(I)
  BY <1>1
<1>3. I \subseteq Nat
  OBVIOUS
<1> HIDE DEF I
<1>4. First(details, line) \in I
  BY <1>2, <1>3, MinOfSome
<1> QED
  BY <1>4 DEF I

\* The file a comment is placed in, when no other has its name.
LEMMA CommentIsInItsFile ==
    ASSUME context.files \in Seq(File), NEW i \in DOMAIN context.files, NEW line,
           \A j \in DOMAIN context.files : context.files[j].name = context.files[i].name => j = i,
           CommentPosition(context.files[i].name, line) # 0
    PROVE  /\ CommentPosition(context.files[i].name, line) = PositionOf(context.files[i], line)
           /\ PositionOf(context.files[i], line) # 0
<1> DEFINE name == context.files[i].name
           I == {j \in 1 .. Len(context.files) : context.files[j].name = name /\ PositionOf(context.files[j], line) # 0}
           found == SelectInSeq(context.files, LAMBDA file : file.name = name /\ PositionOf(file, line) # 0)
<1>1. found = IF I # {} THEN Min(I) ELSE 0
  BY Zenon DEF SelectInSeq
<1>2. CommentPosition(name, line) = IF found = 0 THEN 0 ELSE PositionOf(context.files[found], line)
  BY DEF CommentPosition
<1> HIDE DEF found
<1>3. I \subseteq Nat /\ I \subseteq DOMAIN context.files
  OBVIOUS
<1>4. I # {} /\ found = Min(I)
  BY <1>1, <1>2
<1>5. found \in I
  <2> HIDE DEF I
  <2> QED
    BY <1>3, <1>4, MinOfSome
<1>6. found = i
  BY <1>3, <1>5
<1>7. found # 0
  BY <1>5
<1> QED
  BY <1>2, <1>5, <1>6, <1>7

LEMMA CommentIsDisplaced ==
    ASSUME ReadInv, NEW i \in DOMAIN context.files, NEW line
    PROVE  IsDisplaced(i, line)
<1> DEFINE cut == context.files[i]
           m == cut.of
           added == First(cut.added, line)
           removed == First(cut.removed, line)
<1> SUFFICES ASSUME HasComment(i, line)
             PROVE  \E t \in Meant(i, line) :
                       CommentPosition(cut.name, line) = t.position - HeadersBefore(t.hunk)
  BY Zenon DEF IsDisplaced
<1>1. /\ EveryFileIsRead /\ InStep /\ ContextIsOfFiles /\ files \in Seq(File)
      /\ context \in Shown /\ Len(truth) \in Nat /\ DOMAIN truth = 1 .. Len(truth)
  BY ReadInvParts
<1>2. context.files \in Seq(File) /\ cut \in File
  <2>1. context.files \in Seq(File)
    BY <1>1 DEF Shown
  <2> QED
    BY <2>1
<1>3. /\ context.done /\ i \in DOMAIN files /\ m = files[i].of
      /\ \A change \in Changes : ToSet(cut[change]) \subseteq ToSet(files[i][change])
  BY <1>1, Zenon DEF ContextIsOfFiles
<1>4. /\ truth[m].whole /\ truth[m].rests = 0 /\ Sound(truth[m].lines)
      /\ \A j \in DOMAIN context.files : context.files[j].name = cut.name => j = i
      /\ CommentPosition(cut.name, line) # 0
  BY Zenon DEF HasComment, Sound
<1>5. FileIsBacked(files[i], truth[m].lines, truth[m].rests)
  <2>1. m \in DOMAIN truth /\ ~InLast
    BY <1>1, <1>3 DEF EveryFileIsRead, InLast
  <2>2. FoundOnce(files, m, truth[m])
    BY <1>1, <1>4, <2>1 DEF EveryFileIsRead
  <2>3. FileIsRead(files[i], truth[m])
    BY <1>3, <2>2 DEF FoundOnce
  <2> QED
    BY <2>3 DEF FileIsRead
<1>6. CommentPosition(cut.name, line) = PositionOf(cut, line) /\ PositionOf(cut, line) # 0
  BY <1>2, <1>4, CommentIsInItsFile
<1>7. ASSUME NEW change \in Changes, First(cut[change], line) # 0
      PROVE  \E t \in ToSet(truth[m].lines) :
                /\ t.change = change
                /\ t.line = line
                /\ cut[change][First(cut[change], line)].position = Reported(t.position, t.hunk)
  <2> DEFINE n == First(cut[change], line)
  <2>1. cut[change] \in Seq(Detail)
    BY <1>2, FieldsTyped
  <2>2. n \in DOMAIN cut[change] /\ cut[change][n].line = line
    BY <1>7, <2>1, FirstFacts
  <2> HIDE DEF n
  <2>3. cut[change][n] \in ToSet(files[i][change])
    BY <1>3, <2>2 DEF ToSet
  <2> QED
    BY <1>4, <1>5, <2>2, <2>3 DEF FileIsBacked, n
<1>8. "added" \in Changes /\ "removed" \in Changes
  BY DEF Changes
<1>9. CASE added # 0
  <2>1. PositionOf(cut, line) = cut.added[added].position
    BY <1>9 DEF PositionOf
  <2>2. PICK t \in ToSet(truth[m].lines) :
           t.change = "added" /\ t.line = line /\ cut.added[added].position = Reported(t.position, t.hunk)
    BY <1>7, <1>8, <1>9
  <2>3. t \in Meant(i, line)
    BY <2>2 DEF Meant
  <2> QED
    BY <1>6, <2>1, <2>2, <2>3 DEF Reported
<1>10. CASE added = 0
  <2>1. removed # 0 /\ PositionOf(cut, line) = cut.removed[removed].position
    BY <1>6, <1>10 DEF PositionOf
  <2>2. PICK t \in ToSet(truth[m].lines) :
           t.change = "removed" /\ t.line = line /\ cut.removed[removed].position = Reported(t.position, t.hunk)
    BY <1>7, <1>8, <2>1
  <2>3. t \in Meant(i, line)
    BY <1>10, <2>2 DEF Meant
  <2> QED
    BY <1>6, <2>1, <2>2, <2>3 DEF Reported
<1> QED
  BY <1>9, <1>10

\* A comment on a line of a file that was read as it is goes to a changed line
\* of that number, an added one if the context has one, and is as many lines
\* too high as the file has hunks before it: in every file of every diff, cut
\* to whatever budget.
THEOREM CommentsDisplaced == Spec => []CommentsAreDisplacedByHunks
<1>1. ReadInv => CommentsAreDisplacedByHunks
  BY CommentIsDisplaced, Zenon DEF CommentsAreDisplacedByHunks
<1> QED
  BY <1>1, ReadInvariant, PTL

\* The same for every number a finding may name, where the runs look only at
\* those near the diff's own.
THEOREM CommentsDisplacedAnywhere ==
    Spec => [](\A i \in DOMAIN context.files : \A line : IsDisplaced(i, line))
<1> DEFINE Displaced == \A i \in DOMAIN context.files : \A line : IsDisplaced(i, line)
<1>1. ReadInv => Displaced
  BY CommentIsDisplaced, Zenon
<1> QED
  BY <1>1, ReadInvariant, PTL

=============================================================================
