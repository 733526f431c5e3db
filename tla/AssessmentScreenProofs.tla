------------------------ MODULE AssessmentScreenProofs ------------------------
(***************************************************************************)
(* Theorems about the assessment page, for any files, forms and bounds:    *)
(* the result and the source of its re-runs never part, a guessed column   *)
(* is read only as it was confirmed, and the result shown accounts for     *)
(* every row and dollar, falls with its threshold, knows nothing of the    *)
(* future and has no amount that was guessed. What is in flight, chosen    *)
(* and shown is well formed throughout.                                    *)
(***************************************************************************)
EXTENDS AssessmentScreen, TLAPS, FiniteSetTheorems, WellFoundedInduction

-----------------------------------------------------------------------------
\* The result shown stays the one its source was set with: both are written
\* only by a run that succeeds, and together (Assessment.tsx:40-44).
THEOREM ResultMatchesSource == ScreenSpec => []ResultOfItsSource
<1>1. ScreenInit => ResultOfItsSource
  BY DEF ScreenInit, ResultOfItsSource
<1>2. ResultOfItsSource /\ [ScreenNext]_screenVars => ResultOfItsSource'
  <2> SUFFICES ASSUME ResultOfItsSource, [ScreenNext]_screenVars
               PROVE  ResultOfItsSource'
    OBVIOUS
  <2> USE DEF ResultOfItsSource
  <2>1. ASSUME NEW r \in runs, FinishRun(r)  PROVE ResultOfItsSource'
    BY <2>1 DEF FinishRun
  <2>2. CASE LeavePage
    BY <2>2 DEF LeavePage
  <2>3. ASSUME UNCHANGED <<source, result>>  PROVE ResultOfItsSource'
    BY <2>3
  <2>4. CASE \/ \E f \in Forms : SetForm(f)
             \/ \E file \in Files : PickFile(file)
             \/ RejectFile
             \/ \E r \in reads : FileRead(r)
             \/ \E field \in REQUIRED,
                   header \in IF review = Blank THEN {} ELSE review.file.headers :
                      Choose(field, header)
             \/ ConfirmMapping
             \/ \E n \in Thresholds : ChangeN(n)
             \/ Back
             \/ ShowObserved
             \/ UNCHANGED screenVars
    <3>1. UNCHANGED <<source, result>>
      BY <2>4 DEF SetForm, PickFile, RejectFile, FileRead, Choose, ConfirmMapping, ChangeN,
                  Back, ShowObserved, screenVars
    <3> QED  BY <3>1, <2>3
  <2> QED  BY <2>1, <2>2, <2>4 DEF ScreenNext, PageNext
<1> QED  BY <1>1, <1>2, PTL DEF ScreenSpec

-----------------------------------------------------------------------------
\* The one run that a call adds.
LEMMA RunAddsOne ==
    ASSUME NEW file, NEW mapping, NEW params, Run(file, mapping, params),
           NEW r \in runs' \ runs
    PROVE  r.file = file /\ r.mapping = mapping
  BY DEF Run

\* A required column is read under another name only if the operator had that
\* choice before him, or once more with the mapping of the result shown
\* (onFile, confirmMapping and changeN, Assessment.tsx:61-79).
THEOREM OnlyConfirmedGuesses == ScreenSpec => GuessesAreConfirmed
<1> DEFINE Guessed(m) == \E f \in REQUIRED : f \notin DOMAIN m \/ m[f] # f
           Confirmed(r) ==
              \/ step = "mapping" /\ \A f \in REQUIRED : r.mapping[f] = choices[f]
              \/ result # Blank /\ r.file = source.file /\ r.mapping = source.mapping
<1>1. [ScreenNext]_screenVars =>
         [\A r \in runs' \ runs : Guessed(r.mapping) => Confirmed(r)]_screenVars
  <2> SUFFICES ASSUME ScreenNext, NEW r \in runs' \ runs, Guessed(r.mapping)
               PROVE  Confirmed(r)
    OBVIOUS
  <2>1. ASSUME NEW read \in reads, FileRead(read)  PROVE FALSE
    <3> DEFINE mapping == AutoDetectMapping(read.file.headers)
    <3>1. Run(read.file, mapping, read.form) /\ ~NeedsReview(mapping)
      BY <2>1 DEF FileRead
    <3>2. r.mapping = mapping
      BY <3>1, RunAddsOne
    <3> HIDE DEF mapping
    <3>3. \A f \in REQUIRED : f \in DOMAIN mapping /\ mapping[f] = f
      BY <3>1 DEF NeedsReview
    <3> QED  BY <3>2, <3>3
  <2>2. CASE ConfirmMapping
    <3> DEFINE chosen == [f \in REQUIRED \cup DOMAIN review.mapping |->
                            IF f \in REQUIRED THEN choices[f] ELSE review.mapping[f]]
    <3>1. step = "mapping" /\ Run(review.file, chosen, form)
      BY <2>2 DEF ConfirmMapping
    <3>2. r.mapping = chosen
      BY <3>1, RunAddsOne
    <3> QED  BY <3>1, <3>2
  <2>3. ASSUME NEW n \in Thresholds, ChangeN(n)  PROVE Confirmed(r)
    <3>1. result # Blank /\ Run(source.file, source.mapping, form')
      BY <2>3 DEF ChangeN
    <3>2. r.file = source.file /\ r.mapping = source.mapping
      BY <3>1, RunAddsOne
    <3> QED  BY <3>1, <3>2
  <2>4. CASE \/ \E f \in Forms : SetForm(f)
             \/ \E file \in Files : PickFile(file)
             \/ RejectFile
             \/ \E field \in REQUIRED,
                   header \in IF review = Blank THEN {} ELSE review.file.headers :
                      Choose(field, header)
             \/ \E run \in runs : FinishRun(run)
             \/ Back
             \/ ShowObserved
             \/ LeavePage
    <3>1. runs' \subseteq runs
      BY <2>4 DEF SetForm, PickFile, RejectFile, Choose, FinishRun, Back, ShowObserved, LeavePage
    <3> QED  BY <3>1
  <2> QED  BY <2>1, <2>2, <2>3, <2>4 DEF ScreenNext, PageNext
<1>2. [ScreenNext]_screenVars => [\A r \in runs' \ runs :
          (\E f \in REQUIRED : f \notin DOMAIN r.mapping \/ r.mapping[f] # f) =>
             \/ step = "mapping" /\ \A f \in REQUIRED : r.mapping[f] = choices[f]
             \/ result # Blank /\ r.file = source.file /\ r.mapping = source.mapping]_screenVars
  BY <1>1
<1> QED  BY <1>2, PTL DEF ScreenSpec, GuessesAreConfirmed

-----------------------------------------------------------------------------
(* Sums over finite sets, by induction on their size.                      *)
\* The natural numbers are well ordered.
LEMMA NatOrder == \E R : IsWellFoundedOn(R, Nat) /\ \A x, y \in Nat : x < y => <<x, y>> \in R
  <1>1. \A x, y \in Nat : x < y => <<x,y>> \in OpToRel(<, Nat)
    BY DEF OpToRel
  <1>. QED BY <1>1, NatLessThanWellFounded, Zenon

\* A set of natural numbers has a least one.
LEMMA Least == ASSUME NEW T, T \subseteq Nat, T # {} PROVE \E m \in T : \A k \in T : m <= k
  <1>1. PICK R : IsWellFoundedOn(R, Nat) /\ \A x, y \in Nat : x < y => <<x, y>> \in R
    BY NatOrder
  <1>2. IsWellFoundedOn(R, Nat)
    BY <1>1
  <1>3. PICK m \in T : \A y \in T : ~(<<y,m>> \in R)
    BY <1>2, WFMin, Zenon
  <1>4. ASSUME NEW k \in T PROVE ~(k < m)
    <2>1. k \in Nat /\ m \in Nat
      OBVIOUS
    <2>2. k < m => <<k, m>> \in R
      BY <1>1, <2>1
    <2> QED BY <1>3, <2>2
  <1>5. \A k \in T : k \in Nat
    OBVIOUS
  <1> QED BY <1>4, <1>5

\* What holds of 0 and of each successor holds of every natural number.
LEMMA NatInduces == ASSUME NEW P, 0 \in P, \A n \in Nat : n \in P => n+1 \in P PROVE Nat \subseteq P
  <1> SUFFICES ASSUME NEW x \in Nat, x \notin P PROVE FALSE
    OBVIOUS
  <1>1. PICK m \in Nat \ P : \A k \in Nat \ P : m <= k
    BY Least
  <1>2. m # 0 /\ m - 1 \in Nat
    BY <1>1
  <1>3. m - 1 \in P
    BY <1>1, <1>2
  <1> QED BY <1>1, <1>2, <1>3

\* What holds of the empty set and survives an element more holds of a finite set.
LEMMA SetInduces ==
    ASSUME NEW S, IsFiniteSet(S), NEW P, {} \in P,
           \A T \in SUBSET S : \A x \in S \ T : T \in P => T \cup {x} \in P
    PROVE  S \in P
  <1> DEFINE Q == {n \in Nat : \A T \in SUBSET S : Cardinality(T) = n => T \in P}
  <1>0. \A T \in SUBSET S : IsFiniteSet(T) /\ Cardinality(T) \in Nat
    BY FS_Subset, FS_CardinalityType
  <1>1. 0 \in Q
    BY <1>0, FS_EmptySet
  <1>2. \A n \in Nat : n \in Q => n + 1 \in Q
    <2> SUFFICES ASSUME NEW n \in Nat, n \in Q, NEW T \in SUBSET S, Cardinality(T) = n + 1
                 PROVE  T \in P
      OBVIOUS
    <2>1. PICK x : x \in T
      BY <1>0, FS_EmptySet
    <2>2. T \ {x} \in SUBSET S /\ Cardinality(T \ {x}) = n
      <3>1. Cardinality(T \ {x}) = Cardinality(T) - 1
        BY <1>0, <2>1, FS_RemoveElement
      <3> QED  BY <3>1
    <2>3. T \ {x} \in P
      BY <2>2
    <2>4. T = (T \ {x}) \cup {x} /\ x \in S \ (T \ {x})
      BY <2>1
    <2> QED  BY <2>2, <2>3, <2>4
  <1> HIDE DEF Q
  <1>3. Cardinality(S) \in Q
    BY <1>0, <1>1, <1>2, NatInduces
  <1> QED  BY <1>3 DEF Q

\* g is the sum of the weights w over the subsets of S.
Adds(g, S, w) ==
    /\ g \in [SUBSET S -> Int]
    /\ g[{}] = 0
    /\ \A s \in SUBSET S : \A x \in s : g[s] = w[x] + g[s \ {x}]

\* g folds + over the subsets of S in the order of CHOOSE.
FoldsTo(g, s, w) ==
    g[s] = IF s = {} THEN 0 ELSE w[CHOOSE x \in s : TRUE] + g[s \ {CHOOSE x \in s : TRUE}]

\* Every finite set has such a fold.
LEMMA FoldExists ==
    ASSUME NEW S, IsFiniteSet(S), NEW w \in [S -> Int]
    PROVE  \E g \in [SUBSET S -> Int] : \A s \in SUBSET S : FoldsTo(g, s, w)
  <1> DEFINE P == {n \in Nat : \E g \in [SUBSET S -> Int] :
                       \A s \in SUBSET S : Cardinality(s) <= n => FoldsTo(g, s, w)}
  <1>0. \A T \in SUBSET S : IsFiniteSet(T) /\ Cardinality(T) \in Nat
                            /\ (Cardinality(T) = 0 <=> T = {})
    BY FS_Subset, FS_CardinalityType, FS_EmptySet
  <1>1. 0 \in P
    <2> DEFINE g == [s \in SUBSET S |-> 0]
    <2>1. \A s \in SUBSET S : Cardinality(s) <= 0 => s = {}
      BY <1>0
    <2>2. g \in [SUBSET S -> Int] /\ g[{}] = 0
      OBVIOUS
    <2> HIDE DEF g
    <2>3. \A s \in SUBSET S : Cardinality(s) <= 0 => FoldsTo(g, s, w)
      BY <2>1, <2>2 DEF FoldsTo
    <2> QED  BY <2>2, <2>3
  <1>2. \A n \in Nat : n \in P => n + 1 \in P
    <2> SUFFICES ASSUME NEW n \in Nat, n \in P PROVE n + 1 \in P
      OBVIOUS
    <2>1. PICK f \in [SUBSET S -> Int] :
              \A s \in SUBSET S : Cardinality(s) <= n => FoldsTo(f, s, w)
      OBVIOUS
    <2> DEFINE first(s) == CHOOSE x \in s : TRUE
               g == [s \in SUBSET S |-> IF Cardinality(s) <= n THEN f[s]
                                        ELSE w[first(s)] + f[s \ {first(s)}]]
    <2>2. \A s \in SUBSET S : s # {} => first(s) \in s /\ s \ {first(s)} \in SUBSET S
                                        /\ Cardinality(s \ {first(s)}) = Cardinality(s) - 1
      <3> SUFFICES ASSUME NEW s \in SUBSET S, s # {}
                   PROVE  first(s) \in s /\ s \ {first(s)} \in SUBSET S
                          /\ Cardinality(s \ {first(s)}) = Cardinality(s) - 1
        OBVIOUS
      <3>1. first(s) \in s
        OBVIOUS
      <3> HIDE DEF first
      <3> QED  BY <1>0, <3>1, FS_RemoveElement
    <2>3. \A s \in SUBSET S : g[s] = IF Cardinality(s) <= n THEN f[s]
                                     ELSE w[first(s)] + f[s \ {first(s)}]
      OBVIOUS
    <2>4. g \in [SUBSET S -> Int]
      <3> SUFFICES ASSUME NEW s \in SUBSET S, ~(Cardinality(s) <= n)
                   PROVE  w[first(s)] + f[s \ {first(s)}] \in Int
        OBVIOUS
      <3>1. s # {}
        BY <1>0
      <3>2. first(s) \in S /\ s \ {first(s)} \in SUBSET S
        BY <2>2, <3>1
      <3> HIDE DEF first
      <3> QED  BY <2>1, <3>2
    <2> HIDE DEF g
    <2>5. ASSUME NEW s \in SUBSET S, Cardinality(s) <= n + 1 PROVE FoldsTo(g, s, w)
      <3>1. CASE s = {}
        <4>1. g[s] = f[s] /\ FoldsTo(f, s, w)
          BY <1>0, <2>1, <2>3, <3>1
        <4> QED  BY <3>1, <4>1 DEF FoldsTo
      <3>2. CASE s # {}
        <4>1. g[s \ {first(s)}] = f[s \ {first(s)}]
          <5>1. Cardinality(s \ {first(s)}) <= n /\ s \ {first(s)} \in SUBSET S
            BY <1>0, <2>2, <2>5, <3>2
          <5> HIDE DEF first
          <5> QED  BY <2>3, <5>1
        <4>2. g[s] = w[first(s)] + f[s \ {first(s)}]
          <5>1. CASE Cardinality(s) <= n
            <6>1. g[s] = f[s] /\ FoldsTo(f, s, w)
              BY <2>1, <2>3, <5>1
            <6> QED  BY <3>2, <6>1 DEF FoldsTo
          <5>2. CASE ~(Cardinality(s) <= n)
            <6> HIDE DEF first
            <6> QED BY <2>3, <5>2
          <5> QED  BY <5>1, <5>2
        <4> QED  BY <3>2, <4>1, <4>2 DEF FoldsTo
      <3> QED  BY <3>1, <3>2
    <2> QED  BY <2>4, <2>5
  <1> HIDE DEF P
  <1>3. Cardinality(S) \in P
    BY <1>0, <1>1, <1>2, NatInduces
  <1>4. \A s \in SUBSET S : Cardinality(s) <= Cardinality(S)
    BY FS_Subset
  <1> QED  BY <1>3, <1>4 DEF P

\* The order of the fold plays no part.
LEMMA FoldAdds ==
    ASSUME NEW S, IsFiniteSet(S), NEW w \in [S -> Int], NEW g \in [SUBSET S -> Int],
           \A s \in SUBSET S : FoldsTo(g, s, w)
    PROVE  Adds(g, S, w)
  <1> DEFINE first(s) == CHOOSE x \in s : TRUE
             P == {n \in Nat : \A s \in SUBSET S : Cardinality(s) = n =>
                       \A x \in s : g[s] = w[x] + g[s \ {x}]}
  <1>0. \A T \in SUBSET S : IsFiniteSet(T) /\ Cardinality(T) \in Nat
                            /\ (Cardinality(T) = 0 <=> T = {})
    BY FS_Subset, FS_CardinalityType, FS_EmptySet
  <1>1. \A s \in SUBSET S : s # {} => first(s) \in s /\ g[s] = w[first(s)] + g[s \ {first(s)}]
    BY DEF FoldsTo
  <1>2. g[{}] = 0
    BY DEF FoldsTo
  <1> HIDE DEF first
  <1>3. 0 \in P
    BY <1>0
  <1>4. \A n \in Nat : n \in P => n + 1 \in P
    <2> SUFFICES ASSUME NEW n \in Nat, n \in P, NEW s \in SUBSET S, Cardinality(s) = n + 1,
                        NEW x \in s
                 PROVE  g[s] = w[x] + g[s \ {x}]
      OBVIOUS
    <2>1. PICK y : y = first(s)
      OBVIOUS
    <2>2. y \in s /\ g[s] = w[y] + g[s \ {y}]
      BY <1>1, <2>1
    <2>3. CASE x = y
      BY <2>2, <2>3
    <2>4. CASE x # y
      <3>1. /\ s \ {x} \in SUBSET S /\ s \ {y} \in SUBSET S
            /\ Cardinality(s \ {x}) = n /\ Cardinality(s \ {y}) = n
        <4>1. IsFiniteSet(s)
          BY <1>0
        <4>2. Cardinality(s \ {x}) = Cardinality(s) - 1
          BY <4>1, FS_RemoveElement
        <4>3. Cardinality(s \ {y}) = Cardinality(s) - 1
          BY <2>2, <4>1, FS_RemoveElement
        <4> QED  BY <4>2, <4>3
      <3>2. PICK r \in SUBSET S : r = (s \ {y}) \ {x}
        OBVIOUS
      <3>3. (s \ {x}) \ {y} = r
        BY <3>2
      <3>4. g[s \ {x}] = w[y] + g[r]
        BY <2>2, <2>4, <3>1, <3>3
      <3>5. g[s \ {y}] = w[x] + g[r]
        BY <2>4, <3>1, <3>2
      <3>6. w[x] \in Int /\ w[y] \in Int /\ g[r] \in Int
        BY <2>2
      <3> QED  BY <2>2, <3>4, <3>5, <3>6
    <2> QED  BY <2>3, <2>4
  <1> HIDE DEF P
  <1>5. \A s \in SUBSET S : Cardinality(s) \in P
    BY <1>0, <1>3, <1>4, NatInduces
  <1>6. \A s \in SUBSET S : \A x \in s : g[s] = w[x] + g[s \ {x}]
    BY <1>5 DEF P
  <1> QED  BY <1>2, <1>6 DEF Adds

\* Two such folds agree.
LEMMA FoldIsUnique ==
    ASSUME NEW S, IsFiniteSet(S), NEW w, NEW f, NEW g,
           \A s \in SUBSET S : FoldsTo(f, s, w) /\ FoldsTo(g, s, w)
    PROVE  f[S] = g[S]
  <1> DEFINE P == {n \in Nat : \A s \in SUBSET S : Cardinality(s) = n => f[s] = g[s]}
  <1>0. \A T \in SUBSET S : IsFiniteSet(T) /\ Cardinality(T) \in Nat
                            /\ (Cardinality(T) = 0 <=> T = {})
    BY FS_Subset, FS_CardinalityType, FS_EmptySet
  <1>1. 0 \in P
    BY <1>0 DEF FoldsTo
  <1>2. \A n \in Nat : n \in P => n + 1 \in P
    <2> SUFFICES ASSUME NEW n \in Nat, n \in P, NEW s \in SUBSET S, Cardinality(s) = n + 1
                 PROVE  f[s] = g[s]
      OBVIOUS
    <2>1. s # {}
      BY <1>0
    <2>2. PICK x : x = CHOOSE y \in s : TRUE
      OBVIOUS
    <2>3. x \in s
      BY <2>1, <2>2
    <2>4. f[s] = w[x] + f[s \ {x}] /\ g[s] = w[x] + g[s \ {x}]
      BY <2>1, <2>2 DEF FoldsTo
    <2>5. s \ {x} \in SUBSET S /\ Cardinality(s \ {x}) = n
      <3>1. Cardinality(s \ {x}) = Cardinality(s) - 1
        BY <1>0, <2>3, FS_RemoveElement
      <3> QED  BY <3>1
    <2>6. f[s \ {x}] = g[s \ {x}]
      BY <2>5
    <2> QED  BY <2>4, <2>6
  <1> HIDE DEF P
  <1>3. Cardinality(S) \in P
    BY <1>0, <1>1, <1>2, NatInduces
  <1> QED  BY <1>3 DEF P

\* One element more adds its weight.
LEMMA AddedOne ==
    ASSUME NEW S, NEW w, NEW g, Adds(g, S, w), NEW s \in SUBSET S, NEW x \in S \ s
    PROVE  g[s \cup {x}] = w[x] + g[s]
  <1>1. s \cup {x} \in SUBSET S /\ x \in s \cup {x} /\ (s \cup {x}) \ {x} = s
    OBVIOUS
  <1> QED  BY <1>1 DEF Adds

\* The sums over two disjoint sets add up.
LEMMA DisjointSums ==
    ASSUME NEW S, IsFiniteSet(S), NEW w \in [S -> Int], NEW g, Adds(g, S, w),
           NEW s \in SUBSET S, NEW t \in SUBSET S, s \cap t = {}
    PROVE  g[s \cup t] = g[s] + g[t]
  <1> DEFINE P == {u \in SUBSET t : g[s \cup u] = g[s] + g[u]}
  <1>1. g[s] \in Int /\ g[{}] = 0 /\ \A u \in SUBSET S : g[u] \in Int
    BY DEF Adds
  <1>2. {} \in P
    BY <1>1
  <1>3. \A u \in SUBSET t : \A x \in t \ u : u \in P => u \cup {x} \in P
    <2> SUFFICES ASSUME NEW u \in SUBSET t, NEW x \in t \ u, u \in P
                 PROVE  g[s \cup (u \cup {x})] = g[s] + g[u \cup {x}]
      OBVIOUS
    <2>1. PICK v \in SUBSET S : v = s \cup u
      OBVIOUS
    <2>2. x \in S \ v /\ x \in S \ u /\ u \in SUBSET S
      BY <2>1
    <2>9. PICK vx : vx = v \cup {x}
      OBVIOUS
    <2>10. PICK ux : ux = u \cup {x}
      OBVIOUS
    <2>11. s \cup ux = vx
      BY <2>1, <2>9, <2>10
    <2>3. g[vx] = w[x] + g[v]
      BY <2>2, <2>9, AddedOne
    <2>4. g[ux] = w[x] + g[u]
      BY <2>2, <2>10, AddedOne
    <2>5. g[v] = g[s] + g[u]
      BY <2>1
    <2>6. w[x] \in Int /\ g[s] \in Int /\ g[u] \in Int
      BY <1>1, <2>2
    <2>7. g[vx] = g[s] + g[ux]
      BY <2>3, <2>4, <2>5, <2>6
    <2> QED  BY <2>7, <2>10, <2>11
  <1>4. IsFiniteSet(t)
    BY FS_Subset
  <1> HIDE DEF P
  <1>5. t \in P
    BY <1>2, <1>3, <1>4, SetInduces
  <1> QED  BY <1>5 DEF P

\* Larger weights, larger sums.
LEMMA LargerSums ==
    ASSUME NEW S, IsFiniteSet(S), NEW w \in [S -> Int], NEW v \in [S -> Int],
           NEW g, Adds(g, S, w), NEW h, Adds(h, S, v),
           NEW s \in SUBSET S, \A x \in s : w[x] <= v[x]
    PROVE  g[s] <= h[s]
  <1> DEFINE P == {u \in SUBSET s : g[u] <= h[u]}
  <1>1. g[{}] = 0 /\ h[{}] = 0 /\ \A u \in SUBSET S : g[u] \in Int /\ h[u] \in Int
    BY DEF Adds
  <1>2. {} \in P
    BY <1>1
  <1>3. \A u \in SUBSET s : \A x \in s \ u : u \in P => u \cup {x} \in P
    <2> SUFFICES ASSUME NEW u \in SUBSET s, NEW x \in s \ u, u \in P
                 PROVE  g[u \cup {x}] <= h[u \cup {x}]
      OBVIOUS
    <2>1. g[u \cup {x}] = w[x] + g[u]
      BY AddedOne
    <2>2. h[u \cup {x}] = v[x] + h[u]
      BY AddedOne
    <2>3. w[x] \in Int /\ v[x] \in Int /\ g[u] \in Int /\ h[u] \in Int
      BY <1>1
    <2> QED  BY <2>1, <2>2, <2>3
  <1>4. IsFiniteSet(s)
    BY FS_Subset
  <1> HIDE DEF P
  <1>5. s \in P
    BY <1>2, <1>3, <1>4, SetInduces
  <1> QED  BY <1>5 DEF P

\* More elements, none of them negative, have a larger sum.
LEMMA SumsGrow ==
    ASSUME NEW S, IsFiniteSet(S), NEW w \in [S -> Int], NEW g, Adds(g, S, w),
           NEW s \in SUBSET S, NEW t \in SUBSET S, s \subseteq t,
           \A x \in t \ s : w[x] >= 0
    PROVE  g[s] <= g[t]
  <1> DEFINE P == {u \in SUBSET (t \ s) : g[u] >= 0}
  <1>1. g[{}] = 0 /\ \A u \in SUBSET S : g[u] \in Int
    BY DEF Adds
  <1>2. {} \in P
    BY <1>1
  <1>3. \A u \in SUBSET (t \ s) : \A x \in (t \ s) \ u : u \in P => u \cup {x} \in P
    <2> SUFFICES ASSUME NEW u \in SUBSET (t \ s), NEW x \in (t \ s) \ u, u \in P
                 PROVE  g[u \cup {x}] >= 0
      OBVIOUS
    <2>1. u \in SUBSET S /\ x \in S \ u
      OBVIOUS
    <2>2. g[u \cup {x}] = w[x] + g[u]
      BY <2>1, AddedOne
    <2>3. w[x] \in Int /\ g[u] \in Int
      BY <1>1, <2>1
    <2> QED  BY <2>2, <2>3
  <1>4. IsFiniteSet(t \ s)
    BY FS_Subset
  <1> HIDE DEF P
  <1>5. t \ s \in P
    BY <1>2, <1>3, <1>4, SetInduces
  <1>6. g[t] = g[s] + g[t \ s]
    <2>1. PICK r \in SUBSET S : r = t \ s
      OBVIOUS
    <2>2. s \cup r = t /\ s \cap r = {}
      BY <2>1
    <2>3. g[s \cup r] = g[s] + g[r]
      BY <2>2, DisjointSums
    <2> QED  BY <2>1, <2>2, <2>3
  <1> QED  BY <1>1, <1>5, <1>6 DEF P

\* A sum does not depend on how its elements are named.
LEMMA RenamedSums ==
    ASSUME NEW S, IsFiniteSet(S), NEW w, NEW g, Adds(g, S, w),
           NEW T, NEW v, NEW h, Adds(h, T, v),
           NEW b \in [S -> T], \A x, y \in S : b[x] = b[y] => x = y,
           \A x \in S : v[b[x]] = w[x]
    PROVE  \A s \in SUBSET S : h[{b[x] : x \in s}] = g[s]
  <1> SUFFICES ASSUME NEW s \in SUBSET S PROVE h[{b[x] : x \in s}] = g[s]
    OBVIOUS
  <1> DEFINE image(u) == {b[x] : x \in u}
             P == {u \in SUBSET s : h[image(u)] = g[u]}
  <1>1. {} \in P
    <2>1. image({}) = {}
      OBVIOUS
    <2> QED  BY <2>1 DEF Adds
  <1>2. \A u \in SUBSET s : \A x \in s \ u : u \in P => u \cup {x} \in P
    <2> SUFFICES ASSUME NEW u \in SUBSET s, NEW x \in s \ u, u \in P
                 PROVE  h[image(u \cup {x})] = g[u \cup {x}]
      OBVIOUS
    <2>1. image(u \cup {x}) = image(u) \cup {b[x]}
      OBVIOUS
    <2>2. image(u) \in SUBSET T /\ b[x] \in T \ image(u)
      OBVIOUS
    <2>3. PICK i \in SUBSET T : i = image(u)
      BY <2>2
    <2> HIDE DEF image
    <2>4. PICK y : y = b[x]
      OBVIOUS
    <2>5. y \in T \ i /\ v[y] = w[x] /\ h[i] = g[u]
      BY <2>2, <2>3, <2>4
    <2>6. h[i \cup {y}] = v[y] + h[i]
      BY <2>5, AddedOne
    <2>7. g[u \cup {x}] = w[x] + g[u]
      BY AddedOne
    <2>8. image(u \cup {x}) = i \cup {y}
      BY <2>1, <2>3, <2>4
    <2> QED  BY <2>5, <2>6, <2>7, <2>8
  <1>3. IsFiniteSet(s)
    BY FS_Subset
  <1> HIDE DEF P
  <1>4. s \in P
    BY <1>1, <1>2, <1>3, SetInduces
  <1> QED  BY <1>4 DEF P

\* SumFunction is such a sum, of the values of a function.
LEMMA SumsOfFunctions ==
    ASSUME NEW S, IsFiniteSet(S), NEW w \in [S -> Int]
    PROVE  \E g : Adds(g, S, w) /\ \A s \in SUBSET S : SumFunction([x \in s |-> w[x]]) = g[s]
  <1>1. PICK g \in [SUBSET S -> Int] : \A s \in SUBSET S : FoldsTo(g, s, w)
    BY FoldExists
  <1>2. Adds(g, S, w)
    BY <1>1, FoldAdds
  <1>3. ASSUME NEW s \in SUBSET S PROVE SumFunction([x \in s |-> w[x]]) = g[s]
    <2>0. PICK v : v = [x \in s |-> w[x]]
      OBVIOUS
    <2> DEFINE IsFold(f) ==
                 f = [t \in SUBSET DOMAIN v |->
                        IF t = {} THEN 0
                        ELSE v[CHOOSE x \in t : TRUE] + f[t \ {CHOOSE x \in t : TRUE}]]
               fold == CHOOSE f : IsFold(f)
    <2>1. SumFunction(v) = fold[DOMAIN v]
      BY Zenon DEF SumFunction, SumFunctionOnSet, FoldFunctionOnSet, MapThenFoldSet
    <2>2. DOMAIN v = s /\ \A t \in SUBSET s : t # {} => v[CHOOSE x \in t : TRUE] = w[CHOOSE x \in t : TRUE]
      BY <2>0
    <2>3. \E f : IsFold(f)
      <3> DEFINE f == [t \in SUBSET DOMAIN v |-> g[t]]
      <3>1. \A t \in SUBSET DOMAIN v : f[t] = IF t = {} THEN 0
                        ELSE v[CHOOSE x \in t : TRUE] + f[t \ {CHOOSE x \in t : TRUE}]
        <4> SUFFICES ASSUME NEW t \in SUBSET DOMAIN v
                     PROVE  f[t] = IF t = {} THEN 0
                                   ELSE v[CHOOSE x \in t : TRUE] + f[t \ {CHOOSE x \in t : TRUE}]
          OBVIOUS
        <4>1. t \in SUBSET s /\ \A u \in SUBSET t : f[u] = g[u]
          BY <2>2
        <4>2. f[t] = g[t] /\ f[t \ {CHOOSE x \in t : TRUE}] = g[t \ {CHOOSE x \in t : TRUE}]
          BY <4>1
        <4> HIDE DEF f
        <4> QED  BY <1>1, <2>2, <4>1, <4>2 DEF FoldsTo
      <3>2. f = [t \in SUBSET DOMAIN v |-> f[t]]
        OBVIOUS
      <3> HIDE DEF f
      <3>3. IsFold(f)
        BY <3>1, <3>2, Zenon
      <3> QED  BY <3>3
    <2>4. IsFold(fold)
      BY <2>3, Zenon
    <2> HIDE DEF fold
    <2>5. \A t \in SUBSET s : FoldsTo(fold, t, w)
      <3> SUFFICES ASSUME NEW t \in SUBSET s PROVE FoldsTo(fold, t, w)
        OBVIOUS
      <3>1. fold[t] = IF t = {} THEN 0
                      ELSE v[CHOOSE x \in t : TRUE] + fold[t \ {CHOOSE x \in t : TRUE}]
        BY <2>2, <2>4
      <3> QED  BY <2>2, <3>1 DEF FoldsTo
    <2>6. \A t \in SUBSET s : FoldsTo(fold, t, w) /\ FoldsTo(g, t, w)
      BY <1>1, <2>5
    <2>7. IsFiniteSet(s)
      BY FS_Subset
    <2>8. fold[s] = g[s]
      BY <2>6, <2>7, FoldIsUnique
    <2> QED  BY <2>0, <2>1, <2>2, <2>8
  <1> QED  BY <1>2, <1>3

-----------------------------------------------------------------------------
(* What a run reads: the rows, their cells and the cycles they become.     *)
\* What is named one to one is as many.
LEMMA Renames ==
    ASSUME NEW R, IsFiniteSet(R), NEW b, R \subseteq DOMAIN b,
           \A x, y \in R : b[x] = b[y] => x = y
    PROVE  /\ IsFiniteSet({b[x] : x \in R})
           /\ Cardinality({b[x] : x \in R}) = Cardinality(R)
  <1> DEFINE U == {b[x] : x \in R}
             f == [x \in R |-> b[x]]
  <1>1. f \in [R -> U] /\ \A u \in U : \E x \in R : f[x] = u
    OBVIOUS
  <1>2. DOMAIN f = R /\ \A x, y \in R : f[x] = f[y] => x = y
    OBVIOUS
  <1> HIDE DEF f, U
  <1>3. f \in Bijection(R, U)
    BY <1>1, <1>2 DEF Bijection, Injection, Surjection, IsInjective
  <1>4. ExistsBijection(R, U)
    BY <1>3 DEF ExistsBijection
  <1>5. IsFiniteSet(U) /\ Cardinality(U) = Cardinality(R)
    BY <1>4, FS_Bijection
  <1> QED  BY <1>5 DEF U

\* The rows that a run reads, under the canonical names of their columns.
RowsOf(run) == ApplyMapping(run.file, run.mapping).rows

\* The formats a run was told.
OptsOf(run) == [locale |-> run.params.locale, format |-> run.params.format]

\* The cycles and the exclusions that the adapter makes of the rows.
OutcomesOf(run) == RowOutcomes(RowsOf(run), MakePolicy(run.params), OptsOf(run))

\* The rows that nothing is held against.
Kept(run) == {i \in DOMAIN RowsOf(run) : ~Excluded(RowsOf(run)[i], MakePolicy(run.params), OptsOf(run))}

\* The cycle of row i.
CycleOf(run, i) == ToCycle(RowsOf(run)[i], i, MakePolicy(run.params), OptsOf(run))

\* What a run is started with: a file at hand, a form that can be entered, a
\* column for each required field.
Known(run) ==
    /\ run.file \in Files
    /\ run.params \in FormSet
    /\ REQUIRED \subseteq DOMAIN run.mapping

\* The rows read are those of the file, finitely many and numbered.
LEMMA RowsAreThere ==
    ASSUME NEW run, Known(run)
    PROVE  /\ DOMAIN RowsOf(run) = DOMAIN run.file.rows
           /\ \E n \in Nat : DOMAIN RowsOf(run) = 1 .. n
           /\ IsFiniteSet(DOMAIN RowsOf(run))
  <1>1. DOMAIN RowsOf(run) = DOMAIN run.file.rows
    BY DEF RowsOf, ApplyMapping
  <1>2. run.file \in Files
    BY DEF Known
  <1>3. PICK n \in Nat : DOMAIN run.file.rows = 1 .. n
    BY <1>2, FilesAssumption
  <1>4. IsFiniteSet(1 .. n)
    BY <1>3, FS_Interval
  <1> QED  BY <1>1, <1>3, <1>4

\* The cell of a field is one of the file, or empty.
LEMMA CellsAreRead ==
    ASSUME NEW run, Known(run), NEW i \in DOMAIN RowsOf(run), NEW f
    PROVE  \/ Cell(RowsOf(run)[i], f) = Blank
           \/ \E h \in run.file.headers : 
                 /\ Cell(RowsOf(run)[i], f) = run.file.rows[i].cells[h]
                 /\ f \in DOMAIN run.mapping => h = run.mapping[f]
  <1>1. i \in DOMAIN run.file.rows
    BY RowsAreThere
  <1> QED  BY <1>1 DEF Cell, RowsOf, ApplyMapping

\* A date that can be read is a day.
LEMMA DatesAreDays ==
    ASSUME NEW run, Known(run), NEW i \in DOMAIN RowsOf(run), NEW f, NEW locale,
           NormalizeDate(Cell(RowsOf(run)[i], f), locale).ok
    PROVE  NormalizeDate(Cell(RowsOf(run)[i], f), locale).value \in Int
  <1>1. PICK text : text = Cell(RowsOf(run)[i], f)
    OBVIOUS
  <1>2. text \in Cells
    <2>1. i \in DOMAIN run.file.rows /\ run.file \in Files
      BY RowsAreThere DEF Known
    <2>2. text = Blank \/ \E h \in run.file.headers : text = run.file.rows[i].cells[h]
      BY <1>1, CellsAreRead
    <2>3. Blank \in Cells
      BY DEF Cells
    <2>4. \A h \in run.file.headers : run.file.rows[i].cells[h] \in Cells
      BY <2>1, FilesAssumption
    <2> QED  BY <2>2, <2>3, <2>4
  <1>3. text # Blank /\ text.kind = "date"
    BY <1>1 DEF NormalizeDate, Fail
  <1>4. text.mdy \in Int /\ text.dmy \in Int
    BY <1>2, <1>3 DEF Cells, DateCell
  <1>5. NormalizeDate(text, locale).value \in {text.mdy, text.dmy}
    BY <1>1, <1>3 DEF NormalizeDate, Fail, Ok
  <1> QED  BY <1>1, <1>4, <1>5

\* An amount that can be read is a number of minor units.
LEMMA MoneyIsCounted ==
    ASSUME NEW run, Known(run), run.params.currency \in SupportedCurrencies,
           NEW i \in DOMAIN RowsOf(run), NEW f,
           MoneyOf(Cell(RowsOf(run)[i], f), run.params.format, run.params.currency).ok
    PROVE  MoneyOf(Cell(RowsOf(run)[i], f), run.params.format, run.params.currency).value \in Int
  <1>1. PICK text : text = Cell(RowsOf(run)[i], f)
    OBVIOUS
  <1>2. text # Blank
    BY <1>1 DEF MoneyOf, InMinorUnits, NormalizeAmount, Fail
  <1>3. i \in DOMAIN run.file.rows /\ run.file \in Files /\ run.params.format \in AmountFormats
    BY RowsAreThere DEF Known, FormSet
  <1>4. PICK h \in run.file.headers : text = run.file.rows[i].cells[h]
    BY <1>1, <1>2, CellsAreRead
  <1> QED  BY <1>1, <1>3, <1>4, MoneyAssumption

\* What a row has that nothing is held against.
LEMMA NothingHeldAgainst ==
    ASSUME NEW row, NEW policy, NEW opts, ~Excluded(row, policy, opts)
    PROVE  LET date(field) == NormalizeDate(Cell(row, field), opts.locale)
               money(field) == MoneyOf(Cell(row, field), opts.format, policy.currency)
               given(field) == Cell(row, field) # Blank
           IN  /\ \A f \in REQUIRED : given(f)
               /\ date("signed_at").ok /\ date("next_invoice_due_at").ok
               /\ given("activation_at") => date("activation_at").ok
               /\ given("next_invoice_paid_at") => date("next_invoice_paid_at").ok
               /\ money("next_invoice_amount").ok
               /\ ~(money("next_invoice_amount").value < 0)
               /\ money("next_invoice_amount").value # 0
               /\ given("paid_amount") => money("paid_amount").ok
  <1> DEFINE o == Objections(row, policy, opts)
             date(field) == NormalizeDate(Cell(row, field), opts.locale)
             money(field) == MoneyOf(Cell(row, field), opts.format, policy.currency)
             given(field) == Cell(row, field) # Blank
  <1>1. \A i \in DOMAIN o : o[i] = {}
    BY DEF Excluded, ToSet
  <1>2. /\ DOMAIN o = 1 .. 13
        /\ o[2] = When(\E f \in REQUIRED : ~given(f), "missing_required_field")
        /\ o[6] = Faulty(date("signed_at"))
        /\ o[7] = Faulty(date("next_invoice_due_at"))
        /\ o[8] = IF given("activation_at") THEN Faulty(date("activation_at")) ELSE {}
        /\ o[9] = Faulty(money("next_invoice_amount"))
        /\ o[10] = When(money("next_invoice_amount").ok /\ money("next_invoice_amount").value < 0, "negative_amount")
        /\ o[11] = When(money("next_invoice_amount").ok /\ money("next_invoice_amount").value = 0, "zero_amount")
        /\ o[12] = IF given("paid_amount") THEN Faulty(money("paid_amount")) ELSE {}
        /\ o[13] = IF given("next_invoice_paid_at") THEN Faulty(date("next_invoice_paid_at")) ELSE {}
    BY DEF Objections, AmountObjections
  <1> HIDE DEF o
  <1>3. \A i \in 1 .. 13 : o[i] = {}
    BY <1>1, <1>2
  <1>4. o[2] = {} /\ o[6] = {} /\ o[7] = {} /\ o[8] = {} /\ o[9] = {} /\ o[10] = {} /\ o[11] = {}
        /\ o[12] = {} /\ o[13] = {}
    BY <1>3
  <1> HIDE DEF date, money, given
  <1>5. \A f \in REQUIRED : given(f)
    BY <1>2, <1>4 DEF When
  <1>6. date("signed_at").ok /\ date("next_invoice_due_at").ok /\ money("next_invoice_amount").ok
    BY <1>2, <1>4 DEF Faulty
  <1>7. given("activation_at") => date("activation_at").ok
    BY <1>2, <1>4 DEF Faulty
  <1>8. given("next_invoice_paid_at") => date("next_invoice_paid_at").ok
    BY <1>2, <1>4 DEF Faulty
  <1>9. given("paid_amount") => money("paid_amount").ok
    BY <1>2, <1>4 DEF Faulty
  <1>10. ~(money("next_invoice_amount").value < 0) /\ money("next_invoice_amount").value # 0
    BY <1>2, <1>4, <1>6 DEF When
  <1> QED  BY <1>5, <1>6, <1>7, <1>8, <1>9, <1>10 DEF date, money, given

\* The cycle of a row has days and a positive amount of money.
LEMMA CyclesAreFigures ==
    ASSUME NEW run, Known(run), run.params.currency \in SupportedCurrencies, NEW i \in Kept(run)
    PROVE  LET c == CycleOf(run, i)
           IN  /\ c.row = i
               /\ c.expectationAt \in Int /\ c.dueAt \in Int
               /\ c.amount \in Int /\ c.amount > 0
               /\ c.observationAt \in Int \cup {Blank}
               /\ c.paidAt \in Int \cup {Blank}
               /\ c.paidAmount \in Int \cup {Blank}
               /\ c.cycleId # <<>>
  <1> DEFINE row == RowsOf(run)[i]
             c == CycleOf(run, i)
             date(field) == NormalizeDate(Cell(row, field), run.params.locale)
             money(field) == MoneyOf(Cell(row, field), run.params.format, run.params.currency)
             given(field) == Cell(row, field) # Blank
  <1>1. i \in DOMAIN RowsOf(run) /\ ~Excluded(row, MakePolicy(run.params), OptsOf(run))
    BY DEF Kept
  <1>2. /\ OptsOf(run).locale = run.params.locale /\ OptsOf(run).format = run.params.format
        /\ MakePolicy(run.params).currency = run.params.currency
    BY DEF OptsOf, MakePolicy
  <1>3. /\ date("signed_at").ok /\ date("next_invoice_due_at").ok
        /\ given("activation_at") => date("activation_at").ok
        /\ given("next_invoice_paid_at") => date("next_invoice_paid_at").ok
        /\ money("next_invoice_amount").ok
        /\ ~(money("next_invoice_amount").value < 0)
        /\ money("next_invoice_amount").value # 0
        /\ given("paid_amount") => money("paid_amount").ok
    BY <1>1, <1>2, NothingHeldAgainst
  <1>4. /\ c.row = i
        /\ c.expectationAt = date("signed_at").value
        /\ c.dueAt = date("next_invoice_due_at").value
        /\ c.amount = money("next_invoice_amount").value
        /\ c.observationAt = IF given("activation_at") THEN date("activation_at").value ELSE Blank
        /\ c.paidAmount = IF given("paid_amount") THEN money("paid_amount").value ELSE Blank
        /\ c.paidAt = IF given("next_invoice_paid_at") THEN date("next_invoice_paid_at").value
                      ELSE IF IsSet(row, "next_invoice_paid") THEN c.dueAt ELSE Blank
    BY <1>2 DEF CycleOf, ToCycle, PaidAt
  <1>5. c.cycleId # <<>>
    BY DEF CycleOf, ToCycle
  <1>6. \A f : date(f).ok => date(f).value \in Int
    BY <1>1, DatesAreDays
  <1>7. \A f : money(f).ok => money(f).value \in Int
    BY <1>1, MoneyIsCounted
  <1> HIDE DEF date, money, given, row, c
  <1>8. c.amount \in Int /\ c.amount > 0
    BY <1>3, <1>4, <1>7
  <1>9. c.expectationAt \in Int /\ c.dueAt \in Int
    BY <1>3, <1>4, <1>6
  <1>10. c.observationAt \in Int \cup {Blank} /\ c.paidAt \in Int \cup {Blank}
    BY <1>3, <1>4, <1>6, <1>9
  <1>11. c.paidAmount \in Int \cup {Blank}
    BY <1>3, <1>4, <1>7
  <1> QED  BY <1>4, <1>5, <1>8, <1>9, <1>10, <1>11 DEF c

\* The cycles of a run, one for each row that is kept.
LEMMA CyclesOfRows ==
    ASSUME NEW run, Known(run), run.params.currency \in SupportedCurrencies
    PROVE  /\ OutcomesOf(run).cycles = {CycleOf(run, i) : i \in Kept(run)}
           /\ IsFiniteSet(OutcomesOf(run).cycles)
           /\ \A c \in OutcomesOf(run).cycles : c.row \in Kept(run) /\ c = CycleOf(run, c.row)
           /\ Kept(run) \subseteq DOMAIN run.file.rows
  <1>1. OutcomesOf(run).cycles = {CycleOf(run, i) : i \in Kept(run)}
    BY DEF OutcomesOf, RowOutcomes, Kept, CycleOf
  <1>2. Kept(run) \subseteq DOMAIN run.file.rows /\ IsFiniteSet(Kept(run))
    <2>1. Kept(run) \subseteq DOMAIN RowsOf(run)
      BY DEF Kept
    <2> QED  BY <2>1, RowsAreThere, FS_Subset
  <1>3. \A i \in Kept(run) : CycleOf(run, i).row = i
    BY CyclesAreFigures
  <1>4. IsFiniteSet({CycleOf(run, i) : i \in Kept(run)})
    <2> DEFINE b == [i \in Kept(run) |-> CycleOf(run, i)]
    <2>1. \A i, j \in Kept(run) : b[i] = b[j] => i = j
      BY <1>3
    <2>2. DOMAIN b = Kept(run) /\ \A i \in Kept(run) : b[i] = CycleOf(run, i)
      OBVIOUS
    <2> HIDE DEF b
    <2>3. IsFiniteSet({b[i] : i \in Kept(run)})
      BY <1>2, <2>1, <2>2, Renames
    <2>4. {b[i] : i \in Kept(run)} = {CycleOf(run, i) : i \in Kept(run)}
      BY <2>2
    <2> QED  BY <2>3, <2>4
  <1> QED  BY <1>1, <1>2, <1>3, <1>4

-----------------------------------------------------------------------------
(* Every row is in one place.                                              *)
ResultOf(run) == AssessCsv(run.file, run.mapping, run.params)

\* The cycles that the adapter makes of the rows of a run.
CyclesIn(run) == OutcomesOf(run).cycles

\* Those whose id no other has.
UniqueIn(run) == {c \in CyclesIn(run) : ~Collide(CyclesIn(run), c)}

\* The cohorts, the summary and the exclusions of a result.
LEMMA ResultsAreMadeOf ==
    ASSUME NEW run
    PROVE  LET r == ResultOf(run)
               policy == MakePolicy(run.params)
           IN  /\ r.accepted = UniqueIn(run)
               /\ r.stalled = {c \in UniqueIn(run) : IsStalled(c, policy)}
               /\ r.undetermined = {c \in UniqueIn(run) :
                                      ClassifyStall(c, policy) = "within_window_not_yet_due"}
               /\ r.reference = {c \in UniqueIn(run) :
                                   ClassifyStall(c, policy) = "observed_within_threshold"}
               /\ r.observed = ObservedSummary(r.stalled, policy)
               /\ r.exclusions = OutcomesOf(run).exclusions \cup
                     {<<c.row, "duplicate_cycle_id", c.cycleId>> : c \in CyclesIn(run) \ UniqueIn(run)}
  BY DEF ResultOf, AssessCsv, Assess, DedupeCollisions, SplitCohorts, UniqueIn, CyclesIn,
         OutcomesOf, RowsOf, OptsOf

\* A cycle is in one cohort.
LEMMA CohortsAreApart ==
    ASSUME NEW c, NEW policy
    PROVE  /\ \/ IsStalled(c, policy)
              \/ ClassifyStall(c, policy) = "within_window_not_yet_due"
              \/ ClassifyStall(c, policy) = "observed_within_threshold"
           /\ IsStalled(c, policy) =>
                 ClassifyStall(c, policy) \notin {"within_window_not_yet_due", "observed_within_threshold"}
  BY DEF IsStalled, ClassifyStall

\* An exclusion of the adapter is of a row that is not kept, with its reason.
LEMMA ExclusionsAreMadeOf ==
    ASSUME NEW run
    PROVE  \A e : e \in OutcomesOf(run).exclusions <=>
              \E i \in DOMAIN RowsOf(run) \ Kept(run) :
                 e = <<i, ExclusionReason(RowsOf(run)[i], MakePolicy(run.params), OptsOf(run)), <<>>>>
  BY DEF OutcomesOf, RowOutcomes, Kept

\* Each row is in one cohort, or excluded for one reason, or its id is not its own.
LEMMA RowsAreAccountedFor ==
    ASSUME NEW run, Known(run), run.params.currency \in SupportedCurrencies
    PROVE  EveryRowAccountedFor(run, ResultOf(run))
  <1> DEFINE policy == MakePolicy(run.params)
             D == DOMAIN run.file.rows
             collided == CyclesIn(run) \ UniqueIn(run)
             reason(i) == ExclusionReason(RowsOf(run)[i], policy, OptsOf(run))
  <1>1. PICK r : r = ResultOf(run)
    OBVIOUS
  <1>2. PICK cycles : cycles = CyclesIn(run)
    OBVIOUS
  <1>3. PICK unique : unique = UniqueIn(run)
    OBVIOUS
  <1>4. PICK kept : kept = Kept(run)
    OBVIOUS
  <1>5. /\ r.accepted = unique
        /\ r.stalled = {c \in unique : IsStalled(c, policy)}
        /\ r.undetermined = {c \in unique : ClassifyStall(c, policy) = "within_window_not_yet_due"}
        /\ r.reference = {c \in unique : ClassifyStall(c, policy) = "observed_within_threshold"}
        /\ r.exclusions = OutcomesOf(run).exclusions \cup
              {<<c.row, "duplicate_cycle_id", c.cycleId>> : c \in cycles \ unique}
    BY <1>1, <1>2, <1>3, ResultsAreMadeOf, Zenon
  <1>6. /\ unique \subseteq cycles /\ kept \subseteq D /\ DOMAIN RowsOf(run) = D /\ IsFiniteSet(D)
        /\ \A c \in cycles : c.row \in kept /\ c = CycleOf(run, c.row) /\ c.cycleId # <<>>
        /\ \A i \in kept : \E c \in cycles : c.row = i
    <2>1. unique \subseteq cycles
      BY <1>2, <1>3 DEF UniqueIn
    <2>2. kept \subseteq D /\ \A c \in cycles : c.row \in kept /\ c = CycleOf(run, c.row)
      BY <1>2, <1>4, CyclesOfRows DEF CyclesIn
    <2>3. \A i \in kept : CycleOf(run, i).row = i /\ CycleOf(run, i).cycleId # <<>>
      BY <1>4, CyclesAreFigures
    <2>4. cycles = {CycleOf(run, i) : i \in kept}
      BY <1>2, <1>4, CyclesOfRows DEF CyclesIn
    <2> QED  BY <2>1, <2>2, <2>3, <2>4, RowsAreThere
  <1>7. \A e : e \in r.exclusions <=>
           \/ \E i \in D \ kept : e = <<i, reason(i), <<>>>>
           \/ \E c \in cycles \ unique : e = <<c.row, "duplicate_cycle_id", c.cycleId>>
    <2>1. \A e : e \in OutcomesOf(run).exclusions <=> \E i \in D \ kept : e = <<i, reason(i), <<>>>>
      BY <1>4, <1>6, ExclusionsAreMadeOf
    <2> QED  BY <1>5, <2>1
  <1> HIDE DEF reason, policy
  <1> DEFINE excluded == {e[1] : e \in r.exclusions}
             stalled == {c.row : c \in r.stalled}
             undetermined == {c.row : c \in r.undetermined}
             reference == {c.row : c \in r.reference}
  <1>8. \A c, d \in cycles : c.row = d.row => c = d
    BY <1>6, Zenon
  <1>9. \A i : i \in excluded <=> i \in D \ kept \/ \E c \in cycles \ unique : c.row = i
    <2> SUFFICES ASSUME NEW i PROVE i \in excluded <=> i \in D \ kept \/ \E c \in cycles \ unique : c.row = i
      OBVIOUS
    <2>1. ASSUME i \in excluded PROVE i \in D \ kept \/ \E c \in cycles \ unique : c.row = i
      <3>1. PICK e \in r.exclusions : e[1] = i
        BY <2>1
      <3> QED  BY <1>7, <3>1
    <2>2. ASSUME i \in D \ kept PROVE i \in excluded
      <3>1. PICK e : e = <<i, reason(i), <<>>>>
        OBVIOUS
      <3>2. e \in r.exclusions /\ e[1] = i
        BY <1>7, <2>2, <3>1
      <3> QED  BY <3>2
    <2>3. ASSUME NEW c \in cycles \ unique, c.row = i PROVE i \in excluded
      <3>1. PICK e : e = <<c.row, "duplicate_cycle_id", c.cycleId>>
        OBVIOUS
      <3>2. e \in r.exclusions /\ e[1] = i
        BY <1>7, <2>3, <3>1
      <3> QED  BY <3>2
    <2> QED  BY <2>1, <2>2, <2>3
  <1>10. \A c \in unique :
            /\ \/ c \in r.stalled \/ c \in r.undetermined \/ c \in r.reference
            /\ c \in r.stalled => c \notin r.undetermined /\ c \notin r.reference
            /\ c \in r.undetermined => c \notin r.reference
    <2> SUFFICES ASSUME NEW c \in unique
                 PROVE  /\ \/ c \in r.stalled \/ c \in r.undetermined \/ c \in r.reference
                        /\ c \in r.stalled => c \notin r.undetermined /\ c \notin r.reference
                        /\ c \in r.undetermined => c \notin r.reference
      OBVIOUS
    <2>1. /\ c \in r.stalled <=> IsStalled(c, policy)
          /\ c \in r.undetermined <=> ClassifyStall(c, policy) = "within_window_not_yet_due"
          /\ c \in r.reference <=> ClassifyStall(c, policy) = "observed_within_threshold"
      BY <1>5
    <2> QED  BY <2>1, CohortsAreApart
  <1>11. r.stalled \subseteq unique /\ r.undetermined \subseteq unique /\ r.reference \subseteq unique
    BY <1>5
  <1>12. /\ excluded \cup stalled \cup undetermined \cup reference = D
         /\ excluded \cap stalled = {} /\ excluded \cap undetermined = {} /\ excluded \cap reference = {}
         /\ stalled \cap undetermined = {} /\ stalled \cap reference = {}
         /\ undetermined \cap reference = {}
    <2>1. \A i : i \in kept <=> \E c \in cycles : c.row = i
      BY <1>6
    <2>2. \A i : (\E c \in unique : c.row = i) <=> i \in stalled \cup undetermined \cup reference
      BY <1>10, <1>11
    <2>3. \A i : (\E c \in unique : c.row = i) => i \notin excluded
      BY <1>6, <1>8, <1>9
    <2>4. excluded \cup stalled \cup undetermined \cup reference = D
      <3> HIDE DEF excluded, stalled, undetermined, reference
      <3>1. \A i : i \in excluded \cup stalled \cup undetermined \cup reference <=> i \in D
        BY <1>6, <1>9, <2>1, <2>2
      <3> QED  BY <3>1
    <2>5. stalled \cap undetermined = {} /\ stalled \cap reference = {} /\ undetermined \cap reference = {}
      BY <1>6, <1>8, <1>10, <1>11
    <2> QED  BY <2>2, <2>3, <2>4, <2>5
  <1>13. Cardinality(r.exclusions) = Cardinality(excluded)
    <2>1. \A e, d \in r.exclusions : e[1] = d[1] => e = d
      BY <1>6, <1>7, <1>8
    <2>2. excluded \subseteq D
      BY <1>12
    <2> DEFINE b == [i \in excluded |-> CHOOSE e \in r.exclusions : e[1] = i]
    <2>3. \A i \in excluded : b[i] \in r.exclusions /\ b[i][1] = i
      OBVIOUS
    <2>4. DOMAIN b = excluded
      OBVIOUS
    <2> HIDE DEF b, excluded
    <2>5. \A i, j \in excluded : b[i] = b[j] => i = j
      BY <2>3, Zenon
    <2>6. r.exclusions = {b[i] : i \in excluded}
      BY <2>1, <2>3 DEF excluded
    <2>7. IsFiniteSet(excluded)
      BY <1>6, <2>2, FS_Subset
    <2> QED  BY <2>4, <2>5, <2>6, <2>7, Renames
  <1>14. \A c \in r.accepted, e \in r.exclusions : c.cycleId # e[3]
    <2> SUFFICES ASSUME NEW c \in unique, NEW e \in r.exclusions, c.cycleId = e[3] PROVE FALSE
      BY <1>5
    <2>1. CASE \E i \in D \ kept : e = <<i, reason(i), <<>>>>
      BY <1>6, <2>1
    <2>2. CASE \E d \in cycles \ unique : e = <<d.row, "duplicate_cycle_id", d.cycleId>>
      <3>1. PICK d \in cycles \ unique : e = <<d.row, "duplicate_cycle_id", d.cycleId>>
        BY <2>2
      <3>2. c \in cycles /\ c.cycleId = d.cycleId /\ c.row # d.row
        BY <1>6, <1>8, <3>1
      <3>3. Collide(cycles, c)
        BY <3>2 DEF Collide
      <3> QED  BY <1>2, <1>3, <3>3 DEF UniqueIn
    <2> QED  BY <1>7, <2>1, <2>2
  <1> HIDE DEF excluded, stalled, undetermined, reference
  <1>15. LET places == <<excluded, stalled, undetermined, reference>>
         IN  /\ UNION ToSet(places) = D
             /\ \A i, j \in DOMAIN places : i # j => places[i] \cap places[j] = {}
    <2> DEFINE places == <<excluded, stalled, undetermined, reference>>
    <2>1. DOMAIN places = 1 .. 4 /\ places[1] = excluded /\ places[2] = stalled
          /\ places[3] = undetermined /\ places[4] = reference
      OBVIOUS
    <2> HIDE DEF places
    <2>2. ToSet(places) = {excluded, stalled, undetermined, reference}
      <3>1. \A i \in 1 .. 4 : i = 1 \/ i = 2 \/ i = 3 \/ i = 4
        OBVIOUS
      <3>2. 1 \in 1 .. 4 /\ 2 \in 1 .. 4 /\ 3 \in 1 .. 4 /\ 4 \in 1 .. 4
        OBVIOUS
      <3> QED  BY <2>1, <3>1, <3>2 DEF ToSet
    <2>3. UNION ToSet(places) = D
      BY <1>12, <2>2
    <2>4. \A i, j \in DOMAIN places : i # j => places[i] \cap places[j] = {}
      <3> SUFFICES ASSUME NEW i \in 1 .. 4, NEW j \in 1 .. 4, i # j PROVE places[i] \cap places[j] = {}
        BY <2>1
      <3>1. i \in {1, 2, 3, 4} /\ j \in {1, 2, 3, 4}
        OBVIOUS
      <3> QED  BY <1>12, <2>1, <3>1
    <2> QED  BY <2>3, <2>4 DEF places
  <1> QED  BY <1>1, <1>13, <1>14, <1>15, ZenonT(40)
           DEF EveryRowAccountedFor, excluded, stalled, undetermined, reference

-----------------------------------------------------------------------------
(* No amount is guessed.                                                   *)
\* One separator, as the format or the digits tell it, is a decimal point where it
\* is one in the format that the text is well formed in.
LEMMA OnePoint ==
    ASSUME NEW sep \in {"comma", "point"}, NEW len, NEW stated, NEW format \in {"US", "EU"},
           NEW group, group = IF format = "US" THEN "comma" ELSE "point",
           sep = group => len = 3,
           len = 3 => stated = format
    PROVE  len # 3 \/ <<stated, sep>> \in {<<"US", "point">>, <<"EU", "comma">>} <=> sep # group
  <1>1. <<stated, sep>> \in {<<"US", "point">>, <<"EU", "comma">>}
           <=> (stated = "US" /\ sep = "point") \/ (stated = "EU" /\ sep = "comma")
    OBVIOUS
  <1>2. CASE len = 3
    <2>1. stated = format
      BY <1>2
    <2>2. (stated = "US" /\ sep = "point") \/ (stated = "EU" /\ sep = "comma") <=> sep # group
      BY <2>1
    <2> QED  BY <1>1, <1>2, <2>2
  <1>3. CASE len # 3
    BY <1>3
  <1> QED  BY <1>2, <1>3

\* Of several separators the last is a decimal point if it is not of the others' kind.
LEMMA ManyPoints ==
    ASSUME NEW n \in Nat, n > 1, NEW seps, \A i \in 1 .. n : seps[i] \in {"comma", "point"},
           NEW group, NEW grouping, \A i \in 1 .. n : i \in grouping <=> seps[i] = group,
           grouping \in {1 .. n, 1 .. n - 1},
           NEW seen, \A x : x \in seen <=> \E i \in 1 .. n : x = seps[i]
    PROVE  seen = {"comma", "point"} <=> seps[n] # group
  <1>1. seps[1] \in seen /\ seps[n] \in seen /\ seen \subseteq {"comma", "point"}
    OBVIOUS
  <1>2. CASE grouping = 1 .. n
    <2>1. \A i \in 1 .. n : seps[i] = group
      BY <1>2
    <2>2. \A x \in seen : x = group
      BY <2>1
    <2>3. seps[n] = group
      BY <2>1
    <2>4. seen # {"comma", "point"}
      <3>1. "comma" \notin seen \/ "point" \notin seen
        BY ONLY <2>2, "comma" # "point"
      <3> QED  BY <3>1
    <2> QED  BY <2>3, <2>4
  <1>3. CASE grouping = 1 .. n - 1
    <2>1. 1 \in grouping /\ n \notin grouping
      BY <1>3
    <2>2. seps[1] = group /\ seps[n] # group
      BY <2>1
    <2>3. seen = {"comma", "point"}
      BY <1>1, <2>2
    <2> QED  BY <2>2, <2>3
  <1> QED  BY <1>2, <1>3

\* A text that is an amount in a format is read as what it says there.
LEMMA AmountsAreRead ==
    ASSUME NEW text, NEW format, NEW stated, NEW currency,
           text \in Cells, text # Blank /\ text.kind = "amount" => Len(text.groups) = Len(text.seps) + 1,
           stated \in AmountFormats, format \in {"US", "EU"},
           stated # Blank => format = stated,
           MoneyOf(text, stated, currency).ok,
           WellFormed(text, format)
    PROVE  FromDecimal(ReadAs(text, format), currency) = MoneyOf(text, stated, currency)
  <1>1. text # Blank /\ text.kind = "amount"
    BY DEF MoneyOf, InMinorUnits, NormalizeAmount, Fail
  <1>2. text.groups \in Seq(Digit) /\ text.seps \in Seq({"comma", "point"})
    BY <1>1 DEF Cells, DateCell
  <1>3. PICK split : split = SplitNumber(text.groups, text.seps, stated)
    OBVIOUS
  <1>4. PICK decimal : decimal = Signed(split, text.negative)
    OBVIOUS
  <1>5. decimal.ok /\ MoneyOf(text, stated, currency) = FromDecimal(decimal.value, currency)
    BY <1>1, <1>3, <1>4 DEF MoneyOf, InMinorUnits, NormalizeAmount
  <1>6. split.ok /\ decimal.value = [negative |-> text.negative, whole |-> split.value.whole,
                                   fraction |-> split.value.fraction]
    BY <1>4, <1>5 DEF Signed, Fail, Ok
  <1>7. PICK n \in Nat : n = Len(text.seps)
    BY <1>2
  <1>8. PICK pointed \in BOOLEAN : pointed <=> HasFraction(text.groups, text.seps, stated)
    OBVIOUS
  <1>9. split.value = IF pointed THEN [whole |-> Joined(Front(text.groups)), fraction |-> Last(text.groups)]
                      ELSE [whole |-> Joined(text.groups), fraction |-> NoFraction]
    BY <1>3, <1>6, <1>8 DEF SplitNumber, Fail, Ok
  <1>10. pointed <=> n > 0 /\ text.seps[n] # (IF format = "US" THEN "comma" ELSE "point")
    <2>1. PICK group : group = IF format = "US" THEN "comma" ELSE "point"
      OBVIOUS
    <2>2. PICK seps : seps = text.seps
      OBVIOUS
    <2>3. PICK grouping : grouping = {i \in 1 .. n : seps[i] = group}
      OBVIOUS
    <2>4. PICK last : last = text.groups[2].len
      OBVIOUS
    <2>5. \A i \in 1 .. n : seps[i] \in {"comma", "point"}
      BY <1>2, <1>7, <2>2
    <2>6. grouping \in {1 .. n, 1 .. n - 1} /\ \A i \in grouping : text.groups[i + 1].len = 3
      BY <1>7, <2>1, <2>2, <2>3 DEF WellFormed
    <2>7. ToSet(seps) = {seps[i] : i \in 1 .. n}
      BY <1>2, <1>7, <2>2 DEF ToSet
    <2>8. pointed <=> \/ ToSet(seps) = {"comma", "point"}
                      \/ /\ n = 1
                         /\ last # 3 \/ <<stated, seps[1]>> \in {<<"US", "point">>, <<"EU", "comma">>}
      BY <1>7, <1>8, <2>2, <2>4 DEF HasFraction
    <2>9. CASE n = 0
      <3>1. ToSet(seps) = {}
        BY <2>7, <2>9
      <3>2. ToSet(seps) # {"comma", "point"}
        BY <3>1
      <3> QED  BY <2>8, <2>9, <3>2
    <2>10. CASE n = 1
      <3>1. ToSet(seps) = {seps[1]}
        BY <2>7, <2>10
      <3>2. ToSet(seps) # {"comma", "point"}
        BY <3>1, SMTT(30)
      <3>3. seps[1] = group => last = 3
        BY <2>3, <2>4, <2>6, <2>10
      <3>4. last = 3 => stated = format
        BY <1>3, <1>6, <1>7, <2>4, <2>10 DEF SplitNumber, Fail
      <3>5. PICK sep \in {"comma", "point"} : sep = seps[1]
        BY <2>5, <2>10
      <3>6. last # 3 \/ <<stated, sep>> \in {<<"US", "point">>, <<"EU", "comma">>} <=> sep # group
        BY <2>1, <3>3, <3>4, <3>5, OnePoint
      <3> QED  BY <2>1, <2>2, <2>8, <2>10, <3>2, <3>5, <3>6
    <2>11. CASE n > 1
      <3>1. PICK seen : seen = ToSet(seps)
        OBVIOUS
      <3>2. \A x : x \in seen <=> \E i \in 1 .. n : x = seps[i]
        BY <2>7, <3>1
      <3>3. \A i \in 1 .. n : i \in grouping <=> seps[i] = group
        BY <2>3
      <3>4. grouping \in {1 .. n, 1 .. n - 1}
        BY <2>6
      <3>5. seen = {"comma", "point"} <=> seps[n] # group
        BY ONLY n \in Nat, <2>5, <2>11, <3>2, <3>3, <3>4, ManyPoints
      <3> QED  BY <2>1, <2>2, <2>8, <2>11, <3>1, <3>5
    <2> QED  BY <2>9, <2>10, <2>11
  <1>11. Last(text.groups) = text.groups[n + 1]
    BY <1>1, <1>7 DEF Last
  <1>12. ReadAs(text, format) =
           [negative |-> text.negative,
            whole |-> IF pointed THEN Joined(Front(text.groups)) ELSE Joined(text.groups),
            fraction |-> IF pointed THEN text.groups[n + 1] ELSE NoFraction]
    BY <1>7, <1>10 DEF ReadAs
  <1>13. PICK said : said = ReadAs(text, format)
    OBVIOUS
  <1>14. PICK meant : meant = decimal.value
    OBVIOUS
  <1>15. meant.negative = said.negative /\ meant.whole = said.whole /\ meant.fraction = said.fraction
    <2>1. meant.negative = text.negative /\ meant.whole = split.value.whole /\ meant.fraction = split.value.fraction
      BY <1>6, <1>14
    <2>2. said.negative = text.negative
          /\ said.whole = (IF pointed THEN Joined(Front(text.groups)) ELSE Joined(text.groups))
          /\ said.fraction = IF pointed THEN text.groups[n + 1] ELSE NoFraction
      BY <1>12, <1>13
    <2> QED  BY <1>9, <1>11, <2>1, <2>2
  <1>16. FromDecimal(said, currency) = FromDecimal(meant, currency)
    BY <1>15, Zenon DEF FromDecimal
  <1> QED  BY <1>5, <1>13, <1>14, <1>16

\* The same of the amounts of the cycles accepted.
LEMMA AmountsAreKnown ==
    ASSUME NEW run, Known(run), run.params.currency \in SupportedCurrencies
    PROVE  AmountsAreNotGuessed(run, ResultOf(run))
  <1> DEFINE field == "next_invoice_amount"
             formats == IF run.params.format = Blank THEN {"US", "EU"} ELSE {run.params.format}
             textOf(c) == run.file.rows[c.row].cells[run.mapping[field]]
  <1> SUFFICES ASSUME NEW c \in ResultOf(run).accepted, NEW format \in formats,
                      WellFormed(textOf(c), format)
               PROVE  /\ FromDecimal(ReadAs(textOf(c), format), run.params.currency).ok
                      /\ FromDecimal(ReadAs(textOf(c), format), run.params.currency).value = c.amount
    BY Zenon DEF AmountsAreNotGuessed
  <1>1. c \in CyclesIn(run)
    BY ResultsAreMadeOf DEF UniqueIn
  <1>2. PICK i : i = c.row
    OBVIOUS
  <1>3. i \in Kept(run) /\ c = CycleOf(run, i)
    BY <1>1, <1>2, CyclesOfRows DEF CyclesIn
  <1>4. i \in DOMAIN RowsOf(run) /\ ~Excluded(RowsOf(run)[i], MakePolicy(run.params), OptsOf(run))
    BY <1>3 DEF Kept
  <1>5. PICK text : text = Cell(RowsOf(run)[i], field)
    OBVIOUS
  <1>6. PICK money : money = MoneyOf(text, run.params.format, run.params.currency)
    OBVIOUS
  <1>7. text # Blank /\ money.ok
    BY <1>4, <1>5, <1>6, NothingHeldAgainst, SMTT(30) DEF REQUIRED, OptsOf, MakePolicy
  <1>8. c.amount = money.value
    BY <1>3, <1>5, <1>6 DEF CycleOf, ToCycle, OptsOf, MakePolicy
  <1>9. field \in DOMAIN run.mapping
    BY DEF Known, REQUIRED
  <1>10. run.mapping[field] \in run.file.headers /\ text = textOf(c)
    BY <1>2, <1>4, <1>5, <1>7, <1>9, CellsAreRead, SMTT(30)
  <1>11. run.file \in Files /\ i \in DOMAIN run.file.rows
    BY <1>4, RowsAreThere DEF Known
  <1>12. text \in Cells /\ (text # Blank /\ text.kind = "amount" => Len(text.groups) = Len(text.seps) + 1)
    BY <1>2, <1>10, <1>11, FilesAssumption
  <1>13. run.params.format \in AmountFormats
    BY DEF Known, FormSet
  <1>14. format \in {"US", "EU"} /\ (run.params.format # Blank => format = run.params.format)
    BY <1>13 DEF AmountFormats
  <1> HIDE DEF textOf, formats
  <1>15. FromDecimal(ReadAs(text, format), run.params.currency) = money
    BY <1>6, <1>7, <1>10, <1>12, <1>13, <1>14, AmountsAreRead
  <1> QED  BY <1>7, <1>8, <1>10, <1>15

-----------------------------------------------------------------------------
(* Every stalled dollar is in one bucket.                                  *)
\* What the proofs about sums need of a cycle.
Figures(c) ==
    /\ c.expectationAt \in Int /\ c.dueAt \in Int
    /\ c.amount \in Int /\ c.amount > 0
    /\ c.observationAt \in Int \cup {Blank}
    /\ c.paidAt \in Int \cup {Blank}
    /\ c.paidAmount \in Int \cup {Blank}

\* The cycles accepted are finitely many, and have figures.
LEMMA UniqueAreFigures ==
    ASSUME NEW run, Known(run), run.params.currency \in SupportedCurrencies
    PROVE  /\ IsFiniteSet(UniqueIn(run))
           /\ \A c \in UniqueIn(run) : Figures(c)
  <1>1. UniqueIn(run) \subseteq CyclesIn(run) /\ IsFiniteSet(CyclesIn(run))
    BY CyclesOfRows DEF UniqueIn, CyclesIn
  <1>2. IsFiniteSet(UniqueIn(run))
    BY <1>1, FS_Subset
  <1>3. ASSUME NEW c \in CyclesIn(run) PROVE Figures(c)
    <2>1. PICK i : i = c.row
      OBVIOUS
    <2>2. i \in Kept(run) /\ c = CycleOf(run, i)
      BY <2>1, CyclesOfRows DEF CyclesIn
    <2> QED  BY <2>2, CyclesAreFigures DEF Figures
  <1> QED  BY <1>1, <1>2, <1>3

\* The totals of the amounts are sums.
LEMMA AmountsAddUp ==
    ASSUME NEW C, IsFiniteSet(C), \A c \in C : c.amount \in Int
    PROVE  \E w, g :
              /\ w \in [C -> Int]
              /\ Adds(g, C, w)
              /\ \A s \in SUBSET C : Total(s, AmountOf) = g[s]
              /\ \A c \in C : w[c] = c.amount
  <1> DEFINE w == [c \in C |-> c.amount]
  <1>1. w \in [C -> Int] /\ \A c \in C : AmountOf(c) = w[c] /\ w[c] = c.amount
    BY DEF AmountOf
  <1> HIDE DEF w
  <1>2. PICK g : Adds(g, C, w) /\ \A s \in SUBSET C : Total(s, AmountOf) = g[s]
    <2>1. PICK g : Adds(g, C, w) /\ \A s \in SUBSET C : SumFunction([x \in s |-> w[x]]) = g[s]
      BY <1>1, SumsOfFunctions
    <2>2. \A s \in SUBSET C : [c \in s |-> AmountOf(c)] = [x \in s |-> w[x]]
      BY <1>1
    <2> QED  BY <2>1, <2>2 DEF Total
  <1> QED  BY <1>1, <1>2

\* What is left of a payment in part.
LEMMA OutstandingIsLess ==
    ASSUME NEW c, c.amount \in Int, c.paidAmount \in Int, c.paidAmount < c.amount
    PROVE  OutstandingOf(c) = c.amount - c.paidAmount
  <1>1. PICK d \in Int : d = c.amount - c.paidAmount /\ d > 0
    OBVIOUS
  <1>2. Max({0, d}) = d
    <2>1. \A x : (x \in {0, d} /\ \A y \in {0, d} : x >= y) <=> x = d
      BY <1>1
    <2> QED  BY <2>1 DEF Max
  <1> QED  BY <1>1, <1>2 DEF OutstandingOf

\* The totals of what is outstanding are sums.
LEMMA OutstandingAddUp ==
    ASSUME NEW C, IsFiniteSet(C),
           \A c \in C : c.amount \in Int /\ c.paidAmount \in Int /\ c.paidAmount < c.amount
    PROVE  \E v, h :
              /\ v \in [C -> Int]
              /\ Adds(h, C, v)
              /\ \A s \in SUBSET C : Total(s, OutstandingOf) = h[s]
              /\ \A c \in C : v[c] = c.amount - c.paidAmount
  <1> DEFINE v == [c \in C |-> c.amount - c.paidAmount]
  <1>1. v \in [C -> Int] /\ \A c \in C : v[c] = c.amount - c.paidAmount
    OBVIOUS
  <1> HIDE DEF v
  <1>2. \A c \in C : OutstandingOf(c) = v[c]
    BY <1>1, OutstandingIsLess
  <1>3. PICK h : Adds(h, C, v) /\ \A s \in SUBSET C : Total(s, OutstandingOf) = h[s]
    <2>1. PICK h : Adds(h, C, v) /\ \A s \in SUBSET C : SumFunction([x \in s |-> v[x]]) = h[s]
      BY <1>1, SumsOfFunctions
    <2>2. \A s \in SUBSET C : [c \in s |-> OutstandingOf(c)] = [x \in s |-> v[x]]
      BY <1>2
    <2> QED  BY <2>1, <2>2 DEF Total
  <1> QED  BY <1>1, <1>3

\* Every cycle is in one payment state; one that is paid in part has an amount that
\* is less than what is due.
LEMMA StatesAreOne ==
    ASSUME NEW c, NEW asOf, Figures(c)
    PROVE  /\ ClassifyPayment(c, asOf) \in PaymentStates
           /\ ClassifyPayment(c, asOf) = "PartiallyPaid" =>
                 c.paidAmount # Blank /\ c.paidAmount \in Int /\ c.paidAmount < c.amount
  BY DEF ClassifyPayment, PaymentStates, Figures

\* The cycles in one of these payment states.
PaidAs(cycles, asOf, states) == {c \in cycles : ClassifyPayment(c, asOf) \in states}

\* The summary in terms of the cycles in each state.
LEMMA SummaryIs ==
    ASSUME NEW cycles, NEW policy
    PROVE  LET o == ObservedSummary(cycles, policy)
               in(states) == PaidAs(cycles, policy.asOf, states)
           IN  /\ o.grossEligible = Total(in(Eligible), AmountOf)
               /\ o.observedUnpaid = Total(in({"Unpaid"}), AmountOf)
               /\ o.partialOutstanding = Total(in({"PartiallyPaid"}), OutstandingOf)
               /\ o.excludedValue = Total(in({"Cancelled", "Refunded"}), AmountOf)
               /\ o.unknownValue = Total(in({"Unknown"}), AmountOf)
               /\ o.stateCounts = [s \in PaymentStates |-> Cardinality(in({s}))]
  BY DEF ObservedSummary, PaidAs

\* Every stalled dollar is in one bucket, and every stalled cycle in one count.
LEMMA ValuesAreInBuckets ==
    ASSUME NEW run, Known(run), run.params.currency \in SupportedCurrencies
    PROVE  BucketsPartitionTheValue(run, ResultOf(run))
  <1>1. PICK C : C = ResultOf(run).stalled
    OBVIOUS
  <1>2. PICK asOf : asOf = run.params.asOf
    OBVIOUS
  <1>3. PICK o : o = ResultOf(run).observed
    OBVIOUS
  <1>4. C \subseteq UniqueIn(run) /\ o = ObservedSummary(C, MakePolicy(run.params))
    BY <1>1, <1>3, ResultsAreMadeOf
  <1>5. IsFiniteSet(C) /\ \A c \in C : Figures(c)
    BY <1>4, UniqueAreFigures, FS_Subset
  <1>6. PICK eligible \in SUBSET C : eligible = PaidAs(C, asOf, Eligible)
    BY DEF PaidAs
  <1>7. PICK excluded \in SUBSET C : excluded = PaidAs(C, asOf, {"Cancelled", "Refunded"})
    BY DEF PaidAs
  <1>8. PICK unknown \in SUBSET C : unknown = PaidAs(C, asOf, {"Unknown"})
    BY DEF PaidAs
  <1>9. PICK later \in SUBSET C : later = PaidAs(C, asOf, {"NotYetDue"})
    BY DEF PaidAs
  <1>10. PICK unpaid \in SUBSET C : unpaid = PaidAs(C, asOf, {"Unpaid"})
    BY DEF PaidAs
  <1>11. PICK partly \in SUBSET C : partly = PaidAs(C, asOf, {"PartiallyPaid"})
    BY DEF PaidAs
  <1>12. /\ o.grossEligible = Total(eligible, AmountOf)
         /\ o.observedUnpaid = Total(unpaid, AmountOf)
         /\ o.partialOutstanding = Total(partly, OutstandingOf)
         /\ o.excludedValue = Total(excluded, AmountOf)
         /\ o.unknownValue = Total(unknown, AmountOf)
    <2>1. MakePolicy(run.params).asOf = asOf
      BY <1>2 DEF MakePolicy
    <2>2. /\ o.grossEligible = Total(PaidAs(C, asOf, Eligible), AmountOf)
          /\ o.observedUnpaid = Total(PaidAs(C, asOf, {"Unpaid"}), AmountOf)
          /\ o.partialOutstanding = Total(PaidAs(C, asOf, {"PartiallyPaid"}), OutstandingOf)
          /\ o.excludedValue = Total(PaidAs(C, asOf, {"Cancelled", "Refunded"}), AmountOf)
          /\ o.unknownValue = Total(PaidAs(C, asOf, {"Unknown"}), AmountOf)
      BY <1>4, <2>1, SummaryIs, ZenonT(30)
    <2> QED  BY <1>6, <1>7, <1>8, <1>10, <1>11, <2>2, Zenon
  <1>13. PICK w, g :
             /\ w \in [C -> Int]
             /\ Adds(g, C, w)
             /\ \A s \in SUBSET C : Total(s, AmountOf) = g[s]
             /\ \A c \in C : w[c] = c.amount
    BY <1>5, AmountsAddUp DEF Figures
  <1>14. \A s \in SUBSET C : g[s] \in Int
    BY <1>13 DEF Adds
  <1>15. o.grossEligible + o.excludedValue + o.unknownValue + Total(later, AmountOf) = Total(C, AmountOf)
    <2>1. PICK a \in SUBSET C : a = eligible \cup excluded
      OBVIOUS
    <2>2. PICK b \in SUBSET C : b = a \cup unknown
      OBVIOUS
    <2>3. \A c \in C : ClassifyPayment(c, asOf) \in PaymentStates
      BY <1>5, StatesAreOne
    <2>4. eligible \cap excluded = {} /\ a \cap unknown = {} /\ b \cap later = {}
      BY <1>6, <1>7, <1>8, <1>9, <2>1, <2>2 DEF PaidAs, Eligible
    <2>5. b \cup later = C
      BY <1>6, <1>7, <1>8, <1>9, <2>1, <2>2, <2>3 DEF PaidAs, Eligible, PaymentStates
    <2>6. g[eligible \cup excluded] = g[eligible] + g[excluded]
      BY <1>5, <1>13, <2>4, DisjointSums
    <2>7. g[a \cup unknown] = g[a] + g[unknown]
      BY <1>5, <1>13, <2>4, DisjointSums
    <2>8. g[b \cup later] = g[b] + g[later]
      BY <1>5, <1>13, <2>4, DisjointSums
    <2>9. g[C] = g[eligible] + g[excluded] + g[unknown] + g[later]
      BY <1>14, <2>1, <2>2, <2>5, <2>6, <2>7, <2>8
    <2> QED  BY <1>12, <1>13, <2>9
  <1>16. ASSUME \A c \in C : c.paidAmount = Blank \/ c.paidAmount >= 0
         PROVE  o.observedUnpaid + o.partialOutstanding <= o.grossEligible
    <2>1. \A c \in partly : /\ c.amount \in Int /\ c.paidAmount \in Int
                            /\ c.paidAmount < c.amount /\ c.paidAmount >= 0
      BY <1>5, <1>11, <1>16, StatesAreOne DEF PaidAs, Figures
    <2>2. IsFiniteSet(partly)
      BY <1>5, FS_Subset
    <2>3. PICK v, h :
              /\ v \in [partly -> Int]
              /\ Adds(h, partly, v)
              /\ \A s \in SUBSET partly : Total(s, OutstandingOf) = h[s]
              /\ \A c \in partly : v[c] = c.amount - c.paidAmount
      BY <2>1, <2>2, OutstandingAddUp
    <2>4. PICK u, f :
              /\ u \in [partly -> Int]
              /\ Adds(f, partly, u)
              /\ \A s \in SUBSET partly : Total(s, AmountOf) = f[s]
              /\ \A c \in partly : u[c] = c.amount
      BY <2>1, <2>2, AmountsAddUp
    <2>5. \A c \in partly : v[c] <= u[c]
      BY <2>1, <2>3, <2>4
    <2>6. partly \in SUBSET partly
      OBVIOUS
    <2>7. h[partly] <= f[partly]
      BY <2>2, <2>3, <2>4, <2>5, <2>6, LargerSums
    <2>8. f[partly] = g[partly] /\ o.partialOutstanding = h[partly]
      BY <1>12, <1>13, <2>3, <2>4, <2>6
    <2>9. PICK a \in SUBSET C : a = unpaid \cup partly
      OBVIOUS
    <2>10. unpaid \cap partly = {} /\ a \subseteq eligible
      BY <1>6, <1>10, <1>11, <2>9 DEF PaidAs, Eligible
    <2>11. g[unpaid \cup partly] = g[unpaid] + g[partly]
      BY <1>5, <1>13, <2>10, DisjointSums
    <2>12. \A c \in eligible \ a : w[c] >= 0
      BY <1>5, <1>13 DEF Figures
    <2>13. g[a] <= g[eligible]
      BY <1>5, <1>13, <2>10, <2>12, SumsGrow
    <2>14. o.grossEligible = g[eligible] /\ o.observedUnpaid = g[unpaid]
      BY <1>12, <1>13
    <2>15. h[partly] \in Int
      BY <2>3, <2>6 DEF Adds
    <2>16. g[unpaid] + h[partly] <= g[eligible]
      BY <1>14, <2>7, <2>8, <2>9, <2>11, <2>13, <2>15
    <2> QED  BY <2>8, <2>14, <2>16
  <1>17. {c \in C : ClassifyPayment(c, run.params.asOf) = "NotYetDue"} = later
    BY <1>2, <1>9 DEF PaidAs
  <1> QED  BY <1>1, <1>3, <1>15, <1>16, <1>17, Zenon DEF BucketsPartitionTheValue

-----------------------------------------------------------------------------
(* A longer threshold.                                                     *)
\* The threshold plays no part in what is read.
LEMMA ReadWithoutThreshold ==
    ASSUME NEW row, NEW i, NEW policy, NEW other, NEW opts,
           policy.currency = other.currency, policy.excludedStatuses = other.excludedStatuses
    PROVE  /\ Excluded(row, policy, opts) <=> Excluded(row, other, opts)
           /\ ToCycle(row, i, policy, opts) = ToCycle(row, i, other, opts)
  <1>1. Objections(row, policy, opts) = Objections(row, other, opts)
    BY Zenon DEF Objections
  <1>2. Excluded(row, policy, opts) <=> Excluded(row, other, opts)
    BY <1>1, Zenon DEF Excluded
  <1>3. ToCycle(row, i, policy, opts) = ToCycle(row, i, other, opts)
    BY Zenon DEF ToCycle
  <1> QED  BY <1>2, <1>3

\* A longer threshold makes no cycle stalled, spares those on the edge and makes
\* no confirmed cycle doubtful.
LEMMA LongerWaitsStallLess ==
    ASSUME NEW c, NEW policy, NEW other, Figures(c), policy.n \in Int, policy.asOf \in Int,
           other.n = policy.n + 1, other.asOf = policy.asOf
    PROVE  /\ IsStalled(c, other) <=> IsStalled(c, policy) /\ ~OnTheEdge(c, policy)
           /\ ClassifyStall(c, policy) = "observed_within_threshold" =>
                 ClassifyStall(c, other) = "observed_within_threshold"
  <1>0. PICK active \in Int \cup {Blank} : active = c.observationAt
    BY DEF Figures
  <1>2. PICK at \in Int : at = c.expectationAt
    BY DEF Figures
  <1>3. PICK n \in Int : n = policy.n /\ other.n = n + 1
    OBVIOUS
  <1>4. PICK asOf \in Int : asOf = policy.asOf /\ asOf = other.asOf
    OBVIOUS
  <1>1. PICK seen : /\ seen = Observation(c, policy.asOf) /\ seen = Observation(c, other.asOf)
                    /\ seen = IF active # Blank /\ active > asOf THEN Blank ELSE active
    BY <1>0, <1>4 DEF Observation, SeenBy
  <1>5. ClassifyStall(c, policy) =
           IF seen # Blank
           THEN IF seen > at + n THEN "observed_after_threshold" ELSE "observed_within_threshold"
           ELSE IF at + n > asOf THEN "within_window_not_yet_due"
           ELSE "no_observation_past_deadline"
    BY <1>1, <1>2, <1>3, <1>4 DEF ClassifyStall
  <1>6. ClassifyStall(c, other) =
           IF seen # Blank
           THEN IF seen > at + (n + 1) THEN "observed_after_threshold" ELSE "observed_within_threshold"
           ELSE IF at + (n + 1) > asOf THEN "within_window_not_yet_due"
           ELSE "no_observation_past_deadline"
    BY <1>1, <1>2, <1>3, <1>4 DEF ClassifyStall
  <1>7. OnTheEdge(c, policy) <=> active = (at + n) + 1 \/ at + n = asOf
    BY <1>0, <1>2, <1>3, <1>4 DEF OnTheEdge
  <1>8. CASE seen = Blank
    <2>1. active = Blank \/ (active \in Int /\ active > asOf)
      BY <1>0, <1>1, <1>8
    <2>2. Blank \notin Int
      BY BlankAssumption
    <2>3. ~(at + (n + 1) > asOf) <=> ~(at + n > asOf) /\ ~(at + n = asOf)
      OBVIOUS
    <2>4. active = (at + n) + 1 /\ ~(at + n > asOf) => at + n = asOf
      BY <2>1, <2>2
    <2>5. IsStalled(c, policy) <=> ~(at + n > asOf)
      BY <1>5, <1>8 DEF IsStalled
    <2>6. IsStalled(c, other) <=> ~(at + (n + 1) > asOf)
      BY <1>6, <1>8 DEF IsStalled
    <2> QED  BY <1>5, <1>7, <1>8, <2>3, <2>4, <2>5, <2>6
  <1>9. CASE seen # Blank
    <2>1. seen \in Int /\ seen = active /\ ~(seen > asOf)
      BY <1>0, <1>1, <1>9
    <2>2. seen > at + (n + 1) <=> seen > at + n /\ seen # (at + n) + 1
      BY <2>1
    <2>3. seen > at + n => at + n # asOf
      BY <2>1
    <2>4. IsStalled(c, policy) <=> seen > at + n
      BY <1>5, <1>9 DEF IsStalled
    <2>5. IsStalled(c, other) <=> seen > at + (n + 1)
      BY <1>6, <1>9 DEF IsStalled
    <2> QED  BY <1>5, <1>6, <1>7, <1>9, <2>1, <2>2, <2>3, <2>4, <2>5
  <1> QED  BY <1>8, <1>9

\* The run with a threshold that is a day longer.
NextThreshold(run) == [file |-> run.file, mapping |-> run.mapping, params |-> [run.params EXCEPT !.n = @ + 1]]

\* It accepts the same cycles.
LEMMA LaterReadsTheSame ==
    ASSUME NEW run, Known(run)
    PROVE  /\ UniqueIn(NextThreshold(run)) = UniqueIn(run)
           /\ MakePolicy(NextThreshold(run).params).n = MakePolicy(run.params).n + 1
           /\ MakePolicy(NextThreshold(run).params).asOf = MakePolicy(run.params).asOf
           /\ MakePolicy(run.params).n \in Int /\ MakePolicy(run.params).asOf \in Int
  <1>1. PICK policy : policy = MakePolicy(run.params)
    OBVIOUS
  <1>2. PICK other : other = MakePolicy(NextThreshold(run).params)
    OBVIOUS
  <1>3. /\ policy.currency = other.currency /\ policy.excludedStatuses = other.excludedStatuses
        /\ other.n = policy.n + 1 /\ other.asOf = policy.asOf
        /\ policy.n \in Int /\ policy.asOf \in Int
    BY <1>1, <1>2 DEF MakePolicy, NextThreshold, Known, FormSet
  <1>4. RowsOf(NextThreshold(run)) = RowsOf(run) /\ OptsOf(NextThreshold(run)) = OptsOf(run)
    BY DEF RowsOf, OptsOf, NextThreshold, Known, FormSet
  <1>5. Kept(NextThreshold(run)) = Kept(run)
    BY <1>1, <1>2, <1>3, <1>4, ReadWithoutThreshold DEF Kept
  <1>6. \A i : CycleOf(NextThreshold(run), i) = CycleOf(run, i)
    BY <1>1, <1>2, <1>3, <1>4, ReadWithoutThreshold DEF CycleOf
  <1>7. \A r : CyclesIn(r) = {CycleOf(r, i) : i \in Kept(r)}
    BY DEF CyclesIn, OutcomesOf, RowOutcomes, Kept, CycleOf
  <1>8. CyclesIn(NextThreshold(run)) = CyclesIn(run)
    BY <1>5, <1>6, <1>7
  <1> QED  BY <1>1, <1>2, <1>3, <1>8 DEF UniqueIn

\* Its headline is no higher.
LEMMA FallsWithN ==
    ASSUME NEW run, Known(run), run.params.currency \in SupportedCurrencies
    PROVE  HeadlineFallsWithN(run, ResultOf(run))
  <1>1. PICK r : r = ResultOf(run)
    OBVIOUS
  <1>2. PICK later : later = ResultOf(NextThreshold(run))
    OBVIOUS
  <1>3. PICK policy : policy = MakePolicy(run.params)
    OBVIOUS
  <1>4. PICK other : other = MakePolicy(NextThreshold(run).params)
    OBVIOUS
  <1>5. PICK C : C = UniqueIn(run)
    OBVIOUS
  <1>6. /\ UniqueIn(NextThreshold(run)) = C
        /\ other.n = policy.n + 1 /\ other.asOf = policy.asOf
        /\ policy.n \in Int /\ policy.asOf \in Int
    BY <1>3, <1>4, <1>5, LaterReadsTheSame
  <1>7. IsFiniteSet(C) /\ \A c \in C : Figures(c)
    BY <1>5, UniqueAreFigures
  <1>8. /\ r.stalled = {c \in C : IsStalled(c, policy)}
        /\ r.reference = {c \in C : ClassifyStall(c, policy) = "observed_within_threshold"}
        /\ r.observed = ObservedSummary(r.stalled, policy)
    BY <1>1, <1>3, <1>5, ResultsAreMadeOf
  <1>9. /\ later.stalled = {c \in C : IsStalled(c, other)}
        /\ later.reference = {c \in C : ClassifyStall(c, other) = "observed_within_threshold"}
        /\ later.observed = ObservedSummary(later.stalled, other)
    BY <1>2, <1>4, <1>6, ResultsAreMadeOf
  <1>10. /\ later.stalled = {c \in r.stalled : ~OnTheEdge(c, run.params)}
         /\ r.reference \subseteq later.reference
    <2>1. \A c \in C : IsStalled(c, other) <=> IsStalled(c, policy) /\ ~OnTheEdge(c, policy)
      BY <1>6, <1>7, LongerWaitsStallLess
    <2>2. \A c \in C : ClassifyStall(c, policy) = "observed_within_threshold" =>
                       ClassifyStall(c, other) = "observed_within_threshold"
      BY <1>6, <1>7, LongerWaitsStallLess
    <2>3. \A c : OnTheEdge(c, policy) <=> OnTheEdge(c, run.params)
      BY <1>3 DEF OnTheEdge, MakePolicy
    <2> QED  BY ONLY <1>8, <1>9, <2>1, <2>2, <2>3
  <1>11. later.observed.observedUnpaid <= r.observed.observedUnpaid
    <2>1. PICK s \in SUBSET C : s = PaidAs(later.stalled, policy.asOf, {"Unpaid"})
      BY <1>9 DEF PaidAs
    <2>2. PICK t \in SUBSET C : t = PaidAs(r.stalled, policy.asOf, {"Unpaid"})
      BY <1>8 DEF PaidAs
    <2>3. s \subseteq t
      <3>1. later.stalled \subseteq r.stalled
        BY <1>10
      <3> QED  BY <1>6, <2>1, <2>2, <3>1 DEF PaidAs
    <2>4. later.observed.observedUnpaid = Total(s, AmountOf)
          /\ r.observed.observedUnpaid = Total(t, AmountOf)
      <3>1. \A cycles, p :
               ObservedSummary(cycles, p).observedUnpaid = Total(PaidAs(cycles, p.asOf, {"Unpaid"}), AmountOf)
        BY SummaryIs, Zenon
      <3>2. later.observed = ObservedSummary(later.stalled, other)
        BY <1>9
      <3>3. r.observed = ObservedSummary(r.stalled, policy)
        BY <1>8
      <3> QED  BY ONLY <1>6, <2>1, <2>2, <3>1, <3>2, <3>3, Zenon
    <2>5. PICK w, g :
              /\ w \in [C -> Int]
              /\ Adds(g, C, w)
              /\ \A u \in SUBSET C : Total(u, AmountOf) = g[u]
              /\ \A c \in C : w[c] = c.amount
      BY <1>7, AmountsAddUp DEF Figures
    <2>6. \A c \in t \ s : w[c] >= 0
      BY <1>7, <2>5 DEF Figures
    <2>7. g[s] <= g[t]
      BY <1>7, <2>3, <2>5, <2>6, SumsGrow
    <2> QED  BY <2>4, <2>5, <2>7
  <1>12. later = AssessCsv(run.file, run.mapping, [run.params EXCEPT !.n = @ + 1])
    BY <1>2 DEF ResultOf, NextThreshold
  <1> QED  BY <1>1, <1>10, <1>11, <1>12, Zenon DEF HeadlineFallsWithN, FallsTo

-----------------------------------------------------------------------------
(* What is in the future.                                                  *)
\* The fields that tell of a payment, how much was paid apart, and those that
\* tell of what may happen after the as-of date.
PaymentFields == {"next_invoice_paid_at", "next_invoice_paid"}
Moments == PaymentFields \cup {"activation_at"}

\* The run on the file as it was on the as-of date.
Then(run) ==
    [file |-> AsOnTheDay(ApplyMapping(run.file, run.mapping), run.params, PaymentFields),
     mapping |-> <<>>, params |-> run.params]

\* A date after the as-of date.
IsLater(text, params) ==
    /\ text # Blank
    /\ NormalizeDate(text, params.locale).ok
    /\ NormalizeDate(text, params.locale).value > params.asOf

\* Two rows that differ in nothing that can be seen on the as-of date.
Alike(other, row, params) ==
    /\ other.malformed = row.malformed
    /\ "subscription_id" \in DOMAIN other.cells <=> "subscription_id" \in DOMAIN row.cells
    /\ \A f \in Canonical \ Moments : Cell(other, f) = Cell(row, f)
    /\ \/ Cell(other, "activation_at") = Cell(row, "activation_at")
       \/ Cell(other, "activation_at") = Blank /\ IsLater(Cell(row, "activation_at"), params)
    /\ \/ \A f \in PaymentFields : Cell(other, f) = Cell(row, f)
       \/ /\ \A f \in PaymentFields : Cell(other, f) = Blank
          /\ IsLater(Cell(row, "next_invoice_paid_at"), params)

\* What the mapped table is made of.
MappedCell(table, mapping, row, h) ==
    IF h \notin DOMAIN mapping THEN row.cells[h]
    ELSE IF mapping[h] \in table.headers THEN row.cells[mapping[h]] ELSE Blank

MappedCells(table, mapping, row) ==
    [h \in table.headers \cup DOMAIN mapping |-> MappedCell(table, mapping, row, h)]

LEMMA MappedTable ==
    ASSUME NEW table, NEW mapping
    PROVE  /\ ApplyMapping(table, mapping).headers = table.headers \cup DOMAIN mapping
           /\ DOMAIN ApplyMapping(table, mapping).rows = DOMAIN table.rows
           /\ \A k \in DOMAIN table.rows :
                 /\ ApplyMapping(table, mapping).rows[k].malformed = table.rows[k].malformed
                 /\ ApplyMapping(table, mapping).rows[k].cells
                       = MappedCells(table, mapping, table.rows[k])
  <1>1. ApplyMapping(table, mapping) =
           [headers |-> table.headers \cup DOMAIN mapping,
            rows |-> [i \in DOMAIN table.rows |->
                        [malformed |-> table.rows[i].malformed,
                         cells |-> MappedCells(table, mapping, table.rows[i])]]]
    BY Zenon DEF ApplyMapping, MappedCells, MappedCell
  <1> QED  BY <1>1

\* The rows of the file as it was are those of the file, without the cells that
\* tell of what came later.
LEMMA RowsOfThen ==
    ASSUME NEW run, NEW i \in DOMAIN RowsOf(run)
    PROVE  LET row == RowsOf(run)[i]
               other == RowsOf(Then(run))[i]
           IN  /\ DOMAIN RowsOf(Then(run)) = DOMAIN RowsOf(run)
               /\ other.malformed = row.malformed
               /\ DOMAIN other.cells = DOMAIN row.cells
               /\ \A f : Cell(other, f) = IF f \in ToldLater(row, run.params, PaymentFields)
                                          THEN Blank ELSE Cell(row, f)
  <1>1. PICK table : table = ApplyMapping(run.file, run.mapping)
    OBVIOUS
  <1>2. PICK then : then = AsOnTheDay(table, run.params, PaymentFields)
    OBVIOUS
  <1>3. RowsOf(run) = table.rows
        /\ \A k \in DOMAIN table.rows : DOMAIN table.rows[k].cells = table.headers
    <2>1. DOMAIN table.rows = DOMAIN run.file.rows /\ RowsOf(run) = table.rows
      BY <1>1, MappedTable DEF RowsOf
    <2>2. ASSUME NEW k \in DOMAIN table.rows PROVE DOMAIN table.rows[k].cells = table.headers
      <3>1. table.rows[k].cells = MappedCells(run.file, run.mapping, run.file.rows[k])
        BY <1>1, <2>1, MappedTable
      <3>2. table.headers = run.file.headers \cup DOMAIN run.mapping
        BY <1>1, MappedTable
      <3> QED  BY <3>1, <3>2 DEF MappedCells
    <2> QED  BY <2>1, <2>2
  <1>4. /\ then.headers = table.headers /\ DOMAIN then.rows = DOMAIN table.rows
        /\ then.rows[i].malformed = table.rows[i].malformed
        /\ then.rows[i].cells =
              [h \in table.headers |->
                 IF h \in ToldLater(table.rows[i], run.params, PaymentFields) THEN Blank
                 ELSE table.rows[i].cells[h]]
    BY <1>2, <1>3 DEF AsOnTheDay
  <1>5. RowsOf(Then(run)) = ApplyMapping(then, <<>>).rows
    BY <1>1, <1>2 DEF RowsOf, Then
  <1>6. DOMAIN <<>> = {}
    OBVIOUS
  <1>7. /\ DOMAIN RowsOf(Then(run)) = DOMAIN table.rows
        /\ RowsOf(Then(run))[i].malformed = table.rows[i].malformed
        /\ RowsOf(Then(run))[i].cells = [h \in table.headers |-> then.rows[i].cells[h]]
    <2>1. i \in DOMAIN then.rows
      BY <1>3, <1>4
    <2>2. PICK again : again = ApplyMapping(then, <<>>)
      OBVIOUS
    <2>3. DOMAIN again.rows = DOMAIN then.rows /\ again.rows[i].malformed = then.rows[i].malformed
      BY <2>1, <2>2, MappedTable
    <2>4. again.rows[i].cells = MappedCells(then, <<>>, then.rows[i])
      BY <2>1, <2>2, MappedTable
    <2>5. \A h : MappedCell(then, <<>>, then.rows[i], h) = then.rows[i].cells[h]
      BY <1>6 DEF MappedCell
    <2>6. then.headers \cup DOMAIN <<>> = table.headers
      BY <1>4, <1>6
    <2>7. again.rows[i].cells = [h \in table.headers |-> then.rows[i].cells[h]]
      BY <2>4, <2>5, <2>6 DEF MappedCells
    <2> QED  BY <1>4, <1>5, <2>2, <2>3, <2>7
  <1>8. PICK row, other : row = RowsOf(run)[i] /\ other = RowsOf(Then(run))[i]
    OBVIOUS
  <1>9. DOMAIN other.cells = table.headers /\ DOMAIN row.cells = table.headers
    BY <1>3, <1>7, <1>8
  <1>10. \A h \in table.headers :
            other.cells[h] = IF h \in ToldLater(row, run.params, PaymentFields) THEN Blank
                             ELSE row.cells[h]
    BY <1>3, <1>4, <1>7, <1>8
  <1>11. \A f : Cell(other, f) = IF f \in ToldLater(row, run.params, PaymentFields)
                                 THEN Blank ELSE Cell(row, f)
    BY <1>9, <1>10 DEF Cell
  <1> QED  BY <1>3, <1>7, <1>8, <1>9, <1>11

\* They are alike.
LEMMA ThenIsAlike ==
    ASSUME NEW run, NEW i \in DOMAIN RowsOf(run)
    PROVE  Alike(RowsOf(Then(run))[i], RowsOf(run)[i], run.params)
  <1>1. PICK row, other : row = RowsOf(run)[i] /\ other = RowsOf(Then(run))[i]
    OBVIOUS
  <1>2. PICK later : later = ToldLater(row, run.params, PaymentFields)
    OBVIOUS
  <1>3. /\ other.malformed = row.malformed /\ DOMAIN other.cells = DOMAIN row.cells
        /\ \A f : Cell(other, f) = IF f \in later THEN Blank ELSE Cell(row, f)
    BY <1>1, <1>2, RowsOfThen
  <1>4. \A f : NormalizeDate(Cell(row, f), run.params.locale).ok => Cell(row, f) # Blank
    BY DEF NormalizeDate, Fail
  <1>5. /\ "activation_at" \in later <=> IsLater(Cell(row, "activation_at"), run.params)
        /\ \A f \in PaymentFields : f \in later <=> IsLater(Cell(row, "next_invoice_paid_at"), run.params)
        /\ later \subseteq Moments
    BY <1>2, <1>4 DEF ToldLater, IsLater, PaymentFields, Moments
  <1> QED  BY <1>1, <1>3, <1>5 DEF Alike, PaymentFields, Moments

\* Alike rows are kept or excluded alike.
LEMMA AlikeAreKeptAlike ==
    ASSUME NEW row, NEW other, NEW params, Alike(other, row, params),
           NEW policy, NEW opts, opts.locale = params.locale
    PROVE  Excluded(other, policy, opts) <=> Excluded(row, policy, opts)
  <1> DEFINE given(r, f) == Cell(r, f) # Blank
             date(r, f) == Faulty(NormalizeDate(Cell(r, f), opts.locale))
             money(r, f) == MoneyOf(Cell(r, f), opts.format, policy.currency)
             moment(r, f) == IF given(r, f) THEN date(r, f) ELSE {}
  <1>1. \A f \in Canonical \ Moments : Cell(other, f) = Cell(row, f)
    BY DEF Alike
  <1>2. /\ moment(other, "activation_at") = moment(row, "activation_at")
        /\ moment(other, "next_invoice_paid_at") = moment(row, "next_invoice_paid_at")
    <2>1. \A text : IsLater(text, params) => Faulty(NormalizeDate(text, opts.locale)) = {}
      BY DEF IsLater, Faulty
    <2>2. /\ \/ Cell(other, "activation_at") = Cell(row, "activation_at")
             \/ Cell(other, "activation_at") = Blank /\ IsLater(Cell(row, "activation_at"), params)
          /\ \/ Cell(other, "next_invoice_paid_at") = Cell(row, "next_invoice_paid_at")
             \/ /\ Cell(other, "next_invoice_paid_at") = Blank
                /\ IsLater(Cell(row, "next_invoice_paid_at"), params)
      BY DEF Alike, PaymentFields
    <2> QED  BY <2>1, <2>2
  <1>3. /\ Cell(other, "currency") = Cell(row, "currency")
        /\ Cell(other, "is_test") = Cell(row, "is_test")
        /\ Cell(other, "status") = Cell(row, "status")
        /\ Cell(other, "signed_at") = Cell(row, "signed_at")
        /\ Cell(other, "next_invoice_due_at") = Cell(row, "next_invoice_due_at")
        /\ Cell(other, "next_invoice_amount") = Cell(row, "next_invoice_amount")
        /\ Cell(other, "paid_amount") = Cell(row, "paid_amount")
    BY <1>1 DEF Canonical, REQUIRED, Optional, Moments, PaymentFields
  <1> DEFINE broken(r) == When(r.malformed, "unparseable_row")
             missing(r) == When(\E f \in REQUIRED : ~given(r, f), "missing_required_field")
             foreign(r) == When(Cell(r, "currency") # Word(policy.currency), "currency_mismatch")
             test(r) == When(IsSet(r, "is_test"), "internal_or_test_account")
             unwanted(r) == When(given(r, "status") /\ Cell(r, "status") \in policy.excludedStatuses,
                                 "excluded_status")
             part(r) == IF given(r, "paid_amount") THEN Faulty(money(r, "paid_amount")) ELSE {}
             amount(r) == AmountObjections(money(r, "next_invoice_amount"))
             head(r) == <<broken(r), missing(r), foreign(r), test(r), unwanted(r), date(r, "signed_at"),
                          date(r, "next_invoice_due_at"), moment(r, "activation_at")>>
             tail(r) == <<part(r), moment(r, "next_invoice_paid_at")>>
  <1>4. \A r : Objections(r, policy, opts) = head(r) \o amount(r) \o tail(r)
    BY Zenon DEF Objections
  <1>5. broken(other) = broken(row)
    BY DEF Alike, When
  <1>6. missing(other) = missing(row)
    <2>1. (\E f \in REQUIRED : ~given(other, f)) <=> (\E f \in REQUIRED : ~given(row, f))
      BY <1>1 DEF Canonical, REQUIRED, Moments, PaymentFields
    <2> QED  BY <2>1 DEF When
  <1>7. foreign(other) = foreign(row) /\ unwanted(other) = unwanted(row)
    BY <1>3 DEF When
  <1>8. test(other) = test(row)
    BY <1>3 DEF IsSet, When
  <1>9. /\ date(other, "signed_at") = date(row, "signed_at")
        /\ date(other, "next_invoice_due_at") = date(row, "next_invoice_due_at")
        /\ part(other) = part(row) /\ amount(other) = amount(row)
    BY <1>3
  <1>10. /\ moment(other, "activation_at") = moment(row, "activation_at")
         /\ moment(other, "next_invoice_paid_at") = moment(row, "next_invoice_paid_at")
    BY <1>2
  <1> HIDE DEF broken, missing, foreign, test, unwanted, date, moment, part, amount
  <1>11. head(other) = head(row) /\ tail(other) = tail(row)
    BY <1>5, <1>6, <1>7, <1>8, <1>9, <1>10
  <1> HIDE DEF head, tail
  <1>15. Objections(other, policy, opts) = Objections(row, policy, opts)
    BY <1>4, <1>9, <1>11
  <1> QED  BY <1>15, Zenon DEF Excluded

\* Two cycles that differ in nothing that can be seen on the as-of date.
SameCycle(d, c, asOf) ==
    /\ d.row = c.row /\ d.cycleId = c.cycleId
    /\ d.expectationAt = c.expectationAt /\ d.dueAt = c.dueAt
    /\ d.amount = c.amount /\ d.paidAmount = c.paidAmount
    /\ d.refunded = c.refunded /\ d.cancelled = c.cancelled
    /\ SeenBy(d.observationAt, asOf) = SeenBy(c.observationAt, asOf)
    /\ SeenBy(d.paidAt, asOf) = SeenBy(c.paidAt, asOf)

\* Alike rows make cycles that look the same on the as-of date.
LEMMA AlikeMakeSameCycles ==
    ASSUME NEW row, NEW other, NEW params, Alike(other, row, params), NEW i,
           NEW policy, NEW opts, opts.locale = params.locale, ~Excluded(row, policy, opts)
    PROVE  SameCycle(ToCycle(other, i, policy, opts), ToCycle(row, i, policy, opts), params.asOf)
  <1>1. \A f \in Canonical \ Moments : Cell(other, f) = Cell(row, f)
    BY DEF Alike
  <1>2. \A text : IsLater(text, params) =>
           SeenBy(NormalizeDate(text, params.locale).value, params.asOf) = Blank
    BY DEF IsLater, SeenBy
  <1>4. SeenBy(Blank, params.asOf) = Blank
    BY DEF SeenBy
  <1>3. /\ Cell(other, "entity_id") = Cell(row, "entity_id")
        /\ Cell(other, "cycle_id") = Cell(row, "cycle_id")
        /\ Cell(other, "subscription_id") = Cell(row, "subscription_id")
        /\ Cell(other, "refunded") = Cell(row, "refunded")
        /\ Cell(other, "cancelled") = Cell(row, "cancelled")
        /\ Cell(other, "status") = Cell(row, "status")
        /\ Cell(other, "signed_at") = Cell(row, "signed_at")
        /\ Cell(other, "next_invoice_due_at") = Cell(row, "next_invoice_due_at")
        /\ Cell(other, "next_invoice_amount") = Cell(row, "next_invoice_amount")
        /\ Cell(other, "paid_amount") = Cell(row, "paid_amount")
    BY <1>1 DEF Canonical, REQUIRED, Optional, Moments, PaymentFields
  <1>5. ExplicitCycle(other) = ExplicitCycle(row)
    <2>1. "subscription_id" \in DOMAIN other.cells <=> "subscription_id" \in DOMAIN row.cells
      BY DEF Alike
    <2> QED  BY <1>3, <2>1 DEF ExplicitCycle
  <1>6. PICK d : d = ToCycle(other, i, policy, opts)
    OBVIOUS
  <1>7. PICK c : c = ToCycle(row, i, policy, opts)
    OBVIOUS
  <1>8. /\ d.row = c.row /\ d.cycleId = c.cycleId
        /\ d.expectationAt = c.expectationAt /\ d.dueAt = c.dueAt
        /\ d.amount = c.amount /\ d.paidAmount = c.paidAmount
        /\ d.refunded = c.refunded /\ d.cancelled = c.cancelled
    BY <1>3, <1>5, <1>6, <1>7 DEF ToCycle, IsSet
  <1>9. SeenBy(d.observationAt, params.asOf) = SeenBy(c.observationAt, params.asOf)
    <2>1. d.observationAt = IF Cell(other, "activation_at") = Blank THEN Blank
                            ELSE NormalizeDate(Cell(other, "activation_at"), params.locale).value
      BY <1>6 DEF ToCycle
    <2>2. c.observationAt = IF Cell(row, "activation_at") = Blank THEN Blank
                            ELSE NormalizeDate(Cell(row, "activation_at"), params.locale).value
      BY <1>7 DEF ToCycle
    <2>3. \/ Cell(other, "activation_at") = Cell(row, "activation_at")
          \/ Cell(other, "activation_at") = Blank /\ IsLater(Cell(row, "activation_at"), params)
      BY DEF Alike
    <2>4. IsLater(Cell(row, "activation_at"), params) => Cell(row, "activation_at") # Blank
      BY DEF IsLater
    <2> QED  BY <1>2, <1>4, <2>1, <2>2, <2>3, <2>4
  <1>10. SeenBy(d.paidAt, params.asOf) = SeenBy(c.paidAt, params.asOf)
    <2> DEFINE flagged(r, due) == IF IsSet(r, "next_invoice_paid") THEN due ELSE Blank
    <2>1. d.paidAt = IF Cell(other, "next_invoice_paid_at") # Blank
                     THEN NormalizeDate(Cell(other, "next_invoice_paid_at"), params.locale).value
                     ELSE flagged(other, d.dueAt)
      BY <1>6 DEF ToCycle, PaidAt
    <2>2. c.paidAt = IF Cell(row, "next_invoice_paid_at") # Blank
                     THEN NormalizeDate(Cell(row, "next_invoice_paid_at"), params.locale).value
                     ELSE flagged(row, c.dueAt)
      BY <1>7 DEF ToCycle, PaidAt
    <2>3. CASE \A f \in PaymentFields : Cell(other, f) = Cell(row, f)
      <3>1. /\ Cell(other, "next_invoice_paid_at") = Cell(row, "next_invoice_paid_at")
            /\ Cell(other, "next_invoice_paid") = Cell(row, "next_invoice_paid")
        BY <2>3 DEF PaymentFields
      <3>2. flagged(other, d.dueAt) = flagged(row, c.dueAt)
        BY <1>8, <3>1 DEF IsSet
      <3> HIDE DEF flagged
      <3> QED  BY <2>1, <2>2, <3>1, <3>2
    <2>4. CASE /\ \A f \in PaymentFields : Cell(other, f) = Blank
               /\ IsLater(Cell(row, "next_invoice_paid_at"), params)
      <3>1. Cell(other, "next_invoice_paid_at") = Blank /\ ~IsSet(other, "next_invoice_paid")
        <4>1. Cell(other, "next_invoice_paid_at") = Blank /\ Cell(other, "next_invoice_paid") = Blank
          BY <2>4 DEF PaymentFields
        <4> QED  BY <4>1, BlankAssumption DEF IsSet
      <3>2. Cell(row, "next_invoice_paid_at") # Blank
        BY <2>4 DEF IsLater
      <3>3. d.paidAt = Blank
            /\ c.paidAt = NormalizeDate(Cell(row, "next_invoice_paid_at"), params.locale).value
        BY <2>1, <2>2, <3>1, <3>2
      <3> QED  BY <1>2, <1>4, <2>4, <3>3
    <2> QED  BY <2>3, <2>4 DEF Alike
  <1> QED  BY <1>6, <1>7, <1>8, <1>9, <1>10 DEF SameCycle

\* What is seen of two such cycles is the same.
LEMMA SameAreSeenAlike ==
    ASSUME NEW c, NEW d, NEW policy, SameCycle(d, c, policy.asOf)
    PROVE  /\ ClassifyStall(d, policy) = ClassifyStall(c, policy)
           /\ IsStalled(d, policy) <=> IsStalled(c, policy)
           /\ ClassifyPayment(d, policy.asOf) = ClassifyPayment(c, policy.asOf)
  <1>1. ClassifyStall(d, policy) = ClassifyStall(c, policy)
    BY DEF SameCycle, ClassifyStall, Observation
  <1>2. IsStalled(d, policy) <=> IsStalled(c, policy)
    BY <1>1 DEF IsStalled
  <1>3. ClassifyPayment(d, policy.asOf) = ClassifyPayment(c, policy.asOf)
    BY DEF SameCycle, ClassifyPayment
  <1> QED  BY <1>1, <1>2, <1>3

\* Renamed cycles have the same totals.
LEMMA SameTotals ==
    ASSUME NEW C, IsFiniteSet(C), NEW b, C \subseteq DOMAIN b,
           \A x, y \in C : b[x] = b[y] => x = y,
           \A c \in C : c.amount \in Int /\ b[c].amount = c.amount
    PROVE  Total({b[x] : x \in C}, AmountOf) = Total(C, AmountOf)
  <1>1. PICK D : D = {b[x] : x \in C}
    OBVIOUS
  <1>2. IsFiniteSet(D) /\ \A d \in D : d.amount \in Int
    BY <1>1, Renames
  <1>3. PICK w, g :
            w \in [C -> Int] /\ Adds(g, C, w) /\ (\A s \in SUBSET C : Total(s, AmountOf) = g[s]) /\ \A c \in C : w[c] = c.amount
    BY AmountsAddUp
  <1>4. PICK v, h :
            v \in [D -> Int] /\ Adds(h, D, v) /\ (\A s \in SUBSET D : Total(s, AmountOf) = h[s]) /\ \A d \in D : v[d] = d.amount
    BY <1>2, AmountsAddUp
  <1> DEFINE f == [x \in C |-> b[x]]
  <1>5. f \in [C -> D] /\ (\A x, y \in C : f[x] = f[y] => x = y) /\ \A x \in C : v[f[x]] = w[x]
    BY <1>1, <1>3, <1>4
  <1>6. {f[x] : x \in C} = D
    BY <1>1
  <1> HIDE DEF f
  <1>7. \A s \in SUBSET C : h[{f[x] : x \in s}] = g[s]
    BY <1>3, <1>4, <1>5, RenamedSums
  <1>8. h[D] = g[C]
    BY <1>6, <1>7
  <1>9. C \in SUBSET C /\ D \in SUBSET D
    OBVIOUS
  <1>10. Total(C, AmountOf) = g[C] /\ Total(D, AmountOf) = h[D]
    BY <1>3, <1>4, <1>9
  <1> QED  BY <1>1, <1>8, <1>10

\* Renamed cycles have the same total outstanding.
LEMMA SameOutstanding ==
    ASSUME NEW C, IsFiniteSet(C), NEW b, C \subseteq DOMAIN b,
           \A x, y \in C : b[x] = b[y] => x = y,
           \A c \in C : /\ c.amount \in Int /\ c.paidAmount \in Int /\ c.paidAmount < c.amount
                        /\ b[c].amount = c.amount /\ b[c].paidAmount = c.paidAmount
    PROVE  Total({b[x] : x \in C}, OutstandingOf) = Total(C, OutstandingOf)
  <1>1. PICK D : D = {b[x] : x \in C}
    OBVIOUS
  <1>2. IsFiniteSet(D)
        /\ \A d \in D : d.amount \in Int /\ d.paidAmount \in Int /\ d.paidAmount < d.amount
    BY <1>1, Renames
  <1>3. PICK w, g : w \in [C -> Int] /\ Adds(g, C, w) /\ (\A s \in SUBSET C : Total(s, OutstandingOf) = g[s])
                                   /\ \A c \in C : w[c] = c.amount - c.paidAmount
    BY OutstandingAddUp
  <1>4. PICK v, h : v \in [D -> Int] /\ Adds(h, D, v) /\ (\A s \in SUBSET D : Total(s, OutstandingOf) = h[s])
                                   /\ \A d \in D : v[d] = d.amount - d.paidAmount
    BY <1>2, OutstandingAddUp
  <1> DEFINE f == [x \in C |-> b[x]]
  <1>5. f \in [C -> D] /\ (\A x, y \in C : f[x] = f[y] => x = y) /\ \A x \in C : v[f[x]] = w[x]
    BY <1>1, <1>3, <1>4
  <1>6. {f[x] : x \in C} = D
    BY <1>1
  <1> HIDE DEF f
  <1>7. \A s \in SUBSET C : h[{f[x] : x \in s}] = g[s]
    BY <1>3, <1>4, <1>5, RenamedSums
  <1>8. h[D] = g[C]
    BY <1>6, <1>7
  <1>9. C \in SUBSET C /\ D \in SUBSET D
    OBVIOUS
  <1>10. Total(C, OutstandingOf) = g[C] /\ Total(D, OutstandingOf) = h[D]
    BY <1>3, <1>4, <1>9
  <1> QED  BY <1>1, <1>8, <1>10

\* b names the cycles of A by those of B, one to one, and tells the same of each.
SameUnder(b, A, B, asOf) ==
    /\ DOMAIN b = A
    /\ B = {b[c] : c \in A}
    /\ \A c, d \in A : b[c] = b[d] => c = d
    /\ \A c \in A : SameCycle(b[c], c, asOf)

\* Renamed stalled cycles have the same figures.
LEMMA SameSummaries ==
    ASSUME NEW A, NEW B, NEW b, NEW policy, IsFiniteSet(A), SameUnder(b, A, B, policy.asOf),
           \A c \in A : Figures(c)
    PROVE  ObservedSummary(B, policy) = ObservedSummary(A, policy)
  <1>1. PICK asOf : asOf = policy.asOf
    OBVIOUS
  <1>2. \A c \in A : /\ ClassifyPayment(b[c], asOf) = ClassifyPayment(c, asOf)
                     /\ b[c].amount = c.amount /\ b[c].paidAmount = c.paidAmount
    <2> SUFFICES ASSUME NEW c \in A
                 PROVE  /\ ClassifyPayment(b[c], asOf) = ClassifyPayment(c, asOf)
                        /\ b[c].amount = c.amount /\ b[c].paidAmount = c.paidAmount
      OBVIOUS
    <2>1. SameCycle(b[c], c, asOf)
      BY <1>1 DEF SameUnder
    <2> QED  BY <1>1, <2>1, SameAreSeenAlike DEF SameCycle
  <1>3. B = {b[c] : c \in A} /\ DOMAIN b = A /\ \A c, d \in A : b[c] = b[d] => c = d
    BY DEF SameUnder
  <1>4. ASSUME NEW states
        PROVE  /\ PaidAs(B, asOf, states) = {b[c] : c \in PaidAs(A, asOf, states)}
               /\ IsFiniteSet(PaidAs(A, asOf, states)) /\ PaidAs(A, asOf, states) \subseteq A
    <2>1. PaidAs(A, asOf, states) \subseteq A
      BY DEF PaidAs
    <2>2. PaidAs(B, asOf, states) = {b[c] : c \in PaidAs(A, asOf, states)}
      BY <1>2, <1>3 DEF PaidAs
    <2> QED  BY <2>1, <2>2, FS_Subset
  <1>5. ASSUME NEW states
        PROVE  Total(PaidAs(B, asOf, states), AmountOf) = Total(PaidAs(A, asOf, states), AmountOf)
    <2>1. PICK C : C = PaidAs(A, asOf, states)
      OBVIOUS
    <2>2. /\ PaidAs(B, asOf, states) = {b[c] : c \in C}
          /\ IsFiniteSet(C) /\ C \subseteq A
      BY <1>4, <2>1
    <2>3. \A c \in C : c.amount \in Int /\ b[c].amount = c.amount
      BY <1>2, <2>2 DEF Figures
    <2>4. C \subseteq DOMAIN b /\ \A x, y \in C : b[x] = b[y] => x = y
      BY <1>3, <2>2
    <2>5. Total({b[x] : x \in C}, AmountOf) = Total(C, AmountOf)
      BY <2>2, <2>3, <2>4, SameTotals
    <2> QED  BY <2>1, <2>2, <2>5
  <1>6. Total(PaidAs(B, asOf, {"PartiallyPaid"}), OutstandingOf)
           = Total(PaidAs(A, asOf, {"PartiallyPaid"}), OutstandingOf)
    <2>1. PICK C : C = PaidAs(A, asOf, {"PartiallyPaid"})
      OBVIOUS
    <2>2. /\ PaidAs(B, asOf, {"PartiallyPaid"}) = {b[c] : c \in C}
          /\ IsFiniteSet(C) /\ C \subseteq A
      BY <1>4, <2>1
    <2>3. \A c \in C : /\ c.amount \in Int /\ c.paidAmount \in Int /\ c.paidAmount < c.amount
                       /\ b[c].amount = c.amount /\ b[c].paidAmount = c.paidAmount
      <3>1. \A c \in C : Figures(c) /\ ClassifyPayment(c, asOf) = "PartiallyPaid"
        BY <2>1 DEF PaidAs
      <3>2. \A c \in C : c.paidAmount \in Int /\ c.paidAmount < c.amount
        BY <3>1, StatesAreOne
      <3> QED  BY <1>2, <2>2, <3>1, <3>2 DEF Figures
    <2>4. C \subseteq DOMAIN b /\ \A x, y \in C : b[x] = b[y] => x = y
      BY <1>3, <2>2
    <2>5. Total({b[x] : x \in C}, OutstandingOf) = Total(C, OutstandingOf)
      BY <2>2, <2>3, <2>4, SameOutstanding
    <2> QED  BY <2>1, <2>2, <2>5
  <1>7. ASSUME NEW states
        PROVE  Cardinality(PaidAs(B, asOf, states)) = Cardinality(PaidAs(A, asOf, states))
    <2>1. PICK C : C = PaidAs(A, asOf, states)
      OBVIOUS
    <2>2. /\ PaidAs(B, asOf, states) = {b[c] : c \in C}
          /\ IsFiniteSet(C) /\ C \subseteq DOMAIN b /\ \A x, y \in C : b[x] = b[y] => x = y
      BY <1>3, <1>4, <2>1
    <2> QED  BY <2>1, <2>2, Renames
  <1>8. \A cycles :
           ObservedSummary(cycles, policy) =
              [grossEligible |-> Total(PaidAs(cycles, asOf, Eligible), AmountOf),
               observedUnpaid |-> Total(PaidAs(cycles, asOf, {"Unpaid"}), AmountOf),
               partialOutstanding |-> Total(PaidAs(cycles, asOf, {"PartiallyPaid"}), OutstandingOf),
               excludedValue |-> Total(PaidAs(cycles, asOf, {"Cancelled", "Refunded"}), AmountOf),
               unknownValue |-> Total(PaidAs(cycles, asOf, {"Unknown"}), AmountOf),
               stateCounts |-> [s \in PaymentStates |-> Cardinality(PaidAs(cycles, asOf, {s}))]]
    BY <1>1 DEF ObservedSummary, PaidAs
  <1>9. [s \in PaymentStates |-> Cardinality(PaidAs(B, asOf, {s}))]
           = [s \in PaymentStates |-> Cardinality(PaidAs(A, asOf, {s}))]
    BY <1>7
  <1> QED  BY ONLY <1>5, <1>6, <1>8, <1>9, Zenon

\* The file as it was has the same cohorts and figures.
LEMMA KnowsNoFuture ==
    ASSUME NEW run, Known(run), run.params.currency \in SupportedCurrencies
    PROVE  NoFutureInformation(run, ResultOf(run))
  <1>1. PICK r : r = ResultOf(run)
    OBVIOUS
  <1>2. PICK s : s = ResultOf(Then(run))
    OBVIOUS
  <1>3. PICK policy : policy = MakePolicy(run.params)
    OBVIOUS
  <1>4. /\ MakePolicy(Then(run).params) = policy
        /\ OptsOf(Then(run)) = OptsOf(run)
        /\ OptsOf(run).locale = run.params.locale
        /\ policy.asOf = run.params.asOf
    BY <1>3 DEF Then, MakePolicy, OptsOf
  <1>5. \A i \in DOMAIN RowsOf(run) : Alike(RowsOf(Then(run))[i], RowsOf(run)[i], run.params)
    BY ThenIsAlike
  <1>6. DOMAIN RowsOf(Then(run)) = DOMAIN RowsOf(run)
    <2>1. DOMAIN Then(run).file.rows = DOMAIN RowsOf(run)
      BY DEF RowsOf, AsOnTheDay, Then
    <2> QED  BY <2>1, MappedTable DEF RowsOf
  <1>7. PICK K : K = Kept(run)
    OBVIOUS
  <1>8. Kept(Then(run)) = K
    <2>1. \A i \in DOMAIN RowsOf(run) :
             Excluded(RowsOf(Then(run))[i], policy, OptsOf(run))
                <=> Excluded(RowsOf(run)[i], policy, OptsOf(run))
      BY <1>4, <1>5, AlikeAreKeptAlike
    <2> QED  BY <1>3, <1>4, <1>6, <1>7, <2>1 DEF Kept
  <1>9. \A i \in K : SameCycle(CycleOf(Then(run), i), CycleOf(run, i), policy.asOf)
    <2> SUFFICES ASSUME NEW i \in K
                 PROVE  SameCycle(CycleOf(Then(run), i), CycleOf(run, i), policy.asOf)
      OBVIOUS
    <2>1. i \in DOMAIN RowsOf(run) /\ ~Excluded(RowsOf(run)[i], policy, OptsOf(run))
      BY <1>3, <1>7 DEF Kept
    <2> QED  BY <1>3, <1>4, <1>5, <2>1, AlikeMakeSameCycles DEF CycleOf
  <1>10. PICK A : A = CyclesIn(run)
    OBVIOUS
  <1>11. PICK B : B = CyclesIn(Then(run))
    OBVIOUS
  <1>12. B = {CycleOf(Then(run), i) : i \in K}
    BY <1>8, <1>11 DEF CyclesIn, OutcomesOf, RowOutcomes, Kept, CycleOf
  <1>13. /\ A = {CycleOf(run, i) : i \in K} /\ IsFiniteSet(A)
         /\ \A c \in A : c.row \in K /\ c = CycleOf(run, c.row)
    BY <1>7, <1>10, CyclesOfRows DEF CyclesIn
  <1>14. \A i \in K : CycleOf(run, i).row = i
    BY <1>7, CyclesAreFigures
  <1> DEFINE b == [c \in A |-> CycleOf(Then(run), c.row)]
  <1>15. SameUnder(b, A, B, policy.asOf)
    <2>1. DOMAIN b = A /\ \A c \in A : b[c] = CycleOf(Then(run), c.row)
      OBVIOUS
    <2> HIDE DEF b
    <2>2. \A c \in A : SameCycle(b[c], c, policy.asOf)
      BY <1>9, <1>13, <2>1
    <2>3. \A c, d \in A : b[c] = b[d] => c = d
      BY <1>13, <2>2 DEF SameCycle
    <2>4. B = {b[c] : c \in A}
      BY <1>12, <1>13, <1>14, <2>1
    <2> QED  BY <2>1, <2>2, <2>3, <2>4 DEF SameUnder
  <1> HIDE DEF b
  <1>16. PICK U : U = UniqueIn(run)
    OBVIOUS
  <1>17. PICK V : V = UniqueIn(Then(run))
    OBVIOUS
  <1>18. U \subseteq A /\ V = {b[c] : c \in U}
    <2>1. U = {c \in A : ~Collide(A, c)} /\ V = {d \in B : ~Collide(B, d)}
      BY <1>10, <1>11, <1>16, <1>17 DEF UniqueIn
    <2>2. \A c \in A : Collide(B, b[c]) <=> Collide(A, c)
      BY <1>15 DEF SameUnder, SameCycle, Collide
    <2>3. B = {b[c] : c \in A}
      BY <1>15 DEF SameUnder
    <2> QED  BY <2>1, <2>2, <2>3
  <1>19. \A c \in A : /\ b[c].row = c.row
                      /\ IsStalled(b[c], policy) <=> IsStalled(c, policy)
                      /\ ClassifyStall(b[c], policy) = ClassifyStall(c, policy)
    BY <1>15, SameAreSeenAlike DEF SameUnder, SameCycle
  <1>20. /\ r.stalled = {c \in U : IsStalled(c, policy)}
         /\ r.reference = {c \in U : ClassifyStall(c, policy) = "observed_within_threshold"}
         /\ r.observed = ObservedSummary(r.stalled, policy)
    BY <1>1, <1>3, <1>16, ResultsAreMadeOf
  <1>21. /\ s.stalled = {c \in V : IsStalled(c, policy)}
         /\ s.reference = {c \in V : ClassifyStall(c, policy) = "observed_within_threshold"}
         /\ s.observed = ObservedSummary(s.stalled, policy)
    BY <1>2, <1>4, <1>17, ResultsAreMadeOf
  <1>22. s.stalled = {b[c] : c \in r.stalled} /\ s.reference = {b[c] : c \in r.reference}
    BY <1>18, <1>19, <1>20, <1>21
  <1>23. r.stalled \subseteq A /\ r.reference \subseteq A
    BY <1>18, <1>20
  <1>24. r.observed = s.observed
    <2>1. PICK C : C = r.stalled
      OBVIOUS
    <2>2. PICK D : D = s.stalled
      OBVIOUS
    <2> DEFINE f == [c \in C |-> b[c]]
    <2>3. SameUnder(f, C, D, policy.asOf)
      <3>1. DOMAIN f = C /\ \A c \in C : f[c] = b[c]
        OBVIOUS
      <3> HIDE DEF f
      <3> QED  BY <1>15, <1>22, <1>23, <2>1, <2>2, <3>1 DEF SameUnder
    <2> HIDE DEF f
    <2>4. IsFiniteSet(C) /\ \A c \in C : Figures(c)
      BY <1>16, <1>20, <2>1, UniqueAreFigures, FS_Subset
    <2>5. ObservedSummary(D, policy) = ObservedSummary(C, policy)
      BY <2>3, <2>4, SameSummaries
    <2> QED  BY <1>20, <1>21, <2>1, <2>2, <2>5
  <1>25. /\ {c.row : c \in r.stalled} = {c.row : c \in s.stalled}
         /\ {c.row : c \in r.reference} = {c.row : c \in s.reference}
    BY <1>19, <1>22, <1>23
  <1>26. s = AssessCsv(AsOnTheDay(ApplyMapping(run.file, run.mapping), run.params, PaymentFields),
                       <<>>, run.params)
    BY <1>2 DEF ResultOf, Then
  <1>27. AsKnownThen(run, r, PaymentFields)
    BY <1>24, <1>25, <1>26, Zenon DEF AsKnownThen, SameFigures
  <1> QED  BY <1>1, <1>27 DEF NoFutureInformation, PaymentFields

-----------------------------------------------------------------------------
(* What is in flight and what is shown.                                    *)

\* The runs in flight were started with what a run needs, and the one whose result
\* is shown passed every guard.
ResultInv ==
    /\ form \in FormSet
    /\ step = "mapping" => review.file \in Files
    /\ \A r \in reads : r.file \in Files /\ r.form \in FormSet
    /\ \A r \in runs : Known(r)
    /\ result # Blank =>
          /\ Known(result)
          /\ Succeeds(result.file, result.mapping, result.params)
          /\ source = [file |-> result.file, mapping |-> result.mapping]

\* What a call of run adds is what it was called with.
LEMMA RunsStayKnown ==
    ASSUME \A r \in runs : Known(r), NEW file \in Files, NEW mapping, NEW params \in FormSet,
           REQUIRED \subseteq DOMAIN mapping, Run(file, mapping, params)
    PROVE  \A r \in runs' : Known(r)
  <1> DEFINE new == [nr |-> started, file |-> file, mapping |-> mapping, params |-> params]
  <1>1. runs' = runs \cup {new}
    BY DEF Run
  <1>2. Known(new)
    BY DEF Known
  <1> QED  BY <1>1, <1>2

\* The invariant holds of a page just opened and is kept by every step.
LEMMA ResultInvIsInductive ==
    /\ ScreenInit => ResultInv
    /\ ResultInv /\ [ScreenNext]_screenVars => ResultInv'
  <1>1. DefaultForm \in FormSet /\ Forms \subseteq FormSet /\ Thresholds \subseteq Int
    BY FormsAssumption
  <1>2. ScreenInit => ResultInv
    BY <1>1 DEF ScreenInit, ResultInv
  <1>3. ASSUME ResultInv, [ScreenNext]_screenVars PROVE ResultInv'
    <2>1. ASSUME NEW f \in Forms, SetForm(f) PROVE ResultInv'
      BY <1>1, <1>3, <2>1 DEF SetForm, ResultInv
    <2>2. ASSUME NEW file \in Files, PickFile(file) PROVE ResultInv'
      BY <1>3, <2>2 DEF PickFile, ResultInv
    <2>3. CASE RejectFile
      BY <1>3, <2>3 DEF RejectFile, ResultInv
    <2>4. ASSUME NEW r \in reads, FileRead(r) PROVE ResultInv'
      <3> DEFINE mapping == AutoDetectMapping(r.file.headers)
      <3>1. r.file \in Files /\ r.form \in FormSet
        BY <1>3 DEF ResultInv
      <3>2. /\ reads' = reads \ {r} /\ UNCHANGED <<form, source, result>>
            /\ \/ step' = step /\ review' = review
               \/ review' = [file |-> r.file, mapping |-> mapping]
            /\ \/ runs' = runs
               \/ ~NeedsReview(mapping) /\ Run(r.file, mapping, r.form)
        BY <2>4 DEF FileRead, Show
      <3>3. \A x \in runs' : Known(x)
        <4> HIDE DEF mapping
        <4>1. CASE runs' = runs
          BY <1>3, <4>1 DEF ResultInv
        <4>2. CASE ~NeedsReview(mapping) /\ Run(r.file, mapping, r.form)
          <5>1. REQUIRED \subseteq DOMAIN mapping
            BY <4>2 DEF NeedsReview
          <5>2. \A x \in runs : Known(x)
            BY <1>3 DEF ResultInv
          <5> QED  BY <3>1, <4>2, <5>1, <5>2, RunsStayKnown
        <4> QED  BY <3>2, <4>1, <4>2
      <3> HIDE DEF mapping
      <3> QED  BY <1>3, <3>1, <3>2, <3>3 DEF ResultInv
    <2>5. ASSUME NEW field, NEW header, Choose(field, header) PROVE ResultInv'
      BY <1>3, <2>5 DEF Choose, ResultInv
    <2>6. CASE ConfirmMapping
      <3> DEFINE chosen == [f \in REQUIRED \cup DOMAIN review.mapping |->
                              IF f \in REQUIRED THEN choices[f] ELSE review.mapping[f]]
      <3>1. step = "mapping" /\ Run(review.file, chosen, form)
            /\ UNCHANGED <<form, step, source, review, choices, result, reads, picks>>
        BY <2>6 DEF ConfirmMapping
      <3>2. REQUIRED \subseteq DOMAIN chosen
        OBVIOUS
      <3> HIDE DEF chosen
      <3>3. \A x \in runs' : Known(x)
        BY <1>3, <3>1, <3>2, RunsStayKnown DEF ResultInv
      <3> QED  BY <1>3, <3>1, <3>3 DEF ResultInv
    <2>7. ASSUME NEW r \in runs, FinishRun(r) PROVE ResultInv'
      <3>1. Known(r) /\ runs' \subseteq runs /\ UNCHANGED <<form, review, reads>>
        BY <1>3, <2>7 DEF ResultInv, FinishRun
      <3>2. CASE Succeeds(r.file, r.mapping, r.params)
        <4>1. /\ source' = [file |-> r.file, mapping |-> r.mapping]
              /\ result' = [file |-> r.file, mapping |-> r.mapping, params |-> r.params]
              /\ step' = "quality"
          BY <2>7, <3>2 DEF FinishRun, Show
        <4>2. Known(result') /\ Succeeds(result'.file, result'.mapping, result'.params)
              /\ source' = [file |-> result'.file, mapping |-> result'.mapping]
          BY <3>1, <3>2, <4>1 DEF Known
        <4> QED  BY <1>3, <3>1, <4>1, <4>2 DEF ResultInv
      <3>3. CASE ~Succeeds(r.file, r.mapping, r.params)
        <4>1. UNCHANGED <<source, result, step>>
          BY <2>7, <3>3 DEF FinishRun
        <4> QED  BY <1>3, <3>1, <4>1 DEF ResultInv
      <3> QED  BY <3>2, <3>3
    <2>8. ASSUME NEW n \in Thresholds, ChangeN(n) PROVE ResultInv'
      <3>1. /\ result # Blank /\ form' = [form EXCEPT !.n = n] /\ Run(source.file, source.mapping, form')
            /\ UNCHANGED <<step, source, review, choices, result, reads, picks>>
        BY <2>8 DEF ChangeN
      <3>2. form' \in FormSet
        BY <1>1, <1>3, <3>1 DEF ResultInv, FormSet
      <3>3. source.file \in Files /\ REQUIRED \subseteq DOMAIN source.mapping
        BY <1>3, <3>1 DEF ResultInv, Known
      <3>4. \A x \in runs' : Known(x)
        BY <1>3, <3>1, <3>2, <3>3, RunsStayKnown DEF ResultInv
      <3> QED  BY <1>3, <3>1, <3>2, <3>4 DEF ResultInv
    <2>9. CASE Back \/ ShowObserved
      <3>1. step' # "mapping" /\ UNCHANGED <<form, source, review, result, reads, runs>>
        BY <2>9 DEF Back, ShowObserved, Show
      <3> QED  BY <1>3, <3>1 DEF ResultInv
    <2>10. CASE LeavePage
      BY <1>1, <2>10 DEF LeavePage, ResultInv
    <2>11. CASE UNCHANGED screenVars
      BY <1>3, <2>11 DEF screenVars, ResultInv
    <2> QED  BY <1>3, <2>1, <2>2, <2>3, <2>4, <2>5, <2>6, <2>7, <2>8, <2>9, <2>10, <2>11
             DEF ScreenNext, PageNext
  <1> QED  BY <1>2, <1>3

\* What holds of every successful run holds of the result shown.
LEMMA ResultsAreOfKnownRuns ==
    ASSUME ResultInv, result # Blank
    PROVE  Known(result) /\ result.params.currency \in SupportedCurrencies
  BY DEF ResultInv, Succeeds, PolicyValid

\* No cycle of the result has an amount that could be read in two ways: what the
\* text says in the stated format, or in each format it may be written in, is what
\* the cycle has (normalizeAmount, fromDecimal, toCycle).
THEOREM NoAmountIsGuessed == ScreenSpec => []ResultAmountsAreRead
<1>1. ResultInv => ResultAmountsAreRead
  BY ResultsAreOfKnownRuns, AmountsAreKnown DEF ResultAmountsAreRead, OfResult, ResultOf
<1> QED  BY <1>1, ResultInvIsInductive, PTL DEF ScreenSpec

\* Every row of the file is in a cohort or has a reason why not, none is preferred
\* to another of its id, and every stalled dollar is in one bucket
\* (dedupeCollisions, splitCohorts, observedSummary).
THEOREM EveryRowAndDollarCounts == ScreenSpec => []ResultAccountsForAll
<1>1. ResultInv => ResultAccountsForAll
  BY ResultsAreOfKnownRuns, RowsAreAccountedFor, ValuesAreInBuckets
     DEF ResultAccountsForAll, OfResult, ResultOf
<1> QED  BY <1>1, ResultInvIsInductive, PTL DEF ScreenSpec

\* A stall threshold longer by a day spares the stalled cycles on its edge and no
\* other, makes none stalled, leaves every confirmed cycle confirmed and never
\* raises the headline (classifyStall, changeN).
THEOREM HeadlineNeverRises == ScreenSpec => []ResultFallsWithN
<1>1. ResultInv => ResultFallsWithN
  BY ResultsAreOfKnownRuns, FallsWithN DEF ResultFallsWithN, OfResult, ResultOf
<1> QED  BY <1>1, ResultInvIsInductive, PTL DEF ScreenSpec

\* Cohorts and figures are as if no date of an activation or a payment after the
\* as-of date, and no flag for one, were in the file (classifyStall,
\* effectivePaidAt).  The amount of such a payment is left in it.
THEOREM FutureChangesNothing == ScreenSpec => []ResultKnowsNoFuture
<1>1. ResultInv => ResultKnowsNoFuture
  BY ResultsAreOfKnownRuns, KnowsNoFuture DEF ResultKnowsNoFuture, OfResult, ResultOf
<1> QED  BY <1>1, ResultInvIsInductive, PTL DEF ScreenSpec

-----------------------------------------------------------------------------
(* The page is well formed.                                                *)

\* The runs in flight, by their numbers.
RunsInv ==
    /\ started \in Nat /\ started <= MaxRuns
    /\ \A r \in runs :
          r.file \in Files /\ r.nr \in Nat /\ r.nr < started /\ r.mapping \in Mappings

\* The forms that the operator can have on the screen.
FormsShown ==
    Forms \cup {[DefaultForm EXCEPT !.n = n] : n \in Thresholds \cup {DefaultForm.n}}
          \cup {[f EXCEPT !.n = n] : f \in Forms, n \in Thresholds}

Plans == [file : Files, mapping : Guesses]

Selections == [REQUIRED -> Names \cup {Blank}]

\* What is read, planned, chosen and shown is of the kinds that are told from what is
\* not set.
PageInv ==
    /\ form \in FormsShown /\ step \in Steps /\ error \in BOOLEAN
    /\ review \in {Blank} \cup Plans /\ choices \in {Blank} \cup Selections
    /\ step = "mapping" => review # Blank /\ choices # Blank
    /\ step \in {"quality", "observed"} => result # Blank
    /\ result # Blank => result.mapping \in Mappings
    /\ picks \in Nat /\ picks <= MaxPicks
    /\ \A r \in reads : r.file \in Files /\ r.nr \in Nat /\ r.nr < picks
    /\ RunsInv

\* It is what the type invariant asks, and more.
LEMMA PageIsTyped == ASSUME PageInv PROVE ScreenTypeOK
  BY DEF PageInv, RunsInv, ScreenTypeOK, FormsShown

\* Another threshold makes a form of another one.
LEMMA FormsStayForms ==
    /\ DefaultForm \in FormsShown
    /\ \A f \in FormsShown, n \in Thresholds : [f EXCEPT !.n = n] \in FormsShown
  <1>1. DefaultForm \in FormSet /\ Forms \subseteq FormSet
    BY FormsAssumption
  <1>2. DefaultForm = [DefaultForm EXCEPT !.n = DefaultForm.n]
    BY <1>1 DEF FormSet
  <1>3. ASSUME NEW f \in FormSet, NEW m, NEW n
        PROVE  [[f EXCEPT !.n = m] EXCEPT !.n = n] = [f EXCEPT !.n = n]
    BY DEF FormSet
  <1>4. ASSUME NEW f \in FormsShown, NEW n \in Thresholds
        PROVE  [f EXCEPT !.n = n] \in FormsShown
    <2>1. CASE f \in Forms
      BY <2>1 DEF FormsShown
    <2>2. ASSUME NEW m, f = [DefaultForm EXCEPT !.n = m]
          PROVE  [f EXCEPT !.n = n] \in FormsShown
      <3>1. [f EXCEPT !.n = n] = [DefaultForm EXCEPT !.n = n]
        BY <1>1, <1>3, <2>2, Zenon
      <3> QED  BY <3>1 DEF FormsShown
    <2>3. ASSUME NEW e \in Forms, NEW m, f = [e EXCEPT !.n = m]
          PROVE  [f EXCEPT !.n = n] \in FormsShown
      <3>1. e \in FormSet
        BY <1>1
      <3>2. [f EXCEPT !.n = n] = [e EXCEPT !.n = n]
        BY <1>3, <2>3, <3>1, Zenon
      <3> QED  BY <3>2 DEF FormsShown
    <2>4. \/ f \in Forms \/ \E m : f = [DefaultForm EXCEPT !.n = m]
          \/ \E e \in Forms, m \in Thresholds : f = [e EXCEPT !.n = m]
      BY DEF FormsShown
    <2> QED  BY <2>1, <2>2, <2>3, <2>4
  <1>5. DefaultForm \in FormsShown
    BY <1>2 DEF FormsShown
  <1> QED  BY <1>4, <1>5

\* A run is started with a mapping of a file.
LEMMA RunsStayTyped ==
    ASSUME RunsInv, NEW file \in Files, NEW mapping \in Mappings, NEW params,
           Run(file, mapping, params)
    PROVE  RunsInv' /\ error' \in BOOLEAN
  <1> DEFINE new == [nr |-> started, file |-> file, mapping |-> mapping, params |-> params]
  <1>1. runs' = runs \cup {new} /\ started' = started + 1 /\ started < MaxRuns /\ error' = FALSE
    BY DEF Run
  <1>2. new.file \in Files /\ new.nr = started /\ new.mapping \in Mappings
    OBVIOUS
  <1> HIDE DEF new
  <1>3. started' \in Nat /\ started' <= MaxRuns /\ started < started'
    BY <1>1, ScreenAssumption DEF RunsInv
  <1>4. \A r \in runs : r.nr < started'
    BY <1>3, <1>1 DEF RunsInv
  <1> QED  BY <1>1, <1>2, <1>3, <1>4 DEF RunsInv

\* A guess is one of the names in its file.
LEMMA GuessesAreNames == ASSUME NEW g \in Guesses, NEW f \in DOMAIN g PROVE g[f] \in Names
  <1>1. g[f] \in Range(g)
    BY DEF Range
  <1>2. g[f] \in UNION {Range(m) : m \in Guesses}
    BY <1>1
  <1> QED  BY <1>2, Zenon DEF Names

\* The mapping screen has choices as long as it is shown, and only then.
LEMMA ShowKeepsChoices ==
    ASSUME NEW next, NEW plan, Show(next, plan), choices \in {Blank} \cup Selections,
           next = "mapping" => plan \in Guesses
    PROVE  /\ step' = next /\ choices' \in {Blank} \cup Selections
           /\ next = "mapping" => choices' # Blank
  <1>1. step' = next
    BY DEF Show
  <1>2. CASE next # "mapping" \/ choices # Blank
    BY <1>1, <1>2 DEF Show
  <1>3. CASE next = "mapping" /\ choices = Blank
    <2>1. choices' = [f \in REQUIRED |-> IF f \in DOMAIN plan THEN plan[f] ELSE Blank]
      BY <1>3 DEF Show
    <2>2. \A f \in REQUIRED : f \in DOMAIN plan => plan[f] \in Names
      BY <1>3, GuessesAreNames
    <2>3. choices' \in Selections
      BY <2>1, <2>2 DEF Selections
    <2> QED  BY <1>1, <2>3, UnsetAssumption DEF Selections
  <1> QED  BY <1>2, <1>3

\* What the operator confirms is a mapping of the file.
LEMMA ConfirmedIsMapping ==
    ASSUME choices \in Selections, review \in Plans, \A f \in REQUIRED : choices[f] # Blank
    PROVE  [f \in REQUIRED \cup DOMAIN review.mapping |->
              IF f \in REQUIRED THEN choices[f] ELSE review.mapping[f]] \in Mappings
  <1>1. review.mapping \in Guesses
    BY DEF Plans
  <1>2. \A f \in REQUIRED : choices[f] \in Names
    BY DEF Selections
  <1>3. \A f \in DOMAIN review.mapping : review.mapping[f] \in Names
    BY <1>1, GuessesAreNames
  <1> QED  BY <1>1, <1>2, <1>3 DEF Mappings

\* The invariant is kept by every step.
LEMMA PageInvIsInductive ==
    ASSUME PageInv, ResultInv, [ScreenNext]_screenVars
    PROVE  PageInv'
  <1>1. ASSUME NEW f \in Forms, SetForm(f) PROVE PageInv'
    BY <1>1 DEF SetForm, PageInv, RunsInv, FormsShown
  <1>2. ASSUME NEW file \in Files, PickFile(file) PROVE PageInv'
    <2> DEFINE new == [nr |-> picks, file |-> file, form |-> form]
    <2>1. /\ picks < MaxPicks /\ picks' = picks + 1 /\ reads' = reads \cup {new}
          /\ UNCHANGED <<form, step, source, review, choices, result, error, runs, started>>
      BY <1>2 DEF PickFile
    <2>2. new.nr = picks /\ new.file \in Files
      OBVIOUS
    <2> HIDE DEF new
    <2>3. picks' \in Nat /\ picks' <= MaxPicks /\ picks < picks'
      BY <2>1, ScreenAssumption DEF PageInv
    <2>4. \A r \in reads' : r.file \in Files /\ r.nr \in Nat /\ r.nr < picks'
      BY <2>1, <2>2, <2>3 DEF PageInv
    <2> QED  BY <2>1, <2>3, <2>4 DEF PageInv, RunsInv
  <1>3. CASE RejectFile
    <2>1. /\ picks < MaxPicks /\ picks' = picks + 1 /\ error' = TRUE
          /\ UNCHANGED <<form, step, source, review, choices, result, reads, runs, started>>
      BY <1>3 DEF RejectFile
    <2>2. picks' \in Nat /\ picks' <= MaxPicks /\ \A r \in reads : r.nr < picks'
      BY <2>1, ScreenAssumption DEF PageInv
    <2> QED  BY <2>1, <2>2 DEF PageInv, RunsInv
  <1>4. ASSUME NEW r \in reads, FileRead(r) PROVE PageInv'
    <2> DEFINE mapping == AutoDetectMapping(r.file.headers)
    <2>1. r.file \in Files /\ mapping \in Guesses /\ mapping \in Mappings
      BY DEF PageInv, Guesses, Mappings
    <2>2. reads' \subseteq reads /\ UNCHANGED <<form, source, result, picks>>
      BY <1>4 DEF FileRead
    <2> HIDE DEF mapping
    <2>3. CASE error' = TRUE /\ UNCHANGED <<step, review, choices, runs, started>>
      BY <2>2, <2>3 DEF PageInv, RunsInv
    <2>4. CASE Run(r.file, mapping, r.form) /\ UNCHANGED <<step, review, choices>>
      <3>1. RunsInv' /\ error' \in BOOLEAN
        BY <2>1, <2>4, RunsStayTyped DEF PageInv
      <3> QED  BY <2>2, <2>4, <3>1 DEF PageInv
    <2>5. CASE /\ review' = [file |-> r.file, mapping |-> mapping]
               /\ Show("mapping", mapping)
               /\ error' = FALSE
               /\ UNCHANGED <<runs, started>>
      <3>1. step' = "mapping" /\ choices' \in {Blank} \cup Selections /\ choices' # Blank
        BY <2>1, <2>5, ShowKeepsChoices DEF PageInv
      <3>2. review' \in Plans
        BY <2>1, <2>5 DEF Plans
      <3>3. review' # Blank
        BY <2>1, <2>5, UnsetAssumption
      <3> QED  BY <2>2, <2>5, <3>1, <3>2, <3>3 DEF PageInv, RunsInv, Steps
    <2> QED  BY <1>4, <2>3, <2>4, <2>5 DEF FileRead, mapping
  <1>5. ASSUME NEW field \in REQUIRED,
               NEW header \in IF review = Blank THEN {} ELSE review.file.headers,
               Choose(field, header)
        PROVE  PageInv'
    <2>1. /\ step = "mapping" /\ choices' = [choices EXCEPT ![field] = header]
          /\ UNCHANGED <<form, step, source, review, result, error, reads, runs, picks, started>>
      BY <1>5 DEF Choose
    <2>2. header \in Names
      BY <2>1 DEF PageInv, Plans, Names
    <2>3. choices' \in Selections
      BY <2>1, <2>2 DEF PageInv, Selections
    <2>4. choices' # Blank
      BY <2>3, UnsetAssumption DEF Selections
    <2> QED  BY <2>1, <2>3, <2>4 DEF PageInv, RunsInv
  <1>6. CASE ConfirmMapping
    <2> DEFINE chosen == [f \in REQUIRED \cup DOMAIN review.mapping |->
                            IF f \in REQUIRED THEN choices[f] ELSE review.mapping[f]]
    <2>1. /\ step = "mapping" /\ \A f \in REQUIRED : choices[f] # Blank
          /\ Run(review.file, chosen, form)
          /\ UNCHANGED <<form, step, source, review, choices, result, reads, picks>>
      BY <1>6 DEF ConfirmMapping
    <2>2. choices \in Selections /\ review \in Plans
      BY <2>1 DEF PageInv
    <2>3. chosen \in Mappings
      BY <2>1, <2>2, ConfirmedIsMapping
    <2>4. review.file \in Files
      BY <2>2 DEF Plans
    <2> HIDE DEF chosen
    <2>5. RunsInv' /\ error' \in BOOLEAN
      BY <2>1, <2>3, <2>4, RunsStayTyped DEF PageInv
    <2> QED  BY <2>1, <2>5 DEF PageInv
  <1>7. ASSUME NEW r \in runs, FinishRun(r) PROVE PageInv'
    <2>1. runs' = runs \ {r} /\ UNCHANGED <<form, review, reads, picks, started>>
      BY <1>7 DEF FinishRun
    <2>2. RunsInv'
      BY <2>1 DEF PageInv, RunsInv
    <2>3. CASE Succeeds(r.file, r.mapping, r.params)
      <3>1. /\ result' = [file |-> r.file, mapping |-> r.mapping, params |-> r.params]
            /\ Show("quality", <<>>) /\ UNCHANGED error
        BY <1>7, <2>3 DEF FinishRun
      <3>2. r.file \in Files /\ r.mapping \in Mappings /\ r.params \in FormSet
        BY DEF PageInv, RunsInv, ResultInv, Known
      <3>3. result' # Blank /\ result'.mapping \in Mappings
        BY <3>1, <3>2, UnsetAssumption
      <3>4. step' = "quality" /\ choices' \in {Blank} \cup Selections
        BY <3>1, ShowKeepsChoices DEF PageInv
      <3> QED  BY <2>1, <2>2, <3>1, <3>3, <3>4 DEF PageInv, Steps
    <2>4. CASE ~Succeeds(r.file, r.mapping, r.params)
      <3>1. error' = TRUE /\ UNCHANGED <<source, result, step, choices>>
        BY <1>7, <2>4 DEF FinishRun
      <3> QED  BY <2>1, <2>2, <3>1 DEF PageInv
    <2> QED  BY <2>3, <2>4
  <1>8. ASSUME NEW n \in Thresholds, ChangeN(n) PROVE PageInv'
    <2>1. /\ result # Blank /\ form' = [form EXCEPT !.n = n]
          /\ Run(source.file, source.mapping, form')
          /\ UNCHANGED <<step, source, review, choices, result, reads, picks>>
      BY <1>8 DEF ChangeN
    <2>2. source.file \in Files /\ source.mapping \in Mappings
      BY <2>1 DEF PageInv, ResultInv, Known
    <2>3. RunsInv' /\ error' \in BOOLEAN
      BY <2>1, <2>2, RunsStayTyped DEF PageInv
    <2>4. form' \in FormsShown
      BY <2>1, FormsStayForms DEF PageInv
    <2> QED  BY <2>1, <2>3, <2>4 DEF PageInv
  <1>9. CASE Back \/ ShowObserved
    <2>1. UNCHANGED <<form, source, review, result, error, reads, runs, picks, started>>
      BY <1>9 DEF Back, ShowObserved
    <2>2. PICK shows \in {"quality", "upload", "observed"} :
             Show(shows, <<>>) /\ (shows # "upload" => result # Blank)
      BY <1>9 DEF Back, ShowObserved, PageInv
    <2>3. /\ step' \in Steps /\ step' # "mapping" /\ choices' \in {Blank} \cup Selections
          /\ step' \in {"quality", "observed"} => result # Blank
      BY <2>2, ShowKeepsChoices DEF PageInv, Steps
    <2> QED  BY <2>1, <2>3 DEF PageInv, RunsInv
  <1>10. CASE LeavePage
    BY <1>10, FormsStayForms DEF LeavePage, PageInv, RunsInv, Steps
  <1>11. CASE UNCHANGED screenVars
    BY <1>11 DEF screenVars, PageInv, RunsInv
  <1> QED  BY <1>1, <1>2, <1>3, <1>4, <1>5, <1>6, <1>7, <1>8, <1>9, <1>10, <1>11
           DEF ScreenNext, PageNext

\* The page is well formed: the mapping screen is shown with a plan and its choices, a
\* result's screens with a result, and what is in flight is of the files at hand
\* (Assessment.tsx).
THEOREM PageIsWellFormed == ScreenSpec => []ScreenTypeOK
<1>1. ScreenInit => PageInv
  <2>1. 0 \in Nat /\ 0 <= MaxPicks /\ 0 <= MaxRuns
    BY ScreenAssumption
  <2> QED  BY <2>1, FormsStayForms DEF ScreenInit, PageInv, RunsInv, Steps
<1>2. PageInv /\ ResultInv /\ [ScreenNext]_screenVars => PageInv'
  BY PageInvIsInductive
<1>3. PageInv => ScreenTypeOK
  BY PageIsTyped
<1> QED  BY <1>1, <1>2, <1>3, ResultInvIsInductive, PTL DEF ScreenSpec
=============================================================================
