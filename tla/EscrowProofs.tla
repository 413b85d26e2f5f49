---------------------------- MODULE EscrowProofs ----------------------------
(***************************************************************************)
(* The escrow of the assertion chain holds exactly the bonds of the live   *)
(* assertions and of the open challenges, in every state of every chain.   *)
(*                                                                         *)
(* The first half is about sums over finite sets, as MapThenSumSet defines *)
(* them: that they are well defined, that the order of the summands does   *)
(* not matter, and how they split.  The second half follows the money      *)
(* through each entry function.                                            *)
(***************************************************************************)
EXTENDS AssertionsProofs

(* The sum of f over S, as MapThenSumSet computes it: by a function on the *)
(* subsets of S that takes elements away one by one.                       *)
Sum(f, S) == MapThenSumSet(LAMBDA i : f[i], S)

Pick(s) == CHOOSE x \in s : TRUE

IsIter(g, f, S) ==
  g = [s \in SUBSET S |->
         IF s = {} THEN 0 ELSE f[Pick(s)] + g[s \ {Pick(s)}]]

Iter(f, S) == CHOOSE g : IsIter(g, f, S)

(* The definition of the community module, unfolded.                       *)
LEMMA SumIsIter ==
  ASSUME NEW f, NEW S
  PROVE  Sum(f, S) = Iter(f, S)[S]
BY DEF Sum, MapThenSumSet, MapThenFoldSet, Iter, IsIter, Pick

(* A collection of finite sets has one that contains no other.             *)
LEMMA MinimalSet ==
  ASSUME NEW S, IsFiniteSet(S), NEW F \in SUBSET SUBSET S, F # {}
  PROVE  \E X \in F : \A Y \in F : Y \subseteq X => Y = X
<1> DEFINE R == StrictSubsetOrdering(S)
<1>1. IsWellFoundedOn(R, FiniteSubsetsOf(S))
  BY FS_StrictSubsetOrderingWellFounded
<1>2. F \in SUBSET FiniteSubsetsOf(S)
  BY FS_Subset DEF FiniteSubsetsOf
<1>3. PICK X \in F : \A Y \in F : ~ (<<Y, X>> \in R)
  <2> HIDE DEF R
  <2> QED
    BY <1>1, <1>2, WFMin
<1>4. \A Y \in F : Y \subseteq X /\ Y # X => <<Y, X>> \in R
  BY DEF StrictSubsetOrdering
<1> HIDE DEF R
<1>5. \A Y \in F : Y \subseteq X => Y = X
  BY <1>3, <1>4
<1> QED
  BY <1>5

(* A nonempty set has an element to take.                                 *)
LEMMA PickOf ==
  ASSUME NEW s, s # {}
  PROVE  Pick(s) \in s
BY DEF Pick

(* What a summing function gives for the empty set and for any other.     *)
LEMMA IterStep ==
  ASSUME NEW g, NEW f, NEW S, IsIter(g, f, S), NEW s \in SUBSET S
  PROVE  /\ s = {} => g[s] = 0
         /\ s # {} => g[s] = f[Pick(s)] + g[s \ {Pick(s)}]
BY DEF IsIter

(* Summing functions over a set and over a part of it agree on the part.  *)
LEMMA IterAgree ==
  ASSUME NEW f, NEW S, NEW U, U \subseteq S, IsFiniteSet(S),
         NEW g, IsIter(g, f, S), NEW h, IsIter(h, f, U)
  PROVE  \A s \in SUBSET U : g[s] = h[s]
<1> DEFINE F == {s \in SUBSET U : g[s] # h[s]}
<1> SUFFICES ASSUME F # {} PROVE FALSE
  OBVIOUS
<1>1. F \in SUBSET SUBSET U /\ IsFiniteSet(U)
  BY FS_Subset
<1>2. PICK s \in F : \A y \in F : y \subseteq s => y = s
  <2> HIDE DEF F
  <2> QED
    BY <1>1, MinimalSet
<1>3. s \in SUBSET U /\ s \in SUBSET S
  BY <1>2
<1>4. s # {}
  BY <1>2, <1>3, IterStep
<1>5. Pick(s) \in s
  BY <1>4, PickOf
<1>6. s \ {Pick(s)} \notin F
  <2> HIDE DEF F
  <2> QED
    BY <1>2, <1>5
<1>7. g[s \ {Pick(s)}] = h[s \ {Pick(s)}]
  BY <1>3, <1>6
<1>8. g[s] = f[Pick(s)] + g[s \ {Pick(s)}] /\ h[s] = f[Pick(s)] + h[s \ {Pick(s)}]
  BY <1>3, <1>4, IterStep
<1> QED
  BY <1>2, <1>7, <1>8

(* A finite set has a summing function, so CHOOSE finds one.              *)
LEMMA IterExists ==
  ASSUME NEW f, NEW S, IsFiniteSet(S)
  PROVE  IsIter(Iter(f, S), f, S)
<1> DEFINE F == {s \in SUBSET S : ~IsIter(Iter(f, s), f, s)}
<1> SUFFICES ASSUME F # {} PROVE FALSE
  OBVIOUS
<1>1. PICK T \in F : \A y \in F : y \subseteq T => y = T
  <2>1. F \in SUBSET SUBSET S
    OBVIOUS
  <2> HIDE DEF F
  <2> QED
    BY <2>1, MinimalSet
<1>2. T \in SUBSET S /\ IsFiniteSet(T) /\ ~IsIter(Iter(f, T), f, T)
  BY <1>1, FS_Subset
<1>3. ASSUME NEW u \in SUBSET T, u # T
      PROVE  IsIter(Iter(f, u), f, u) /\ IsFiniteSet(u)
  <2>1. u \notin F
    <3> HIDE DEF F
    <3> QED
      BY <1>1, <1>3
  <2> QED
    BY <1>2, <2>1, FS_Subset
<1> DEFINE at(u) == Iter(f, u)[u]
           h == [s \in SUBSET T |->
                   IF s = {} THEN 0 ELSE f[Pick(s)] + at(s \ {Pick(s)})]
<1>4. ASSUME NEW u \in SUBSET T, u # T
      PROVE  h[u] = at(u)
  <2>1. IsIter(Iter(f, u), f, u) /\ IsFiniteSet(u)
    BY <1>3, <1>4
  <2>2. CASE u = {}
    BY <2>1, <2>2, IterStep
  <2>3. CASE u # {}
    <3> DEFINE v == u \ {Pick(u)}
    <3>1. v \in SUBSET T /\ v \in SUBSET u /\ v # T
      BY <1>4
    <3>2. IsIter(Iter(f, v), f, v)
      BY <1>3, <3>1
    <3>3. Iter(f, u)[v] = Iter(f, v)[v]
      <4> HIDE DEF v
      <4>1. \A s \in SUBSET v : Iter(f, u)[s] = Iter(f, v)[s]
        BY <2>1, <3>1, <3>2, IterAgree
      <4> QED
        BY <4>1
    <3>4. at(u) = f[Pick(u)] + Iter(f, u)[v]
      BY <2>1, <2>3, IterStep
    <3> QED
      BY <2>3, <3>3, <3>4
  <2> QED
    BY <2>2, <2>3
<1> HIDE DEF at
<1>5. ASSUME NEW s \in SUBSET T, s # {}
      PROVE  h[s \ {Pick(s)}] = at(s \ {Pick(s)})
  <2>1. Pick(s) \in s
    BY <1>5, PickOf
  <2>2. s \ {Pick(s)} \in SUBSET T /\ s \ {Pick(s)} # T
    BY <2>1
  <2> HIDE DEF h
  <2> QED
    BY <1>4, <2>2
<1>6. h = [s \in SUBSET T |->
             IF s = {} THEN 0 ELSE f[Pick(s)] + h[s \ {Pick(s)}]]
  <2>1. \A s \in SUBSET T : s # {} => h[s \ {Pick(s)}] = at(s \ {Pick(s)})
    BY <1>5
  <2>2. [s \in SUBSET T |-> IF s = {} THEN 0 ELSE f[Pick(s)] + at(s \ {Pick(s)})]
        = [s \in SUBSET T |-> IF s = {} THEN 0 ELSE f[Pick(s)] + h[s \ {Pick(s)}]]
    <3> HIDE DEF h
    <3> QED
      BY <2>1
  <2> QED
    BY <2>2
<1>7. IsIter(h, f, T)
  BY <1>6 DEF IsIter
<1>8. IsIter(Iter(f, T), f, T)
  <2> HIDE DEF h
  <2> QED
    BY <1>7, Zenon DEF Iter
<1> QED
  BY <1>2, <1>8

(* The sum over the empty set, and one element taken away.                 *)
LEMMA SumEmpty ==
  ASSUME NEW f
  PROVE  Sum(f, {}) = 0
<1>1. IsIter(Iter(f, {}), f, {})
  BY FS_EmptySet, IterExists
<1>2. {} \in SUBSET {}
  OBVIOUS
<1> QED
  BY <1>1, <1>2, IterStep, SumIsIter

(* A sum is one summand and the sum of the rest.                          *)
LEMMA SumPick ==
  ASSUME NEW f, NEW S, IsFiniteSet(S), S # {}
  PROVE  Sum(f, S) = f[Pick(S)] + Sum(f, S \ {Pick(S)})
<1> DEFINE U == S \ {Pick(S)}
<1>1. U \subseteq S /\ IsFiniteSet(U)
  BY FS_Subset
<1>2. IsIter(Iter(f, S), f, S) /\ IsIter(Iter(f, U), f, U)
  BY <1>1, IterExists
<1>3. Iter(f, S)[S] = f[Pick(S)] + Iter(f, S)[U]
  BY <1>2, IterStep
<1> HIDE DEF U
<1>4. \A s \in SUBSET U : Iter(f, S)[s] = Iter(f, U)[s]
  BY <1>1, <1>2, IterAgree
<1>5. Iter(f, S)[U] = Iter(f, U)[U]
  BY <1>4
<1>6. Sum(f, S) = Iter(f, S)[S] /\ Sum(f, U) = Iter(f, U)[U]
  BY SumIsIter
<1> QED
  BY <1>3, <1>5, <1>6 DEF U

(* A sum of natural numbers is one.                                        *)
LEMMA SumTyped ==
  ASSUME NEW f, NEW S, IsFiniteSet(S), \A x \in S : f[x] \in Nat
  PROVE  Sum(f, S) \in Nat
<1> DEFINE F == {s \in SUBSET S : Sum(f, s) \notin Nat}
<1> SUFFICES ASSUME F # {} PROVE FALSE
  OBVIOUS
<1>1. PICK T \in F : \A y \in F : y \subseteq T => y = T
  <2>1. F \in SUBSET SUBSET S
    OBVIOUS
  <2> HIDE DEF F
  <2> QED
    BY <2>1, MinimalSet
<1>2. T \in SUBSET S /\ IsFiniteSet(T) /\ Sum(f, T) \notin Nat
  BY <1>1, FS_Subset
<1>3. T # {}
  BY <1>2, SumEmpty
<1>4. Pick(T) \in T
  BY <1>3, PickOf
<1>5. T \ {Pick(T)} \notin F
  <2> HIDE DEF F
  <2> QED
    BY <1>1, <1>4
<1>6. Sum(f, T \ {Pick(T)}) \in Nat /\ f[Pick(T)] \in Nat
  BY <1>2, <1>4, <1>5
<1>7. Sum(f, T) = f[Pick(T)] + Sum(f, T \ {Pick(T)})
  BY <1>2, <1>3, SumPick
<1> QED
  BY <1>2, <1>6, <1>7

(* The order in which elements are taken does not matter.                  *)
LEMMA SumTake ==
  ASSUME NEW f, NEW S, IsFiniteSet(S), \A x \in S : f[x] \in Nat
  PROVE  \A z \in S : Sum(f, S) = f[z] + Sum(f, S \ {z})
<1> DEFINE takes(s) == \A z \in s : Sum(f, s) = f[z] + Sum(f, s \ {z})
           F == {s \in SUBSET S : ~takes(s)}
<1> SUFFICES ASSUME F # {} PROVE FALSE
  OBVIOUS
<1>1. PICK T \in F : \A y \in F : y \subseteq T => y = T
  <2>1. F \in SUBSET SUBSET S
    OBVIOUS
  <2> HIDE DEF F
  <2> QED
    BY <2>1, MinimalSet
<1>2. T \in SUBSET S /\ IsFiniteSet(T) /\ ~takes(T)
  BY <1>1, FS_Subset
<1>3. PICK z \in T : ~ (Sum(f, T) = f[z] + Sum(f, T \ {z}))
  BY <1>2
<1> DEFINE c == Pick(T)
<1>4. c \in T /\ Sum(f, T) = f[c] + Sum(f, T \ {c})
  BY <1>2, <1>3, PickOf, SumPick
<1> HIDE DEF c
<1>5. c # z
  BY <1>3, <1>4
<1>6. ASSUME NEW y \in T
      PROVE  takes(T \ {y})
  <2>1. T \ {y} \notin F
    <3> HIDE DEF F
    <3> QED
      BY <1>1
  <2> HIDE DEF takes
  <2> QED
    BY <1>2, <2>1
<1>7. /\ Sum(f, T \ {c}) = f[z] + Sum(f, (T \ {c}) \ {z})
      /\ Sum(f, T \ {z}) = f[c] + Sum(f, (T \ {z}) \ {c})
  BY <1>4, <1>5, <1>6
<1>8. (T \ {c}) \ {z} = (T \ {z}) \ {c}
  OBVIOUS
<1>9. Sum(f, (T \ {c}) \ {z}) \in Nat /\ f[c] \in Nat /\ f[z] \in Nat
  <2> DEFINE V == (T \ {c}) \ {z}
  <2>1. IsFiniteSet(V) /\ \A x \in V : f[x] \in Nat
    BY <1>2, FS_Subset
  <2> HIDE DEF V
  <2>2. Sum(f, V) \in Nat
    BY <2>1, SumTyped
  <2> QED
    BY <1>2, <1>4, <2>2 DEF V
<1> HIDE DEF F, takes
<1> QED
  BY <1>3, <1>4, <1>7, <1>8, <1>9

(* Induction over the subsets of a finite set, with the property as a set. *)
LEMMA SetInduction ==
  ASSUME NEW S, IsFiniteSet(S), NEW G, {} \in G,
         \A T \in SUBSET S : \A x \in T : T \ {x} \in G => T \in G
  PROVE  S \in G
<1> DEFINE F == {s \in SUBSET S : s \notin G}
<1> SUFFICES ASSUME F # {} PROVE FALSE
  OBVIOUS
<1>1. PICK T \in F : \A y \in F : y \subseteq T => y = T
  <2>1. F \in SUBSET SUBSET S
    OBVIOUS
  <2> HIDE DEF F
  <2> QED
    BY <2>1, MinimalSet
<1>2. PICK x \in T : TRUE
  BY <1>1
<1>3. T \ {x} \notin F
  <2> HIDE DEF F
  <2> QED
    BY <1>1, <1>2
<1> QED
  BY <1>1, <1>2, <1>3

(* Functions that agree on S have the same sum over S.                     *)
LEMMA SumSame ==
  ASSUME NEW f, NEW g, NEW S, IsFiniteSet(S),
         \A x \in S : f[x] \in Nat /\ g[x] = f[x]
  PROVE  Sum(g, S) = Sum(f, S)
<1> DEFINE G == {s \in SUBSET S : Sum(g, s) = Sum(f, s)}
<1>1. {} \in G
  BY SumEmpty
<1>2. ASSUME NEW T \in SUBSET S, NEW x \in T, T \ {x} \in G
      PROVE  T \in G
  <2>1. IsFiniteSet(T) /\ \A y \in T : f[y] \in Nat /\ g[y] \in Nat
    BY FS_Subset
  <2>2. Sum(f, T) = f[x] + Sum(f, T \ {x}) /\ Sum(g, T) = g[x] + Sum(g, T \ {x})
    BY <2>1, SumTake
  <2> QED
    BY <1>2, <2>2
<1>3. S \in G
  <2> HIDE DEF G
  <2> QED
    BY <1>1, <1>2, SetInduction
<1> QED
  BY <1>3

(* The sum over two disjoint sets.                                         *)
LEMMA SumUnion ==
  ASSUME NEW f, NEW A, NEW B, IsFiniteSet(A), IsFiniteSet(B), A \cap B = {},
         \A x \in A \cup B : f[x] \in Nat
  PROVE  Sum(f, A \cup B) = Sum(f, A) + Sum(f, B)
<1> DEFINE G == {s \in SUBSET A : Sum(f, s \cup B) = Sum(f, s) + Sum(f, B)}
<1>0. Sum(f, B) \in Nat
  BY SumTyped
<1>1. {} \in G
  <2>1. {} \cup B = B
    OBVIOUS
  <2> QED
    BY <1>0, <2>1, SumEmpty
<1>2. ASSUME NEW T \in SUBSET A, NEW x \in T, T \ {x} \in G
      PROVE  T \in G
  <2>1. IsFiniteSet(T) /\ IsFiniteSet(T \cup B) /\ IsFiniteSet(T \ {x})
        /\ x \in T \cup B /\ f[x] \in Nat
    BY FS_Subset, FS_Union
  <2>2. Sum(f, T) = f[x] + Sum(f, T \ {x})
    BY <2>1, SumTake
  <2>3. Sum(f, T \cup B) = f[x] + Sum(f, (T \cup B) \ {x})
    BY <2>1, SumTake
  <2>4. (T \cup B) \ {x} = (T \ {x}) \cup B
    OBVIOUS
  <2>5. Sum(f, T \ {x}) \in Nat
    BY <2>1, SumTyped
  <2>6. Sum(f, (T \ {x}) \cup B) = Sum(f, T \ {x}) + Sum(f, B)
    BY <1>2
  <2>7. Sum(f, T \cup B) = f[x] + (Sum(f, T \ {x}) + Sum(f, B))
    BY <2>3, <2>4, <2>6
  <2>8. Sum(f, T \cup B) = Sum(f, T) + Sum(f, B)
    BY <1>0, <2>1, <2>2, <2>5, <2>7
  <2> QED
    BY <2>8
<1>3. A \in G
  <2> HIDE DEF G
  <2> QED
    BY <1>1, <1>2, SetInduction
<1> QED
  BY <1>3

(* The sum of sums.                                                        *)
LEMMA SumPlus ==
  ASSUME NEW f, NEW g, NEW h, NEW S, IsFiniteSet(S),
         \A x \in S : f[x] \in Nat /\ g[x] \in Nat /\ h[x] = f[x] + g[x]
  PROVE  Sum(h, S) = Sum(f, S) + Sum(g, S)
<1> DEFINE G == {s \in SUBSET S : Sum(h, s) = Sum(f, s) + Sum(g, s)}
<1>1. {} \in G
  BY SumEmpty
<1>2. ASSUME NEW T \in SUBSET S, NEW x \in T, T \ {x} \in G
      PROVE  T \in G
  <2>1. IsFiniteSet(T) /\ IsFiniteSet(T \ {x})
        /\ \A y \in T : f[y] \in Nat /\ g[y] \in Nat /\ h[y] \in Nat
    BY FS_Subset
  <2>2. /\ Sum(f, T) = f[x] + Sum(f, T \ {x})
        /\ Sum(g, T) = g[x] + Sum(g, T \ {x})
        /\ Sum(h, T) = h[x] + Sum(h, T \ {x})
    BY <2>1, SumTake
  <2>3. Sum(f, T \ {x}) \in Nat /\ Sum(g, T \ {x}) \in Nat
    BY <2>1, SumTyped
  <2> QED
    BY <1>2, <2>1, <2>2, <2>3
<1>3. S \in G
  <2> HIDE DEF G
  <2> QED
    BY <1>1, <1>2, SetInduction
<1> QED
  BY <1>3

(* What is zero outside D need not be added there.                         *)
LEMMA SumWhere ==
  ASSUME NEW f, NEW S, IsFiniteSet(S), NEW D \in SUBSET S,
         \A x \in S : f[x] \in Nat, \A x \in S \ D : f[x] = 0
  PROVE  Sum(f, S) = Sum(f, D)
<1> DEFINE G == {s \in SUBSET (S \ D) : Sum(f, s) = 0}
           Z == S \ D
<1>1. {} \in G
  BY SumEmpty
<1>2. ASSUME NEW T \in SUBSET Z, NEW x \in T, T \ {x} \in G
      PROVE  T \in G
  <2>1. IsFiniteSet(T) /\ \A y \in T : f[y] \in Nat
    BY FS_Subset
  <2>2. Sum(f, T) = f[x] + Sum(f, T \ {x})
    BY <2>1, SumTake
  <2> QED
    BY <1>2, <2>2
<1>3. IsFiniteSet(Z) /\ IsFiniteSet(D)
  BY FS_Subset
<1>4. Z \in G
  <2> HIDE DEF G, Z
  <2> QED
    BY <1>1, <1>2, <1>3, SetInduction
<1>5. Sum(f, D \cup Z) = Sum(f, D) + Sum(f, Z)
  BY <1>3, SumUnion
<1>6. D \cup Z = S /\ Sum(f, Z) = 0 /\ Sum(f, D) \in Nat
  BY <1>3, <1>4, SumTyped
<1> HIDE DEF G, Z
<1>7. Sum(f, S) = Sum(f, D) + 0
  BY <1>5, <1>6, Zenon
<1> QED
  BY <1>6, <1>7

(* The amounts of a row, and of the column of p, in a table c over A.      *)
Row(f) == Sum(f, DOMAIN f)

Column(c, A, p) == Sum([i \in A |-> c[i][p]], {i \in A : p \in DOMAIN c[i]})

(* Amounts c[i][p] may be added by i first or by p first.                  *)
LEMMA SumExchange ==
  ASSUME NEW c, NEW A, NEW P, IsFiniteSet(A), IsFiniteSet(P),
         \A i \in A : /\ DOMAIN c[i] \in SUBSET P
                      /\ \A p \in DOMAIN c[i] : c[i][p] \in Nat,
         NEW owed, \A i \in A : owed[i] = Row(c[i]),
         NEW due, \A p \in P : due[p] = Column(c, A, p)
  PROVE  Sum(due, P) = Sum(owed, A)
<1> DEFINE col(p) == [i \in A |-> c[i][p]]
           at(T, p) == {i \in T : p \in DOMAIN c[i]}
           part(T) == [p \in P |-> Sum(col(p), at(T, p))]
           G == {T \in SUBSET A : Sum(part(T), P) = Sum(owed, T)}
<1>1. ASSUME NEW T \in SUBSET A, NEW p \in P
      PROVE  /\ IsFiniteSet(at(T, p)) /\ IsFiniteSet(T)
             /\ \A i \in at(T, p) : col(p)[i] \in Nat
             /\ Sum(col(p), at(T, p)) \in Nat
  <2>1. at(T, p) \subseteq T /\ IsFiniteSet(T)
    BY FS_Subset
  <2>2. IsFiniteSet(at(T, p))
    <3> HIDE DEF at
    <3> QED
      BY <2>1, FS_Subset
  <2>3. \A i \in at(T, p) : col(p)[i] \in Nat
    OBVIOUS
  <2> HIDE DEF at, col
  <2> QED
    BY <2>1, <2>2, <2>3, SumTyped
<1>2. {} \in G
  <2>1. \A p \in P : at({}, p) = {}
    OBVIOUS
  <2>2. \A p \in P : part({})[p] = 0
    <3> HIDE DEF col, at
    <3> QED
      BY <2>1, SumEmpty
  <2> HIDE DEF part
  <2>3. Sum(part({}), P) = Sum(part({}), {})
    BY <2>2, SumWhere
  <2> QED
    BY <2>3, SumEmpty
<1>3. ASSUME NEW T \in SUBSET A, NEW x \in T, T \ {x} \in G
      PROVE  T \in G
  <2> DEFINE U == T \ {x}
             one == [p \in P |-> IF p \in DOMAIN c[x] THEN c[x][p] ELSE 0]
  <2>1. U \in SUBSET A /\ x \in A /\ Sum(part(U), P) = Sum(owed, U)
    BY <1>3
  <2>2. ASSUME NEW p \in P
        PROVE  /\ one[p] \in Nat /\ part(U)[p] \in Nat
               /\ part(T)[p] = one[p] + part(U)[p]
    <3>1. Sum(col(p), at(U, p)) \in Nat
      BY <1>1, <2>1
    <3>2. CASE p \in DOMAIN c[x]
      <4>1. x \in at(T, p) /\ at(T, p) \ {x} = at(U, p) /\ col(p)[x] = c[x][p]
        BY <2>1, <3>2
      <4>2. Sum(col(p), at(T, p)) = col(p)[x] + Sum(col(p), at(T, p) \ {x})
        <5>1. IsFiniteSet(at(T, p)) /\ \A i \in at(T, p) : col(p)[i] \in Nat
          BY <1>1
        <5> HIDE DEF at, col
        <5> QED
          BY <4>1, <5>1, SumTake
      <4>3. one[p] = c[x][p] /\ c[x][p] \in Nat
        BY <2>1, <3>2
      <4> HIDE DEF at, col, one
      <4> QED
        BY <3>1, <4>1, <4>2, <4>3
    <3>3. CASE p \notin DOMAIN c[x]
      <4>1. at(T, p) = at(U, p) /\ one[p] = 0
        BY <3>3
      <4> HIDE DEF at, col, one
      <4> QED
        BY <3>1, <4>1
    <3> QED
      BY <3>2, <3>3
  <2>3. Sum(one, P) = owed[x] /\ owed[x] \in Nat
    <3>1. DOMAIN c[x] \in SUBSET P /\ owed[x] = Sum(c[x], DOMAIN c[x])
          /\ \A p \in DOMAIN c[x] : c[x][p] \in Nat
      BY <2>1 DEF Row
    <3>2. IsFiniteSet(DOMAIN c[x])
      BY <3>1, FS_Subset
    <3>3. /\ \A p \in P : one[p] \in Nat
          /\ \A p \in P \ DOMAIN c[x] : one[p] = 0
          /\ \A p \in DOMAIN c[x] : one[p] = c[x][p]
      BY <3>1
    <3> HIDE DEF one
    <3>4. Sum(one, P) = Sum(one, DOMAIN c[x])
      BY <3>1, <3>3, SumWhere
    <3>5. Sum(one, DOMAIN c[x]) = Sum(c[x], DOMAIN c[x])
      BY <3>1, <3>2, <3>3, SumSame
    <3>6. Sum(c[x], DOMAIN c[x]) \in Nat
      BY <3>1, <3>2, SumTyped
    <3> QED
      BY <3>1, <3>4, <3>5, <3>6
  <2>4. Sum(part(T), P) = Sum(one, P) + Sum(part(U), P)
    <3> HIDE DEF one, part, U
    <3> QED
      BY <2>2, SumPlus
  <2>5. Sum(owed, T) = owed[x] + Sum(owed, U)
    <3>1. IsFiniteSet(T)
      BY FS_Subset
    <3>2. ASSUME NEW i \in T
          PROVE  owed[i] \in Nat
      <4>1. /\ owed[i] = Sum(c[i], DOMAIN c[i]) /\ DOMAIN c[i] \in SUBSET P
            /\ \A p \in DOMAIN c[i] : c[i][p] \in Nat
        BY DEF Row
      <4>2. IsFiniteSet(DOMAIN c[i])
        BY <4>1, FS_Subset
      <4> QED
        BY <4>1, <4>2, SumTyped
    <3> QED
      BY <3>1, <3>2, SumTake
  <2> HIDE DEF part, one, U
  <2> QED
    BY <2>1, <2>3, <2>4, <2>5
<1>4. A \in G
  <2> HIDE DEF G
  <2> QED
    BY <1>2, <1>3, SetInduction
<1>5. Sum(part(A), P) = Sum(owed, A)
  <2> HIDE DEF part
  <2> QED
    BY <1>4
<1>6. \A p \in P : due[p] \in Nat /\ part(A)[p] = due[p]
  BY <1>1 DEF Column
<1> HIDE DEF part
<1>7. Sum(part(A), P) = Sum(due, P)
  BY <1>6, SumSame
<1> QED
  BY <1>5, <1>7
-----------------------------------------------------------------------------
(* Sums that name a field of a record.                                     *)
LEMMA SumOfBonds ==
  ASSUME NEW f, NEW D, NEW S \in SUBSET D
  PROVE  MapThenSumSet(LAMBDA i : f[i].bond, S) = Sum([i \in D |-> f[i].bond], S)
BY Zenon DEF Sum, MapThenSumSet, MapThenFoldSet

(* Sums of sums.                                                           *)
LEMMA SumOfSums ==
  ASSUME NEW c, NEW S
  PROVE  MapThenSumSet(LAMBDA i : MapThenSumSet(LAMBDA p : c[i][p], DOMAIN c[i]), S)
           = Sum([i \in S |-> Sum(c[i], DOMAIN c[i])], S)
<1> DEFINE total(i) == Sum(c[i], DOMAIN c[i])
<1>1. MapThenSumSet(LAMBDA i : MapThenSumSet(LAMBDA p : c[i][p], DOMAIN c[i]), S)
        = MapThenSumSet(LAMBDA i : total(i), S)
  BY DEF Sum
<1>2. MapThenSumSet(LAMBDA i : total(i), S) = Sum([i \in S |-> total(i)], S)
  <2> HIDE DEF total
  <2> QED
    BY Zenon DEF Sum, MapThenSumSet, MapThenFoldSet
<1> QED
  BY <1>1, <1>2

(* Sums along a column.                                                    *)
LEMMA SumOfColumn ==
  ASSUME NEW c, NEW p, NEW D, NEW S \in SUBSET D
  PROVE  MapThenSumSet(LAMBDA i : c[i][p], S) = Sum([i \in D |-> c[i][p]], S)
BY Zenon DEF Sum, MapThenSumSet, MapThenFoldSet

(* Two functions that differ at one place only.                            *)
LEMMA SumChange ==
  ASSUME NEW f, NEW g, NEW S, IsFiniteSet(S), NEW x \in S,
         \A y \in S : f[y] \in Nat, g[x] \in Nat,
         \A y \in S \ {x} : g[y] = f[y]
  PROVE  Sum(g, S) + f[x] = Sum(f, S) + g[x]
<1> DEFINE R == S \ {x}
<1>1. IsFiniteSet(R) /\ \A y \in R : f[y] \in Nat /\ g[y] = f[y]
  BY FS_Subset
<1>2. \A y \in S : g[y] \in Nat
  OBVIOUS
<1>3. Sum(f, S) = f[x] + Sum(f, R) /\ Sum(g, S) = g[x] + Sum(g, R)
  BY <1>2, SumTake
<1> HIDE DEF R
<1>4. Sum(g, R) = Sum(f, R) /\ Sum(f, R) \in Nat
  BY <1>1, SumSame, SumTyped
<1> QED
  BY <1>3, <1>4

(* A payment to one account, and to two.                                   *)
LEMMA SumOne ==
  ASSUME NEW f, NEW S, IsFiniteSet(S), NEW x \in S, f[x] \in Nat,
         \A y \in S \ {x} : f[y] = 0
  PROVE  Sum(f, S) = f[x]
<1>1. Sum(f, S) = Sum(f, {x})
  BY SumWhere
<1>2. Sum(f, {x}) = f[x] + Sum(f, {x} \ {x})
  BY FS_Singleton, SumTake
<1>3. {x} \ {x} = {}
  OBVIOUS
<1>4. Sum(f, {x}) = f[x] + 0
  BY <1>2, <1>3, SumEmpty, Zenon
<1> QED
  BY <1>1, <1>4

(* A slashed bond is paid out in full, whatever the rounding.              *)
LEMMA SlashedInFull ==
  ASSUME NEW winner \in Party, NEW bond \in Nat
  PROVE  /\ Sum([a \in Account |-> distribute_slashed(winner, bond, a)], Account) = bond
         /\ \A a \in Account : distribute_slashed(winner, bond, a) \in Nat
<1> DEFINE f == [a \in Account |-> distribute_slashed(winner, bond, a)]
<1>1. slash_reward(bond) \in Nat /\ bond - slash_reward(bond) \in Nat
  BY DEF slash_reward, SLASH_REWARD_PERCENT
<1>2. /\ winner \in Account /\ Treasury \in Account /\ winner # Treasury
      /\ IsFiniteSet(Account)
  BY PartyAssumption, FS_AddElement DEF Account
<1>3. /\ f[winner] = slash_reward(bond) /\ f[Treasury] = bond - slash_reward(bond)
      /\ \A a \in Account \ {winner, Treasury} : f[a] = 0
      /\ \A a \in Account : f[a] \in Nat /\ f[a] = distribute_slashed(winner, bond, a)
  BY <1>1, <1>2 DEF distribute_slashed
<1> HIDE DEF f
<1> DEFINE R == Account \ {winner}
<1>4. Sum(f, Account) = f[winner] + Sum(f, R)
  BY <1>2, <1>3, SumTake
<1>5. Treasury \in R /\ IsFiniteSet(R) /\ \A a \in R \ {Treasury} : f[a] = 0
  BY <1>2, <1>3, FS_Subset
<1> HIDE DEF R
<1>6. Sum(f, R) = f[Treasury]
  BY <1>2, <1>3, <1>5, SumOne
<1>7. Sum(f, Account) = bond
  BY <1>1, <1>3, <1>4, <1>6
<1> QED
  BY <1>3, <1>7 DEF f

-----------------------------------------------------------------------------
(* The books: the bond of each assertion, and what its challengers put up. *)
Bonds == [i \in Ids |-> assertions[i].bond]
Owed == [i \in Ids |-> Sum(challenges[i], DOMAIN challenges[i])]
LiveIds == {i \in Ids : Live(i)}

Backed == escrow = Sum(Bonds, LiveIds) + Sum(Owed, Ids)

(* Backed is what EscrowBacksBonds says.                                   *)
LEMMA BackedIs == EscrowBacksBonds <=> Backed
<1>1. MapThenSumSet(LAMBDA i : assertions[i].bond, {i \in Ids : Live(i)})
        = Sum(Bonds, LiveIds)
  <2>1. LiveIds \in SUBSET Ids
    BY DEF LiveIds
  <2> QED
    BY <2>1, SumOfBonds DEF LiveIds, Bonds
<1>2. MapThenSumSet(
        LAMBDA i : MapThenSumSet(LAMBDA p : challenges[i][p],
                                 DOMAIN challenges[i]), Ids)
        = Sum(Owed, Ids)
  BY SumOfSums DEF Owed
<1> QED
  BY <1>1, <1>2, Zenon DEF EscrowBacksBonds, Backed

(* The books are natural numbers.                                          *)
LEMMA BooksTyped ==
  ASSUME IInv
  PROVE  /\ IsFiniteSet(Ids) /\ IsFiniteSet(LiveIds) /\ LiveIds \subseteq Ids
         /\ \A i \in Ids :
              /\ Bonds[i] \in Nat /\ Bonds[i] = assertions[i].bond
              /\ Owed[i] \in Nat /\ Owed[i] = Sum(challenges[i], DOMAIN challenges[i])
              /\ DOMAIN challenges[i] \subseteq Party
              /\ IsFiniteSet(DOMAIN challenges[i])
              /\ \A p \in DOMAIN challenges[i] : challenges[i][p] \in Nat
         /\ Sum(Bonds, LiveIds) \in Nat /\ Sum(Owed, Ids) \in Nat
<1>1. IsFiniteSet(Ids)
  <2>1. PICK n \in 1..MaxAssertions : Ids = 1..n
    BY DEF IInv, TypeOK
  <2> QED
    BY <2>1, FS_Interval, ParameterAssumption
<1>2. LiveIds \subseteq Ids /\ IsFiniteSet(LiveIds)
  BY <1>1, FS_Subset DEF LiveIds
<1>3. ASSUME NEW i \in Ids
      PROVE  /\ Bonds[i] \in Nat /\ Bonds[i] = assertions[i].bond
             /\ Owed[i] \in Nat /\ Owed[i] = Sum(challenges[i], DOMAIN challenges[i])
             /\ DOMAIN challenges[i] \subseteq Party
             /\ IsFiniteSet(DOMAIN challenges[i])
             /\ \A p \in DOMAIN challenges[i] : challenges[i][p] \in Nat
  <2>1. Bonds[i] = assertions[i].bond /\ assertions[i].bond \in Nat
    BY DEF IInv, TypeOK, Assertion, Bonds
  <2>2. /\ DOMAIN challenges[i] \subseteq Party
        /\ \A p \in DOMAIN challenges[i] : challenges[i][p] \in Nat
    BY DEF IInv, TypeOK
  <2>3. IsFiniteSet(DOMAIN challenges[i])
    BY <2>2, PartyAssumption, FS_Subset
  <2>4. Sum(challenges[i], DOMAIN challenges[i]) \in Nat
    BY <2>2, <2>3, SumTyped
  <2> QED
    BY <2>1, <2>2, <2>3, <2>4 DEF Owed
<1>4. Sum(Bonds, LiveIds) \in Nat
  BY <1>2, <1>3, SumTyped
<1>5. Sum(Owed, Ids) \in Nat
  BY <1>1, <1>3, SumTyped
<1> QED
  BY <1>1, <1>2, <1>3, <1>4, <1>5

-----------------------------------------------------------------------------
(* A post: its bond goes into the escrow.                                  *)
LEMMA PostBacked ==
  ASSUME IInv, Backed, Post
  PROVE  Backed'
<1>1. PICK p \in Party, par \in Ids, r \in Root, b \in Batch, bond \in Bond,
           stamp \in 0..LastTimestamp, len \in TraceLength :
             post(p, par, r, b, stamp, len, bond)
  BY DEF Post
<1> DEFINE added == record(p, par, r, b, stamp, len, bond)
<1>2. PICK new \in Nat \ {0, 1} :
         /\ new \notin Ids /\ Ids' = Ids \cup {new} /\ now' = now
         /\ assertions'[new] = added
         /\ DOMAIN challenges'[new] = {}
         /\ check_batch_shape(b, len, assertions[par].post_state_root, r)
         /\ \A i \in Ids :
              assertions'[i] = assertions[i] /\ challenges'[i] = challenges[i]
  BY <1>1, PostEffect, Zenon
<1>3. escrow' = escrow + bond /\ bond \in Nat
  BY <1>1, Zenon, ParameterAssumption DEF post, take_bond
<1>4. added.bond = bond /\ added.status = PENDING
  BY DEF record
<1> HIDE DEF added
<1> DEFINE b2 == Bonds'
           o2 == Owed'
           L == LiveIds
<1>5. /\ new \in Ids' /\ LiveIds' = L \cup {new} /\ new \notin L
      /\ b2[new] = bond /\ o2[new] = Sum(challenges'[new], {})
      /\ \A i \in Ids : b2[i] = Bonds[i] /\ o2[i] = Owed[i]
  BY <1>2, <1>4 DEF Bonds, Owed, LiveIds, Live
<1>6. o2[new] = 0
  BY <1>5, SumEmpty
<1>7. /\ IsFiniteSet(Ids) /\ IsFiniteSet(L) /\ L \subseteq Ids
      /\ \A i \in Ids : Bonds[i] \in Nat /\ Owed[i] \in Nat
      /\ Sum(Bonds, L) \in Nat /\ Sum(Owed, Ids) \in Nat
  BY BooksTyped
<1>8. IsFiniteSet(L \cup {new}) /\ IsFiniteSet(Ids \cup {new})
  BY <1>7, FS_AddElement
<1>9. (L \cup {new}) \ {new} = L /\ (Ids \cup {new}) \ {new} = Ids
  BY <1>2, <1>5
<1> HIDE DEF b2, o2, L
<1>10. Sum(b2, L \cup {new}) = bond + Sum(Bonds, L)
  <2>1. Sum(b2, L \cup {new}) = b2[new] + Sum(b2, (L \cup {new}) \ {new})
    <3>1. \A i \in L \cup {new} : b2[i] \in Nat
      BY <1>3, <1>5, <1>7
    <3> QED
      BY <1>8, <3>1, SumTake
  <2>2. Sum(b2, L) = Sum(Bonds, L)
    <3>1. \A i \in L : Bonds[i] \in Nat /\ b2[i] = Bonds[i]
      BY <1>5, <1>7
    <3> QED
      BY <1>7, <3>1, SumSame
  <2> QED
    BY <1>5, <1>9, <2>1, <2>2, Zenon
<1>11. Sum(o2, Ids \cup {new}) = 0 + Sum(Owed, Ids)
  <2>1. Sum(o2, Ids \cup {new}) = o2[new] + Sum(o2, (Ids \cup {new}) \ {new})
    <3>1. \A i \in Ids \cup {new} : o2[i] \in Nat
      BY <1>5, <1>6, <1>7
    <3> QED
      BY <1>8, <3>1, SumTake
  <2>2. Sum(o2, Ids) = Sum(Owed, Ids)
    <3>1. \A i \in Ids : Owed[i] \in Nat /\ o2[i] = Owed[i]
      BY <1>5, <1>7
    <3> QED
      BY <1>7, <3>1, SumSame
  <2> QED
    BY <1>6, <1>9, <2>1, <2>2, Zenon
<1>12. escrow = Sum(Bonds, L) + Sum(Owed, Ids)
  BY DEF Backed, L
<1>13. escrow' = Sum(b2, L \cup {new}) + Sum(o2, Ids \cup {new})
  BY <1>3, <1>7, <1>10, <1>11, <1>12
<1> QED
  BY <1>2, <1>5, <1>13, Zenon DEF Backed, b2, o2

(* What is paid out of the escrow.                                         *)
LEMMA Paid ==
  ASSUME NEW due, pay_from_escrow(due)
  PROVE  escrow' = escrow - Sum(due, Account) /\ Sum(due, Account) <= escrow
BY Zenon DEF pay_from_escrow, Sum

(* One challenger more or less on one assertion, whose bond stays.         *)
LEMMA OneChallengeBacked ==
  ASSUME IInv, Backed, NEW id \in Ids, Ids' = Ids,
         \A i \in Ids : assertions'[i].bond = assertions[i].bond /\ (Live(i)' <=> Live(i)),
         \A i \in Ids \ {id} : challenges'[i] = challenges[i],
         Sum(challenges'[id], DOMAIN challenges'[id]) \in Nat,
         escrow' = escrow + (Sum(challenges'[id], DOMAIN challenges'[id]) - Owed[id])
  PROVE  Backed'
<1> DEFINE b2 == Bonds'
           o2 == Owed'
<1>1. /\ LiveIds' = LiveIds /\ b2 = Bonds
      /\ o2[id] = Sum(challenges'[id], DOMAIN challenges'[id])
      /\ \A i \in Ids \ {id} : o2[i] = Owed[i]
  BY DEF Bonds, Owed, LiveIds
<1> HIDE DEF b2, o2
<1>2. /\ IsFiniteSet(Ids) /\ \A i \in Ids : Owed[i] \in Nat
      /\ Sum(Bonds, LiveIds) \in Nat /\ Sum(Owed, Ids) \in Nat
  BY BooksTyped
<1>3. Sum(o2, Ids) + Owed[id] = Sum(Owed, Ids) + o2[id]
  BY <1>1, <1>2, SumChange
<1>4. Sum(o2, Ids) \in Nat
  <2>1. \A i \in Ids : o2[i] \in Nat
    BY <1>1, <1>2
  <2> QED
    BY <1>2, <2>1, SumTyped
<1>5. escrow' = Sum(Bonds, LiveIds) + Sum(o2, Ids)
  BY <1>1, <1>2, <1>3, <1>4 DEF Backed
<1> QED
  BY <1>1, <1>5, Zenon DEF Backed, b2, o2

(* A challenge: its bond goes into the escrow.                             *)
LEMMA OpenChallengeBacked ==
  ASSUME IInv, Backed, NEW who \in Party, NEW id \in Ids, NEW bond \in Bond,
         open_challenge(who, id, bond)
  PROVE  Backed'
<1> DEFINE D == DOMAIN challenges[id]
           c == challenges[id]
           c2 == challenges'[id]
<1>1. /\ who \notin D /\ Live(id) /\ escrow' = escrow + bond
      /\ assertions' = [assertions EXCEPT
                          ![id] = revised(@, CHALLENGED, @.open_challenges + 1)]
      /\ challenges' = [challenges EXCEPT
                          ![id] = [p \in DOMAIN @ \cup {who} |->
                                     IF p = who THEN bond ELSE @[p]]]
  BY DEF open_challenge, may_challenge, take_bond, Live
<1>2. DOMAIN challenges = Ids /\ bond \in Nat
  BY ParameterAssumption DEF IInv, TypeOK
<1>3. /\ Ids' = Ids
      /\ assertions'[id] = revised(assertions[id], CHALLENGED,
                                   assertions[id].open_challenges + 1)
      /\ \A i \in Ids \ {id} : /\ assertions'[i] = assertions[i]
                               /\ challenges'[i] = challenges[i]
      /\ c2 = [p \in D \cup {who} |-> IF p = who THEN bond ELSE c[p]]
  BY <1>1, <1>2 DEF Ids
<1>4. assertions'[id].bond = assertions[id].bond /\ assertions'[id].status = CHALLENGED
  BY <1>3 DEF revised
<1>5. \A i \in Ids : assertions'[i].bond = assertions[i].bond /\ (Live(i)' <=> Live(i))
  BY <1>1, <1>3, <1>4 DEF Live
<1>6. /\ DOMAIN c2 = D \cup {who} /\ c2[who] = bond
      /\ \A p \in D : c2[p] = c[p]
  BY <1>1, <1>3
<1>7. /\ IsFiniteSet(D) /\ \A p \in D : c[p] \in Nat
      /\ Owed[id] = Sum(c, D) /\ Sum(c, D) \in Nat
  BY BooksTyped
<1> HIDE DEF c, c2, D
<1>8. Sum(c2, D \cup {who}) = c2[who] + Sum(c2, (D \cup {who}) \ {who})
  <2>1. IsFiniteSet(D \cup {who}) /\ \A p \in D \cup {who} : c2[p] \in Nat
    BY <1>2, <1>6, <1>7, FS_AddElement
  <2> QED
    BY <2>1, SumTake
<1>9. Sum(c2, D) = Sum(c, D)
  BY <1>6, <1>7, SumSame
<1>10. (D \cup {who}) \ {who} = D
  BY <1>1 DEF D
<1>11. Sum(c2, DOMAIN c2) = bond + Sum(c, D)
  BY <1>6, <1>8, <1>9, <1>10, Zenon
<1>12. /\ Sum(c2, DOMAIN c2) \in Nat
       /\ escrow' = escrow + (Sum(c2, DOMAIN c2) - Owed[id])
  BY <1>1, <1>2, <1>7, <1>11
<1> QED
  BY <1>3, <1>5, <1>12, OneChallengeBacked DEF c2

(* A failed challenge: its bond is paid out in full.                       *)
LEMMA DefenderWonBacked ==
  ASSUME IInv, Backed, NEW id \in Ids, NEW loser \in Party, defender_won(id, loser)
  PROVE  Backed'
<1> DEFINE D == DOMAIN challenges[id]
           c == challenges[id]
           c2 == challenges'[id]
           due == [a \in Account |->
                     distribute_slashed(assertions[id].proposer, c[loser], a)]
<1>1. /\ loser \in D /\ Live(id) /\ pay_from_escrow(due)
      /\ assertions' = [assertions EXCEPT ![id] =
            revised(@, status_after_defense(@), @.open_challenges - 1)]
      /\ challenges' = [challenges EXCEPT
                          ![id] = [p \in DOMAIN @ \ {loser} |-> @[p]]]
  BY DEF defender_won, Live
<1>2. DOMAIN challenges = Ids /\ assertions[id].proposer \in Party
  BY DEF IInv, TypeOK, Assertion
<1>3. /\ Ids' = Ids
      /\ assertions'[id] = revised(assertions[id], status_after_defense(assertions[id]),
                                   assertions[id].open_challenges - 1)
      /\ \A i \in Ids \ {id} : /\ assertions'[i] = assertions[i]
                               /\ challenges'[i] = challenges[i]
      /\ c2 = [p \in D \ {loser} |-> c[p]]
  BY <1>1, <1>2 DEF Ids
<1>4. /\ assertions'[id].bond = assertions[id].bond
      /\ assertions'[id].status \in {PENDING, CHALLENGED}
  BY <1>3 DEF revised, status_after_defense
<1>5. \A i \in Ids : assertions'[i].bond = assertions[i].bond /\ (Live(i)' <=> Live(i))
  BY <1>1, <1>3, <1>4 DEF Live
<1>6. DOMAIN c2 = D \ {loser} /\ \A p \in D \ {loser} : c2[p] = c[p]
  BY <1>3
<1>7. /\ IsFiniteSet(D) /\ \A p \in D : c[p] \in Nat
      /\ Owed[id] = Sum(c, D) /\ Sum(c, D) \in Nat
      /\ escrow \in Nat
  BY BooksTyped DEF Backed
<1>8. Sum(due, Account) = c[loser]
  BY <1>1, <1>2, <1>7, SlashedInFull
<1>9. escrow' = escrow - c[loser]
  BY <1>1, <1>8, Paid
<1> DEFINE R == D \ {loser}
<1> HIDE DEF c, c2, D
<1>10. Sum(c, D) = c[loser] + Sum(c, R)
  BY <1>1, <1>7, SumTake
<1>11. IsFiniteSet(R) /\ \A p \in R : c[p] \in Nat /\ c2[p] = c[p]
  BY <1>6, <1>7, FS_Subset
<1> HIDE DEF R
<1>12. Sum(c2, R) = Sum(c, R) /\ Sum(c, R) \in Nat
  BY <1>11, SumSame, SumTyped
<1>13. Sum(c2, DOMAIN c2) = Sum(c, R)
  BY <1>6, <1>12 DEF R
<1>14. /\ Sum(c2, DOMAIN c2) \in Nat
       /\ escrow' = escrow + (Sum(c2, DOMAIN c2) - Owed[id])
  BY <1>1, <1>7, <1>9, <1>10, <1>12, <1>13
<1> QED
  BY <1>3, <1>5, <1>14, OneChallengeBacked DEF c2

(* A finalization: the bond goes back.                                     *)
LEMMA FinalizeBacked ==
  ASSUME IInv, Backed, NEW id \in Ids, finalize(id)
  PROVE  Backed'
<1> DEFINE due == [a \in Account |->
                     IF a = assertions[id].proposer THEN assertions[id].bond ELSE 0]
           b2 == Bonds'
           L == LiveIds
<1>1. /\ pay_from_escrow(due) /\ can_finalize(id) /\ challenges' = challenges
      /\ assertions' = [assertions EXCEPT
                          ![id] = revised(@, FINALIZED, @.open_challenges)]
  BY DEF finalize
<1>2. /\ Ids' = Ids
      /\ assertions'[id] = revised(assertions[id], FINALIZED,
                                   assertions[id].open_challenges)
      /\ \A i \in Ids \ {id} : assertions'[i] = assertions[i]
  BY <1>1 DEF Ids
<1>3. assertions'[id].bond = assertions[id].bond /\ assertions'[id].status = FINALIZED
  BY <1>2, RevisedFields
<1>4. /\ id \in L /\ LiveIds' = L \ {id} /\ Owed' = Owed
      /\ b2 = Bonds
  <2>1. id \in L
    BY <1>1 DEF LiveIds, Live, can_finalize
  <2>2. ~Live(id)' /\ \A i \in Ids \ {id} : Live(i)' <=> Live(i)
    BY <1>2, <1>3 DEF Live, PENDING, CHALLENGED, FINALIZED
  <2>3. LiveIds' = L \ {id}
    BY <1>2, <2>2 DEF LiveIds
  <2>4. Owed' = Owed
    BY <1>1, <1>2 DEF Owed
  <2>5. b2 = Bonds
    BY <1>2, <1>3 DEF Bonds
  <2> QED
    BY <2>1, <2>3, <2>4, <2>5
<1>5. /\ assertions[id].proposer \in Account /\ IsFiniteSet(Account)
      /\ assertions[id].bond \in Nat /\ Bonds[id] = assertions[id].bond
  <2>1. assertions[id].proposer \in Party
    BY DEF IInv, TypeOK, Assertion
  <2> QED
    BY <2>1, BooksTyped, PartyAssumption, FS_AddElement DEF Account
<1>6. Sum(due, Account) = Bonds[id]
  <2>1. /\ due[assertions[id].proposer] = assertions[id].bond
        /\ \A a \in Account \ {assertions[id].proposer} : due[a] = 0
    BY <1>5
  <2> HIDE DEF due
  <2> QED
    BY <1>5, <2>1, SumOne
<1>7. escrow' = escrow - Bonds[id]
  BY <1>1, <1>6, Paid
<1> HIDE DEF L
<1>8. Sum(Bonds, L) = Bonds[id] + Sum(Bonds, L \ {id})
  BY <1>4, BooksTyped, SumTake DEF L
<1>9. /\ Sum(Bonds, L) \in Nat /\ Sum(Owed, Ids) \in Nat /\ Bonds[id] \in Nat
      /\ escrow = Sum(Bonds, L) + Sum(Owed, Ids)
  BY BooksTyped DEF L, Backed
<1>10. Sum(Bonds, L \ {id}) \in Nat
  <2>1. IsFiniteSet(L \ {id}) /\ \A i \in L \ {id} : Bonds[i] \in Nat
    BY BooksTyped, FS_Subset DEF L
  <2> QED
    BY <2>1, SumTyped
<1>11. escrow' = Sum(Bonds, L \ {id}) + Sum(Owed, Ids)
  BY <1>7, <1>8, <1>9, <1>10
<1> QED
  BY <1>2, <1>4, <1>11, Zenon DEF Backed

(* refund_challenges is the sum of one account's column of challenge bonds. *)
LEMMA RefundIs ==
  ASSUME NEW ids, NEW a
  PROVE  refund_challenges(ids, a)
           = Sum([i \in ids |-> challenges[i][a]], {i \in ids : a \in DOMAIN challenges[i]})
<1> DEFINE at == {i \in ids : a \in DOMAIN challenges[i]}
<1>1. at \in SUBSET ids
  OBVIOUS
<1>2. refund_challenges(ids, a) = MapThenSumSet(LAMBDA i : challenges[i][a], at)
  BY DEF refund_challenges
<1> HIDE DEF at
<1>3. MapThenSumSet(LAMBDA i : challenges[i][a], at)
        = Sum([i \in ids |-> challenges[i][a]], at)
  BY <1>1, Zenon DEF Sum, MapThenSumSet, MapThenFoldSet
<1>4. refund_challenges(ids, a) = Sum([i \in ids |-> challenges[i][a]], at)
  BY <1>2, <1>3, Zenon
<1> QED
  BY <1>4 DEF at

(* Refunding account by account pays exactly what is owed assertion by     *)
(* assertion.                                                              *)
LEMMA RefundsAddUp ==
  ASSUME IInv, NEW ids \in SUBSET Ids, NEW due,
         \A a \in Account : due[a] = refund_challenges(ids, a)
  PROVE  Sum(due, Account) = Sum(Owed, ids) /\ \A a \in Account : due[a] \in Nat
<1>1. IsFiniteSet(Account) /\ IsFiniteSet(ids)
  <2>1. ids \subseteq Ids /\ IsFiniteSet(Ids)
    BY BooksTyped
  <2> QED
    BY <2>1, PartyAssumption, FS_AddElement, FS_Subset DEF Account
<1>2. \A i \in ids : /\ DOMAIN challenges[i] \in SUBSET Account
                     /\ \A p \in DOMAIN challenges[i] : challenges[i][p] \in Nat
  BY BooksTyped DEF Account
<1>3. \A i \in ids : Owed[i] = Sum(challenges[i], DOMAIN challenges[i])
  BY BooksTyped
<1>4. \A a \in Account : due[a] = Sum([i \in ids |-> challenges[i][a]],
                                      {i \in ids : a \in DOMAIN challenges[i]})
  BY RefundIs
<1>5. Sum(due, Account) = Sum(Owed, ids)
  <2>1. (\A i \in ids : Owed[i] = Row(challenges[i]))
        /\ \A a \in Account : due[a] = Column(challenges, ids, a)
    BY <1>3, <1>4, Zenon DEF Row, Column
  <2> QED
    BY <1>1, <1>2, <2>1, SumExchange
<1>6. ASSUME NEW a \in Account
      PROVE  due[a] \in Nat
  <2> DEFINE at == {i \in ids : a \in DOMAIN challenges[i]}
             col == [i \in ids |-> challenges[i][a]]
  <2>1. at \subseteq ids /\ \A i \in at : col[i] \in Nat
    BY <1>2
  <2>2. due[a] = Sum(col, at)
    BY <1>4
  <2> HIDE DEF at, col
  <2>3. IsFiniteSet(at)
    BY <1>1, <2>1, FS_Subset
  <2> QED
    BY <2>1, <2>2, <2>3, SumTyped
<1> QED
  BY <1>5, <1>6

(* What a rejection pays out: the bond of id, the bonds of what falls with *)
(* it and every challenge on all of them.                                  *)
LEMMA RejectionPays ==
  ASSUME IInv, NEW id \in Ids, NEW winner \in Party, NEW swept \in SUBSET Ids
  PROVE  Sum([a \in Account |->
                distribute_slashed(winner, assertions[id].bond, a)
                  + refund_challenges(swept \cup {id}, a)
                  + (IF a = Treasury THEN Sum(Bonds, swept) ELSE 0)], Account)
           = (Bonds[id] + Sum(Owed, swept \cup {id})) + Sum(Bonds, swept)
<1> DEFINE fallen == swept \cup {id}
           d1 == [a \in Account |-> distribute_slashed(winner, assertions[id].bond, a)]
           d2 == [a \in Account |-> refund_challenges(fallen, a)]
           d3 == [a \in Account |-> IF a = Treasury THEN Sum(Bonds, swept) ELSE 0]
           d12 == [a \in Account |-> d1[a] + d2[a]]
           due == [a \in Account |->
                     distribute_slashed(winner, assertions[id].bond, a)
                       + refund_challenges(fallen, a)
                       + (IF a = Treasury THEN Sum(Bonds, swept) ELSE 0)]
<1>1. /\ IsFiniteSet(Account) /\ Treasury \in Account
      /\ IsFiniteSet(swept) /\ fallen \subseteq Ids
  <2>1. fallen \subseteq Ids /\ swept \subseteq Ids /\ IsFiniteSet(Ids)
    BY BooksTyped
  <2> QED
    BY <2>1, PartyAssumption, FS_AddElement, FS_Subset DEF Account
<1>2. Sum(d1, Account) = Bonds[id] /\ \A a \in Account : d1[a] \in Nat
  BY BooksTyped, SlashedInFull
<1>3. Sum(d2, Account) = Sum(Owed, fallen) /\ \A a \in Account : d2[a] \in Nat
  <2>1. \A a \in Account : d2[a] = refund_challenges(fallen, a)
    OBVIOUS
  <2> HIDE DEF d2, fallen
  <2> QED
    BY <1>1, <2>1, RefundsAddUp
<1>5. Sum(Bonds, swept) \in Nat
  <2>1. \A i \in swept : Bonds[i] \in Nat
    BY BooksTyped
  <2> QED
    BY <1>1, <2>1, SumTyped
<1>6. Sum(d3, Account) = Sum(Bonds, swept) /\ \A a \in Account : d3[a] \in Nat
  <2>1. /\ d3[Treasury] = Sum(Bonds, swept) /\ \A a \in Account : d3[a] \in Nat
        /\ \A a \in Account \ {Treasury} : d3[a] = 0
    BY <1>1, <1>5
  <2> HIDE DEF d3
  <2> QED
    BY <1>1, <1>5, <2>1, SumOne
<1>7. \A a \in Account : due[a] = d12[a] + d3[a] /\ d12[a] = d1[a] + d2[a]
  OBVIOUS
<1> HIDE DEF d1, d2, d3, d12, fallen, due
<1>8. Sum(d12, Account) = Sum(d1, Account) + Sum(d2, Account)
  <2>1. \A a \in Account : d1[a] \in Nat /\ d2[a] \in Nat /\ d12[a] = d1[a] + d2[a]
    BY <1>2, <1>3, <1>7
  <2> QED
    BY <1>1, <2>1, SumPlus
<1>9. Sum(due, Account) = Sum(d12, Account) + Sum(d3, Account)
  <2>1. \A a \in Account : d12[a] \in Nat /\ d3[a] \in Nat /\ due[a] = d12[a] + d3[a]
    BY <1>2, <1>3, <1>6, <1>7
  <2> QED
    BY <1>1, <2>1, SumPlus
<1>10. Sum(due, Account) = (Bonds[id] + Sum(Owed, fallen)) + Sum(Bonds, swept)
  BY <1>2, <1>3, <1>6, <1>8, <1>9
<1> QED
  BY <1>10 DEF fallen, due

(* A rejection: every bond on what falls is paid out.                      *)
LEMMA ChallengerWonBacked ==
  ASSUME IInv, Backed, NEW id \in Ids, NEW winner, challenger_won(id, winner)
  PROVE  Backed'
<1> DEFINE bonds(swept) == MapThenSumSet(LAMBDA i : assertions[i].bond, swept)
           due(swept) == [a \in Account |->
                  distribute_slashed(winner, assertions[id].bond, a)
                    + refund_challenges(swept \cup {id}, a)
                    + (IF a = Treasury THEN bonds(swept) ELSE 0)]
<1>1. PICK swept \in SUBSET Ids :
        /\ IsSwept(swept, id) /\ pay_from_escrow(due(swept))
        /\ assertions' = [i \in Ids |->
             IF i \in swept \cup {id} THEN revised(assertions[i], REJECTED, 0)
             ELSE assertions[i]]
        /\ challenges' = [i \in Ids |->
             IF i \in swept \cup {id} THEN [p \in {} |-> 0] ELSE challenges[i]]
  BY DEF challenger_won
<1>2. /\ winner \in Party /\ Live(id) /\ id \notin swept
      /\ \A i \in swept : Live(i)
  BY <1>1, BooksTyped DEF challenger_won, IsSwept, Live
<1> DEFINE F == swept \cup {id}
           b2 == Bonds'
           o2 == Owed'
           L == LiveIds
           rest == Ids \ F
<1>3. escrow' = escrow - ((Bonds[id] + Sum(Owed, F)) + Sum(Bonds, swept))
  <2>1. Sum(due(swept), Account) = (Bonds[id] + Sum(Owed, F)) + Sum(Bonds, swept)
    <3>1. bonds(swept) = Sum(Bonds, swept)
      BY SumOfBonds DEF Bonds
    <3> HIDE DEF bonds
    <3>2. due(swept) = [a \in Account |->
                  distribute_slashed(winner, assertions[id].bond, a)
                    + refund_challenges(swept \cup {id}, a)
                    + (IF a = Treasury THEN Sum(Bonds, swept) ELSE 0)]
      BY <3>1
    <3> HIDE DEF due
    <3> QED
      BY <1>2, <3>2, RejectionPays
  <2>2. escrow' = escrow - Sum(due(swept), Account)
    <3> HIDE DEF due
    <3> QED
      BY <1>1, Paid
  <2> QED
    BY <2>1, <2>2
<1> HIDE DEF due
<1>4. /\ Ids' = Ids
      /\ \A i \in F : /\ assertions'[i] = revised(assertions[i], REJECTED, 0)
                      /\ challenges'[i] = [p \in {} |-> 0]
      /\ \A i \in rest : assertions'[i] = assertions[i] /\ challenges'[i] = challenges[i]
      /\ F \subseteq Ids /\ F \subseteq L
  BY <1>1, <1>2 DEF Ids, LiveIds
<1>5. \A i \in F : assertions'[i].bond = assertions[i].bond
                   /\ assertions'[i].status = REJECTED
  <2>1. \A a : revised(a, REJECTED, 0).bond = a.bond
                /\ revised(a, REJECTED, 0).status = REJECTED
    BY DEF revised
  <2> QED
    BY <1>4, <2>1
<1>6. LiveIds' = L \ F /\ b2 = Bonds
  BY <1>4, <1>5 DEF LiveIds, Live, Bonds, REJECTED, PENDING, CHALLENGED
<1>7. (\A i \in F : o2[i] = 0) /\ (\A i \in rest : o2[i] = Owed[i])
  <2>1. \A i \in F : o2[i] = Sum(challenges'[i], {})
    BY <1>4 DEF Owed
  <2>2. \A i \in rest : o2[i] = Owed[i]
    BY <1>4 DEF Owed
  <2> HIDE DEF o2, F, rest
  <2> QED
    BY <2>1, <2>2, SumEmpty
<1>8. /\ IsFiniteSet(Ids) /\ IsFiniteSet(L) /\ L \subseteq Ids
      /\ \A i \in Ids : Bonds[i] \in Nat /\ Owed[i] \in Nat
      /\ escrow = Sum(Bonds, L) + Sum(Owed, Ids)
  BY BooksTyped DEF Backed
<1>9. /\ IsFiniteSet(F) /\ IsFiniteSet(rest) /\ IsFiniteSet(L \ F)
      /\ IsFiniteSet(swept)
  <2>1. swept \subseteq Ids /\ rest \subseteq Ids
    OBVIOUS
  <2> HIDE DEF F, rest, L
  <2> QED
    BY <1>4, <1>8, <2>1, FS_Subset, FS_Difference
<1>10. /\ id \in F /\ F \ {id} = swept /\ (L \ F) \cup F = L /\ rest \cup F = Ids
       /\ (L \ F) \cap F = {} /\ rest \cap F = {} /\ rest \subseteq Ids
       /\ Ids \ rest = F
  BY <1>2, <1>4
<1> HIDE DEF F, b2, o2, L, rest
<1>11. Sum(Bonds, F) = Bonds[id] + Sum(Bonds, swept)
  <2>1. \A i \in F : Bonds[i] \in Nat
    BY <1>8, <1>10
  <2>2. id \in F /\ IsFiniteSet(F)
    BY <1>9, <1>10
  <2>3. Sum(Bonds, F) = Bonds[id] + Sum(Bonds, F \ {id})
    BY <2>1, <2>2, SumTake
  <2> QED
    BY <1>10, <2>3, Zenon
<1>12. Sum(Bonds, (L \ F) \cup F) = Sum(Bonds, L \ F) + Sum(Bonds, F)
  <2>1. \A i \in (L \ F) \cup F : Bonds[i] \in Nat
    BY <1>8, <1>10
  <2> QED
    BY <1>9, <1>10, <2>1, SumUnion
<1>13. Sum(Owed, rest \cup F) = Sum(Owed, rest) + Sum(Owed, F)
  <2>1. \A i \in rest \cup F : Owed[i] \in Nat
    BY <1>8, <1>10
  <2> QED
    BY <1>9, <1>10, <2>1, SumUnion
<1>14. Sum(o2, Ids) = Sum(Owed, rest)
  <2>1. Sum(o2, Ids) = Sum(o2, rest)
    <3>1. \A i \in Ids : o2[i] \in Nat
      BY <1>7, <1>8, <1>10
    <3> QED
      BY <1>7, <1>8, <1>10, <3>1, SumWhere
  <2>2. Sum(o2, rest) = Sum(Owed, rest)
    BY <1>7, <1>8, <1>9, <1>10, SumSame
  <2> QED
    BY <2>1, <2>2
<1>15. /\ Sum(Bonds, swept) \in Nat /\ Sum(Bonds, L \ F) \in Nat
       /\ Sum(Owed, rest) \in Nat /\ Sum(Owed, F) \in Nat /\ Bonds[id] \in Nat
  <2>1. \A i \in swept : Bonds[i] \in Nat
    BY <1>8
  <2>2. \A i \in L \ F : Bonds[i] \in Nat
    BY <1>8
  <2>3. (\A i \in rest : Owed[i] \in Nat) /\ (\A i \in F : Owed[i] \in Nat)
    BY <1>4, <1>8, <1>10
  <2> QED
    BY <1>8, <1>9, <2>1, <2>2, <2>3, SumTyped
<1>16. /\ Sum(Bonds, L) = Sum(Bonds, L \ F) + (Bonds[id] + Sum(Bonds, swept))
       /\ Sum(Owed, Ids) = Sum(Owed, rest) + Sum(Owed, F)
  BY <1>10, <1>11, <1>12, <1>13, Zenon
<1>17. escrow' = Sum(Bonds, L \ F) + Sum(o2, Ids)
  BY <1>3, <1>8, <1>14, <1>15, <1>16
<1> QED
  BY <1>4, <1>6, <1>17, Zenon DEF Backed, b2, o2

(* Every step keeps the escrow backed.                                     *)
LEMMA BackedKept == IInv /\ Backed /\ [Next]_vars => Backed'
<1> SUFFICES ASSUME IInv, Backed, [Next]_vars PROVE Backed'
  OBVIOUS
<1>1. CASE Tick \/ UNCHANGED vars
  <2>1. escrow' = escrow /\ assertions' = assertions /\ challenges' = challenges
    BY <1>1 DEF Tick, vars
  <2> QED
    BY <2>1 DEF Backed, Bonds, Owed, LiveIds, Live, Ids
<1>2. CASE Post
  BY <1>2, PostBacked
<1>3. CASE OpenChallenge
  BY <1>3, OpenChallengeBacked DEF OpenChallenge
<1>4. ASSUME NEW id \in Ids, Verdict(id)
      PROVE  Backed'
  BY <1>4, DefenderWonBacked, ChallengerWonBacked DEF Verdict
<1>5. ASSUME NEW id \in Ids, finalize(id)
      PROVE  Backed'
  BY <1>5, FinalizeBacked
<1> QED
  BY <1>1, <1>2, <1>3, <1>4, <1>5 DEF Next

(* The escrow holds the bonds of the live assertions and of the open       *)
(* challenges, no more and no less, for any number of parties, assertions  *)
(* and bonds: post, open_challenge, defender_won, challenger_won with its  *)
(* sweep and its refunds, and finalize neither leak nor create value.      *)
THEOREM EscrowIsExact == Spec => []EscrowBacksBonds
<1>1. Init => Backed
  <2> SUFFICES ASSUME Init PROVE Backed
    OBVIOUS
  <2>1. /\ escrow = 0 /\ Ids = {Genesis} /\ LiveIds = {}
        /\ Owed[Genesis] = Sum(challenges[Genesis], {})
    BY DEF Init, initialize, Ids, LiveIds, Live, Owed, FINALIZED, PENDING, CHALLENGED
  <2>2. Owed[Genesis] = 0
    BY <2>1, SumEmpty
  <2>3. Sum(Owed, Ids) = Owed[Genesis]
    <3>1. IsFiniteSet(Ids) /\ Genesis \in Ids /\ Ids \ {Genesis} = {}
      BY <2>1, FS_Singleton
    <3> QED
      BY <2>2, <3>1, SumOne
  <2> QED
    BY <2>1, <2>2, <2>3, SumEmpty DEF Backed
<1> QED
  BY <1>1, BackedKept, BackedIs, Inductive, PTL DEF Spec
=============================================================================
