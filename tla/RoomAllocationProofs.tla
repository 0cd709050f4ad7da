------------------------ MODULE RoomAllocationProofs ------------------------
(***************************************************************************)
(* What the algorithms of room_allocation.go compute, for any candidates   *)
(* and any party.  Induction is by least counterexample: the naturals are  *)
(* well founded, so a claim that fails for some of them fails for a least. *)
(***************************************************************************)
EXTENDS RoomAllocation, FunctionTheorems, FiniteSetTheorems, TLAPS

(***************************************************************************)
(* Numbers.                                                                *)
(***************************************************************************)
\* A nonempty set of naturals has a least element.
LEMMA LeastNatural ==
  ASSUME NEW S, S \subseteq Nat, S # {}
  PROVE  \E n \in S : \A m \in S : n <= m
<1>1. PICK n \in S : \A m \in S : ~ (<<m, n>> \in OpToRel(<, Nat))
  BY NatLessThanWellFounded, WFMin, Zenon
<1>2. \A m \in S : ~ (m < n)
  BY <1>1 DEF OpToRel
<1>3. QED
  BY <1>2

\* Min is what it says on such sets.
LEMMA MinOfNaturals ==
  ASSUME NEW S, S \subseteq Nat, S # {}
  PROVE  Min(S) \in S /\ \A m \in S : Min(S) <= m
  BY LeastNatural DEF Min

\* Division with remainder.
LEMMA DivFacts ==
  ASSUME NEW n \in Nat, NEW d \in Nat \ {0}
  PROVE  /\ n \div d \in Nat
         /\ (n \div d) * d <= n
         /\ n < (n \div d + 1) * d
  OBVIOUS

\* CeilDiv rounds up: so many times d is the least that reaches n.
LEMMA CeilDivLeast ==
  ASSUME NEW n \in Nat, NEW d \in Nat \ {0}
  PROVE  /\ CeilDiv(n, d) \in Nat
         /\ \A m \in Nat : CeilDiv(n, d) <= m <=> n <= m * d
<1>1. CASE n = 0
  BY <1>1 DEF CeilDiv
<1>2. CASE n > 0
  <2> DEFINE q == (n + d - 1) \div d
  <2>1. n + d - 1 \in Nat
    BY <1>2
  <2>2. q \in Nat /\ q * d <= n + d - 1 /\ n + d - 1 < (q + 1) * d
    BY <2>1, DivFacts
  <2>3. CeilDiv(n, d) = q
    BY <1>2 DEF CeilDiv
  <2> HIDE DEF q
  <2>4. ASSUME NEW m \in Nat, q <= m
        PROVE  n <= m * d
    <3>1. q * d <= m * d
      BY <2>2, <2>4
    <3>2. n <= q * d
      BY <2>2
    <3>3. QED
      BY <2>2, <3>1, <3>2
  <2>5. ASSUME NEW m \in Nat, n <= m * d, m < q
        PROVE  FALSE
    <3>1. (m + 1) * d <= q * d
      BY <2>2, <2>5
    <3>2. QED
      BY <2>2, <2>5, <3>1
  <2>6. QED
    BY <2>2, <2>3, <2>4, <2>5
<1>3. QED
  BY <1>1, <1>2

(***************************************************************************)
(* A set in order.                                                         *)
(***************************************************************************)
IsStrictOrder(R, S) ==
  /\ \A x \in S : <<x, x>> \notin R
  /\ \A x, y \in S : x # y => <<x, y>> \in R \/ <<y, x>> \in R
  /\ \A x, y, z \in S : <<x, y>> \in R /\ <<y, z>> \in R => <<x, z>> \in R

Below(S, R, x) == {y \in S : <<y, x>> \in R}

\* Every element has a place of its own, and each place is taken: the number of
\* elements before an element is an injection into as many numbers.
LEMMA OrderedBijection ==
  ASSUME NEW S, IsFiniteSet(S), NEW R, IsStrictOrder(R, S)
  PROVE  /\ Cardinality(S) \in Nat
         /\ Ordered(S, R) \in Bijection(1..Cardinality(S), S)
         /\ \A k \in 1..Cardinality(S) :
              Cardinality(Below(S, R, Ordered(S, R)[k])) = k - 1
<1> DEFINE n        == Cardinality(S)
           below(x) == {y \in S : <<y, x>> \in R}
           place    == [x \in S |-> Cardinality(below(x)) + 1]
<1> HIDE DEF n, below, place
<1>1. n \in Nat
  BY FS_CardinalityType DEF n
<1>2. ASSUME NEW x \in S
      PROVE  /\ IsFiniteSet(below(x))
             /\ Cardinality(below(x)) \in Nat
             /\ Cardinality(below(x)) + 1 \in 1..n
  <2>1. below(x) \in SUBSET S /\ x \notin below(x)
    BY DEF IsStrictOrder, below
  <2>2. IsFiniteSet(below(x)) /\ Cardinality(below(x)) <= n /\ n # Cardinality(below(x))
    BY <2>1, FS_Subset DEF n
  <2>3. Cardinality(below(x)) \in Nat
    BY <2>2, FS_CardinalityType
  <2>4. QED
    BY <1>1, <2>2, <2>3
<1>3. ASSUME NEW x \in S, NEW y \in S, <<x, y>> \in R
      PROVE  Cardinality(below(x)) < Cardinality(below(y))
  <2>1. below(x) \in SUBSET below(y) /\ x \in below(y) /\ x \notin below(x)
    BY <1>3 DEF IsStrictOrder, below
  <2>2. /\ Cardinality(below(x)) <= Cardinality(below(y))
        /\ Cardinality(below(x)) # Cardinality(below(y))
    BY <1>2, <2>1, FS_Subset
  <2>3. QED
    BY <1>2, <2>2
<1>4. /\ place \in [S -> 1..n]
      /\ \A x \in S : place[x] = Cardinality(below(x)) + 1
  BY <1>2 DEF place
<1>5. place \in Injection(S, 1..n)
  <2>1. \A x, y \in S : place[x] = place[y] => x = y
    <3> SUFFICES ASSUME NEW x \in S, NEW y \in S, x # y
                 PROVE  place[x] # place[y]
      OBVIOUS
    <3>1. <<x, y>> \in R \/ <<y, x>> \in R
      BY DEF IsStrictOrder
    <3>2. Cardinality(below(x)) # Cardinality(below(y))
      BY <1>2, <1>3, <3>1
    <3>3. QED
      BY <1>2, <1>4, <3>2
  <2>2. QED
    BY <1>4, <2>1, Fun_IsInj
<1>6. place \in Surjection(S, 1..n)
  <2>1. IsFiniteSet(1..n) /\ Cardinality(1..n) = n
    BY <1>1, FS_Interval
  <2>2. QED
    BY <1>5, <2>1, FS_Injection DEF n
<1>7. ASSUME NEW k \in 1..n
      PROVE  /\ Ordered(S, R)[k] \in S
             /\ Cardinality(below(Ordered(S, R)[k])) = k - 1
  <2>1. \A t \in 1..n : \E x \in S : place[x] = t
    BY <1>6, Fun_SurjectionProperties, Zenon
  <2>2. \E x \in S : Cardinality(below(x)) = k - 1
    BY <1>1, <1>2, <1>4, <2>1
  <2>3. Ordered(S, R)[k] = CHOOSE z \in S : Cardinality(below(z)) = k - 1
    BY Zenon DEF Ordered, below, n
  <2>4. QED
    BY <2>2, <2>3
<1>8. Ordered(S, R) \in [1..n -> S]
  <2>1. Ordered(S, R) = [k \in 1..n |-> CHOOSE z \in S : Cardinality(below(z)) = k - 1]
    BY Zenon DEF Ordered, below, n
  <2>2. \A k \in 1..n : Ordered(S, R)[k] \in S
    BY <1>7
  <2>3. QED
    BY <2>1, <2>2
<1>9. \A j, k \in 1..n : Ordered(S, R)[j] = Ordered(S, R)[k] => j = k
  <2> SUFFICES ASSUME NEW j \in 1..n, NEW k \in 1..n, Ordered(S, R)[j] = Ordered(S, R)[k]
               PROVE  j = k
    OBVIOUS
  <2>1. j - 1 = k - 1
    BY <1>7
  <2>2. QED
    BY <1>1, <2>1
<1>10. \A x \in S : \E k \in 1..n : Ordered(S, R)[k] = x
  <2> SUFFICES ASSUME NEW x \in S
               PROVE  \E k \in 1..n : Ordered(S, R)[k] = x
    OBVIOUS
  <2>1. place[x] \in 1..n
    BY <1>4
  <2>2. place[Ordered(S, R)[place[x]]] = place[x]
    BY <1>1, <1>4, <1>7, <2>1
  <2>3. Ordered(S, R)[place[x]] = x
    BY <1>5, <1>7, <2>1, <2>2, Fun_InjectionProperties
  <2>4. QED
    BY <2>1, <2>3
<1>11. Ordered(S, R) \in Bijection(1..n, S)
  BY <1>8, <1>9, <1>10, Fun_IsBij
<1>12. QED
  BY <1>1, <1>7, <1>11 DEF n, below, Below

(***************************************************************************)
(* Sums.                                                                   *)
(***************************************************************************)
LEMMA DisjointUnion ==
  ASSUME NEW A, NEW B, IsFiniteSet(A), IsFiniteSet(B), A \intersect B = {}
  PROVE  /\ IsFiniteSet(A \union B)
         /\ Cardinality(A \union B) = Cardinality(A) + Cardinality(B)
<1>1. Cardinality(A \intersect B) = 0
  BY FS_EmptySet
<1>2. QED
  BY <1>1, FS_Union, FS_CardinalityType

\* The union of sets that a function gives.
Pool(F, S) == UNION {F[c] : c \in S}

\* A sum of cardinalities of disjoint sets is that of their union.  The fold that
\* SumFunction stands for satisfies the equation of the union's cardinality, and the
\* equation has one solution.
LEMMA SumIsCardinality ==
  ASSUME NEW S, IsFiniteSet(S), NEW g \in [S -> Nat], NEW F,
         \A c \in S : IsFiniteSet(F[c]) /\ Cardinality(F[c]) = g[c],
         \A c, d \in S : c # d => F[c] \intersect F[d] = {}
  PROVE  /\ SumFunction(g) = Cardinality(Pool(F, S))
         /\ IsFiniteSet(Pool(F, S))
<1> DEFINE U(T)    == UNION {F[c] : c \in T}
           pick(T) == CHOOSE x \in T : TRUE
           G       == [T \in SUBSET S |-> Cardinality(U(T))]
           iter    == CHOOSE h : h = [T \in SUBSET S |->
                        IF T = {} THEN 0 ELSE g[pick(T)] + h[T \ {pick(T)}]]
<1>1. \A T \in SUBSET S : T # {} => pick(T) \in T
  OBVIOUS
<1>2. \A T \in SUBSET S : IsFiniteSet(T) /\ Cardinality(T) \in Nat
  BY FS_Subset, FS_CardinalityType
<1>3. U({}) = {}
  OBVIOUS
<1>4. ASSUME NEW T \in SUBSET S, NEW c \in T
      PROVE  U(T) = U(T \ {c}) \union F[c] /\ U(T \ {c}) \intersect F[c] = {}
  OBVIOUS
<1>5. SumFunction(g) = iter[S]
  BY Zenon DEF SumFunction, SumFunctionOnSet, FoldFunctionOnSet, MapThenFoldSet
<1> HIDE DEF U, pick, iter
<1>6. \A T \in SUBSET S : IsFiniteSet(U(T)) /\ Cardinality(U(T)) \in Nat
  <2> SUFFICES ASSUME NEW T \in SUBSET S
               PROVE  IsFiniteSet(U(T))
    BY FS_CardinalityType
  <2>1. IsFiniteSet({F[c] : c \in T})
    <3> DEFINE f == [c \in T |-> F[c]]
    <3>1. f \in Surjection(T, {F[c] : c \in T})
      BY Fun_IsSurj
    <3>2. QED
      BY <1>2, <3>1, FS_Surjection
  <2>2. QED
    BY <2>1, FS_UNION DEF U
<1>7. G = [T \in SUBSET S |-> IF T = {} THEN 0 ELSE g[pick(T)] + G[T \ {pick(T)}]]
  <2> SUFFICES ASSUME NEW T \in SUBSET S
               PROVE  G[T] = IF T = {} THEN 0 ELSE g[pick(T)] + G[T \ {pick(T)}]
    OBVIOUS
  <2>1. CASE T = {}
    BY <2>1, <1>3, FS_EmptySet
  <2>2. CASE T # {}
    <3> DEFINE c == pick(T)
    <3>1. c \in T /\ c \in S /\ T \ {c} \in SUBSET S
      BY <1>1, <2>2
    <3> HIDE DEF c
    <3>2. Cardinality(U(T)) = Cardinality(U(T \ {c})) + Cardinality(F[c])
      <4>1. U(T) = U(T \ {c}) \union F[c] /\ U(T \ {c}) \intersect F[c] = {}
        BY <1>4, <3>1
      <4>2. IsFiniteSet(U(T \ {c})) /\ IsFiniteSet(F[c])
        BY <1>6, <3>1
      <4>3. QED
        BY <4>1, <4>2, DisjointUnion
    <3>3. G[T] = Cardinality(U(T)) /\ G[T \ {c}] = Cardinality(U(T \ {c}))
      BY <3>1
    <3>4. G[T] = g[c] + G[T \ {c}]
      BY <1>6, <3>1, <3>2, <3>3
    <3>5. QED
      BY <2>2, <3>4 DEF c
  <2>3. QED
    BY <2>1, <2>2
<1> HIDE DEF G
<1>8. iter = [T \in SUBSET S |-> IF T = {} THEN 0 ELSE g[pick(T)] + iter[T \ {pick(T)}]]
  BY <1>7, Zenon DEF iter
<1>9. \A T \in SUBSET S : iter[T] = G[T]
  <2> DEFINE sizes == {Cardinality(T) : T \in {X \in SUBSET S : iter[X] # G[X]}}
  <2> SUFFICES ASSUME NEW X \in SUBSET S, iter[X] # G[X]
               PROVE  FALSE
    OBVIOUS
  <2>1. sizes \subseteq Nat /\ sizes # {}
    BY <1>2
  <2> HIDE DEF sizes
  <2>2. PICK n \in sizes : \A m \in sizes : n <= m
    BY <2>1, LeastNatural, Zenon
  <2>3. PICK T \in SUBSET S : iter[T] # G[T] /\ Cardinality(T) = n
    BY <2>2 DEF sizes
  <2>4. T # {} /\ pick(T) \in T
    BY <1>1, <1>7, <1>8, <2>3
  <2>5. T \ {pick(T)} \in SUBSET S /\ Cardinality(T \ {pick(T)}) = n - 1 /\ n \in Nat
    BY <1>2, <2>3, <2>4, FS_RemoveElement
  <2>6. iter[T \ {pick(T)}] # G[T \ {pick(T)}]
    <3>1. iter[T] = g[pick(T)] + iter[T \ {pick(T)}]
      BY <1>8, <2>4
    <3>2. G[T] = g[pick(T)] + G[T \ {pick(T)}]
      BY <1>7, <2>4
    <3>3. QED
      BY <2>3, <3>1, <3>2
  <2>7. n - 1 \in sizes
    BY <2>5, <2>6 DEF sizes
  <2>8. QED
    BY <2>2, <2>5, <2>7
<1>10. QED
  BY <1>5, <1>6, <1>9 DEF G, U, Pool

(***************************************************************************)
(* Backtracking.                                                           *)
(***************************************************************************)
\* The requests from a position of the order on can take a room each.
Served(compat, order, from, left) ==
  \E type \in [from..Len(order) -> DOMAIN left] :
    /\ \A i \in from..Len(order) : type[i] \in compat[order[i]]
    /\ \A c \in DOMAIN left : Cardinality({i \in from..Len(order) : type[i] = c}) <= left[c]

\* The first of them takes one, and the rest can be served with what is left.
LEMMA ServedStep ==
  ASSUME NEW D, NEW R, NEW compat \in [R -> SUBSET D], NEW order \in Seq(R),
         NEW left \in [D -> Nat], NEW pos \in 1..Len(order)
  PROVE  Served(compat, order, pos, left) <=>
           \E c \in compat[order[pos]] :
             left[c] > 0 /\ Served(compat, order, pos + 1, [left EXCEPT ![c] = @ - 1])
<1> DEFINE L == Len(order)
           users(type, from, c) == {i \in from..L : type[i] = c}
<1>1. L \in Nat /\ pos \in Nat /\ order[pos] \in R /\ compat[order[pos]] \in SUBSET D
  OBVIOUS
<1>2. \A type, c : /\ IsFiniteSet(users(type, pos, c))
                   /\ Cardinality(users(type, pos, c)) \in Nat
                   /\ IsFiniteSet(users(type, pos + 1, c))
                   /\ Cardinality(users(type, pos + 1, c)) \in Nat
  <2>1. IsFiniteSet(pos..L) /\ IsFiniteSet((pos + 1)..L)
    BY <1>1, FS_Interval
  <2>2. \A type, c : /\ users(type, pos, c) \in SUBSET (pos..L)
                     /\ users(type, pos + 1, c) \in SUBSET ((pos + 1)..L)
    OBVIOUS
  <2>3. QED
    BY <2>1, <2>2, FS_Subset, FS_CardinalityType
<1>3. pos..L = {pos} \union (pos + 1)..L /\ pos \notin (pos + 1)..L
  BY <1>1
<1>4. \A type, c : users(type, pos, c) =
                     IF type[pos] = c THEN users(type, pos + 1, c) \union {pos}
                                      ELSE users(type, pos + 1, c)
  BY <1>3
<1>5. \A type, c : pos \notin users(type, pos + 1, c)
  BY <1>3
<1> HIDE DEF users
<1>6. \A type, c : Cardinality(users(type, pos, c)) =
                     IF type[pos] = c THEN Cardinality(users(type, pos + 1, c)) + 1
                                      ELSE Cardinality(users(type, pos + 1, c))
  BY <1>2, <1>4, <1>5, FS_AddElement
<1>7. ASSUME Served(compat, order, pos, left)
      PROVE  \E c \in compat[order[pos]] :
               left[c] > 0 /\ Served(compat, order, pos + 1, [left EXCEPT ![c] = @ - 1])
  <2>1. PICK type \in [pos..L -> D] :
               /\ \A i \in pos..L : type[i] \in compat[order[i]]
               /\ \A c \in D : Cardinality(users(type, pos, c)) <= left[c]
    BY <1>7 DEF Served, users
  <2> DEFINE c    == type[pos]
             rest == [i \in (pos + 1)..L |-> type[i]]
             less == [left EXCEPT ![c] = @ - 1]
  <2>2. c \in compat[order[pos]] /\ c \in D
    BY <1>1, <1>3, <2>1
  <2>3. \A d \in D : users(rest, pos + 1, d) = users(type, pos + 1, d)
    BY DEF users
  <2>4. left[c] > 0
    BY <1>2, <1>6, <2>1, <2>2
  <2>5. less \in [D -> Nat]
    BY <2>2, <2>4
  <2>6. \A d \in D : Cardinality(users(rest, pos + 1, d)) <= less[d]
    BY <1>2, <1>6, <2>1, <2>2, <2>3
  <2>7. rest \in [(pos + 1)..L -> D] /\ \A i \in (pos + 1)..L : rest[i] \in compat[order[i]]
    BY <1>3, <2>1
  <2> HIDE DEF rest, less
  <2>8. Served(compat, order, pos + 1, less)
    BY <2>5, <2>6, <2>7 DEF Served, users
  <2>9. QED
    BY <2>2, <2>4, <2>8 DEF less
<1>8. ASSUME NEW c \in compat[order[pos]], left[c] > 0,
             Served(compat, order, pos + 1, [left EXCEPT ![c] = @ - 1])
      PROVE  Served(compat, order, pos, left)
  <2> DEFINE less == [left EXCEPT ![c] = @ - 1]
  <2>1. c \in D /\ less \in [D -> Nat]
    BY <1>1, <1>8
  <2>2. PICK rest \in [(pos + 1)..L -> D] :
               /\ \A i \in (pos + 1)..L : rest[i] \in compat[order[i]]
               /\ \A d \in D : Cardinality(users(rest, pos + 1, d)) <= less[d]
    BY <1>8, <2>1 DEF Served, users
  <2> DEFINE type == [i \in pos..L |-> IF i = pos THEN c ELSE rest[i]]
  <2>3. type \in [pos..L -> D] /\ \A i \in pos..L : type[i] \in compat[order[i]]
    BY <1>3, <2>1, <2>2
  <2>4. \A d \in D : users(type, pos + 1, d) = users(rest, pos + 1, d)
    BY <1>3 DEF users
  <2>5. type[pos] = c
    BY <1>3
  <2> HIDE DEF type
  <2>6. ASSUME NEW d \in D
        PROVE  Cardinality(users(type, pos, d)) <= left[d]
    <3>1. Cardinality(users(type, pos + 1, d)) <= IF d = c THEN left[d] - 1 ELSE left[d]
      BY <2>1, <2>2, <2>4
    <3>2. QED
      BY <1>2, <1>6, <2>1, <2>5, <3>1
  <2>7. QED
    BY <2>3, <2>6 DEF Served, users
<1>9. QED
  BY <1>7, <1>8

\* So the equation of dfs has a solution, which says what the definition above says;
\* and it has no other, since its calls get ever closer to the end of the order.
LEMMA BacktrackServes ==
  ASSUME NEW D, NEW R, NEW compat \in [R -> SUBSET D], NEW order \in Seq(R),
         NEW remaining \in [D -> Nat]
  PROVE  Backtrack(compat, order, remaining) <=> Served(compat, order, 1, remaining)
<1> DEFINE L   == Len(order)
           Pos == (1..(L + 1)) \X [D -> Nat]
           Step(f, at) == \/ at[1] > L
                          \/ \E c \in compat[order[at[1]]] :
                               at[2][c] > 0 /\ f[<<at[1] + 1, [at[2] EXCEPT ![c] = @ - 1]>>]
           dfs == CHOOSE f : f = [at \in Pos |-> Step(f, at)]
           fun == [at \in Pos |-> IF Served(compat, order, at[1], at[2]) THEN TRUE ELSE FALSE]
<1>1. Backtrack(compat, order, remaining) = dfs[<<1, remaining>>]
  BY Zenon DEF Backtrack
<1>2. L \in Nat
  OBVIOUS
<1>3. ASSUME NEW at \in Pos, at[1] <= L, NEW c \in compat[order[at[1]]], at[2][c] > 0
      PROVE  <<at[1] + 1, [at[2] EXCEPT ![c] = @ - 1]>> \in Pos
  <2>1. at[1] \in 1..L /\ order[at[1]] \in R /\ compat[order[at[1]]] \in SUBSET D
    BY <1>2, <1>3
  <2>2. c \in D /\ at[2] \in [D -> Nat]
    BY <2>1
  <2>3. [at[2] EXCEPT ![c] = @ - 1] \in [D -> Nat]
    BY <1>3, <2>2
  <2>4. QED
    BY <1>2, <2>1, <2>3
<1>4. ASSUME NEW at \in Pos
      PROVE  Served(compat, order, at[1], at[2]) <=> Step(fun, at)
  <2>1. CASE at[1] > L
    <3>1. at[1]..L = {} /\ at[2] \in [D -> Nat]
      BY <1>2, <2>1
    <3> DEFINE none == [i \in {} |-> 0]
    <3>2. none \in [at[1]..L -> DOMAIN at[2]]
      BY <3>1
    <3>3. \A c \in DOMAIN at[2] : {i \in at[1]..L : none[i] = c} = {} /\ 0 <= at[2][c]
      BY <3>1
    <3>4. Served(compat, order, at[1], at[2])
      BY <3>1, <3>2, <3>3, FS_EmptySet DEF Served
    <3>5. QED
      BY <2>1, <3>4
  <2>2. CASE at[1] <= L
    <3>1. at[1] \in 1..L /\ at[2] \in [D -> Nat]
      BY <1>2, <2>2
    <3>2. \A c \in compat[order[at[1]]] : at[2][c] > 0 =>
            (fun[<<at[1] + 1, [at[2] EXCEPT ![c] = @ - 1]>>]
               <=> Served(compat, order, at[1] + 1, [at[2] EXCEPT ![c] = @ - 1]))
      <4> SUFFICES ASSUME NEW c \in compat[order[at[1]]], at[2][c] > 0
                   PROVE  fun[<<at[1] + 1, [at[2] EXCEPT ![c] = @ - 1]>>]
                            <=> Served(compat, order, at[1] + 1, [at[2] EXCEPT ![c] = @ - 1])
        OBVIOUS
      <4> DEFINE to == <<at[1] + 1, [at[2] EXCEPT ![c] = @ - 1]>>
      <4>1. to \in Pos
        BY <1>3, <2>2
      <4> HIDE DEF Pos
      <4>2. fun[to] <=> Served(compat, order, to[1], to[2])
        BY <4>1
      <4>3. QED
        BY <4>2
    <3>3. Served(compat, order, at[1], at[2]) <=>
            \E c \in compat[order[at[1]]] :
              at[2][c] > 0 /\ Served(compat, order, at[1] + 1, [at[2] EXCEPT ![c] = @ - 1])
      BY <3>1, ServedStep
    <3> HIDE DEF fun
    <3>4. ~(at[1] > L)
      BY <1>2, <3>1
    <3>5. Step(fun, at) <=>
            \E c \in compat[order[at[1]]] :
              at[2][c] > 0 /\ fun[<<at[1] + 1, [at[2] EXCEPT ![c] = @ - 1]>>]
      BY <3>4, Zenon
    <3> HIDE DEF Step
    <3>6. QED
      BY <3>2, <3>3, <3>5, Zenon
  <2>3. at[1] \in Nat
    BY <1>2
  <2> HIDE DEF Step, Pos, fun
  <2>4. QED
    BY <1>2, <2>1, <2>2, <2>3
<1> HIDE DEF dfs, Pos, fun
<1>5. \A at \in Pos : fun[at] <=> Served(compat, order, at[1], at[2])
  BY DEF fun
<1>6. fun = [at \in Pos |-> Step(fun, at)]
  <2>1. \A at \in Pos : (IF Served(compat, order, at[1], at[2]) THEN TRUE ELSE FALSE)
                          = Step(fun, at)
    BY <1>4
  <2>2. QED
    BY <2>1 DEF fun
<1>7. dfs = [at \in Pos |-> Step(dfs, at)]
  BY <1>6, Zenon DEF dfs
<1>8. \A at \in Pos : (dfs[at] <=> Step(dfs, at)) /\ (fun[at] <=> Step(fun, at))
  BY <1>4, <1>5, <1>7
<1>9. ASSUME NEW at \in Pos, ~ (dfs[at] <=> fun[at])
      PROVE  FALSE
  <2> DEFINE calls == {L + 1 - x[1] : x \in {y \in Pos : ~ (dfs[y] <=> fun[y])}}
  <2>1. \A x \in Pos : x[1] \in Nat /\ L + 1 - x[1] \in Nat
    BY <1>2 DEF Pos
  <2>2. calls \subseteq Nat /\ calls # {}
    BY <1>9, <2>1
  <2> HIDE DEF calls
  <2>3. PICK n \in calls : \A m \in calls : n <= m
    BY <2>2, LeastNatural, Zenon
  <2>4. PICK x \in Pos : ~ (dfs[x] <=> fun[x]) /\ L + 1 - x[1] = n
    BY <2>3 DEF calls
  <2>5. CASE x[1] > L
    BY <1>8, <2>4, <2>5
  <2>6. CASE x[1] <= L
    <3>1. ASSUME NEW c \in compat[order[x[1]]], x[2][c] > 0
          PROVE  dfs[<<x[1] + 1, [x[2] EXCEPT ![c] = @ - 1]>>]
                   <=> fun[<<x[1] + 1, [x[2] EXCEPT ![c] = @ - 1]>>]
      <4> DEFINE to == <<x[1] + 1, [x[2] EXCEPT ![c] = @ - 1]>>
      <4>1. to \in Pos /\ to[1] = x[1] + 1
        BY <1>3, <2>4, <2>6, <3>1
      <4> HIDE DEF to
      <4>2. L + 1 - to[1] < n
        BY <1>2, <2>1, <2>4, <4>1
      <4>3. L + 1 - to[1] \notin calls
        BY <2>1, <2>2, <2>3, <4>1, <4>2
      <4>4. dfs[to] <=> fun[to]
        BY <4>1, <4>3 DEF calls
      <4>5. QED
        BY <4>4 DEF to
    <3>2. Step(dfs, x) <=> Step(fun, x)
      BY <3>1, Zenon
    <3>3. QED
      BY <1>8, <2>4, <3>2
  <2>7. QED
    BY <1>2, <2>1, <2>4, <2>5, <2>6
<1>10. <<1, remaining>> \in Pos
  BY <1>2 DEF Pos
<1>11. QED
  BY <1>1, <1>5, <1>9, <1>10

\* Those that use a type.
Users(I, type, c) == {i \in I : type[i] = c}

\* What is left suffices if each takes a type it is compatible with.
Suffices(I, compat, left) ==
  \E type \in [I -> DOMAIN left] :
    /\ \A i \in I : type[i] \in compat[i]
    /\ \A c \in DOMAIN left : Cardinality(Users(I, type, c)) <= left[c]

\* A rearrangement changes no count.
LEMMA SameUsers ==
  ASSUME NEW I, NEW J, IsFiniteSet(I), NEW order \in Bijection(I, J),
         NEW type, NEW t, \A i \in I : t[i] = type[order[i]], NEW c
  PROVE  Cardinality(Users(I, t, c)) = Cardinality(Users(J, type, c))
<1> DEFINE A == Users(I, t, c)
           B == Users(J, type, c)
           f == [i \in A |-> order[i]]
<1>1. /\ order \in [I -> J]
      /\ \A a, b \in I : order[a] = order[b] => a = b
      /\ \A j \in J : \E i \in I : order[i] = j
  BY Fun_BijectionProperties
<1>2. f \in [A -> B]
  BY <1>1 DEF Users
<1>3. \A a, b \in A : f[a] = f[b] => a = b
  BY <1>1 DEF Users
<1>4. \A b \in B : \E a \in A : f[a] = b
  BY <1>1 DEF Users
<1> HIDE DEF f
<1>5. f \in Bijection(A, B)
  BY <1>2, <1>3, <1>4, Fun_IsBij
<1>6. A \in SUBSET I
  BY DEF Users
<1> HIDE DEF A, B
<1>7. IsFiniteSet(A) /\ ExistsBijection(A, B)
  BY <1>5, <1>6, FS_Subset, Fun_ExistsBij
<1>8. QED
  BY <1>7, FS_Bijection DEF A, B

\* What the reads of a search make of a hotel's rooms, and a split of a party.
CandidatesOK(candidates) ==
  /\ IsFiniteSet(DOMAIN candidates)
  /\ \A c \in DOMAIN candidates : /\ candidates[c].available \in Nat
                                  /\ candidates[c].maxAdult \in Nat
                                  /\ candidates[c].maxChild \in Nat
                                  /\ candidates[c].maxOccupancy \in Nat
RequestsOK(requests) ==
  \E n \in Nat : DOMAIN requests = 1..n

\* Requests served in some order are requests served: the types in the order
\* belong to types of the requests.
LEMMA Rearranged ==
  ASSUME NEW D, NEW I, IsFiniteSet(I), NEW compat \in [I -> SUBSET D],
         NEW order \in Bijection(I, I), NEW left \in [D -> Nat]
  PROVE  Suffices(I, [i \in I |-> compat[order[i]]], left) <=> Suffices(I, compat, left)
<1>1. /\ order \in [I -> I]
      /\ \A a, b \in I : order[a] = order[b] => a = b
      /\ \A j \in I : \E i \in I : order[i] = j
  BY Fun_BijectionProperties
<1>2. \A type, t : (\A i \in I : t[i] = type[order[i]])
        => \A c : Cardinality(Users(I, t, c)) = Cardinality(Users(I, type, c))
  BY SameUsers
<1>3. ASSUME NEW type \in [I -> D],
             \A i \in I : type[i] \in compat[i],
             \A c \in D : Cardinality(Users(I, type, c)) <= left[c]
      PROVE  \E t \in [I -> D] :
               /\ \A i \in I : t[i] \in compat[order[i]]
               /\ \A c \in D : Cardinality(Users(I, t, c)) <= left[c]
  <2> DEFINE t == [i \in I |-> type[order[i]]]
  <2>1. /\ t \in [I -> D]
        /\ \A i \in I : t[i] \in compat[order[i]]
        /\ \A i \in I : t[i] = type[order[i]]
    BY <1>1, <1>3
  <2> HIDE DEF t
  <2>2. \A c \in D : Cardinality(Users(I, t, c)) <= left[c]
    BY <1>2, <1>3, <2>1
  <2>3. QED
    BY <2>1, <2>2
<1>4. ASSUME NEW t \in [I -> D],
             \A i \in I : t[i] \in compat[order[i]],
             \A c \in D : Cardinality(Users(I, t, c)) <= left[c]
      PROVE  \E type \in [I -> D] :
               /\ \A i \in I : type[i] \in compat[i]
               /\ \A c \in D : Cardinality(Users(I, type, c)) <= left[c]
  <2> DEFINE place(j) == CHOOSE i \in I : order[i] = j
             type     == [j \in I |-> t[place(j)]]
  <2>1. \A j \in I : place(j) \in I /\ order[place(j)] = j
    BY <1>1
  <2>2. \A i \in I : place(order[i]) = i
    BY <1>1, <2>1
  <2> HIDE DEF place
  <2>3. type \in [I -> D] /\ \A j \in I : type[j] \in compat[j]
    BY <1>4, <2>1
  <2>4. \A i \in I : t[i] = type[order[i]]
    BY <1>1, <2>2
  <2> HIDE DEF type
  <2>5. \A c \in D : Cardinality(Users(I, type, c)) <= left[c]
    BY <1>2, <1>4, <2>4
  <2>6. QED
    BY <2>3, <2>5
<1>5. DOMAIN left = D
  OBVIOUS
<1>6. Suffices(I, [i \in I |-> compat[order[i]]], left) =>  Suffices(I, compat, left)
  BY <1>4, <1>5 DEF Suffices
<1>7. Suffices(I, compat, left) => Suffices(I, [i \in I |-> compat[order[i]]], left)
  BY <1>3, <1>5 DEF Suffices
<1>8. QED
  BY <1>6, <1>7

\* Assignable, in these terms.
LEMMA AssignableUsers ==
  ASSUME NEW candidates, NEW requests
  PROVE  Assignable(candidates, requests) <=>
           /\ \A i \in DOMAIN requests : ~UnaccompaniedChildren(requests[i])
           /\ \E type \in [DOMAIN requests -> DOMAIN candidates] :
                /\ \A i \in DOMAIN requests : CandidateCanFit(candidates[type[i]], requests[i])
                /\ \A c \in DOMAIN candidates :
                     Cardinality(Users(DOMAIN requests, type, c)) <= candidates[c].available
BY Zenon DEF Assignable, Users

\* The greedy order and the backtracking find an assignment exactly if there is one.
THEOREM AllocationIsAssignment ==
  ASSUME NEW candidates, CandidatesOK(candidates), NEW requests, RequestsOK(requests)
  PROVE  CanAllocateRequestedRooms(candidates, requests) <=> Assignable(candidates, requests)
<1> DEFINE D      == DOMAIN candidates
           compat == Compatible(candidates, requests)
           I      == DOMAIN requests
           before == {p \in (DOMAIN requests) \X (DOMAIN requests) :
                        \/ Cardinality(compat[p[1]]) < Cardinality(compat[p[2]])
                        \/ Cardinality(compat[p[1]]) = Cardinality(compat[p[2]]) /\ p[1] < p[2]}
           left   == [c \in D |-> candidates[c].available]
           order  == Ordered(DOMAIN requests, before)
<1>1. PICK n \in Nat : I = 1..n
  BY DEF RequestsOK
<1>2. compat \in [I -> SUBSET D] /\ left \in [D -> Nat]
  BY <1>1 DEF Compatible, CandidatesOK
<1>3. IsFiniteSet(I) /\ Cardinality(I) = n
  BY <1>1, FS_Interval
<1>4. \A i \in I : Cardinality(compat[i]) \in Nat
  BY <1>2, FS_Subset, FS_CardinalityType DEF CandidatesOK
<1>5. IsStrictOrder(before, I)
  <2> DEFINE size == [i \in I |-> Cardinality(compat[i])]
  <2> HIDE DEF compat
  <2>1. size \in [I -> Nat]
    BY <1>4
  <2>2. before = {p \in I \X I :
                    \/ size[p[1]] < size[p[2]]
                    \/ size[p[1]] = size[p[2]] /\ p[1] < p[2]}
    BY <1>1
  <2> HIDE DEF size, before
  <2>3. \A x, y \in I : <<x, y>> \in before <=>
            \/ size[x] < size[y]
            \/ size[x] = size[y] /\ x < y
    BY <2>2
  <2>4. QED
    BY <1>1, <2>1, <2>3 DEF IsStrictOrder
<1> HIDE DEF before
<1>6. order \in Bijection(I, I)
  BY <1>1, <1>3, <1>5, OrderedBijection
<1>7. order \in Seq(I) /\ 1..Len(order) = I
  <2>1. order \in [I -> I]
    BY <1>6, Fun_BijectionProperties
  <2>2. order \in [1..n -> 1..n]
    BY <1>1, <2>1
  <2> HIDE DEF order, I
  <2>3. order \in Seq(1..n) /\ Len(order) = n
    BY <2>2
  <2>4. QED
    BY <1>1, <2>3
<1>8. CanAllocateRequestedRooms(candidates, requests) <=>
        /\ \A i \in I : ~UnaccompaniedChildren(requests[i])
        /\ \A i \in I : compat[i] # {}
        /\ Backtrack(compat, order, left)
  BY DEF CanAllocateRequestedRooms, before
<1> HIDE DEF order, left
<1>9. Backtrack(compat, order, left) <=>
        \E type \in [I -> D] :
          /\ \A i \in I : type[i] \in compat[i]
          /\ \A c \in D : Cardinality(Users(I, type, c)) <= left[c]
  <2> HIDE DEF compat, I, D
  <2>1. Backtrack(compat, order, left) <=> Served(compat, order, 1, left)
    BY <1>2, <1>7, BacktrackServes
  <2>2. Served(compat, order, 1, left)
          <=> Suffices(I, [i \in I |-> compat[order[i]]], left)
    BY <1>7, Zenon DEF Served, Suffices, Users
  <2>3. Suffices(I, [i \in I |-> compat[order[i]]], left) <=> Suffices(I, compat, left)
    BY <1>2, <1>3, <1>6, Rearranged
  <2>4. DOMAIN left = D
    BY <1>2
  <2>5. QED
    BY <2>1, <2>2, <2>3, <2>4, Zenon DEF Suffices
<1>10. ASSUME NEW type \in [I -> D],
              \A i \in I : CandidateCanFit(candidates[type[i]], requests[i]),
              \A c \in D : Cardinality(Users(I, type, c)) <= candidates[c].available
       PROVE  \A i \in I : type[i] \in compat[i]
  <2> SUFFICES ASSUME NEW i \in I
               PROVE  candidates[type[i]].available > 0
    BY <1>1, <1>10 DEF Compatible
  <2> DEFINE users == Users(I, type, type[i])
  <2>1. users \in SUBSET I /\ i \in users
    BY DEF Users
  <2>2. Cardinality(users) \in Nat /\ Cardinality(users) # 0
    <3> HIDE DEF users
    <3>1. QED
      BY <1>3, <2>1, FS_Subset, FS_CardinalityType, FS_EmptySet
  <2>3. QED
    BY <1>10, <2>2 DEF CandidatesOK
<1>11. \A i \in I : \A c \in compat[i] : c \in D /\ CandidateCanFit(candidates[c], requests[i])
  BY <1>1 DEF Compatible
<1>12. \A c \in D : left[c] = candidates[c].available
  BY DEF left
<1> HIDE DEF compat
<1>13. ASSUME Assignable(candidates, requests)
       PROVE  CanAllocateRequestedRooms(candidates, requests)
  <2>1. PICK type \in [I -> D] :
               /\ \A i \in I : CandidateCanFit(candidates[type[i]], requests[i])
               /\ \A c \in D : Cardinality(Users(I, type, c)) <= candidates[c].available
    BY <1>13, AssignableUsers
  <2>2. \A i \in I : type[i] \in compat[i]
    BY <1>10, <2>1
  <2>3. Backtrack(compat, order, left)
    BY <1>9, <1>12, <2>1, <2>2
  <2>4. QED
    BY <1>8, <1>13, <2>2, <2>3, AssignableUsers
<1>14. ASSUME CanAllocateRequestedRooms(candidates, requests)
       PROVE  Assignable(candidates, requests)
  <2>1. PICK type \in [I -> D] :
               /\ \A i \in I : type[i] \in compat[i]
               /\ \A c \in D : Cardinality(Users(I, type, c)) <= left[c]
    BY <1>8, <1>9, <1>14
  <2>2. QED
    BY <1>8, <1>11, <1>12, <1>14, <2>1, AssignableUsers
<1>15. QED
  BY <1>13, <1>14

(***************************************************************************)
(* More on sums.                                                           *)
(***************************************************************************)
\* Tagged copies are as many.
LEMMA Tagged ==
  ASSUME NEW A, IsFiniteSet(A), NEW tag
  PROVE  IsFiniteSet({tag} \X A) /\ Cardinality({tag} \X A) = Cardinality(A)
<1>1. IsFiniteSet({tag}) /\ Cardinality({tag}) = 1
  BY FS_Singleton
<1>2. Cardinality({tag} \X A) = 1 * Cardinality(A) /\ IsFiniteSet({tag} \X A)
  BY <1>1, FS_Product
<1>3. Cardinality(A) \in Nat
  BY FS_CardinalityType
<1>4. QED
  BY <1>2, <1>3

\* A number of tokens.
LEMMA Tokens ==
  ASSUME NEW n \in Nat
  PROVE  IsFiniteSet(1..n) /\ Cardinality(1..n) = n
BY FS_Interval

\* A sum counts tokens of so many colours.
Coloured(g) == [c \in DOMAIN g |-> {c} \X (1..g[c])]

LEMMA SumOfTokens ==
  ASSUME NEW S, IsFiniteSet(S), NEW g \in [S -> Nat]
  PROVE  /\ SumFunction(g) = Cardinality(Pool(Coloured(g), S))
         /\ IsFiniteSet(Pool(Coloured(g), S))
         /\ SumFunction(g) \in Nat
<1>1. \A c \in S : Coloured(g)[c] = {c} \X (1..g[c])
  BY DEF Coloured
<1>2. \A c \in S : IsFiniteSet(Coloured(g)[c]) /\ Cardinality(Coloured(g)[c]) = g[c]
  <2> SUFFICES ASSUME NEW c \in S
               PROVE  IsFiniteSet(Coloured(g)[c]) /\ Cardinality(Coloured(g)[c]) = g[c]
    OBVIOUS
  <2>1. g[c] \in Nat
    OBVIOUS
  <2>2. IsFiniteSet(1..g[c]) /\ Cardinality(1..g[c]) = g[c]
    BY <2>1, Tokens
  <2>3. IsFiniteSet({c} \X (1..g[c])) /\ Cardinality({c} \X (1..g[c])) = g[c]
    BY <2>2, Tagged
  <2>4. QED
    BY <1>1, <2>3
<1>3. \A c, d \in S : c # d => Coloured(g)[c] \intersect Coloured(g)[d] = {}
  BY <1>1
<1>4. /\ SumFunction(g) = Cardinality(Pool(Coloured(g), S))
      /\ IsFiniteSet(Pool(Coloured(g), S))
  BY <1>2, <1>3, SumIsCardinality
<1>5. QED
  BY <1>4, FS_CardinalityType

\* Smaller summands, smaller sum.
LEMMA SumMonotone ==
  ASSUME NEW S, IsFiniteSet(S), NEW g \in [S -> Nat], NEW h \in [S -> Nat],
         \A c \in S : g[c] <= h[c]
  PROVE  SumFunction(g) <= SumFunction(h)
<1> DEFINE G == Pool(Coloured(g), S)
           H == Pool(Coloured(h), S)
<1>1. G \in SUBSET H
  <2>1. \A c \in S : 1..g[c] \subseteq 1..h[c]
    OBVIOUS
  <2>2. \A x \in G : \E c \in S : x \in {c} \X (1..g[c])
    BY DEF Pool, Coloured
  <2>3. \A c \in S : \A x \in {c} \X (1..h[c]) : x \in H
    BY DEF Pool, Coloured
  <2> HIDE DEF G, H
  <2>4. QED
    BY <2>1, <2>2, <2>3
<1>2. /\ SumFunction(g) = Cardinality(G)
      /\ SumFunction(h) = Cardinality(H) /\ IsFiniteSet(H)
  BY SumOfTokens
<1> HIDE DEF G, H
<1>3. QED
  BY <1>1, <1>2, FS_Subset

\* A sum is at most the number of summands times the largest.
LEMMA SumBound ==
  ASSUME NEW S, IsFiniteSet(S), NEW g \in [S -> Nat], NEW m \in Nat,
         \A c \in S : g[c] <= m
  PROVE  SumFunction(g) <= Cardinality(S) * m
<1> DEFINE G == Pool(Coloured(g), S)
           H == S \X (1..m)
<1>1. G \in SUBSET H
  <2>1. \A c \in S : 1..g[c] \subseteq 1..m
    OBVIOUS
  <2>2. \A x \in G : \E c \in S : x \in {c} \X (1..g[c])
    BY DEF Pool, Coloured
  <2> HIDE DEF G
  <2>3. QED
    BY <2>1, <2>2
<1>2. SumFunction(g) = Cardinality(G)
  BY SumOfTokens
<1>3. IsFiniteSet(H) /\ Cardinality(H) = Cardinality(S) * m
  <2>1. IsFiniteSet(1..m) /\ Cardinality(1..m) = m
    BY Tokens
  <2>2. QED
    BY <2>1, FS_Product
<1> HIDE DEF G, H
<1>4. QED
  BY <1>1, <1>2, <1>3, FS_Subset

\* Two sets side by side.
Beside(X, Y) == ({0} \X X) \union ({1} \X Y)

LEMMA BesideCardinality ==
  ASSUME NEW X, NEW Y, IsFiniteSet(X), IsFiniteSet(Y)
  PROVE  /\ IsFiniteSet(Beside(X, Y))
         /\ Cardinality(Beside(X, Y)) = Cardinality(X) + Cardinality(Y)
<1>1. ({0} \X X) \intersect ({1} \X Y) = {}
  OBVIOUS
<1>2. /\ IsFiniteSet({0} \X X) /\ Cardinality({0} \X X) = Cardinality(X)
      /\ IsFiniteSet({1} \X Y) /\ Cardinality({1} \X Y) = Cardinality(Y)
  BY Tagged
<1>3. QED
  BY <1>1, <1>2, DisjointUnion DEF Beside

\* The sum of sums.
LEMMA SumOfSums ==
  ASSUME NEW S, IsFiniteSet(S), NEW g \in [S -> Nat], NEW h \in [S -> Nat],
         NEW sum \in [S -> Nat], \A c \in S : sum[c] = g[c] + h[c]
  PROVE  SumFunction(sum) = SumFunction(g) + SumFunction(h)
<1> DEFINE G   == Coloured(g)
           H   == Coloured(h)
           F   == [c \in S |-> Beside(G[c], H[c])]
           A   == Pool(G, S)
           B   == Pool(H, S)
<1>1. \A c \in S : F[c] = Beside(G[c], H[c])
  OBVIOUS
<1>2. Pool(F, S) = Beside(A, B)
  <2>1. \A x : x \in Pool(F, S) <=> \E c \in S : x \in Beside(G[c], H[c])
    BY <1>1 DEF Pool
  <2> HIDE DEF F, G, H
  <2>2. \A x : x \in Beside(A, B) <=> \E c \in S : x \in Beside(G[c], H[c])
    BY DEF Beside, Pool
  <2>3. QED
    BY <2>1, <2>2
<1>3. \A c, d \in S : c # d => F[c] \intersect F[d] = {}
  BY <1>1 DEF Beside, Coloured
<1>4. SumFunction(g) = Cardinality(A) /\ IsFiniteSet(A)
  BY SumOfTokens
<1>5. SumFunction(h) = Cardinality(B) /\ IsFiniteSet(B)
  BY SumOfTokens
<1>6. ASSUME NEW c \in S
      PROVE  IsFiniteSet(F[c]) /\ Cardinality(F[c]) = sum[c]
  <2>1. g[c] \in Nat /\ h[c] \in Nat
    OBVIOUS
  <2>2. /\ IsFiniteSet(1..g[c]) /\ Cardinality(1..g[c]) = g[c]
        /\ IsFiniteSet(1..h[c]) /\ Cardinality(1..h[c]) = h[c]
    BY <2>1, Tokens
  <2>3. /\ IsFiniteSet({c} \X (1..g[c])) /\ Cardinality({c} \X (1..g[c])) = g[c]
        /\ IsFiniteSet({c} \X (1..h[c])) /\ Cardinality({c} \X (1..h[c])) = h[c]
    BY <2>2, Tagged
  <2>4. /\ IsFiniteSet(G[c]) /\ Cardinality(G[c]) = g[c]
        /\ IsFiniteSet(H[c]) /\ Cardinality(H[c]) = h[c]
    BY <2>3 DEF Coloured
  <2> HIDE DEF G, H, F
  <2>5. QED
    BY <1>1, <2>4, BesideCardinality
<1> HIDE DEF G, H, F, A, B
<1>7. SumFunction(sum) = Cardinality(Pool(F, S))
  BY <1>3, <1>6, SumIsCardinality
<1>8. QED
  BY <1>2, <1>4, <1>5, <1>7, BesideCardinality

\* Everybody uses one type.
UserCounts(I, type, D) == [c \in D |-> Cardinality(Users(I, type, c))]

LEMMA SumOfUsers ==
  ASSUME NEW I, IsFiniteSet(I), NEW D, IsFiniteSet(D), NEW type \in [I -> D]
  PROVE  /\ UserCounts(I, type, D) \in [D -> Nat]
         /\ SumFunction(UserCounts(I, type, D)) = Cardinality(I)
<1> DEFINE F == [c \in D |-> Users(I, type, c)]
           g == UserCounts(I, type, D)
<1>1. \A c \in D : Users(I, type, c) \in SUBSET I
  BY DEF Users
<1>2. \A c \in D : IsFiniteSet(Users(I, type, c)) /\ Cardinality(Users(I, type, c)) \in Nat
  BY <1>1, FS_Subset, FS_CardinalityType
<1>3. g \in [D -> Nat] /\ \A c \in D : IsFiniteSet(F[c]) /\ Cardinality(F[c]) = g[c]
  BY <1>2 DEF UserCounts
<1>4. \A c, d \in D : c # d => F[c] \intersect F[d] = {}
  BY DEF Users
<1>5. Pool(F, D) = I
  BY DEF Users, Pool
<1> HIDE DEF F, g
<1>6. SumFunction(g) = Cardinality(Pool(F, D))
  BY <1>3, <1>4, SumIsCardinality
<1>7. QED
  BY <1>3, <1>5, <1>6 DEF g

\* No summand is more than the sum.
LEMMA SumAtLeast ==
  ASSUME NEW S, IsFiniteSet(S), NEW g \in [S -> Nat], NEW c \in S
  PROVE  g[c] <= SumFunction(g)
<1> DEFINE G == Pool(Coloured(g), S)
           T == {c} \X (1..g[c])
<1>1. T \in SUBSET G
  BY DEF Pool, Coloured
<1>2. IsFiniteSet(1..g[c]) /\ Cardinality(1..g[c]) = g[c]
  <2>1. g[c] \in Nat
    OBVIOUS
  <2>2. QED
    BY <2>1, Tokens
<1>3. Cardinality(T) = g[c]
  BY <1>2, Tagged
<1>4. SumFunction(g) = Cardinality(G) /\ IsFiniteSet(G)
  BY SumOfTokens
<1> HIDE DEF G, T
<1>5. QED
  BY <1>1, <1>3, <1>4, FS_Subset

(***************************************************************************)
(* The split of a party.                                                   *)
(***************************************************************************)
PartyOK(party) == party.adults \in Nat /\ party.ages \in Seq(Int)

\* Everybody is dealt to one room.
LEMMA DealtOnce ==
  ASSUME NEW n \in Nat, NEW roomCount \in Nat \ {0}
  PROVE  /\ \A i \in 1..n : \E room \in 1..roomCount : i \in Dealt(n, roomCount, room)
         /\ \A room \in 1..roomCount : Dealt(n, roomCount, room) \subseteq 1..n
         /\ \A room, other : \A i \in Dealt(n, roomCount, room) \intersect Dealt(n, roomCount, other) :
              room - 1 = other - 1
<1>1. \A i \in 1..n : (i - 1) % roomCount \in 0..(roomCount - 1)
  OBVIOUS
<1>2. ASSUME NEW i \in 1..n
      PROVE  \E room \in 1..roomCount : i \in Dealt(n, roomCount, room)
  <2> DEFINE room == ((i - 1) % roomCount) + 1
  <2>1. room \in 1..roomCount /\ (i - 1) % roomCount = room - 1
    BY <1>1
  <2> HIDE DEF room
  <2>2. QED
    BY <2>1 DEF Dealt
<1>3. QED
  BY <1>2 DEF Dealt

\* How many of some are dealt to each room.
DealtCount(n, roomCount, A) ==
  [room \in 1..roomCount |-> Cardinality(Dealt(n, roomCount, room) \intersect A)]

\* Counting any of them room by room counts them all.
LEMMA DealtSum ==
  ASSUME NEW n \in Nat, NEW roomCount \in Nat \ {0}, NEW A \in SUBSET (1..n),
         NEW R, R = 1..roomCount
  PROVE  /\ Cardinality(A) \in Nat
         /\ DealtCount(n, roomCount, A) \in [R -> Nat]
         /\ SumFunction(DealtCount(n, roomCount, A)) = Cardinality(A)
<1> DEFINE F == [room \in R |-> Dealt(n, roomCount, room) \intersect A]
           g == DealtCount(n, roomCount, A)
<1>1. IsFiniteSet(R) /\ IsFiniteSet(1..n)
  BY FS_Interval
<1>2. IsFiniteSet(A)
  BY <1>1, FS_Subset
<1>3. \A room \in R : IsFiniteSet(Dealt(n, roomCount, room) \intersect A)
  BY <1>2, FS_Intersection
<1>4. \A room \in R : Cardinality(Dealt(n, roomCount, room) \intersect A) \in Nat
  BY <1>3, FS_CardinalityType
<1>5. /\ g \in [R -> Nat]
      /\ \A c \in R : IsFiniteSet(F[c]) /\ Cardinality(F[c]) = g[c]
      /\ \A c \in R : F[c] = Dealt(n, roomCount, c) \intersect A
  BY <1>3, <1>4 DEF DealtCount
<1> HIDE DEF F, g
<1>6. \A c, d \in R : c # d => F[c] \intersect F[d] = {}
  <2> SUFFICES ASSUME NEW c \in R, NEW d \in R, NEW x \in F[c] \intersect F[d]
               PROVE  c = d
    BY Zenon
  <2>1. x \in Dealt(n, roomCount, c) \intersect Dealt(n, roomCount, d)
    BY <1>5
  <2>2. c - 1 = d - 1
    BY <2>1, DealtOnce, Zenon
  <2>3. QED
    BY <2>2
<1>7. Pool(F, R) = A
  <2>1. \A i \in A : \E room \in R : i \in Dealt(n, roomCount, room)
    BY DealtOnce
  <2>2. \A x : x \in Pool(F, R) <=> \E c \in R : x \in Dealt(n, roomCount, c) \intersect A
    BY <1>5 DEF Pool
  <2>3. QED
    BY <2>1, <2>2
<1>8. SumFunction(g) = Cardinality(Pool(F, R))
  BY <1>1, <1>5, <1>6, SumIsCardinality
<1>9. QED
  BY <1>2, <1>5, <1>7, <1>8, FS_CardinalityType DEF g

\* The children who count as adults, and those who do not.
Grown(party)  == {i \in 1..Len(party.ages) : party.ages[i] > ChildMaxAge}
Little(party) == 1..Len(party.ages) \ Grown(party)

LEMMA SplitCounts ==
  ASSUME NEW party, PartyOK(party), NEW roomCount \in Nat \ {0}, NEW room \in 1..roomCount
  PROVE  SplitGuestsAcrossRooms(roomCount, party)[room] =
           [adults   |-> DealtCount(party.adults, roomCount, 1..party.adults)[room]
                         + DealtCount(Len(party.ages), roomCount, Grown(party))[room],
            children |-> DealtCount(Len(party.ages), roomCount, Little(party))[room]]
<1> DEFINE a == Dealt(party.adults, roomCount, room)
           d == Dealt(Len(party.ages), roomCount, room)
           older == {i \in d : party.ages[i] > ChildMaxAge}
<1>1. a = a \intersect 1..party.adults
  BY DEF Dealt
<1>2. older = d \intersect Grown(party) /\ d \ older = d \intersect Little(party)
  BY DEF Dealt, Grown, Little
<1>3. SplitGuestsAcrossRooms(roomCount, party)[room] =
        [adults |-> Cardinality(a) + Cardinality(older), children |-> Cardinality(d \ older)]
  BY DEF SplitGuestsAcrossRooms, NormalizeGuest
<1> HIDE DEF older
<1>4. /\ DealtCount(party.adults, roomCount, 1..party.adults)[room] = Cardinality(a)
      /\ DealtCount(Len(party.ages), roomCount, Grown(party))[room] = Cardinality(older)
      /\ DealtCount(Len(party.ages), roomCount, Little(party))[room] = Cardinality(d \ older)
  <2> HIDE DEF a, d
  <2>1. QED
    BY <1>1, <1>2 DEF DealtCount, a, d
<1>5. QED
  BY <1>3, <1>4

\* The split of a party puts everybody somewhere.
SplitAdults(roomCount, party) ==
  [room \in 1..roomCount |-> SplitGuestsAcrossRooms(roomCount, party)[room].adults]
SplitChildren(roomCount, party) ==
  [room \in 1..roomCount |-> SplitGuestsAcrossRooms(roomCount, party)[room].children]

LEMMA SplitSums ==
  ASSUME NEW party, PartyOK(party), NEW roomCount \in Nat \ {0}
  PROVE  LET R == 1..roomCount IN
         /\ NormalizeGuestCounts(party).adults \in Nat
         /\ NormalizeGuestCounts(party).adults >= party.adults
         /\ NormalizeGuestCounts(party).children \in Nat
         /\ DOMAIN SplitGuestsAcrossRooms(roomCount, party) = R
         /\ SplitAdults(roomCount, party) \in [R -> Nat]
         /\ SplitChildren(roomCount, party) \in [R -> Nat]
         /\ SumFunction(SplitAdults(roomCount, party)) = NormalizeGuestCounts(party).adults
         /\ SumFunction(SplitChildren(roomCount, party)) = NormalizeGuestCounts(party).children
         /\ SplitGuestsAcrossRooms(roomCount, party) =
              [room \in R |-> [adults   |-> SplitAdults(roomCount, party)[room],
                               children |-> SplitChildren(roomCount, party)[room]]]
<1> DEFINE split  == SplitGuestsAcrossRooms(roomCount, party)
           guests == NormalizeGuestCounts(party)
           R      == 1..roomCount
           n      == Len(party.ages)
           grown  == Grown(party)
           little == Little(party)
           base  == DealtCount(party.adults, roomCount, 1..party.adults)
           more == DealtCount(n, roomCount, grown)
           rest  == DealtCount(n, roomCount, little)
<1>1. /\ party.adults \in Nat /\ n \in Nat /\ DOMAIN party.ages = 1..n
      /\ grown \in SUBSET (1..n) /\ little \in SUBSET (1..n)
  BY DEF PartyOK, Grown, Little
<1>2. guests = [adults |-> party.adults + Cardinality(grown), children |-> Cardinality(little)]
  BY <1>1 DEF NormalizeGuestCounts, NormalizeGuest, Grown, Little
<1>3. DOMAIN split = R
  BY DEF SplitGuestsAcrossRooms
<1>4. \A room \in R : split[room] = [adults |-> base[room] + more[room], children |-> rest[room]]
  BY SplitCounts
<1>5. Cardinality(1..party.adults) = party.adults
  BY <1>1, Tokens
<1> HIDE DEF n, grown, little
<1>6. base \in [R -> Nat] /\ SumFunction(base) = party.adults
  BY <1>1, <1>5, DealtSum
<1>7. more \in [R -> Nat] /\ SumFunction(more) = Cardinality(grown) /\ Cardinality(grown) \in Nat
  BY <1>1, DealtSum
<1>8. rest \in [R -> Nat] /\ SumFunction(rest) = Cardinality(little) /\ Cardinality(little) \in Nat
  BY <1>1, DealtSum
<1> HIDE DEF base, more, rest, split
<1>9. /\ SplitAdults(roomCount, party) \in [R -> Nat]
      /\ \A room \in R : SplitAdults(roomCount, party)[room] = base[room] + more[room]
      /\ SplitChildren(roomCount, party) = rest
  <2>1. ASSUME NEW room \in R
        PROVE  /\ split[room].adults = base[room] + more[room]
               /\ split[room].children = rest[room]
    <3>1. split[room] = [adults |-> base[room] + more[room], children |-> rest[room]]
      BY <1>4, Zenon
    <3>2. QED
      BY <3>1
  <2>2. \A room \in R : base[room] + more[room] \in Nat
    BY <1>6, <1>7
  <2>3. /\ SplitAdults(roomCount, party) = [room \in R |-> split[room].adults]
        /\ SplitChildren(roomCount, party) = [room \in R |-> split[room].children]
    BY Zenon DEF SplitAdults, SplitChildren, split
  <2>4. QED
    BY <1>8, <2>1, <2>2, <2>3
<1>10. IsFiniteSet(R)
  BY FS_Interval
<1>11. SumFunction(SplitAdults(roomCount, party)) = SumFunction(base) + SumFunction(more)
  <2> HIDE DEF R
  <2>1. QED
    BY <1>6, <1>7, <1>9, <1>10, SumOfSums
<1>12. split = [room \in R |-> [adults   |-> SplitAdults(roomCount, party)[room],
                                children |-> SplitChildren(roomCount, party)[room]]]
  <2>1. split = [room \in R |-> split[room]]
    BY <1>3 DEF split, SplitGuestsAcrossRooms
  <2>2. \A room \in R : split[room] = [adults   |-> SplitAdults(roomCount, party)[room],
                                       children |-> SplitChildren(roomCount, party)[room]]
    BY <1>4, <1>9
  <2>3. QED
    BY <2>1, <2>2
<1>13. /\ guests.adults = party.adults + Cardinality(grown) /\ guests.adults \in Nat
       /\ guests.adults >= party.adults
       /\ guests.children = Cardinality(little) /\ guests.children \in Nat
  <2> HIDE DEF guests
  <2>1. QED
    BY <1>1, <1>2, <1>7, <1>8
<1>14. SumFunction(SplitAdults(roomCount, party)) = guests.adults
  BY <1>6, <1>7, <1>11, <1>13
<1>15. QED
  BY <1>3, <1>8, <1>9, <1>12, <1>13, <1>14, Zenon DEF split

\* If the split can be assigned, the party can be placed.
LEMMA SplitIsPlacement ==
  ASSUME NEW candidates, NEW party, PartyOK(party), NEW roomCount \in Nat \ {0},
         Assignable(candidates, SplitGuestsAcrossRooms(roomCount, party))
  PROVE  Placeable(candidates, roomCount, party)
<1> DEFINE guests   == NormalizeGuestCounts(party)
           R        == 1..roomCount
           adults   == SplitAdults(roomCount, party)
           children == SplitChildren(roomCount, party)
<1>1. /\ guests.adults \in Nat /\ guests.children \in Nat
      /\ adults \in [R -> Nat] /\ children \in [R -> Nat]
      /\ SumFunction(adults) = guests.adults /\ SumFunction(children) = guests.children
      /\ SplitGuestsAcrossRooms(roomCount, party) =
           [room \in R |-> [adults |-> adults[room], children |-> children[room]]]
  BY SplitSums
<1> HIDE DEF adults, children, guests
<1>2. ASSUME NEW n \in Nat, NEW s \in [R -> Nat], SumFunction(s) = n
      PROVE  s \in Spreads(n, roomCount)
  <2>1. IsFiniteSet(R)
    BY FS_Interval
  <2>2. ASSUME NEW room \in R
        PROVE  s[room] <= n
    BY <1>2, <2>1, SumAtLeast
  <2>3. s \in [R -> 0..n]
    BY <2>2
  <2>4. QED
    BY <1>2, <2>3 DEF Spreads
<1>3. adults \in Spreads(guests.adults, roomCount) /\ children \in Spreads(guests.children, roomCount)
  BY <1>1, <1>2
<1>4. Assignable(candidates, [room \in R |-> [adults |-> adults[room], children |-> children[room]]])
  BY <1>1
<1>5. QED
  BY <1>3, <1>4 DEF Placeable, guests

(***************************************************************************)
(* The number of rooms.                                                    *)
(***************************************************************************)
TotalAvailable(candidates) ==
  SumFunction([c \in DOMAIN candidates |-> candidates[c].available])

\* No more rooms can be assigned than there are.
LEMMA RoomsEnough ==
  ASSUME NEW candidates, CandidatesOK(candidates), NEW requests, NEW n \in Nat,
         DOMAIN requests = 1..n, Assignable(candidates, requests)
  PROVE  TotalAvailable(candidates) \in Nat /\ n <= TotalAvailable(candidates)
<1> DEFINE D     == DOMAIN candidates
           I     == DOMAIN requests
           avail == [c \in D |-> candidates[c].available]
<1>1. IsFiniteSet(D) /\ avail \in [D -> Nat] /\ \A c \in D : avail[c] = candidates[c].available
  BY DEF CandidatesOK
<1>2. IsFiniteSet(I) /\ Cardinality(I) = n
  BY Tokens
<1>3. PICK type \in [I -> D] :
        \A c \in D : Cardinality(Users(I, type, c)) <= candidates[c].available
  BY AssignableUsers
<1> DEFINE users == UserCounts(I, type, D)
<1>4. SumFunction(avail) = TotalAvailable(candidates)
  BY DEF TotalAvailable
<1> HIDE DEF avail, I
<1>5. users \in [D -> Nat] /\ SumFunction(users) = n
  BY <1>1, <1>2, SumOfUsers
<1>6. \A c \in D : users[c] <= avail[c]
  BY <1>1, <1>3 DEF UserCounts
<1> HIDE DEF users, D
<1>7. SumFunction(users) <= SumFunction(avail) /\ SumFunction(avail) \in Nat
  BY <1>1, <1>5, <1>6, SumMonotone, SumOfTokens
<1>8. QED
  BY <1>4, <1>5, <1>7

LEMMA TotalIsNatural ==
  ASSUME NEW candidates, CandidatesOK(candidates)
  PROVE  TotalAvailable(candidates) \in Nat
<1> DEFINE avail == [c \in DOMAIN candidates |-> candidates[c].available]
<1>1. IsFiniteSet(DOMAIN candidates) /\ avail \in [DOMAIN candidates -> Nat]
  BY DEF CandidatesOK
<1> HIDE DEF avail
<1>2. SumFunction(avail) \in Nat
  BY <1>1, SumOfTokens
<1>3. QED
  BY <1>2 DEF avail, TotalAvailable

\* The room count found is the first, from the one requested, whose split can be
\* assigned; 0 says that there is none, however many rooms one would take.
THEOREM MinimumIsFirst ==
  ASSUME NEW candidates, CandidatesOK(candidates), NEW party, PartyOK(party),
         NEW start \in Nat \ {0}
  PROVE  LET n       == MinimumRequiredRooms(candidates, start, party)
             fits(m) == Assignable(candidates, SplitGuestsAcrossRooms(m, party))
         IN  /\ n \in Nat
             /\ n # 0 => /\ n >= start /\ n <= TotalAvailable(candidates) /\ fits(n)
                         /\ \A less \in start..(n - 1) : ~fits(less)
             /\ n = 0 => \A m \in Nat : m >= start => ~fits(m)
<1> DEFINE total    == TotalAvailable(candidates)
           n        == MinimumRequiredRooms(candidates, start, party)
           fits(m)  == Assignable(candidates, SplitGuestsAcrossRooms(m, party))
           found(m) == CanAllocateRequestedRooms(candidates, SplitGuestsAcrossRooms(m, party))
           best     == CHOOSE m \in start..total :
                         found(m) /\ \A less \in start..(m - 1) : ~found(less)
<1>1. ASSUME NEW m \in Nat, m >= start
      PROVE  /\ DOMAIN SplitGuestsAcrossRooms(m, party) = 1..m
             /\ found(m) <=> fits(m)
             /\ fits(m) => m <= total
  <2>1. DOMAIN SplitGuestsAcrossRooms(m, party) = 1..m
    BY DEF SplitGuestsAcrossRooms
  <2>2. RequestsOK(SplitGuestsAcrossRooms(m, party))
    BY <2>1 DEF RequestsOK
  <2>3. QED
    BY <2>1, <2>2, AllocationIsAssignment, RoomsEnough
<1>2. total \in Nat
  BY TotalIsNatural
<1>3. n = IF \E m \in start..total : found(m) THEN best ELSE 0
  BY Zenon DEF MinimumRequiredRooms, TotalAvailable
<1>4. CASE \E m \in start..total : found(m)
  <2> DEFINE all == {m \in start..total : found(m)}
  <2>1. all \subseteq Nat /\ all # {}
    BY <1>2, <1>4
  <2>2. PICK m \in all : \A k \in all : m <= k
    BY <2>1, LeastNatural
  <2>3. ASSUME NEW less \in start..(m - 1)
        PROVE  ~found(less)
    <3>1. less \in start..total /\ less < m /\ less \in Nat /\ m \in Nat
      BY <1>2, <2>2, <2>3
    <3> HIDE DEF found
    <3>2. QED
      BY <2>2, <3>1
  <2>4. m \in start..total /\ found(m)
    BY <2>2
  <2> HIDE DEF found, all
  <2>5. best \in start..total /\ found(best) /\ \A less \in start..(best - 1) : ~found(less)
    BY <2>3, <2>4
  <2> HIDE DEF best
  <2>6. n = best
    BY <1>3, <1>4
  <2> HIDE DEF n
  <2>7. n \in Nat /\ n # 0 /\ n >= start /\ n <= total
    BY <1>2, <2>5, <2>6
  <2>8. \A less \in start..(n - 1) : less \in Nat /\ less >= start /\ ~found(less)
    BY <1>2, <2>5, <2>6
  <2>9. fits(n) /\ \A less \in start..(n - 1) : ~fits(less)
    BY <1>1, <2>5, <2>6, <2>7, <2>8
  <2>10. QED
    BY <2>7, <2>9 DEF n
<1>5. CASE ~ \E m \in start..total : found(m)
  <2>1. n = 0
    BY <1>3, <1>5
  <2>2. ASSUME NEW m \in Nat, m >= start, fits(m)
        PROVE  FALSE
    <3> HIDE DEF found, fits, total
    <3>1. found(m) /\ m <= total
      BY <1>1, <2>2
    <3>2. m \in start..total
      BY <1>2, <2>2, <3>1
    <3>3. QED
      BY <1>5, <3>1, <3>2
  <2>3. QED
    BY <2>1, <2>2
<1>6. QED
  BY <1>4, <1>5

(***************************************************************************)
(* The quantity of one type.                                               *)
(***************************************************************************)
LEMMA MaxOfFour ==
  ASSUME NEW a \in Nat, NEW b \in Nat, NEW c \in Nat, NEW d \in Nat
  PROVE  /\ Max({a, b, c, d}) \in Nat
         /\ \A m \in Nat : Max({a, b, c, d}) <= m <=> a <= m /\ b <= m /\ c <= m /\ d <= m
<1> DEFINE S == {a, b, c, d}
<1>1. \E x \in S : \A y \in S : x >= y
  OBVIOUS
<1> HIDE DEF S
<1>2. Max(S) \in S /\ \A y \in S : Max(S) >= y
  BY <1>1 DEF Max
<1>3. QED
  BY <1>2 DEF S

\* A type's quantity is the least number of rooms that has the beds, and 0 says
\* that it has too few rooms.  A party has an adult.
THEOREM QuantityIsLeastRoomy ==
  ASSUME NEW c, c.available \in Nat, c.maxAdult \in Nat, c.maxChild \in Nat, c.maxOccupancy \in Nat,
         NEW party, PartyOK(party), party.adults > 0, NEW requested \in Nat \ {0}
  PROVE  LET quantity == RequiredSingleRoomTypeQuantity(c, requested, party)
             enough == {n \in requested..c.available : Roomy(c, n, NormalizeGuestCounts(party))}
         IN  /\ quantity = IF enough = {} THEN 0 ELSE Min(enough)
             /\ enough # {} => quantity \in enough /\ \A n \in enough : quantity <= n
<1> DEFINE quantity == RequiredSingleRoomTypeQuantity(c, requested, party)
           guests   == NormalizeGuestCounts(party)
           enough   == {n \in requested..c.available : Roomy(c, n, guests)}
           a        == CeilDiv(guests.adults, c.maxAdult)
           b        == CeilDiv(guests.children, c.maxChild)
           o        == CeilDiv(guests.adults + guests.children, c.maxOccupancy)
           most     == Max({requested, a, b, o})
<1>1. guests.adults \in Nat /\ guests.children \in Nat /\ guests.adults > 0
  <2>1. 1 \in Nat \ {0} /\ party.adults \in Nat
    BY DEF PartyOK
  <2>2. guests.adults \in Nat /\ guests.adults >= party.adults /\ guests.children \in Nat
    BY <2>1, SplitSums
  <2>3. QED
    BY <2>1, <2>2
<1>2. quantity = IF CanHostNormalizedGuests(c, guests) /\ most <= c.available THEN most ELSE 0
  BY DEF RequiredSingleRoomTypeQuantity
<1> HIDE DEF quantity, guests
<1>3. enough \subseteq Nat
  OBVIOUS
<1>4. CASE ~CanHostNormalizedGuests(c, guests)
  <2>1. c.maxAdult = 0 \/ (guests.children > 0 /\ c.maxChild = 0) \/ c.maxOccupancy = 0
    BY <1>1, <1>4 DEF CanHostNormalizedGuests, UnaccompaniedChildren
  <2>2. ASSUME NEW n \in Nat
        PROVE  ~Roomy(c, n, guests)
    <3>1. n * 0 = 0
      OBVIOUS
    <3>2. QED
      BY <1>1, <2>1, <3>1 DEF Roomy
  <2>3. enough = {}
    BY <2>2
  <2>4. QED
    BY <1>2, <1>4, <2>3 DEF quantity, guests
<1>5. CASE CanHostNormalizedGuests(c, guests)
  <2>1. /\ c.maxAdult \in Nat \ {0} /\ c.maxOccupancy \in Nat \ {0}
        /\ guests.children > 0 => c.maxChild \in Nat \ {0}
    BY <1>1, <1>5 DEF CanHostNormalizedGuests
  <2>2. a \in Nat /\ \A n \in Nat : a <= n <=> guests.adults <= n * c.maxAdult
    BY <1>1, <2>1, CeilDivLeast
  <2>3. b \in Nat /\ \A n \in Nat : b <= n <=> guests.children <= n * c.maxChild
    <3>1. CASE guests.children > 0
      BY <1>1, <2>1, <3>1, CeilDivLeast
    <3>2. CASE guests.children = 0
      <4>1. b = 0
        BY <3>2 DEF CeilDiv
      <4>2. \A n \in Nat : n * c.maxChild \in Nat
        OBVIOUS
      <4> HIDE DEF b
      <4>3. QED
        BY <3>2, <4>1, <4>2
    <3>3. QED
      BY <1>1, <3>1, <3>2
  <2>4. o \in Nat /\ \A n \in Nat : o <= n <=> guests.adults + guests.children <= n * c.maxOccupancy
    <3>1. guests.adults + guests.children \in Nat
      BY <1>1
    <3>2. QED
      BY <2>1, <3>1, CeilDivLeast
  <2> HIDE DEF a, b, o
  <2>5. /\ most \in Nat
        /\ \A n \in Nat : most <= n <=> requested <= n /\ a <= n /\ b <= n /\ o <= n
    BY <2>2, <2>3, <2>4, MaxOfFour
  <2> HIDE DEF most
  <2>6. \A n \in Nat : n \in enough <=> most <= n /\ n <= c.available
    <3>1. \A n \in Nat : n \in enough <=> requested <= n /\ n <= c.available /\ Roomy(c, n, guests)
      OBVIOUS
    <3>2. \A n \in Nat : Roomy(c, n, guests) <=> a <= n /\ b <= n /\ o <= n
      BY <2>2, <2>3, <2>4 DEF Roomy
    <3> HIDE DEF enough
    <3>3. QED
      BY <2>5, <3>1, <3>2
  <2> HIDE DEF enough
  <2>7. CASE most <= c.available
    <3>1. most \in enough /\ \A n \in enough : most <= n
      BY <1>3, <2>5, <2>6, <2>7
    <3>2. Min(enough) \in enough /\ \A n \in enough : Min(enough) <= n
      BY <1>3, <3>1, MinOfNaturals
    <3>3. Min(enough) = most
      <4>1. Min(enough) \in Nat /\ Min(enough) <= most /\ most <= Min(enough)
        BY <1>3, <3>1, <3>2
      <4>2. QED
        BY <2>5, <4>1
    <3>4. quantity = most
      BY <1>2, <1>5, <2>7
    <3>5. QED
      BY <3>1, <3>3, <3>4 DEF quantity, guests, enough
  <2>8. CASE ~(most <= c.available)
    <3>1. enough = {}
      BY <1>3, <2>5, <2>6, <2>8
    <3>2. quantity = 0
      BY <1>2, <1>5, <2>8
    <3>3. QED
      BY <3>1, <3>2 DEF quantity, guests, enough
  <2>9. QED
    BY <2>7, <2>8
<1>6. QED
  BY <1>4, <1>5

\* The total of rooms that are few of each type.
LEMMA TotalBound ==
  ASSUME NEW candidates, CandidatesOK(candidates), NEW m \in Nat,
         \A c \in DOMAIN candidates : candidates[c].available <= m
  PROVE  TotalAvailable(candidates) <= Cardinality(DOMAIN candidates) * m
<1> DEFINE avail == [c \in DOMAIN candidates |-> candidates[c].available]
<1>1. /\ IsFiniteSet(DOMAIN candidates) /\ avail \in [DOMAIN candidates -> Nat]
      /\ \A c \in DOMAIN candidates : avail[c] <= m
  BY DEF CandidatesOK
<1> HIDE DEF avail
<1>2. SumFunction(avail) <= Cardinality(DOMAIN candidates) * m
  BY <1>1, SumBound
<1>3. QED
  BY <1>2 DEF avail, TotalAvailable

(***************************************************************************)
(* The two searches.                                                       *)
(***************************************************************************)
\* If a split can be assigned to a single type, so many rooms of it have the beds.
LEMMA SingleTypeIsRoomy ==
  ASSUME NEW r, NEW single, DOMAIN single = {r}, CandidatesOK(single),
         NEW party, PartyOK(party), NEW n \in Nat \ {0},
         Assignable(single, SplitGuestsAcrossRooms(n, party))
  PROVE  n <= single[r].available /\ Roomy(single[r], n, NormalizeGuestCounts(party))
<1> DEFINE c        == single[r]
           guests   == NormalizeGuestCounts(party)
           R        == 1..n
           split    == SplitGuestsAcrossRooms(n, party)
           adults   == SplitAdults(n, party)
           children == SplitChildren(n, party)
           both     == [room \in R |-> adults[room] + children[room]]
<1>1. c.available \in Nat /\ c.maxAdult \in Nat /\ c.maxChild \in Nat /\ c.maxOccupancy \in Nat
  BY DEF CandidatesOK
<1>2. IsFiniteSet(R) /\ Cardinality(R) = n
  BY Tokens
<1>3. /\ DOMAIN split = R
      /\ adults \in [R -> Nat] /\ children \in [R -> Nat]
      /\ SumFunction(adults) = guests.adults /\ SumFunction(children) = guests.children
      /\ \A room \in R : split[room].adults = adults[room] /\ split[room].children = children[room]
  BY SplitSums DEF SplitAdults, SplitChildren
<1> HIDE DEF split, adults, children, guests, c, R
<1>4. n <= c.available
  <2>1. n <= TotalAvailable(single)
    BY <1>3, RoomsEnough DEF split, R
  <2>2. TotalAvailable(single) <= Cardinality({r}) * c.available
    BY <1>1, TotalBound DEF c
  <2>3. Cardinality({r}) = 1
    BY FS_Singleton
  <2>4. QED
    BY <1>1, <2>1, <2>2, <2>3, TotalIsNatural
<1>5. \A room \in R : /\ adults[room] <= c.maxAdult
                      /\ children[room] <= c.maxChild
                      /\ adults[room] + children[room] <= c.maxOccupancy
  <2>1. PICK type \in [R -> {r}] : \A room \in R : CandidateCanFit(single[type[room]], split[room])
    BY <1>3, AssignableUsers DEF split
  <2>2. \A room \in R : CandidateCanFit(c, split[room])
    BY <2>1 DEF c
  <2>3. QED
    BY <1>3, <2>2 DEF CandidateCanFit
<1>6. /\ both \in [R -> Nat]
      /\ \A room \in R : both[room] = adults[room] + children[room]
      /\ \A room \in R : both[room] <= c.maxOccupancy
  BY <1>3, <1>5
<1> HIDE DEF both
<1>7. /\ SumFunction(adults) <= n * c.maxAdult
      /\ SumFunction(children) <= n * c.maxChild
      /\ SumFunction(both) <= n * c.maxOccupancy
  BY <1>1, <1>2, <1>3, <1>5, <1>6, SumBound
<1>8. SumFunction(both) = SumFunction(adults) + SumFunction(children)
  BY <1>2, <1>3, <1>6, SumOfSums
<1>9. QED
  BY <1>3, <1>4, <1>7, <1>8 DEF Roomy, guests, c

\* A type that alone makes a match is offered, in no more rooms than the match takes.
THEOREM MatchingTypeQuantity ==
  ASSUME NEW r, NEW single, DOMAIN single = {r}, CandidatesOK(single),
         NEW party, PartyOK(party), party.adults > 0, NEW requested \in Nat \ {0},
         MinimumRequiredRooms(single, requested, party) > 0
  PROVE  RequiredSingleRoomTypeQuantity(single[r], requested, party)
           \in 1..MinimumRequiredRooms(single, requested, party)
<1> DEFINE n == MinimumRequiredRooms(single, requested, party)
           q == RequiredSingleRoomTypeQuantity(single[r], requested, party)
           c == single[r]
           enough == {m \in requested..c.available : Roomy(c, m, NormalizeGuestCounts(party))}
<1>1. n \in Nat /\ n >= requested /\ Assignable(single, SplitGuestsAcrossRooms(n, party))
  BY MinimumIsFirst
<1> HIDE DEF n
<1>2. n <= c.available /\ Roomy(c, n, NormalizeGuestCounts(party))
  BY <1>1, SingleTypeIsRoomy
<1>3. c.available \in Nat /\ c.maxAdult \in Nat /\ c.maxChild \in Nat /\ c.maxOccupancy \in Nat
  BY DEF CandidatesOK
<1>4. n \in enough
  BY <1>1, <1>2, <1>3
<1>5. q \in enough /\ \A m \in enough : q <= m
  <2> HIDE DEF c
  <2>1. enough # {}
    BY <1>4
  <2>2. QED
    BY <1>3, <2>1, QuantityIsLeastRoomy DEF c
<1>6. q \in requested..c.available
  BY <1>5
<1> HIDE DEF q, enough
<1>7. QED
  BY <1>1, <1>3, <1>4, <1>5, <1>6 DEF q, n

(***************************************************************************)
(* What comes first in an order comes first in the sequence.               *)
(***************************************************************************)
LEMMA OrderedSorted ==
  ASSUME NEW S, IsFiniteSet(S), NEW R, IsStrictOrder(R, S),
         NEW j \in 1..Cardinality(S), NEW k \in 1..Cardinality(S), j < k
  PROVE  <<Ordered(S, R)[j], Ordered(S, R)[k]>> \in R
<1> DEFINE n        == Cardinality(S)
           x        == Ordered(S, R)[j]
           y        == Ordered(S, R)[k]
<1>1. /\ n \in Nat /\ Ordered(S, R) \in Bijection(1..n, S)
      /\ \A i \in 1..n : Cardinality(Below(S, R, Ordered(S, R)[i])) = i - 1
  BY OrderedBijection
<1>2. x \in S /\ y \in S
  <2>1. Ordered(S, R) \in [1..n -> S]
    BY <1>1, Fun_BijectionProperties
  <2>2. QED
    BY <2>1
<1>3. Cardinality(Below(S, R, x)) = j - 1 /\ Cardinality(Below(S, R, y)) = k - 1
  BY <1>1
<1> HIDE DEF x, y
<1>4. x # y
  BY <1>1, <1>3
<1> HIDE DEF n
<1>5. ASSUME <<y, x>> \in R
      PROVE  FALSE
  <2>1. Below(S, R, y) \in SUBSET Below(S, R, x) /\ Below(S, R, x) \in SUBSET S
    BY <1>2, <1>5 DEF IsStrictOrder, Below
  <2>2. Cardinality(Below(S, R, y)) <= Cardinality(Below(S, R, x))
    BY <2>1, FS_Subset
  <2>3. QED
    BY <1>1, <1>3, <2>2 DEF n
<1>6. QED
  BY <1>2, <1>4, <1>5 DEF IsStrictOrder, x, y

\* The elements of a set in order are its elements.
LEMMA OrderedElements ==
  ASSUME NEW S, IsFiniteSet(S), NEW R, IsStrictOrder(R, S)
  PROVE  /\ Cardinality(S) \in Nat
         /\ Ordered(S, R) \in Seq(S) /\ Len(Ordered(S, R)) = Cardinality(S)
         /\ \A x \in S : \E k \in 1..Cardinality(S) : Ordered(S, R)[k] = x
<1> DEFINE n == Cardinality(S)
           f == Ordered(S, R)
<1>1. n \in Nat /\ f \in Bijection(1..n, S)
  BY OrderedBijection
<1> HIDE DEF f, n
<1>2. f \in [1..n -> S] /\ \A x \in S : \E k \in 1..n : f[k] = x
  <2> DEFINE I == 1..n
  <2>1. f \in Bijection(I, S)
    BY <1>1
  <2> HIDE DEF I
  <2>2. f \in [I -> S] /\ \A x \in S : \E k \in I : f[k] = x
    BY <2>1, Fun_BijectionProperties
  <2>3. QED
    BY <2>2 DEF I
<1>3. f \in Seq(S) /\ Len(f) = n
  BY <1>1, <1>2
<1>4. QED
  BY <1>1, <1>2, <1>3 DEF f, n

(***************************************************************************)
(* More rooms.                                                             *)
(***************************************************************************)
\* At least the rooms of the other, each with the beds it has there.
More(candidates, fewer) ==
  /\ DOMAIN fewer \subseteq DOMAIN candidates
  /\ \A c \in DOMAIN fewer : /\ candidates[c].maxAdult = fewer[c].maxAdult
                             /\ candidates[c].maxChild = fewer[c].maxChild
                             /\ candidates[c].maxOccupancy = fewer[c].maxOccupancy
                             /\ candidates[c].available = fewer[c].available

\* What can be assigned can be assigned with more rooms.
LEMMA AssignableOfMore ==
  ASSUME NEW candidates, NEW fewer, CandidatesOK(candidates), CandidatesOK(fewer),
         More(candidates, fewer),
         NEW requests, NEW n \in Nat, DOMAIN requests = 1..n, Assignable(fewer, requests)
  PROVE  Assignable(candidates, requests)
<1> DEFINE I == DOMAIN requests
<1>1. PICK type \in [I -> DOMAIN fewer] :
        /\ \A i \in I : CandidateCanFit(fewer[type[i]], requests[i])
        /\ \A c \in DOMAIN fewer : Cardinality({i \in I : type[i] = c}) <= fewer[c].available
  BY DEF Assignable
<1>2. type \in [I -> DOMAIN candidates]
  BY <1>1 DEF More
<1>3. ASSUME NEW i \in I
      PROVE  CandidateCanFit(candidates[type[i]], requests[i])
  <2>1. type[i] \in DOMAIN fewer /\ CandidateCanFit(fewer[type[i]], requests[i])
    BY <1>1
  <2>2. QED
    BY <2>1 DEF More, CandidateCanFit
<1>4. ASSUME NEW c \in DOMAIN candidates
      PROVE  Cardinality({i \in I : type[i] = c}) <= candidates[c].available
  <2>1. CASE c \in DOMAIN fewer
    BY <1>1, <2>1 DEF More
  <2>2. CASE c \notin DOMAIN fewer
    <3>1. {i \in I : type[i] = c} = {}
      BY <1>1, <2>2
    <3>2. Cardinality({i \in I : type[i] = c}) = 0
      BY <3>1, FS_EmptySet
    <3>3. QED
      BY <3>2 DEF CandidatesOK
  <2>3. QED
    BY <2>1, <2>2
<1>5. \A i \in I : ~UnaccompaniedChildren(requests[i])
  BY DEF Assignable
<1>6. QED
  BY <1>2, <1>3, <1>4, <1>5 DEF Assignable

\* With more rooms a party needs no more of them: a match is never withdrawn by what
\* is added, and a strict match stays strict.
THEOREM MinimumOfMore ==
  ASSUME NEW candidates, NEW fewer, CandidatesOK(candidates), CandidatesOK(fewer),
         More(candidates, fewer), NEW party, PartyOK(party), NEW start \in Nat \ {0},
         MinimumRequiredRooms(fewer, start, party) > 0
  PROVE  MinimumRequiredRooms(candidates, start, party)
           \in 1..MinimumRequiredRooms(fewer, start, party)
<1> DEFINE n       == MinimumRequiredRooms(fewer, start, party)
           m       == MinimumRequiredRooms(candidates, start, party)
           fits(k) == Assignable(candidates, SplitGuestsAcrossRooms(k, party))
<1>1. /\ n \in Nat /\ n >= start
      /\ Assignable(fewer, SplitGuestsAcrossRooms(n, party))
  BY MinimumIsFirst
<1>2. DOMAIN SplitGuestsAcrossRooms(n, party) = 1..n
  BY DEF SplitGuestsAcrossRooms
<1>3. /\ m \in Nat
      /\ m # 0 => /\ m >= start /\ m <= TotalAvailable(candidates) /\ fits(m)
                  /\ \A less \in start..(m - 1) : ~fits(less)
      /\ m = 0 => \A k \in Nat : k >= start => ~fits(k)
  BY MinimumIsFirst
<1> HIDE DEF n, m
<1>4. fits(n)
  BY <1>1, <1>2, AssignableOfMore
<1> HIDE DEF fits
<1>5. m # 0 /\ m <= n
  BY <1>1, <1>3, <1>4
<1>6. QED
  BY <1>1, <1>3, <1>5 DEF m, n

(***************************************************************************)
(* Families in rooms of one type.                                          *)
(***************************************************************************)
\* One more summand.
LEMMA SumOfOneMore ==
  ASSUME NEW S, IsFiniteSet(S), NEW e, e \notin S, NEW f \in [S -> Nat],
         NEW g \in [S \union {e} -> Nat], \A i \in S : g[i] = f[i]
  PROVE  SumFunction(g) = SumFunction(f) + g[e]
<1> DEFINE T == S \union {e}
           F == Pool(Coloured(f), S)
           G == Pool(Coloured(g), T)
           E == {e} \X (1..g[e])
<1>1. IsFiniteSet(T)
  BY FS_AddElement
<1>2. g \in [T -> Nat] /\ g[e] \in Nat
  OBVIOUS
<1> HIDE DEF T
<1>3. SumFunction(g) = Cardinality(G)
  BY <1>1, <1>2, SumOfTokens
<1>4. SumFunction(f) = Cardinality(F) /\ IsFiniteSet(F)
  BY SumOfTokens
<1>5. IsFiniteSet(E) /\ Cardinality(E) = g[e]
  BY <1>2, Tokens, Tagged
<1>6. G = F \union E
  <2>1. \A x : x \in G <=> \E i \in T : x \in {i} \X (1..g[i])
    BY <1>2 DEF Pool, Coloured
  <2>2. \A x : x \in F <=> \E i \in S : x \in {i} \X (1..f[i])
    BY DEF Pool, Coloured
  <2> HIDE DEF F, G
  <2>3. QED
    BY <2>1, <2>2 DEF T
<1>7. F \intersect E = {}
  <2>1. \A x \in F : \E i \in S : x \in {i} \X (1..f[i])
    BY DEF Pool, Coloured
  <2> HIDE DEF F
  <2>2. QED
    BY <2>1
<1> HIDE DEF F, G, E
<1>8. QED
  BY <1>3, <1>4, <1>5, <1>6, <1>7, DisjointUnion

\* Where children are only beside adults, and few in each room, they are at most
\* so many for each adult.
LEMMA SumBeside ==
  ASSUME NEW S, IsFiniteSet(S), NEW a \in [S -> Nat], NEW c \in [S -> Nat], NEW m \in Nat,
         \A i \in S : c[i] <= m /\ (c[i] > 0 => a[i] > 0)
  PROVE  SumFunction(c) <= SumFunction(a) * m
<1> DEFINE A == Pool(Coloured(a), S)
           C == Pool(Coloured(c), S)
           H == {i \in S : a[i] > 0}
           B == H \X (1..m)
           D == H \X {1}
<1>1. SumFunction(a) = Cardinality(A) /\ IsFiniteSet(A) /\ SumFunction(c) = Cardinality(C)
  BY SumOfTokens
<1>2. C \in SUBSET B
  <2>1. \A x \in C : \E i \in S : x \in {i} \X (1..c[i])
    BY DEF Pool, Coloured
  <2>2. \A i \in S : \A k \in 1..c[i] : k \in 1..m /\ i \in H
    OBVIOUS
  <2> HIDE DEF C, H
  <2>3. QED
    BY <2>1, <2>2
<1>3. D \in SUBSET A
  <2>1. \A i \in S : \A x \in {i} \X (1..a[i]) : x \in A
    BY DEF Pool, Coloured
  <2>2. \A i \in H : i \in S /\ 1 \in 1..a[i]
    OBVIOUS
  <2> HIDE DEF A, H
  <2>3. QED
    BY <2>1, <2>2
<1>4. IsFiniteSet(H) /\ Cardinality(H) \in Nat
  <2>1. H \in SUBSET S
    OBVIOUS
  <2> HIDE DEF H
  <2>2. QED
    BY <2>1, FS_Subset, FS_CardinalityType
<1>5. IsFiniteSet(B) /\ Cardinality(B) = Cardinality(H) * m
  <2>1. IsFiniteSet(1..m) /\ Cardinality(1..m) = m
    BY Tokens
  <2> HIDE DEF H
  <2>2. QED
    BY <1>4, <2>1, FS_Product
<1>6. Cardinality(D) = Cardinality(H)
  <2>1. IsFiniteSet({1}) /\ Cardinality({1}) = 1
    BY FS_Singleton
  <2>2. Cardinality(D) = Cardinality(H) * 1
    BY <1>4, <2>1, FS_Product
  <2>3. QED
    BY <1>4, <2>2
<1> HIDE DEF A, B, C, D, H
<1>7. Cardinality(H) <= Cardinality(A) /\ Cardinality(A) \in Nat
  BY <1>1, <1>3, <1>6, FS_Subset, FS_CardinalityType
<1>8. Cardinality(C) <= Cardinality(H) * m
  BY <1>2, <1>5, FS_Subset
<1>9. Cardinality(C) \in Nat
  BY <1>2, <1>5, FS_Subset, FS_CardinalityType
<1>10. Cardinality(H) * m <= Cardinality(A) * m
  BY <1>4, <1>7
<1>11. Cardinality(H) * m \in Nat /\ Cardinality(A) * m \in Nat
  BY <1>4, <1>7
<1>12. Cardinality(C) <= Cardinality(A) * m
  BY <1>8, <1>9, <1>10, <1>11
<1>13. QED
  BY <1>1, <1>12

\* A way to put so many adults and children into n rooms, up to m and k of them in
\* each, no child without an adult.
Accompanied(n, adults, children, m, k) ==
  \E a, c \in [1..n -> Nat] :
    /\ SumFunction(a) = adults /\ SumFunction(c) = children
    /\ \A i \in 1..n : a[i] <= m /\ c[i] <= k /\ (c[i] > 0 => a[i] > 0)

\* What the rooms can take, one more room can be given its share of.
LEMMA ShareOfRoom ==
  ASSUME NEW n \in Nat, NEW adults \in Nat, NEW children \in Nat, NEW m \in Nat, NEW k \in Nat,
         adults <= (n + 1) * m, children <= (n + 1) * k, children <= adults * k
  PROVE  \E x \in 0..adults, y \in 0..children :
           /\ x <= m /\ y <= k /\ (y > 0 => x > 0)
           /\ adults - x <= n * m /\ children - y <= n * k /\ children - y <= (adults - x) * k
<1>1. n * m \in Nat /\ n * k \in Nat /\ (n + 1) * m = n * m + m /\ (n + 1) * k = n * k + k
  OBVIOUS
<1>2. CASE adults = 0
  <2>1. 0 * k = 0
    OBVIOUS
  <2>2. children = 0
    BY <1>2, <2>1
  <2>3. /\ 0 \in 0..adults /\ 0 \in 0..children
        /\ 0 <= m /\ 0 <= k /\ (0 > 0 => 0 > 0)
        /\ adults - 0 <= n * m /\ children - 0 <= n * k /\ children - 0 <= (adults - 0) * k
    BY <1>1, <1>2, <2>1, <2>2
  <2>4. QED
    BY <2>3
<1>3. CASE adults > 0
  <2>1. m > 0
    <3>1. (n + 1) * 0 = 0
      OBVIOUS
    <3>2. QED
      BY <1>3, <3>1
  <2> DEFINE y == IF children <= k THEN children ELSE k
             x == IF adults <= n * m + 1 THEN 1 ELSE adults - n * m
  <2>2. y \in 0..children /\ y <= k /\ children - y <= n * k
    BY <1>1
  <2>3. x \in 1..adults /\ x <= m /\ adults - x <= n * m
    BY <1>1, <1>3, <2>1
  <2>4. children - y <= (adults - x) * k
    <3>1. CASE children <= k
      <4>1. adults - x \in Nat
        BY <2>3
      <4>2. (adults - x) * k \in Nat
        BY <4>1
      <4> HIDE DEF x
      <4>3. QED
        BY <3>1, <4>2
    <3>2. CASE children > k /\ x = 1
      <4>1. (adults - 1) * k = adults * k - k /\ adults * k \in Nat
        OBVIOUS
      <4>2. y = k
        BY <3>2
      <4> HIDE DEF x, y
      <4>3. QED
        BY <3>2, <4>1, <4>2
    <3>3. CASE children > k /\ adults - x = n * m
      <4>1. n * k <= (n * m) * k
        <5>1. n <= n * m
          BY <2>1
        <5>2. \A p, q \in Nat : p <= q => p * k <= q * k
          OBVIOUS
        <5>3. QED
          BY <1>1, <5>1, <5>2
      <4>2. (n * m) * k \in Nat
        BY <1>1
      <4> HIDE DEF x, y
      <4>3. QED
        BY <1>1, <2>2, <3>3, <4>1, <4>2
    <3>4. x = 1 \/ adults - x = n * m
      BY <1>1
    <3>5. children <= k \/ children > k
      OBVIOUS
    <3>6. QED
      BY <3>1, <3>2, <3>3, <3>4, <3>5
  <2> HIDE DEF x, y
  <2>5. x \in 0..adults /\ x > 0
    BY <2>3
  <2>6. QED
    BY <2>2, <2>3, <2>4, <2>5
<1>4. QED
  BY <1>2, <1>3

\* One more room with its share makes one more room.
LEMMA AccompaniedStep ==
  ASSUME NEW n \in Nat, NEW adults \in Nat, NEW children \in Nat, NEW m \in Nat, NEW k \in Nat,
         NEW x \in 0..adults, NEW y \in 0..children, x <= m, y <= k, y > 0 => x > 0,
         Accompanied(n, adults - x, children - y, m, k)
  PROVE  Accompanied(n + 1, adults, children, m, k)
<1> DEFINE S == 1..n
           T == 1..(n + 1)
           e == n + 1
<1>1. PICK a \in [S -> Nat], c \in [S -> Nat] :
        /\ SumFunction(a) = adults - x /\ SumFunction(c) = children - y
        /\ \A i \in S : a[i] <= m /\ c[i] <= k /\ (c[i] > 0 => a[i] > 0)
  BY DEF Accompanied
<1> DEFINE g == [i \in T |-> IF i = e THEN x ELSE a[i]]
           h == [i \in T |-> IF i = e THEN y ELSE c[i]]
<1>2. T = S \union {e} /\ e \notin S
  OBVIOUS
<1>3. IsFiniteSet(S)
  BY Tokens
<1>4. x \in Nat /\ y \in Nat
  OBVIOUS
<1> HIDE DEF S, T, e
<1>5. g \in [T -> Nat] /\ h \in [T -> Nat]
  BY <1>2, <1>4
<1>6. /\ \A i \in S : g[i] = a[i] /\ h[i] = c[i]
      /\ g[e] = x /\ h[e] = y
  BY <1>2
<1> HIDE DEF g, h
<1>7. g \in [S \union {e} -> Nat] /\ h \in [S \union {e} -> Nat]
  BY <1>2, <1>5
<1>8. SumFunction(g) = SumFunction(a) + g[e] /\ SumFunction(h) = SumFunction(c) + h[e]
  BY <1>2, <1>3, <1>6, <1>7, SumOfOneMore
<1>9. SumFunction(g) = adults /\ SumFunction(h) = children
  BY <1>1, <1>4, <1>6, <1>8
<1>10. \A i \in T : g[i] <= m /\ h[i] <= k /\ (h[i] > 0 => g[i] > 0)
  BY <1>1, <1>2, <1>6
<1>11. QED
  BY <1>5, <1>9, <1>10 DEF Accompanied, T

LEMMA NoRoom ==
  ASSUME NEW m \in Nat, NEW k \in Nat
  PROVE  Accompanied(0, 0, 0, m, k)
<1> DEFINE f == [i \in 1..0 |-> 0]
<1>1. 1..0 = {}
  OBVIOUS
<1>2. f \in [1..0 -> Nat]
  OBVIOUS
<1> HIDE DEF f
<1>3. SumFunction(f) = 0
  <2>1. IsFiniteSet({}) /\ Cardinality({}) = 0
    BY FS_EmptySet
  <2>2. SumFunction(f) = Cardinality(Pool(Coloured(f), {}))
    BY <1>1, <1>2, <2>1, SumOfTokens
  <2>3. Pool(Coloured(f), {}) = {}
    BY DEF Pool
  <2>4. QED
    BY <2>1, <2>2, <2>3
<1>4. \A i \in 1..0 : f[i] <= m /\ f[i] <= k /\ (f[i] > 0 => f[i] > 0)
  BY <1>1
<1>5. QED
  BY <1>2, <1>3, <1>4 DEF Accompanied

\* If the rooms have the beds and no adult has to take more children than a room has
\* beds for, then everybody can be put up, each child with an adult.
LEMMA EverybodyAccompanied ==
  ASSUME NEW m \in Nat, NEW k \in Nat,
         NEW n \in Nat, NEW adults \in Nat, NEW children \in Nat,
         adults <= n * m, children <= n * k, children <= adults * k
  PROVE  Accompanied(n, adults, children, m, k)
<1> DEFINE Fits(j, a, c) == a <= j * m /\ c <= j * k /\ c <= a * k
           fails == {j \in Nat : \E a, c \in Nat : Fits(j, a, c) /\ ~Accompanied(j, a, c, m, k)}
<1> SUFFICES ASSUME ~Accompanied(n, adults, children, m, k)
             PROVE  FALSE
  OBVIOUS
<1>1. n \in fails /\ fails \subseteq Nat
  OBVIOUS
<1> HIDE DEF fails
<1>2. PICK j \in fails : \A i \in fails : j <= i
  BY <1>1, LeastNatural
<1>3. j \in Nat
  BY <1>1
<1>4. PICK a \in Nat, c \in Nat : Fits(j, a, c) /\ ~Accompanied(j, a, c, m, k)
  BY <1>2 DEF fails
<1>5. CASE j = 0
  <2>1. 0 * m = 0 /\ 0 * k = 0
    OBVIOUS
  <2>2. a = 0 /\ c = 0
    BY <1>4, <1>5, <2>1
  <2>3. QED
    BY <1>4, <1>5, <2>2, NoRoom
<1>6. CASE j > 0
  <2> DEFINE i == j - 1
  <2>1. i \in Nat /\ j = i + 1 /\ i < j
    BY <1>3, <1>6
  <2> HIDE DEF i
  <2>2. a <= (i + 1) * m /\ c <= (i + 1) * k /\ c <= a * k
    BY <1>4, <2>1
  <2>3. PICK x \in 0..a, y \in 0..c :
          /\ x <= m /\ y <= k /\ (y > 0 => x > 0)
          /\ a - x <= i * m /\ c - y <= i * k /\ c - y <= (a - x) * k
    BY <2>1, <2>2, ShareOfRoom
  <2>4. a - x \in Nat /\ c - y \in Nat
    OBVIOUS
  <2>5. Fits(i, a - x, c - y)
    BY <2>3
  <2> HIDE DEF Fits
  <2>6. ~ Accompanied(i, a - x, c - y, m, k)
    BY <1>4, <2>1, <2>3, AccompaniedStep
  <2>7. i \in fails
    BY <2>1, <2>4, <2>5, <2>6 DEF fails
  <2>8. QED
    BY <1>2, <1>3, <2>1, <2>7
<1>7. QED
  BY <1>3, <1>5, <1>6

\* The party fits a single type in so many rooms, no child without an adult.
LEMMA PlaceableAlone ==
  ASSUME NEW r, NEW single, DOMAIN single = {r}, CandidatesOK(single),
         NEW party, PartyOK(party), NEW n \in Nat \ {0},
         Placeable(single, n, party)
  PROVE  /\ n <= single[r].available
         /\ Roomy(single[r], n, NormalizeGuestCounts(party))
         /\ NormalizeGuestCounts(party).children
              <= NormalizeGuestCounts(party).adults * single[r].maxChild
<1> DEFINE c        == single[r]
           guests   == NormalizeGuestCounts(party)
           R        == 1..n
           Requests(a, k) == [room \in R |-> [adults |-> a[room], children |-> k[room]]]
<1>1. c.available \in Nat /\ c.maxAdult \in Nat /\ c.maxChild \in Nat /\ c.maxOccupancy \in Nat
  BY DEF CandidatesOK
<1>2. IsFiniteSet(R) /\ Cardinality(R) = n
  BY Tokens
<1>3. guests.adults \in Nat /\ guests.children \in Nat
  BY SplitSums
<1>4. PICK adults \in Spreads(guests.adults, n), children \in Spreads(guests.children, n) :
        Assignable(single, Requests(adults, children))
  BY DEF Placeable
<1> HIDE DEF guests
<1>5. /\ adults \in [R -> Nat] /\ SumFunction(adults) = guests.adults
      /\ children \in [R -> Nat] /\ SumFunction(children) = guests.children
  BY <1>3, <1>4 DEF Spreads
<1> DEFINE requests == Requests(adults, children)
           both     == [room \in R |-> adults[room] + children[room]]
<1>6. /\ DOMAIN requests = R
      /\ \A room \in R : /\ requests[room].adults = adults[room]
                         /\ requests[room].children = children[room]
  OBVIOUS
<1>7. Assignable(single, requests)
  BY <1>4
<1> HIDE DEF c, requests
<1>8. n <= c.available
  <2>1. n <= TotalAvailable(single)
    BY <1>6, <1>7, RoomsEnough
  <2>2. TotalAvailable(single) <= Cardinality({r}) * c.available
    BY <1>1, TotalBound DEF c
  <2>3. Cardinality({r}) = 1
    BY FS_Singleton
  <2> HIDE DEF R
  <2>4. QED
    BY <1>1, <2>1, <2>2, <2>3, TotalIsNatural
<1> HIDE DEF R
<1>9. PICK type \in [R -> {r}] : \A room \in R : CandidateCanFit(single[type[room]], requests[room])
  BY <1>6, <1>7, AssignableUsers
<1>10. \A room \in R : CandidateCanFit(c, requests[room]) /\ ~UnaccompaniedChildren(requests[room])
  BY <1>6, <1>7, <1>9, AssignableUsers DEF c
<1>11. \A room \in R : /\ adults[room] <= c.maxAdult
                       /\ children[room] <= c.maxChild
                       /\ adults[room] + children[room] <= c.maxOccupancy
                       /\ children[room] > 0 => adults[room] > 0
  BY <1>5, <1>6, <1>10 DEF CandidateCanFit, UnaccompaniedChildren
<1>12. /\ both \in [R -> Nat]
       /\ \A room \in R : both[room] = adults[room] + children[room]
       /\ \A room \in R : both[room] <= c.maxOccupancy
  BY <1>5, <1>11
<1> HIDE DEF both
<1>13. /\ SumFunction(adults) <= n * c.maxAdult
       /\ SumFunction(children) <= n * c.maxChild
       /\ SumFunction(both) <= n * c.maxOccupancy
  BY <1>1, <1>2, <1>5, <1>11, <1>12, SumBound
<1>14. SumFunction(both) = SumFunction(adults) + SumFunction(children)
  BY <1>2, <1>5, <1>12, SumOfSums
<1>15. SumFunction(children) <= SumFunction(adults) * c.maxChild
  BY <1>1, <1>2, <1>5, <1>11, SumBeside
<1>16. Roomy(c, n, guests) /\ guests.children <= guests.adults * c.maxChild
  BY <1>5, <1>13, <1>14, <1>15 DEF Roomy
<1>17. QED
  BY <1>8, <1>16 DEF guests, c

\* And where its rooms have the beds, and no adult has to take more children than a
\* room has beds for, it can be put there.
LEMMA AloneIsPlaceable ==
  ASSUME NEW r, NEW single, DOMAIN single = {r}, CandidatesOK(single),
         NEW party, PartyOK(party), NEW n \in Nat \ {0}, n <= single[r].available,
         Roomy(single[r], n, NormalizeGuestCounts(party)),
         NormalizeGuestCounts(party).children
           <= NormalizeGuestCounts(party).adults * single[r].maxChild,
         single[r].maxAdult + single[r].maxChild <= single[r].maxOccupancy
  PROVE  Placeable(single, n, party)
<1> DEFINE c        == single[r]
           guests   == NormalizeGuestCounts(party)
           R        == 1..n
           Requests(a, k) == [room \in R |-> [adults |-> a[room], children |-> k[room]]]
<1>1. c.available \in Nat /\ c.maxAdult \in Nat /\ c.maxChild \in Nat /\ c.maxOccupancy \in Nat
  BY DEF CandidatesOK
<1>2. guests.adults \in Nat /\ guests.children \in Nat
  BY SplitSums
<1>3. /\ guests.adults <= n * c.maxAdult /\ guests.children <= n * c.maxChild
      /\ guests.children <= guests.adults * c.maxChild
  BY DEF Roomy
<1> HIDE DEF guests, c
<1>4. Accompanied(n, guests.adults, guests.children, c.maxAdult, c.maxChild)
  BY <1>1, <1>2, <1>3, EverybodyAccompanied
<1>5. PICK adults \in [R -> Nat], children \in [R -> Nat] :
        /\ SumFunction(adults) = guests.adults /\ SumFunction(children) = guests.children
        /\ \A i \in R : /\ adults[i] <= c.maxAdult /\ children[i] <= c.maxChild
                        /\ children[i] > 0 => adults[i] > 0
  BY <1>4 DEF Accompanied
<1>6. IsFiniteSet(R) /\ Cardinality(R) = n
  BY Tokens
<1>7. ASSUME NEW total \in Nat, NEW s \in [R -> Nat], SumFunction(s) = total
      PROVE  s \in Spreads(total, n)
  <2>1. ASSUME NEW room \in R
        PROVE  s[room] <= total
    BY <1>6, <1>7, SumAtLeast
  <2>2. s \in [R -> 0..total]
    BY <2>1
  <2>3. QED
    BY <1>7, <2>2 DEF Spreads
<1>8. adults \in Spreads(guests.adults, n) /\ children \in Spreads(guests.children, n)
  BY <1>2, <1>5, <1>7
<1> DEFINE requests == Requests(adults, children)
           type     == [room \in R |-> r]
<1>9. /\ DOMAIN requests = R
      /\ \A room \in R : /\ requests[room].adults = adults[room]
                         /\ requests[room].children = children[room]
  OBVIOUS
<1>10. type \in [R -> {r}] /\ \A room \in R : type[room] = r
  OBVIOUS
<1>11. c.maxAdult + c.maxChild <= c.maxOccupancy /\ n <= c.available
  BY DEF c
<1> HIDE DEF R, requests, type
<1>12. ASSUME NEW room \in R
       PROVE  CandidateCanFit(c, requests[room]) /\ ~UnaccompaniedChildren(requests[room])
  <2>1. adults[room] \in Nat /\ children[room] \in Nat
    OBVIOUS
  <2>2. QED
    BY <1>1, <1>5, <1>9, <1>11, <2>1 DEF CandidateCanFit, UnaccompaniedChildren
<1>13. Users(R, type, r) = R
  BY <1>10 DEF Users
<1>14. Cardinality(Users(R, type, r)) <= single[r].available
  BY <1>6, <1>11, <1>13 DEF c
<1>15. Assignable(single, requests)
  <2>1. \A i \in R : ~UnaccompaniedChildren(requests[i])
    BY <1>12
  <2>2. \A i \in R : CandidateCanFit(single[type[i]], requests[i])
    BY <1>10, <1>12 DEF c
  <2>3. \A x \in DOMAIN single : Cardinality(Users(R, type, x)) <= single[x].available
    BY <1>14
  <2>4. type \in [R -> DOMAIN single]
    BY <1>10
  <2>5. QED
    BY <1>9, <2>1, <2>2, <2>3, <2>4, AssignableUsers
<1>16. QED
  BY <1>8, <1>15 DEF Placeable, guests, requests, R

\* If the party can be put into rooms of one type at all, the type's quantity is the
\* least number of rooms it can be put into: beds are then all that counts.
THEOREM OfferIsLeast ==
  ASSUME NEW r, NEW single, DOMAIN single = {r}, CandidatesOK(single),
         single[r].maxAdult + single[r].maxChild <= single[r].maxOccupancy,
         NEW party, PartyOK(party), party.adults > 0, NEW requested \in Nat \ {0},
         \E n \in requested..single[r].available : Placeable(single, n, party)
  PROVE  RequiredSingleRoomTypeQuantity(single[r], requested, party)
           = Min({n \in requested..single[r].available : Placeable(single, n, party)})
<1> DEFINE c         == single[r]
           guests    == NormalizeGuestCounts(party)
           enough    == {n \in requested..c.available : Roomy(c, n, guests)}
           placeable == {n \in requested..c.available : Placeable(single, n, party)}
           q         == RequiredSingleRoomTypeQuantity(c, requested, party)
<1>1. c.available \in Nat /\ c.maxAdult \in Nat /\ c.maxChild \in Nat /\ c.maxOccupancy \in Nat
  BY DEF CandidatesOK
<1>2. PICK some \in requested..c.available : Placeable(single, some, party)
  OBVIOUS
<1>3. \A n \in requested..c.available : n \in Nat \ {0}
  BY <1>1
<1>4. guests.children <= guests.adults * c.maxChild
  BY <1>2, <1>3, PlaceableAlone
<1>5. ASSUME NEW n \in requested..c.available
      PROVE  Roomy(c, n, guests) <=> Placeable(single, n, party)
  <2>1. n \in Nat \ {0} /\ n <= single[r].available
    BY <1>1, <1>3
  <2>2. Placeable(single, n, party) => Roomy(single[r], n, NormalizeGuestCounts(party))
    BY <2>1, PlaceableAlone
  <2>3. Roomy(single[r], n, NormalizeGuestCounts(party)) => Placeable(single, n, party)
    BY <1>4, <2>1, AloneIsPlaceable
  <2>4. QED
    BY <2>2, <2>3
<1>6. enough = placeable
  BY <1>5
<1>7. enough # {}
  BY <1>2, <1>6
<1>8. q = IF enough = {} THEN 0 ELSE Min(enough)
  <2> HIDE DEF c
  <2>1. QED
    BY <1>1, QuantityIsLeastRoomy
<1> HIDE DEF enough, placeable, q
<1>9. q = Min(placeable)
  BY <1>6, <1>7, <1>8
<1>10. QED
  BY <1>9 DEF q, placeable
=============================================================================
