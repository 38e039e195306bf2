---------------------------- MODULE DataTheorems ----------------------------
(***************************************************************************)
(* Facts about data that the proofs of several modules need: least numbers *)
(* and sets, and sums over finite sets (SumFunctionOnSet of the module     *)
(* Functions).  A sum is defined by recursion on the set, so each fact     *)
(* about it is proved from a least set that would refute it: strict        *)
(* inclusion is well-founded on finite sets.                               *)
(***************************************************************************)
EXTENDS Naturals, FiniteSets, Functions, SequencesExt, FiniteSetTheorems, WellFoundedInduction, TLAPS

(* A set of numbers that is not empty has a least member. *)
LEMMA LeastNumber ==
    ASSUME NEW T \in SUBSET Nat, T # {}
    PROVE  \E n \in T : \A m \in T : n <= m
<1> DEFINE R == OpToRel(<, Nat)
<1>1. IsWellFoundedOn(R, Nat)
    BY NatLessThanWellFounded
<1>2. \A x, y \in Nat : y < x => <<y, x>> \in R
    BY DEF OpToRel
<1> HIDE DEF R
<1>3. PICK x \in T : \A y \in T : ~ (<<y, x>> \in R)
    BY <1>1, WFMin, Zenon
<1>4. \A y \in T : y \in Nat /\ x \in Nat /\ ~(y < x)
    BY <1>2, <1>3
<1> QED BY <1>3, <1>4

(* A set of finite sets that is not empty has one that contains no other. *)
LEMMA LeastSet ==
    ASSUME NEW S, IsFiniteSet(S), NEW T \in SUBSET (SUBSET S), T # {}
    PROVE  \E A \in T : \A B \in T : B \subseteq A => B = A
<1> DEFINE R == StrictSubsetOrdering(S)
<1>1. IsWellFoundedOn(R, FiniteSubsetsOf(S))
    BY FS_StrictSubsetOrderingWellFounded, Zenon
<1>2. T \subseteq FiniteSubsetsOf(S)
    BY FS_FiniteSubsetsOfFinite
<1>3. \A A, B \in T : B \subseteq A /\ B # A => <<B, A>> \in R
    BY DEF StrictSubsetOrdering
<1> HIDE DEF R
<1>4. PICK A \in T : \A B \in T : ~ (<<B, A>> \in R)
    BY <1>1, <1>2, WFMin, Zenon
<1> QED BY <1>3, <1>4

(* A finite set that a strict partial order is given on has a minimal element. *)
LEMMA MinimalElement ==
    ASSUME NEW S, IsFiniteSet(S), S # {}, NEW R,
           \A x \in S : <<x, x>> \notin R,
           \A x, y, z \in S : <<x, y>> \in R /\ <<y, z>> \in R => <<x, z>> \in R
    PROVE  \E x \in S : \A y \in S : <<y, x>> \notin R
<1> DEFINE Below(x) == {y \in S : <<y, x>> \in R}
           T == {A \in SUBSET S : \E x \in S : A = Below(x)}
<1>1. T \in SUBSET (SUBSET S) /\ T # {}
    <2>1. PICK x \in S : TRUE
        OBVIOUS
    <2>2. Below(x) \in T
        OBVIOUS
    <2> HIDE DEF Below
    <2> QED BY <2>2
<1>2. PICK A \in T : \A B \in T : B \subseteq A => B = A
    <2> HIDE DEF T
    <2> QED BY <1>1, LeastSet
<1>3. PICK x \in S : A = Below(x)
    OBVIOUS
<1>4. ASSUME NEW y \in S, <<y, x>> \in R PROVE FALSE
    <2>1. Below(y) \subseteq Below(x) /\ y \in Below(x) /\ y \notin Below(y)
        BY <1>4
    <2>2. Below(y) \in T
        OBVIOUS
    <2> HIDE DEF Below, T
    <2> QED BY <1>2, <1>3, <2>1, <2>2
<1> QED BY <1>4

(* Division with remainder. *)
LEMMA DivMod ==
    ASSUME NEW n \in Nat, NEW m \in Nat \ {0}
    PROVE  /\ n \div m \in Nat /\ (n % m) \in Nat /\ (n % m) < m
           /\ n = m * (n \div m) + (n % m)
OBVIOUS

LEMMA DivMonotone ==
    ASSUME NEW m \in Nat \ {0}, NEW n \in Nat, NEW k \in Nat, k <= n
    PROVE  k \div m <= n \div m
BY DivMod

LEMMA DivNext ==
    ASSUME NEW m \in Nat \ {0}, NEW n \in Nat, NEW k \in Nat, n < k + m
    PROVE  n \div m <= (k \div m) + 1
BY DivMod

(* The image of a finite set. *)
LEMMA FiniteImage ==
    ASSUME NEW S, IsFiniteSet(S), NEW f, f = [x \in S |-> f[x]]
    PROVE  IsFiniteSet({f[x] : x \in S})
<1> DEFINE R == {f[x] : x \in S}
<1>1. f \in Surjection(S, R)
    BY DEF Surjection
<1> QED BY <1>1, FS_Surjection

-----------------------------------------------------------------------------
(* The recursion. *)

Pick(S) == CHOOSE x \in S : TRUE

Summing(f, S, g) ==
    g = [s \in SUBSET S |-> IF s = {} THEN 0 ELSE f[Pick(s)] + g[s \ {Pick(s)}]]

LEMMA PickIn == ASSUME NEW S, S # {} PROVE Pick(S) \in S
BY DEF Pick

LEMMA SumIsSumming ==
    ASSUME NEW f, NEW S
    PROVE  SumFunctionOnSet(f, S) = (CHOOSE g : Summing(f, S, g))[S]
BY Zenon DEF SumFunctionOnSet, FoldFunctionOnSet, MapThenFoldSet, Summing, Pick

LEMMA SummingUnique ==
    ASSUME NEW f, NEW S, NEW T, NEW g, NEW h, IsFiniteSet(T), T \subseteq S,
           Summing(f, S, g), Summing(f, T, h), NEW s \in SUBSET T
    PROVE  g[s] = h[s]
<1> DEFINE Bad == {r \in SUBSET T : g[r] # h[r]}
<1> SUFFICES ASSUME Bad # {} PROVE FALSE
    OBVIOUS
<1>1. PICK A \in Bad : \A B \in Bad : B \subseteq A => B = A
    <2>1. Bad \in SUBSET (SUBSET T)
        OBVIOUS
    <2> HIDE DEF Bad
    <2> QED BY <2>1, LeastSet
<1>2. A \in SUBSET T /\ A \in SUBSET S
    OBVIOUS
<1>3. g[A] = (IF A = {} THEN 0 ELSE f[Pick(A)] + g[A \ {Pick(A)}])
    BY <1>2, Zenon DEF Summing
<1>4. h[A] = (IF A = {} THEN 0 ELSE f[Pick(A)] + h[A \ {Pick(A)}])
    BY <1>2, Zenon DEF Summing
<1>5. A # {}
    BY <1>3, <1>4
<1>6. A \ {Pick(A)} \in SUBSET T /\ A \ {Pick(A)} # A
    BY <1>2, <1>5, PickIn
<1>7. g[A \ {Pick(A)}] = h[A \ {Pick(A)}]
    BY <1>1, <1>6
<1> QED BY <1>3, <1>4, <1>7

LEMMA SummingExists ==
    ASSUME NEW f, NEW S, IsFiniteSet(S)
    PROVE  \A s \in SUBSET S : \E g : Summing(f, s, g)
<1> DEFINE Bad == {s \in SUBSET S : ~ \E g : Summing(f, s, g)}
<1> SUFFICES ASSUME Bad # {} PROVE FALSE
    OBVIOUS
<1>1. PICK A \in Bad : \A B \in Bad : B \subseteq A => B = A
    <2>1. Bad \in SUBSET (SUBSET S)
        OBVIOUS
    <2> HIDE DEF Bad
    <2> QED BY <2>1, LeastSet
<1> DEFINE Of(s) == CHOOSE g : Summing(f, s, g)
           Rest(s) == s \ {Pick(s)}
           G == [s \in SUBSET A |-> IF s = {} THEN 0 ELSE f[Pick(s)] + Of(Rest(s))[Rest(s)]]
<1>2. A \in SUBSET S
    OBVIOUS
<1>3. \A s \in SUBSET A : s # {} => Rest(s) \in SUBSET A /\ Rest(s) # A
    BY PickIn
<1>4. \A s \in SUBSET A : s # {} => Summing(f, Rest(s), Of(Rest(s)))
    <2>1. \A s \in SUBSET A : s # {} => Rest(s) \in SUBSET S /\ Rest(s) \notin Bad
        BY <1>1, <1>2, <1>3
    <2> QED BY <2>1
<1>5. ASSUME NEW s \in SUBSET A, s # {} PROVE G[Rest(s)] = Of(Rest(s))[Rest(s)]
    <2> DEFINE v == Rest(s)
    <2>1. v \in SUBSET A /\ Summing(f, v, Of(v))
        BY <1>3, <1>4, <1>5
    <2>2. Of(v)[v] = (IF v = {} THEN 0 ELSE f[Pick(v)] + Of(v)[Rest(v)])
        <3> HIDE DEF v
        <3> DEFINE o == Of(v)
        <3>1. v \in SUBSET v
            OBVIOUS
        <3>2. Summing(f, v, o)
            BY <2>1
        <3> HIDE DEF o
        <3>3. o[v] = (IF v = {} THEN 0 ELSE f[Pick(v)] + o[v \ {Pick(v)}])
            BY <3>1, <3>2, Zenon DEF Summing
        <3> QED BY <3>3 DEF o
    <2>3. G[v] = (IF v = {} THEN 0 ELSE f[Pick(v)] + Of(Rest(v))[Rest(v)])
        <3> HIDE DEF v
        <3> QED BY <2>1
    <2>4. CASE v = {}
        BY <2>2, <2>3, <2>4
    <2>5. CASE v # {}
        <3> HIDE DEF v
        <3> DEFINE r == Rest(v)
        <3>1. Summing(f, r, Of(r)) /\ r \subseteq v /\ IsFiniteSet(r) /\ r \in SUBSET r
            <4>1. r \subseteq S
                BY <1>2, <2>1
            <4> QED BY <1>4, <2>1, <2>5, <4>1, FS_Subset
        <3> DEFINE ov == Of(v)
                   or == Of(r)
        <3>2. Summing(f, v, ov) /\ Summing(f, r, or)
            BY <2>1, <3>1
        <3> HIDE DEF ov, or, r
        <3>3. ov[r] = or[r]
            BY <3>1, <3>2, SummingUnique
        <3> HIDE DEF G
        <3> QED BY <2>2, <2>3, <2>5, <3>3 DEF v, ov, or, r
    <2> QED BY <2>4, <2>5
<1>6. Summing(f, A, G)
    <2>1. \A s \in SUBSET A : (IF s = {} THEN 0 ELSE f[Pick(s)] + Of(Rest(s))[Rest(s)])
                            = (IF s = {} THEN 0 ELSE f[Pick(s)] + G[s \ {Pick(s)}])
        <3> HIDE DEF G, Of
        <3> QED BY <1>5
    <2> DEFINE H == [s \in SUBSET A |-> IF s = {} THEN 0 ELSE f[Pick(s)] + G[s \ {Pick(s)}]]
    <2>2. G = H
        <3>1. H = [s \in SUBSET A |-> IF s = {} THEN 0 ELSE f[Pick(s)] + Of(Rest(s))[Rest(s)]]
            <4> HIDE DEF G, Of, Rest
            <4> QED BY <2>1
        <3> QED BY <3>1
    <2> HIDE DEF G
    <2> QED BY <2>2, Zenon DEF Summing
<1> HIDE DEF G
<1> QED BY <1>6

-----------------------------------------------------------------------------
(* What a sum is. *)

LEMMA SumEmpty == ASSUME NEW f PROVE SumFunctionOnSet(f, {}) = 0
<1>1. PICK g : Summing(f, {}, g)
    BY FS_EmptySet, SummingExists
<1> DEFINE h == CHOOSE x : Summing(f, {}, x)
<1>2. Summing(f, {}, h)
    BY <1>1
<1> HIDE DEF h
<1>3. h[{}] = 0
    BY <1>2 DEF Summing
<1> QED BY <1>3, SumIsSumming DEF h

LEMMA SumPick ==
    ASSUME NEW f, NEW S, IsFiniteSet(S), S # {}
    PROVE  SumFunctionOnSet(f, S) = f[Pick(S)] + SumFunctionOnSet(f, S \ {Pick(S)})
<1>1. PICK R : R = S \ {Pick(S)}
    OBVIOUS
<1>2. IsFiniteSet(R) /\ R \subseteq S
    BY <1>1, FS_Subset
<1> DEFINE g == CHOOSE x : Summing(f, S, x)
           h == CHOOSE x : Summing(f, R, x)
<1>3. Summing(f, S, g) /\ Summing(f, R, h)
    BY <1>2, SummingExists
<1>4. SumFunctionOnSet(f, S) = g[S] /\ SumFunctionOnSet(f, R) = h[R]
    BY SumIsSumming
<1> HIDE DEF g, h
<1>5. g[R] = h[R]
    BY <1>2, <1>3, SummingUnique
<1>6. g[S] = f[Pick(S)] + g[S \ {Pick(S)}]
    BY <1>3 DEF Summing
<1> QED BY <1>1, <1>4, <1>5, <1>6

(* A sum of natural numbers is one. *)
LEMMA SumType ==
    ASSUME NEW S, IsFiniteSet(S), NEW f, \A x \in S : f[x] \in Nat
    PROVE  SumFunctionOnSet(f, S) \in Nat
<1> DEFINE Bad == {s \in SUBSET S : SumFunctionOnSet(f, s) \notin Nat}
<1> SUFFICES ASSUME Bad # {} PROVE FALSE
    OBVIOUS
<1>1. PICK A \in Bad : \A B \in Bad : B \subseteq A => B = A
    <2>1. Bad \in SUBSET (SUBSET S)
        OBVIOUS
    <2> HIDE DEF Bad
    <2> QED BY <2>1, LeastSet
<1>2. A \in SUBSET S /\ IsFiniteSet(A) /\ SumFunctionOnSet(f, A) \notin Nat
    BY FS_Subset
<1>3. A # {}
    BY <1>2, SumEmpty
<1>4. Pick(A) \in A /\ f[Pick(A)] \in Nat
    BY <1>2, <1>3, PickIn
<1>5. SumFunctionOnSet(f, A \ {Pick(A)}) \in Nat
    BY <1>1, <1>2, <1>4
<1> QED BY <1>2, <1>3, <1>4, <1>5, SumPick

(* Any member may be taken out. *)
LEMMA SumElement ==
    ASSUME NEW S, IsFiniteSet(S), NEW f, \A x \in S : f[x] \in Nat, NEW x \in S
    PROVE  SumFunctionOnSet(f, S) = f[x] + SumFunctionOnSet(f, S \ {x})
<1> DEFINE Sum(s) == SumFunctionOnSet(f, s)
           Bad == {s \in SUBSET S : \E y \in s : Sum(s) # f[y] + Sum(s \ {y})}
<1> SUFFICES ASSUME Bad # {} PROVE FALSE
    OBVIOUS
<1>1. PICK A \in Bad : \A B \in Bad : B \subseteq A => B = A
    <2>1. Bad \in SUBSET (SUBSET S)
        OBVIOUS
    <2> HIDE DEF Bad
    <2> QED BY <2>1, LeastSet
<1>2. A \in SUBSET S /\ IsFiniteSet(A)
    BY FS_Subset
<1>3. PICK y \in A : Sum(A) # f[y] + Sum(A \ {y})
    OBVIOUS
<1> DEFINE p == Pick(A)
<1>4. p \in A /\ f[p] \in Nat /\ f[y] \in Nat
    BY <1>2, PickIn
<1>5. Sum(A) = f[p] + Sum(A \ {p})
    BY <1>2, <1>3, SumPick
<1> HIDE DEF p
<1>6. p # y
    BY <1>3, <1>5
<1>7. \A z, w \in A : z # w => Sum(A \ {z}) = f[w] + Sum((A \ {z}) \ {w})
    <2> SUFFICES ASSUME NEW z \in A, NEW w \in A, z # w
                 PROVE  Sum(A \ {z}) = f[w] + Sum((A \ {z}) \ {w})
        OBVIOUS
    <2>1. A \ {z} \in SUBSET S /\ A \ {z} \notin Bad /\ w \in A \ {z}
        BY <1>1, <1>2
    <2> HIDE DEF Sum
    <2> QED BY <2>1
<1>8. Sum(A \ {p}) = f[y] + Sum((A \ {p}) \ {y}) /\ Sum(A \ {y}) = f[p] + Sum((A \ {y}) \ {p})
    BY <1>4, <1>6, <1>7, Zenon
<1>9. Sum((A \ {p}) \ {y}) = Sum((A \ {y}) \ {p})
    <2>1. (A \ {p}) \ {y} = (A \ {y}) \ {p}
        OBVIOUS
    <2> QED BY <2>1, Zenon
<1>10. Sum((A \ {y}) \ {p}) \in Nat
    <2>1. IsFiniteSet((A \ {y}) \ {p}) /\ \A z \in (A \ {y}) \ {p} : f[z] \in Nat
        BY <1>2, FS_Subset
    <2> QED BY <2>1, SumType
<1> HIDE DEF Sum
<1> QED BY <1>3, <1>4, <1>5, <1>8, <1>9, <1>10

(* Only the values at the members count. *)
LEMMA SumSame ==
    ASSUME NEW S, IsFiniteSet(S), NEW f, NEW g, \A x \in S : f[x] = g[x]
    PROVE  SumFunctionOnSet(f, S) = SumFunctionOnSet(g, S)
<1> DEFINE Bad == {s \in SUBSET S : SumFunctionOnSet(f, s) # SumFunctionOnSet(g, s)}
<1> SUFFICES ASSUME Bad # {} PROVE FALSE
    OBVIOUS
<1>1. PICK A \in Bad : \A B \in Bad : B \subseteq A => B = A
    <2>1. Bad \in SUBSET (SUBSET S)
        OBVIOUS
    <2> HIDE DEF Bad
    <2> QED BY <2>1, LeastSet
<1>2. A \in SUBSET S /\ IsFiniteSet(A) /\ SumFunctionOnSet(f, A) # SumFunctionOnSet(g, A)
    BY FS_Subset
<1>3. A # {}
    BY <1>2, SumEmpty
<1>4. Pick(A) \in A /\ f[Pick(A)] = g[Pick(A)]
    BY <1>2, <1>3, PickIn
<1>5. SumFunctionOnSet(f, A \ {Pick(A)}) = SumFunctionOnSet(g, A \ {Pick(A)})
    BY <1>1, <1>2, <1>4
<1> QED BY <1>2, <1>3, <1>4, <1>5, SumPick

(* One value grows, and the sum with it. *)
LEMMA SumAdd ==
    ASSUME NEW S, IsFiniteSet(S), NEW x \in S, NEW f, NEW g, NEW k \in Nat,
           \A y \in S : f[y] \in Nat,
           g[x] = f[x] + k, \A y \in S \ {x} : g[y] = f[y]
    PROVE  SumFunctionOnSet(g, S) = SumFunctionOnSet(f, S) + k
<1> DEFINE R == S \ {x}
<1>1. IsFiniteSet(R)
    BY FS_Subset
<1>2. SumFunctionOnSet(g, R) = SumFunctionOnSet(f, R)
    BY <1>1, SumSame
<1>3. SumFunctionOnSet(f, R) \in Nat
    BY <1>1, SumType
<1>4. \A y \in S : g[y] \in Nat
    <2>1. f[x] + k \in Nat
        OBVIOUS
    <2> QED BY <2>1
<1>5. SumFunctionOnSet(f, S) = f[x] + SumFunctionOnSet(f, R)
    BY SumElement
<1>6. SumFunctionOnSet(g, S) = g[x] + SumFunctionOnSet(g, R)
    BY <1>4, SumElement
<1> QED BY <1>2, <1>3, <1>5, <1>6

(* Members whose value is zero do not count. *)
LEMMA SumSubset ==
    ASSUME NEW S, IsFiniteSet(S), NEW f, \A x \in S : f[x] \in Nat,
           NEW T \in SUBSET S, \A x \in S \ T : f[x] = 0
    PROVE  SumFunctionOnSet(f, S) = SumFunctionOnSet(f, T)
<1> DEFINE Sum(s) == SumFunctionOnSet(f, s)
           Bad == {s \in SUBSET S : T \subseteq s /\ Sum(s) # Sum(T)}
<1> SUFFICES ASSUME Bad # {} PROVE FALSE
    OBVIOUS
<1>1. PICK A \in Bad : \A B \in Bad : B \subseteq A => B = A
    <2>1. Bad \in SUBSET (SUBSET S)
        OBVIOUS
    <2> HIDE DEF Bad
    <2> QED BY <2>1, LeastSet
<1>2. A \in SUBSET S /\ IsFiniteSet(A) /\ T \subseteq A /\ Sum(A) # Sum(T)
    BY FS_Subset
<1>3. PICK x \in A : x \notin T
    BY <1>2
<1>4. Sum(A) = f[x] + Sum(A \ {x})
    BY <1>2, SumElement
<1>5. Sum(A \ {x}) \in Nat
    <2>1. IsFiniteSet(A \ {x}) /\ \A z \in A \ {x} : f[z] \in Nat
        BY <1>2, FS_Subset
    <2> QED BY <2>1, SumType
<1>6. Sum(A \ {x}) = Sum(T)
    BY <1>1, <1>2, <1>3
<1>7. f[x] = 0
    BY <1>2, <1>3
<1> HIDE DEF Sum
<1> QED BY <1>2, <1>4, <1>5, <1>6, <1>7

(* Two parts that share no member. *)
LEMMA SumUnion ==
    ASSUME NEW S, NEW T, IsFiniteSet(S), IsFiniteSet(T), S \cap T = {},
           NEW f, \A x \in S \cup T : f[x] \in Nat
    PROVE  SumFunctionOnSet(f, S \cup T) = SumFunctionOnSet(f, S) + SumFunctionOnSet(f, T)
<1> DEFINE Sum(s) == SumFunctionOnSet(f, s)
           Bad == {s \in SUBSET S : Sum(s \cup T) # Sum(s) + Sum(T)}
<1> SUFFICES ASSUME Bad # {} PROVE FALSE
    OBVIOUS
<1>1. PICK A \in Bad : \A B \in Bad : B \subseteq A => B = A
    <2>1. Bad \in SUBSET (SUBSET S)
        OBVIOUS
    <2> HIDE DEF Bad
    <2> QED BY <2>1, LeastSet
<1>2. A \in SUBSET S /\ IsFiniteSet(A) /\ Sum(A \cup T) # Sum(A) + Sum(T)
    BY FS_Subset
<1>3. Sum(T) \in Nat
    BY SumType
<1>4. A # {}
    <2> SUFFICES ASSUME A = {} PROVE FALSE
        OBVIOUS
    <2>1. A \cup T = T
        OBVIOUS
    <2>2. Sum(A \cup T) = Sum(T)
        BY <2>1, Zenon
    <2>3. Sum(A) = 0
        BY SumEmpty
    <2> HIDE DEF Sum
    <2> QED BY <1>2, <1>3, <2>2, <2>3
<1>5. PICK x \in A : TRUE
    BY <1>4
<1>6. Sum(A) = f[x] + Sum(A \ {x})
    BY <1>2, SumElement
<1>7. Sum(A \cup T) = f[x] + Sum((A \ {x}) \cup T)
    <2>1. IsFiniteSet(A \cup T) /\ x \in A \cup T /\ \A y \in A \cup T : f[y] \in Nat
        BY <1>2, FS_Union
    <2>2. (A \cup T) \ {x} = (A \ {x}) \cup T
        BY <1>2
    <2>3. Sum(A \cup T) = f[x] + Sum((A \cup T) \ {x})
        BY <2>1, SumElement
    <2> HIDE DEF Sum
    <2> QED BY <2>2, <2>3
<1>8. Sum((A \ {x}) \cup T) = Sum(A \ {x}) + Sum(T)
    BY <1>1, <1>2
<1>9. Sum(A \ {x}) \in Nat /\ f[x] \in Nat
    <2>1. IsFiniteSet(A \ {x}) /\ \A z \in A \ {x} : f[z] \in Nat
        BY <1>2, FS_Subset
    <2> QED BY <1>2, <2>1, SumType
<1> HIDE DEF Sum
<1> QED BY <1>2, <1>3, <1>6, <1>7, <1>8, <1>9

(* A part of a set sums to less. *)
LEMMA SumMonotone ==
    ASSUME NEW S, IsFiniteSet(S), NEW T \in SUBSET S, NEW f, \A x \in S : f[x] \in Nat
    PROVE  /\ SumFunctionOnSet(f, T) \in Nat /\ SumFunctionOnSet(f, S) \in Nat
           /\ SumFunctionOnSet(f, T) <= SumFunctionOnSet(f, S)
<1>1. PICK R : R = S \ T
    OBVIOUS
<1>2. IsFiniteSet(T) /\ IsFiniteSet(R) /\ T \cap R = {} /\ T \cup R = S
    BY <1>1, FS_Subset
<1>3. SumFunctionOnSet(f, S) = SumFunctionOnSet(f, T) + SumFunctionOnSet(f, R)
    <2>1. SumFunctionOnSet(f, T \cup R) = SumFunctionOnSet(f, T) + SumFunctionOnSet(f, R)
        BY <1>2, SumUnion
    <2> QED BY <1>2, <2>1, Zenon
<1>4. SumFunctionOnSet(f, T) \in Nat /\ SumFunctionOnSet(f, R) \in Nat
    BY <1>1, <1>2, SumType
<1> QED BY <1>3, <1>4

(* The same amount is added for each member of a part. *)
LEMMA SumShift ==
    ASSUME NEW S, IsFiniteSet(S), NEW T \in SUBSET S, NEW f, NEW g, NEW k \in Nat,
           \A x \in S : f[x] \in Nat,
           \A x \in S : g[x] = IF x \in T THEN f[x] + k ELSE f[x]
    PROVE  SumFunctionOnSet(g, S) = SumFunctionOnSet(f, S) + k * Cardinality(T)
<1> DEFINE F(s) == [x \in S |-> IF x \in s THEN f[x] + k ELSE f[x]]
           Good(s) == SumFunctionOnSet(F(s), S) = SumFunctionOnSet(f, S) + k * Cardinality(s)
           Bad == {s \in SUBSET T : ~Good(s)}
<1>1. IsFiniteSet(T) /\ SumFunctionOnSet(f, S) \in Nat
    BY FS_Subset, SumType
<1>2. Bad = {}
    <2> SUFFICES ASSUME Bad # {} PROVE FALSE
        OBVIOUS
    <2>1. PICK A \in Bad : \A B \in Bad : B \subseteq A => B = A
        <3>1. Bad \in SUBSET (SUBSET T)
            OBVIOUS
        <3> HIDE DEF Bad
        <3> QED BY <1>1, <3>1, LeastSet
    <2>2. A \in SUBSET T /\ IsFiniteSet(A) /\ ~Good(A)
        BY <1>1, FS_Subset
    <2>3. A # {}
        <3>1. \A x \in S : F({})[x] = f[x]
            OBVIOUS
        <3>2. SumFunctionOnSet(F({}), S) = SumFunctionOnSet(f, S)
            <4> DEFINE e == F({})
            <4>1. \A x \in S : e[x] = f[x]
                BY <3>1
            <4> HIDE DEF e
            <4>2. SumFunctionOnSet(e, S) = SumFunctionOnSet(f, S)
                BY <4>1, SumSame
            <4> QED BY <4>2 DEF e
        <3>3. Cardinality({}) = 0
            BY FS_EmptySet
        <3>4. Good({})
            BY <1>1, <3>2, <3>3
        <3> QED BY <2>2, <3>4
    <2>4. PICK x \in A : TRUE
        BY <2>3
    <2> DEFINE B == A \ {x}
    <2>5. Good(B)
        BY <2>1, <2>2
    <2>6. Cardinality(A) = Cardinality(B) + 1 /\ Cardinality(B) \in Nat
        BY <2>2, FS_RemoveElement, FS_Subset, FS_CardinalityType
    <2>7. SumFunctionOnSet(F(A), S) = SumFunctionOnSet(F(B), S) + k
        <3> DEFINE a == F(A)
                   b == F(B)
        <3>1. /\ \A y \in S : b[y] \in Nat
              /\ a[x] = b[x] + k /\ \A y \in S \ {x} : a[y] = b[y]
            BY <2>2
        <3>2. x \in S
            BY <2>2
        <3> HIDE DEF a, b
        <3>3. SumFunctionOnSet(a, S) = SumFunctionOnSet(b, S) + k
            BY <3>1, <3>2, SumAdd
        <3> QED BY <3>3 DEF a, b
    <2>8. k * (Cardinality(B) + 1) = k * Cardinality(B) + k /\ k * Cardinality(B) \in Nat
        BY <2>6
    <2> HIDE DEF F, B
    <2>9. Good(A)
        BY <1>1, <2>5, <2>6, <2>7, <2>8
    <2> QED BY <2>2, <2>9
<1>3. Good(T)
    BY <1>2
<1>4. \A x \in S : g[x] = F(T)[x]
    OBVIOUS
<1> DEFINE e == F(T)
<1>5. \A x \in S : g[x] = e[x]
    BY <1>4
<1>6. SumFunctionOnSet(e, S) = SumFunctionOnSet(f, S) + k * Cardinality(T)
    BY <1>3
<1> HIDE DEF e
<1>7. SumFunctionOnSet(g, S) = SumFunctionOnSet(e, S)
    BY <1>5, SumSame
<1> QED BY <1>6, <1>7

-----------------------------------------------------------------------------
(* Sequences. *)

LEMMA FirstIndex ==
    ASSUME NEW q, NEW c, Len(q) \in Nat, \E i \in 1..Len(q) : q[i] = c
    PROVE  LET k == SelectInSeq(q, LAMBDA v : v = c)
           IN  k \in 1..Len(q) /\ q[k] = c
<1> DEFINE I == {i \in 1..Len(q) : q[i] = c}
<1>1. I \in SUBSET Nat /\ I # {}
    OBVIOUS
<1> HIDE DEF I
<1>2. Min(I) \in I
    BY <1>1, LeastNumber DEF Min
<1>3. SelectInSeq(q, LAMBDA v : v = c) = Min(I)
    BY <1>1, Zenon DEF SelectInSeq, I
<1> QED BY <1>2, <1>3 DEF I

(* RemoveFirst closes the gap that one occurrence leaves. *)
LEMMA RemoveFirstIs ==
    ASSUME NEW S, NEW q \in Seq(S), NEW c
    PROVE  \/ RemoveFirst(q, c) = q /\ \A i \in 1..Len(q) : q[i] # c
           \/ \E k \in 1..Len(q) :
                /\ q[k] = c /\ RemoveFirst(q, c) \in Seq(S) /\ Len(RemoveFirst(q, c)) = Len(q) - 1
                /\ \A i \in 1..(Len(q) - 1) : RemoveFirst(q, c)[i] = IF i < k THEN q[i] ELSE q[i + 1]
<1>1. CASE \E i \in 1..Len(q) : q[i] = c
    <2> DEFINE k == SelectInSeq(q, LAMBDA v : v = c)
    <2>1. k \in 1..Len(q) /\ q[k] = c
        <3>1. Len(q) \in Nat
            OBVIOUS
        <3> QED BY <1>1, <3>1, FirstIndex, Zenon
    <2>2. RemoveFirst(q, c) = SubSeq(q, 1, k - 1) \o SubSeq(q, k + 1, Len(q))
        BY <1>1, Zenon DEF RemoveFirst, RemoveAt
    <2> HIDE DEF k
    <2>3. PICK j \in 1..Len(q) : j = k
        BY <2>1
    <2> DEFINE a == SubSeq(q, 1, j - 1)
               b == SubSeq(q, j + 1, Len(q))
               r == a \o b
    <2>4. /\ r \in Seq(S) /\ Len(r) = Len(q) - 1
          /\ \A i \in 1..(Len(q) - 1) : r[i] = IF i < j THEN q[i] ELSE q[i + 1]
        <3>1. a \in Seq(S) /\ Len(a) = j - 1 /\ \A i \in 1..(j - 1) : a[i] = q[i]
            OBVIOUS
        <3>2. b \in Seq(S) /\ Len(b) = Len(q) - j /\ \A i \in 1..(Len(q) - j) : b[i] = q[j + i]
            OBVIOUS
        <3> HIDE DEF a, b
        <3>3. /\ r \in Seq(S) /\ Len(r) = Len(a) + Len(b)
              /\ \A i \in 1..Len(a) : r[i] = a[i]
              /\ \A i \in 1..Len(b) : r[Len(a) + i] = b[i]
            <4>1. PICK x \in Seq(S) : x = a
                BY <3>1
            <4>2. PICK y \in Seq(S) : y = b
                BY <3>2
            <4>3. /\ x \o y \in Seq(S) /\ Len(x \o y) = Len(x) + Len(y)
                  /\ \A i \in 1..Len(x) : (x \o y)[i] = x[i]
                OBVIOUS
            <4>4. \A i \in 1..Len(y) : (x \o y)[Len(x) + i] = y[i]
                OBVIOUS
            <4> QED BY <4>1, <4>2, <4>3, <4>4
        <3>4. ASSUME NEW i \in 1..(Len(q) - 1) PROVE r[i] = IF i < j THEN q[i] ELSE q[i + 1]
            <4>1. CASE i < j
                <5>1. i \in 1..(j - 1)
                    BY <4>1
                <5> QED BY <3>1, <3>3, <4>1, <5>1
            <4>2. CASE ~(i < j)
                <5>1. i - (j - 1) \in 1..(Len(q) - j) /\ j + (i - (j - 1)) = i + 1 /\ (j - 1) + (i - (j - 1)) = i
                    BY <4>2
                <5>2. r[i] = b[i - (j - 1)] /\ b[i - (j - 1)] = q[i + 1]
                    BY <3>1, <3>2, <3>3, <5>1
                <5> QED BY <4>2, <5>2
            <4> QED BY <4>1, <4>2
        <3>5. Len(r) = Len(q) - 1
            BY <3>1, <3>2, <3>3
        <3> QED BY <3>3, <3>4, <3>5
    <2>5. RemoveFirst(q, c) = r /\ q[j] = c
        BY <2>1, <2>2, <2>3
    <2> HIDE DEF a, b, r
    <2> QED BY <2>4, <2>5
<1>2. CASE ~ \E i \in 1..Len(q) : q[i] = c
    BY <1>2 DEF RemoveFirst
<1> QED BY <1>1, <1>2
=============================================================================
