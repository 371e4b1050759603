------------------------------ MODULE SumProofs ------------------------------
(***************************************************************************)
(* Facts about finite sets and about SumFunction of the community modules, *)
(* the sum of a function over its domain, on which StoreMergeProofs rests: *)
(* a total is such a sum over a log. The folds are recursive functions, so *)
(* the facts come by a smallest set at fault and not by induction on data. *)
(***************************************************************************)
EXTENDS Integers, FiniteSets, FiniteSetsExt, FiniteSetTheorems, TLAPS

-----------------------------------------------------------------------------
(* Sums over finite sets *)

\* Of every nonempty family of subsets of a finite set, one holds no other.
LEMMA SmallestSubset ==
    ASSUME NEW S, IsFiniteSet(S), NEW T, T \subseteq SUBSET S, T # {}
    PROVE  \E x \in T : \A y \in T : y \subseteq x => y = x
<1>1. /\ IsWellFoundedOn(StrictSubsetOrdering(S), FiniteSubsetsOf(S))
      /\ FiniteSubsetsOf(S) = SUBSET S
    BY FS_StrictSubsetOrderingWellFounded, FS_FiniteSubsetsOfFinite
<1>2. PICK x \in T : \A y \in T : <<y, x>> \notin StrictSubsetOrdering(S)
    BY <1>1, WFMin
<1>3. ASSUME NEW y \in T, y \subseteq x PROVE y = x
    <2>1. <<y, x>> \in (SUBSET S) \X (SUBSET S)
        BY <1>3
    <2> QED
        BY <1>2, <1>3, <2>1 DEF StrictSubsetOrdering
<1> QED
    BY <1>3

\* Induction over a finite set: a fault that no set has unless one with an
\* element less has it, no set has.
LEMMA NoneAtFault ==
    ASSUME NEW S, IsFiniteSet(S), NEW B, B \subseteq SUBSET S, {} \notin B,
           \A s \in B : \E x \in s : s \ {x} \in B
    PROVE  B = {}
<1> SUFFICES ASSUME B # {} PROVE FALSE
    OBVIOUS
<1>1. PICK s \in B : \A t \in B : t \subseteq s => t = s
    BY SmallestSubset
<1>2. PICK x \in s : s \ {x} \in B
    OBVIOUS
<1>3. s \ {x} \subseteq s /\ s \ {x} # s
    BY <1>2
<1> QED
    BY <1>1, <1>2, <1>3

LEMMA LeastNatural ==
    ASSUME NEW S \in SUBSET Nat, S # {}
    PROVE  \E x \in S : \A y \in S : x <= y
<1>1. \E x \in S : \A y \in S : <<y, x>> \notin OpToRel(<, Nat)
    BY NatLessThanWellFounded, WFMin
<1>2. PICK x \in S : \A y \in S : <<y, x>> \notin OpToRel(<, Nat)
    BY <1>1
<1>3. \A y \in S : ~(y < x)
    BY <1>2 DEF OpToRel
<1> QED BY <1>3

One(s) == CHOOSE x \in s : TRUE
\* The sums of f over the subsets of S that are among those of Q, as SumFunction folds them.
Sums(f, Q, it) == it = [s \in Q |-> IF s = {} THEN 0 ELSE f[One(s)] + it[s \ {One(s)}]]

LEMMA SubsetSize ==
    ASSUME NEW S, IsFiniteSet(S), NEW s \in SUBSET S
    PROVE  /\ IsFiniteSet(s) /\ Cardinality(s) \in Nat /\ Cardinality(s) <= Cardinality(S)
           /\ Cardinality(s) = 0 <=> s = {}
           /\ s # {} => /\ One(s) \in s /\ s \ {One(s)} \in SUBSET S
                        /\ Cardinality(s \ {One(s)}) = Cardinality(s) - 1
<1>1. IsFiniteSet(s) /\ Cardinality(s) <= Cardinality(S)
    BY FS_Subset
<1>2. Cardinality(s) \in Nat /\ (Cardinality(s) = 0 <=> s = {})
    BY <1>1, FS_CardinalityType, FS_EmptySet
<1>3. s # {} => One(s) \in s
    BY DEF One
<1>4. s # {} => Cardinality(s \ {One(s)}) = Cardinality(s) - 1
    BY <1>1, <1>3, FS_RemoveElement
<1> QED
    BY <1>1, <1>2, <1>3, <1>4

LEMMA SumsExist ==
    ASSUME NEW S, IsFiniteSet(S), NEW f
    PROVE  \E it : Sums(f, SUBSET S, it)
<1> DEFINE Upto(n) == {s \in SUBSET S : Cardinality(s) <= n}
           Bad == {n \in Nat : ~\E it : Sums(f, Upto(n), it)}
<1>1. \A n, s : s \in Upto(n) <=> s \in SUBSET S /\ Cardinality(s) <= n
    OBVIOUS
<1> HIDE DEF Upto
<1>2. 0 \notin Bad
    <2>1. ASSUME NEW s \in Upto(0) PROVE s = {}
        <3>1. s \in SUBSET S /\ Cardinality(s) <= 0
            BY <1>1
        <3>2. Cardinality(s) \in Nat /\ (Cardinality(s) = 0 <=> s = {})
            BY <3>1, SubsetSize
        <3> QED
            BY <3>1, <3>2
    <2>2. Sums(f, Upto(0), [s \in Upto(0) |-> 0])
        BY <2>1 DEF Sums
    <2> QED
        BY <2>2
<1>3. ASSUME NEW n \in Nat, n \notin Bad PROVE n + 1 \notin Bad
    <2>1. PICK it : Sums(f, Upto(n), it)
        BY <1>3
    <2> DEFINE jt == [s \in Upto(n + 1) |-> IF s = {} THEN 0 ELSE f[One(s)] + it[s \ {One(s)}]]
    <2>2. ASSUME NEW s \in Upto(n + 1), s # {} PROVE jt[s \ {One(s)}] = it[s \ {One(s)}]
        <3> DEFINE t == s \ {One(s)}
        <3>1. /\ t \in SUBSET S /\ Cardinality(t) = Cardinality(s) - 1
              /\ Cardinality(s) \in Nat /\ Cardinality(s) <= n + 1
            BY <1>1, <2>2, SubsetSize
        <3>3. Cardinality(t) <= n /\ Cardinality(t) <= n + 1
            BY <3>1
        <3>4. t \in Upto(n) /\ t \in Upto(n + 1)
            BY <1>1, <3>1, <3>3
        <3>2. it[t] = IF t = {} THEN 0 ELSE f[One(t)] + it[t \ {One(t)}]
            BY <2>1, <3>4 DEF Sums
        <3> QED
            BY <3>2, <3>4
    <2>3. jt = [s \in Upto(n + 1) |-> IF s = {} THEN 0 ELSE f[One(s)] + jt[s \ {One(s)}]]
        BY <2>2
    <2> HIDE DEF jt
    <2>4. Sums(f, Upto(n + 1), jt)
        BY <2>3 DEF Sums
    <2> QED
        BY <2>4
<1>4. Bad = {}
    <2> SUFFICES ASSUME Bad # {} PROVE FALSE
        OBVIOUS
    <2>1. PICK m \in Bad : \A k \in Bad : m <= k
        BY LeastNatural
    <2>2. m \in Nat /\ m # 0
        BY <1>2
    <2> HIDE DEF Bad
    <2>3. m - 1 \in Nat /\ m - 1 \notin Bad /\ (m - 1) + 1 = m
        BY <2>1, <2>2
    <2> QED
        BY <1>3, <2>1, <2>3
<1>5. PICK it : Sums(f, Upto(Cardinality(S)), it)
    <2>1. Cardinality(S) \in Nat
        BY FS_CardinalityType
    <2> QED
        BY <1>4, <2>1
<1>6. \A s \in SUBSET S : s \in Upto(Cardinality(S))
    BY <1>1, SubsetSize
<1>7. Upto(Cardinality(S)) = SUBSET S
    BY <1>1, <1>6
<1> QED
    BY <1>5, <1>7

\* What SumFunction is: some fold of the function over the subsets of its domain.
LEMMA SumIsFold ==
    ASSUME NEW f, IsFiniteSet(DOMAIN f)
    PROVE  \E it : Sums(f, SUBSET DOMAIN f, it) /\ SumFunction(f) = it[DOMAIN f]
<1> DEFINE D == DOMAIN f
           it == CHOOSE it : it = [s \in SUBSET D |-> IF s = {} THEN 0 ELSE f[CHOOSE x \in s : TRUE] + it[s \ {CHOOSE x \in s : TRUE}]]
<1>1. SumFunction(f) = it[D]
    BY DEF SumFunction, SumFunctionOnSet, FoldFunctionOnSet, MapThenFoldSet
<1>2. \E jt : Sums(f, SUBSET D, jt)
    BY SumsExist
<1>3. \E jt : jt = [s \in SUBSET D |-> IF s = {} THEN 0
                          ELSE f[CHOOSE x \in s : TRUE] + jt[s \ {CHOOSE x \in s : TRUE}]]
    BY <1>2 DEF Sums, One
<1>4. it = [s \in SUBSET D |-> IF s = {} THEN 0
                          ELSE f[CHOOSE x \in s : TRUE] + it[s \ {CHOOSE x \in s : TRUE}]]
    BY <1>3, Zenon
<1> HIDE DEF it
<1>5. Sums(f, SUBSET D, it)
    BY <1>4 DEF Sums, One
<1> QED
    BY <1>1, <1>5

LEMMA SumType ==
    ASSUME NEW f, IsFiniteSet(DOMAIN f), \A x \in DOMAIN f : f[x] \in Int
    PROVE  SumFunction(f) \in Int
<1> DEFINE D == DOMAIN f
<1>1. PICK it : Sums(f, SUBSET D, it) /\ SumFunction(f) = it[D]
    BY SumIsFold
<1> DEFINE B == {s \in SUBSET D : it[s] \notin Int}
<1>2. B = {}
    <2>1. {} \notin B
        BY <1>1 DEF Sums
    <2>2. ASSUME NEW s \in B PROVE \E x \in s : s \ {x} \in B
        <3>1. s # {} /\ it[s] = f[One(s)] + it[s \ {One(s)}]
            BY <1>1, <2>1, <2>2 DEF Sums
        <3>2. One(s) \in s /\ s \ {One(s)} \in SUBSET D /\ f[One(s)] \in Int
            BY <3>1 DEF One
        <3>3. it[s \ {One(s)}] \notin Int
            BY <2>2, <3>1, <3>2
        <3> QED
            BY <3>2, <3>3
    <2>3. B \subseteq SUBSET D /\ IsFiniteSet(D)
        OBVIOUS
    <2> HIDE DEF B
    <2> QED
        BY <2>1, <2>2, <2>3, NoneAtFault
<1> QED
    BY <1>1, <1>2

-----------------------------------------------------------------------------
(* Finite sets of values *)

\* A finite set of numbers has a greatest.
LEMMA IntMax ==
    ASSUME NEW S, IsFiniteSet(S), S \subseteq Int, S # {}
    PROVE  Max(S) \in S /\ \A x \in S : x <= Max(S)
<1> DEFINE Topped(s) == \E m \in s : \A x \in s : m >= x
           B == {s \in SUBSET S : s # {} /\ ~Topped(s)}
<1>1. B = {}
    <2>1. {} \notin B /\ B \subseteq SUBSET S
        OBVIOUS
    <2>2. ASSUME NEW s \in B PROVE \E x \in s : s \ {x} \in B
        <3>1. PICK x \in s : x \in Int
            OBVIOUS
        <3>2. \A y \in s : y \in Int
            OBVIOUS
        <3>3. s \ {x} # {}
            BY <3>1, <3>2
        <3>4. ASSUME NEW m \in s, \A y \in s \ {x} : m >= y PROVE FALSE
            <4>1. CASE m >= x
                BY <3>1, <3>2, <3>4, <4>1
            <4>2. CASE x >= m
                BY <3>1, <3>2, <3>4, <4>2
            <4> QED
                BY <3>1, <3>2, <3>4, <4>1, <4>2
        <3> QED
            BY <3>1, <3>3, <3>4
    <2> HIDE DEF B
    <2> QED
        BY <2>1, <2>2, NoneAtFault
<1>2. \E m \in S : \A x \in S : m >= x
    BY <1>1
<1>3. Max(S) \in S /\ \A x \in S : Max(S) >= x
    BY <1>2 DEF Max
<1>4. \A x \in S : Max(S) \in Int /\ x \in Int
    BY <1>3
<1> QED
    BY <1>3, <1>4

\* The values of a function on a finite domain.
LEMMA ValuesFinite ==
    ASSUME NEW f, IsFiniteSet(DOMAIN f)
    PROVE  IsFiniteSet({f[x] : x \in DOMAIN f})
<1> DEFINE D == DOMAIN f
           Vals(s) == {f[x] : x \in s}
           B == {s \in SUBSET D : ~IsFiniteSet(Vals(s))}
<1>1. B = {}
    <2>1. {} \notin B
        <3>1. Vals({}) = {}
            OBVIOUS
        <3> QED
            BY <3>1, FS_EmptySet
    <2>2. ASSUME NEW s \in B PROVE \E x \in s : s \ {x} \in B
        <3>1. PICK x : x \in s
            BY <2>1, <2>2
        <3>2. Vals(s) = Vals(s \ {x}) \cup {f[x]}
            BY <3>1
        <3>3. ~IsFiniteSet(Vals(s)) /\ s \ {x} \in SUBSET D
            BY <2>2
        <3> HIDE DEF Vals
        <3>4. ASSUME IsFiniteSet(Vals(s \ {x})) PROVE FALSE
            <4>1. IsFiniteSet(Vals(s \ {x}) \cup {f[x]})
                BY <3>4, FS_AddElement
            <4> QED
                BY <3>2, <3>3, <4>1
        <3> QED
            BY <3>1, <3>3, <3>4
    <2>3. B \subseteq SUBSET D /\ IsFiniteSet(D)
        OBVIOUS
    <2> HIDE DEF B
    <2> QED
        BY <2>1, <2>2, <2>3, NoneAtFault
<1>2. IsFiniteSet(Vals(D))
    BY <1>1
<1> QED
    BY <1>2

-----------------------------------------------------------------------------
(* More on sums *)

\* A sum of naturals is one.
LEMMA SumOfNaturals ==
    ASSUME NEW f, IsFiniteSet(DOMAIN f), \A x \in DOMAIN f : f[x] \in Nat
    PROVE  SumFunction(f) \in Nat
<1> DEFINE D == DOMAIN f
<1>1. PICK it : Sums(f, SUBSET D, it) /\ SumFunction(f) = it[D]
    BY SumIsFold
<1> DEFINE B == {s \in SUBSET D : it[s] \notin Nat}
<1>2. B = {}
    <2>1. {} \notin B
        BY <1>1 DEF Sums
    <2>2. ASSUME NEW s \in B PROVE \E x \in s : s \ {x} \in B
        <3>1. s # {} /\ it[s] = f[One(s)] + it[s \ {One(s)}]
            BY <1>1, <2>1, <2>2 DEF Sums
        <3>2. One(s) \in s /\ s \ {One(s)} \in SUBSET D /\ f[One(s)] \in Nat
            BY <3>1 DEF One
        <3>3. it[s \ {One(s)}] \notin Nat
            BY <2>2, <3>1, <3>2
        <3> QED
            BY <3>2, <3>3
    <2>3. B \subseteq SUBSET D /\ IsFiniteSet(D)
        OBVIOUS
    <2> HIDE DEF B
    <2> QED
        BY <2>1, <2>2, <2>3, NoneAtFault
<1> QED
    BY <1>1, <1>2

\* A sum of zeros is zero.
LEMMA SumOfZeros ==
    ASSUME NEW f, IsFiniteSet(DOMAIN f), \A x \in DOMAIN f : f[x] = 0
    PROVE  SumFunction(f) = 0
<1> DEFINE D == DOMAIN f
<1>1. PICK it : Sums(f, SUBSET D, it) /\ SumFunction(f) = it[D]
    BY SumIsFold
<1> DEFINE B == {s \in SUBSET D : it[s] # 0}
<1>2. B = {}
    <2>1. {} \notin B
        BY <1>1 DEF Sums
    <2>2. ASSUME NEW s \in B PROVE \E x \in s : s \ {x} \in B
        <3>1. s # {} /\ it[s] = f[One(s)] + it[s \ {One(s)}]
            BY <1>1, <2>1, <2>2 DEF Sums
        <3>2. One(s) \in s /\ s \ {One(s)} \in SUBSET D /\ f[One(s)] = 0
            BY <3>1 DEF One
        <3>3. it[s \ {One(s)}] # 0
            BY <2>2, <3>1, <3>2
        <3> QED
            BY <3>2, <3>3
    <2>3. B \subseteq SUBSET D /\ IsFiniteSet(D)
        OBVIOUS
    <2> HIDE DEF B
    <2> QED
        BY <2>1, <2>2, <2>3, NoneAtFault
<1> QED
    BY <1>1, <1>2

\* The sum over no element.
LEMMA SumOfNone ==
    ASSUME NEW f, DOMAIN f = {}
    PROVE  SumFunction(f) = 0
<1>1. IsFiniteSet(DOMAIN f)
    BY FS_EmptySet
<1>2. PICK it : Sums(f, SUBSET DOMAIN f, it) /\ SumFunction(f) = it[DOMAIN f]
    BY <1>1, SumIsFold
<1> QED
    BY <1>2 DEF Sums

\* Whichever element a sum begins with.
AnyFirst(f, it) ==
    \A s \in SUBSET DOMAIN f : it[s] \in Int /\ \A x \in s : it[s] = f[x] + it[s \ {x}]
\* The order of a sum is any.
LEMMA SumWithout ==
    ASSUME NEW f, IsFiniteSet(DOMAIN f), \A x \in DOMAIN f : f[x] \in Int,
           NEW it, Sums(f, SUBSET DOMAIN f, it)
    PROVE  AnyFirst(f, it)
<1> DEFINE D == DOMAIN f
           Good(s) == it[s] \in Int /\ \A x \in s : it[s] = f[x] + it[s \ {x}]
           B == {s \in SUBSET D : ~\A t \in SUBSET s : Good(t)}
<1>1. \A s \in SUBSET D : it[s] = IF s = {} THEN 0 ELSE f[One(s)] + it[s \ {One(s)}]
    BY DEF Sums
<1>0. it[{}] = 0
    <2>1. {} \in SUBSET D
        OBVIOUS
    <2> QED
        BY <1>1, <2>1
<1>2. {} \notin B
    <2>1. Good({})
        BY <1>0
    <2> QED
        BY <2>1
<1>3. ASSUME NEW s \in SUBSET D, \A x \in s : \A t \in SUBSET (s \ {x}) : Good(t) PROVE Good(s)
    <2>1. CASE s = {}
        BY <1>0, <2>1
    <2>2. CASE s # {}
        <3> DEFINE c == One(s)
        <3>1. c \in s /\ it[s] = f[c] + it[s \ {c}] /\ f[c] \in Int
            BY <1>1, <2>2 DEF One
        <3> HIDE DEF c
        <3>2. Good(s \ {c})
            BY <1>3, <3>1
        <3>3. ASSUME NEW x \in s, x # c PROVE it[s] = f[x] + it[s \ {x}]
            <4> DEFINE r == (s \ {c}) \ {x}
            <4>1. it[s \ {c}] = f[x] + it[r]
                BY <3>2, <3>3
            <4>2. Good(s \ {x})
                BY <1>3
            <4>3. (s \ {x}) \ {c} = r /\ c \in s \ {x}
                BY <3>1, <3>3
            <4>4. it[s \ {x}] = f[c] + it[r]
                BY <4>2, <4>3
            <4>5. Good(r)
                <5>1. r \in SUBSET (s \ {x})
                    OBVIOUS
                <5> QED
                    BY <1>3, <5>1
            <4>6. f[x] \in Int
                BY <3>3
            <4> HIDE DEF r
            <4>7. it[r] \in Int
                BY <4>5
            <4> QED
                BY <3>1, <4>1, <4>4, <4>6, <4>7
        <3>4. it[s] \in Int
            BY <3>1, <3>2
        <3> QED
            BY <3>1, <3>3, <3>4
    <2> QED
        BY <2>1, <2>2
<1>4. ASSUME NEW s \in B PROVE \E x \in s : s \ {x} \in B
    <2> SUFFICES ASSUME \A x \in s : s \ {x} \notin B PROVE FALSE
        OBVIOUS
    <2> HIDE DEF Good
    <2>1. \A x \in s : \A t \in SUBSET (s \ {x}) : Good(t)
        OBVIOUS
    <2>2. PICK t \in SUBSET s : ~Good(t)
        OBVIOUS
    <2>3. t = s
        <3>2. t # s => \E x \in s : x \notin t
            OBVIOUS
        <3>1. t # s => \E x \in s : t \in SUBSET (s \ {x})
            BY <3>2
        <3> QED
            BY <2>1, <2>2, <3>1
    <2> QED
        BY <1>3, <2>1, <2>2, <2>3
<1>5. B = {}
    <2>1. B \subseteq SUBSET D /\ IsFiniteSet(D)
        OBVIOUS
    <2> HIDE DEF B
    <2> QED
        BY <1>2, <1>4, <2>1, NoneAtFault
<1> QED
    BY <1>5 DEF AnyFirst

\* The sums over two functions that agree where they are summed.
LEMMA SumOfPart ==
    ASSUME NEW f, IsFiniteSet(DOMAIN f), NEW S \in SUBSET DOMAIN f, NEW g, DOMAIN g = S,
           \A x \in S : g[x] = f[x],
           NEW it, Sums(f, SUBSET DOMAIN f, it)
    PROVE  SumFunction(g) = it[S]
<1>1. IsFiniteSet(S)
    BY FS_Subset
<1>2. PICK jt : Sums(g, SUBSET S, jt) /\ SumFunction(g) = jt[S]
    BY <1>1, SumIsFold
<1> DEFINE B == {s \in SUBSET S : jt[s] # it[s]}
<1>3. {} \notin B
    BY <1>2 DEF Sums
<1>4. ASSUME NEW s \in B PROVE \E x \in s : s \ {x} \in B
    <2>1. s # {} /\ s \in SUBSET S /\ s \in SUBSET DOMAIN f
        BY <1>3, <1>4
    <2>2. jt[s] = g[One(s)] + jt[s \ {One(s)}] /\ it[s] = f[One(s)] + it[s \ {One(s)}]
        BY <1>2, <2>1 DEF Sums
    <2>3. One(s) \in s /\ g[One(s)] = f[One(s)]
        BY <2>1 DEF One
    <2>4. jt[s \ {One(s)}] # it[s \ {One(s)}] /\ s \ {One(s)} \in SUBSET S
        BY <1>4, <2>1, <2>2, <2>3
    <2> QED
        BY <2>3, <2>4
<1>5. B = {}
    <2>1. B \subseteq SUBSET S
        OBVIOUS
    <2> HIDE DEF B
    <2> QED
        BY <1>1, <1>3, <1>4, <2>1, NoneAtFault
<1> QED
    BY <1>2, <1>5

\* One element more.
LEMMA SumWithOneMore ==
    ASSUME NEW g, IsFiniteSet(DOMAIN g), NEW x, x \notin DOMAIN g,
           NEW f, DOMAIN f = DOMAIN g \cup {x}, \A y \in DOMAIN g : f[y] = g[y],
           \A y \in DOMAIN f : f[y] \in Int
    PROVE  SumFunction(f) = SumFunction(g) + f[x]
<1>1. IsFiniteSet(DOMAIN f)
    BY FS_AddElement
<1>2. PICK it : Sums(f, SUBSET DOMAIN f, it) /\ SumFunction(f) = it[DOMAIN f]
    BY <1>1, SumIsFold
<1>3. DOMAIN g \in SUBSET DOMAIN f /\ DOMAIN f \ {x} = DOMAIN g /\ x \in DOMAIN f
    OBVIOUS
<1>4. SumFunction(g) = it[DOMAIN g]
    BY <1>1, <1>2, <1>3, SumOfPart
<1>10. AnyFirst(f, it)
    BY <1>1, <1>2, SumWithout
<1>6. \A s \in SUBSET DOMAIN f : it[s] \in Int /\ \A y \in s : it[s] = f[y] + it[s \ {y}]
    BY <1>10 DEF AnyFirst
<1>7. DOMAIN f \in SUBSET DOMAIN f
    OBVIOUS
<1>8. it[DOMAIN g] \in Int
    BY <1>3, <1>6
<1>9. it[DOMAIN f] = f[x] + it[DOMAIN f \ {x}]
    BY <1>3, <1>6, <1>7
<1>5. it[DOMAIN g] \in Int /\ it[DOMAIN f] = f[x] + it[DOMAIN g] /\ f[x] \in Int
    BY <1>3, <1>8, <1>9
<1> QED
    BY <1>2, <1>3, <1>4, <1>5

-----------------------------------------------------------------------------
(* Sums that make up for what is negative in them *)

\* A sum in which every number that may be negative is made up for by another.
LEMMA SumOfPairs ==
    ASSUME NEW f, IsFiniteSet(DOMAIN f), \A x \in DOMAIN f : f[x] \in Int,
           NEW U \in SUBSET DOMAIN f, \A x \in DOMAIN f \ U : f[x] >= 0,
           NEW h, \A u \in U : h[u] \in DOMAIN f \ U /\ f[u] + f[h[u]] = 0,
           \A u, v \in U : h[u] = h[v] => u = v
    PROVE  SumFunction(f) \in Nat
<1> DEFINE D == DOMAIN f
           Whole(s) == \A u \in s \cap U : h[u] \in s
<1>1. PICK it : Sums(f, SUBSET D, it) /\ SumFunction(f) = it[D]
    BY SumIsFold
<1>2. AnyFirst(f, it)
    BY <1>1, SumWithout
<1>3. \A s \in SUBSET D : it[s] \in Int /\ \A x \in s : it[s] = f[x] + it[s \ {x}]
    BY <1>2 DEF AnyFirst
<1>4. it[{}] = 0
    BY <1>1 DEF Sums
<1> DEFINE B == {s \in SUBSET D : Whole(s) /\ ~(it[s] >= 0)}
<1>5. ASSUME B # {} PROVE FALSE
    <2>1. B \subseteq SUBSET D
        OBVIOUS
    <2> HIDE DEF B
    <2>2. PICK s \in B : \A t \in B : t \subseteq s => t = s
        BY <1>5, <2>1, SmallestSubset
    <2> USE DEF B
    <2>3. s \in SUBSET D /\ Whole(s) /\ ~(it[s] >= 0) /\ s # {}
        <3>1. s \in SUBSET D /\ Whole(s) /\ ~(it[s] >= 0)
            BY <2>2
        <3>2. s # {}
            <4> HIDE DEF Whole
            <4>1. it[{}] >= 0
                BY <1>4
            <4> QED
                BY <3>1, <4>1, Zenon
        <3> QED
            BY <3>1, <3>2
    <2>4. CASE s \cap U = {}
        <3>1. PICK x \in s : TRUE
            BY <2>3
        <3>2. s \ {x} \in SUBSET D /\ Whole(s \ {x}) /\ s \ {x} # s /\ s \ {x} \subseteq s
            BY <2>3, <2>4, <3>1
        <3>3. it[s \ {x}] >= 0
            BY <2>2, <3>2
        <3>4. f[x] >= 0 /\ f[x] \in Int
            BY <2>3, <2>4
        <3>5. it[s] = f[x] + it[s \ {x}] /\ it[s \ {x}] \in Int
            BY <1>3, <2>3, <3>2
        <3> QED
            BY <2>3, <3>3, <3>4, <3>5
    <2>5. CASE s \cap U # {}
        <3>1. PICK u \in s \cap U : TRUE
            BY <2>5
        <3> DEFINE x == h[u]
                   r == s \ {u}
                   q == r \ {x}
        <3>2. x \in s /\ x \in D \ U /\ x # u /\ f[u] + f[x] = 0
            BY <2>3, <3>1
        <3>3. q \in SUBSET D /\ r \in SUBSET D /\ q \subseteq s /\ q # s /\ x \in r
            BY <2>3, <3>1, <3>2
        <3>4. Whole(q)
            <4>1. ASSUME NEW v \in q \cap U PROVE h[v] \in q
                <5>1. v \in s /\ v \in U /\ v # u
                    OBVIOUS
                <5>2. h[v] \in s /\ h[v] \notin U /\ h[v] # x
                    BY <2>3, <3>1, <5>1
                <5> QED
                    BY <3>1, <5>2
            <4> QED
                BY <4>1
        <3>5. it[q] >= 0
            BY <2>2, <3>3, <3>4
        <3> HIDE DEF x, r, q, Whole, B
        <3>6. it[s] = f[u] + it[r]
            BY <1>3, <2>3, <3>1 DEF r
        <3>7. it[r] = f[x] + it[q] /\ it[q] \in Int /\ f[x] \in Int /\ f[u] \in Int
            BY <1>3, <2>3, <3>1, <3>2, <3>3 DEF q
        <3> QED
            BY <2>3, <3>2, <3>5, <3>6, <3>7
    <2> QED
        BY <2>4, <2>5
<1>6. D \in SUBSET D /\ Whole(D)
    OBVIOUS
<1>7. it[D] >= 0 /\ it[D] \in Int
    BY <1>3, <1>5, <1>6
<1> QED
    BY <1>1, <1>7

\* Two sums whose every number is within another number of a third sum.
LEMMA SumsWithin ==
    ASSUME NEW f, IsFiniteSet(DOMAIN f), \A x \in DOMAIN f : f[x] \in Int,
           NEW k, IsFiniteSet(DOMAIN k), \A x \in DOMAIN k : k[x] \in Int,
           DOMAIN f \cap DOMAIN k = {},
           NEW g, IsFiniteSet(DOMAIN g), \A y \in DOMAIN g : g[y] \in Nat,
           NEW h, \A x \in DOMAIN f \cup DOMAIN k : h[x] \in DOMAIN g,
           \A x, z \in DOMAIN f \cup DOMAIN k : h[x] = h[z] => x = z,
           \A x \in DOMAIN f : f[x] <= g[h[x]], \A x \in DOMAIN k : k[x] <= g[h[x]]
    PROVE  SumFunction(f) + SumFunction(k) <= SumFunction(g)
<1> DEFINE A == DOMAIN f
           C == DOMAIN k
           G == DOMAIN g
           Of(t) == {x \in A : h[x] \in t}
           Ok(t) == {x \in C : h[x] \in t}
<1>1. PICK it : Sums(f, SUBSET A, it) /\ SumFunction(f) = it[A]
    BY SumIsFold
<1>2. PICK jt : Sums(k, SUBSET C, jt) /\ SumFunction(k) = jt[C]
    BY SumIsFold
<1>3. PICK lt : Sums(g, SUBSET G, lt) /\ SumFunction(g) = lt[G]
    BY SumIsFold
<1>4. \A s \in SUBSET A : it[s] \in Int /\ \A x \in s : it[s] = f[x] + it[s \ {x}]
    <2>1. AnyFirst(f, it)
        BY <1>1, SumWithout
    <2> QED
        BY <2>1 DEF AnyFirst
<1>5. \A s \in SUBSET C : jt[s] \in Int /\ \A x \in s : jt[s] = k[x] + jt[s \ {x}]
    <2>1. AnyFirst(k, jt)
        BY <1>2, SumWithout
    <2> QED
        BY <2>1 DEF AnyFirst
<1>6. \A s \in SUBSET G : lt[s] \in Int /\ \A y \in s : lt[s] = g[y] + lt[s \ {y}]
    <2>0. \A y \in DOMAIN g : g[y] \in Int
        OBVIOUS
    <2>1. AnyFirst(g, lt)
        BY <1>3, <2>0, SumWithout
    <2> QED
        BY <2>1 DEF AnyFirst
<1>7. it[{}] = 0 /\ jt[{}] = 0 /\ lt[{}] = 0
    BY <1>1, <1>2, <1>3 DEF Sums
<1> DEFINE Within(t) == it[Of(t)] + jt[Ok(t)] <= lt[t]
           B == {t \in SUBSET G : ~Within(t)}
<1>8. {} \notin B
    <2>1. Of({}) = {} /\ Ok({}) = {}
        OBVIOUS
    <2> HIDE DEF Of, Ok
    <2> QED
        BY <1>7, <2>1
<1>9. ASSUME NEW t \in B PROVE \E y \in t : t \ {y} \in B
    <2>1. PICK y \in t : TRUE
        BY <1>8, <1>9
    <2> DEFINE r == t \ {y}
    <2>2. t \in SUBSET G /\ r \in SUBSET G /\ y \in G /\ ~Within(t)
        BY <1>9, <2>1
    <2>3. lt[t] = g[y] + lt[r] /\ lt[r] \in Int /\ g[y] \in Nat
        BY <1>6, <2>1, <2>2
    <2>4. /\ Of(t) \in SUBSET A /\ Ok(t) \in SUBSET C /\ Of(r) \in SUBSET A /\ Ok(r) \in SUBSET C
        OBVIOUS
    <2>5. it[Of(t)] \in Int /\ jt[Ok(t)] \in Int /\ it[Of(r)] \in Int /\ jt[Ok(r)] \in Int
        BY <1>4, <1>5, <2>4
    <2>6. CASE \E x \in A : h[x] = y
        <3>1. PICK x \in A : h[x] = y
            BY <2>6
        <3>2. x \in Of(t) /\ Of(r) = Of(t) \ {x} /\ Ok(r) = Ok(t)
            BY <2>1, <3>1
        <3> HIDE DEF Of, Ok, r
        <3>3. it[Of(t)] = f[x] + it[Of(r)]
            BY <1>4, <2>4, <3>2
        <3>4. f[x] \in Int /\ f[x] <= g[y]
            BY <3>1
        <3>5. ~(it[Of(r)] + jt[Ok(r)] <= lt[r])
            BY <2>2, <2>3, <2>5, <3>2, <3>3, <3>4
        <3> QED
            BY <2>1, <2>2, <3>5 DEF r
    <2>7. CASE \E x \in C : h[x] = y
        <3>1. PICK x \in C : h[x] = y
            BY <2>7
        <3>2. x \in Ok(t) /\ Ok(r) = Ok(t) \ {x} /\ Of(r) = Of(t)
            BY <2>1, <3>1
        <3> HIDE DEF Of, Ok, r
        <3>3. jt[Ok(t)] = k[x] + jt[Ok(r)]
            BY <1>5, <2>4, <3>2
        <3>4. k[x] \in Int /\ k[x] <= g[y]
            BY <3>1
        <3>5. ~(it[Of(r)] + jt[Ok(r)] <= lt[r])
            BY <2>2, <2>3, <2>5, <3>2, <3>3, <3>4
        <3> QED
            BY <2>1, <2>2, <3>5 DEF r
    <2>8. CASE ~\E x \in A \cup C : h[x] = y
        <3>1. Of(r) = Of(t) /\ Ok(r) = Ok(t)
            BY <2>8
        <3> HIDE DEF Of, Ok, r
        <3>2. ~(it[Of(r)] + jt[Ok(r)] <= lt[r])
            BY <2>2, <2>3, <2>5, <3>1
        <3> QED
            BY <2>1, <2>2, <3>2 DEF r
    <2> QED
        BY <2>6, <2>7, <2>8
<1>10. B = {}
    <2>1. B \subseteq SUBSET G
        OBVIOUS
    <2> HIDE DEF B
    <2> QED
        BY <1>8, <1>9, <2>1, NoneAtFault
<1>11. Of(G) = A /\ Ok(G) = C /\ G \in SUBSET G
    OBVIOUS
<1>12. Within(G)
    BY <1>10, <1>11
<1> HIDE DEF Of, Ok
<1> QED
    BY <1>1, <1>2, <1>3, <1>11, <1>12
=============================================================================
