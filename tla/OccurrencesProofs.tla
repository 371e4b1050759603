------------------------- MODULE OccurrencesProofs --------------------------
(***************************************************************************)
(* Theorems about Occurrences for every value of its constants: no task    *)
(* waits for itself, by an edit, an import or a fold; a series goes on by  *)
(* one row for each occurrence, whichever machine spawned it and however   *)
(* often the stores are merged; and each row's status and time are those   *)
(* its own log tells, whichever copies it was merged and folded from.      *)
(***************************************************************************)
EXTENDS Occurrences, FiniteSetTheorems, TLAPS

-----------------------------------------------------------------------------
(* The edges *)

\* An edge is a pair: its task, and the one it waits for.
Pairs(deps) == \A e \in deps : e = <<e[1], e[2]>>

\* A set without a but with b, that no edge leaves, tells that b does not reach a.
LEMMA NotReached ==
    ASSUME NEW D, NEW S, NEW a, NEW b, a \in S, b \notin S, \A e \in D : e[1] \in S => e[2] \in S
    PROVE  ~Reaches(D, a, b)
<1> DEFINE T == S \cap ({a} \cup {e[2] : e \in D})
<1>1. T \in SUBSET ({a} \cup {e[2] : e \in D}) /\ a \in T /\ b \notin T
    OBVIOUS
<1>2. \A e \in D : e[1] \in T => e[2] \in T
    OBVIOUS
<1> QED
    BY <1>1, <1>2 DEF Reaches

\* A task reaches itself.
LEMMA ReachesItself ==
    ASSUME NEW D, NEW a
    PROVE  Reaches(D, a, a)
BY DEF Reaches

\* What the end of an edge reaches, its beginning reaches.
LEMMA ReachesByEdge ==
    ASSUME NEW D, NEW e \in D, NEW b, Reaches(D, e[2], b)
    PROVE  Reaches(D, e[1], b)
<1> SUFFICES ASSUME NEW S \in SUBSET ({e[1]} \cup {f[2] : f \in D}), e[1] \in S,
                    \A f \in D : f[1] \in S => f[2] \in S
             PROVE  b \in S
    BY DEF Reaches
<1>1. e[2] \in S
    OBVIOUS
<1> QED
    BY <1>1, NotReached

\* Reaching is transitive.
LEMMA ReachesFurther ==
    ASSUME NEW D, NEW a, NEW b, NEW c, Reaches(D, a, b), Reaches(D, b, c)
    PROVE  Reaches(D, a, c)
<1> SUFFICES ASSUME NEW S \in SUBSET ({a} \cup {f[2] : f \in D}), a \in S,
                    \A f \in D : f[1] \in S => f[2] \in S
             PROVE  c \in S
    BY DEF Reaches
<1>1. b \in S
    BY DEF Reaches
<1> QED
    BY <1>1, NotReached

\* More edges reach no less.
LEMMA ReachesAlso ==
    ASSUME NEW D, NEW E, D \subseteq E, NEW a, NEW b, Reaches(D, a, b)
    PROVE  Reaches(E, a, b)
<1> SUFFICES ASSUME NEW S \in SUBSET ({a} \cup {f[2] : f \in E}), a \in S,
                    \A f \in E : f[1] \in S => f[2] \in S
             PROVE  b \in S
    BY DEF Reaches
<1> QED
    BY NotReached

\* Who reaches another task has an edge to one that reaches it.
LEMMA FirstEdge ==
    ASSUME NEW D, NEW a, NEW b, a # b, Reaches(D, a, b)
    PROVE  \E e \in D : e[1] = a /\ Reaches(D, e[2], b)
<1> SUFFICES ASSUME \A e \in D : e[1] = a => ~Reaches(D, e[2], b) PROVE FALSE
    OBVIOUS
<1> DEFINE S == {a} \cup {y \in {e[2] : e \in D} : ~Reaches(D, y, b)}
<1>1. \A e \in D : e[1] \in S => e[2] \in S
    <2> SUFFICES ASSUME NEW e \in D, e[1] \in S PROVE e[2] \in S
        OBVIOUS
    <2>1. ~Reaches(D, e[2], b)
        BY ReachesByEdge
    <2> QED
        BY <2>1
<1>2. b \notin S
    BY ReachesItself
<1> HIDE DEF S
<1>3. a \in S
    BY DEF S
<1> QED
    BY <1>1, <1>2, <1>3, NotReached

\* Edges taken from a graph without a cycle leave none.
LEMMA FewerEdges ==
    ASSUME NEW D, NEW E, D \subseteq E, ~Cyclic(E)
    PROVE  ~Cyclic(D)
BY ReachesAlso DEF Cyclic

\* An edge to a task that does not reach its first task closes no cycle.
LEMMA EdgeAdded ==
    ASSUME NEW D, ~Cyclic(D), NEW t, NEW d, t # d, ~Reaches(D, d, t)
    PROVE  ~Cyclic(D \cup {<<t, d>>})
<1> DEFINE E == D \cup {<<t, d>>}
<1> SUFFICES ASSUME NEW e \in E, Reaches(E, e[2], e[1]) PROVE FALSE
    BY DEF Cyclic
<1> DEFINE S == {x \in {d} \cup {f[2] : f \in D} : Reaches(D, d, x)}
<1>1. d \in S /\ t \notin S
    BY ReachesItself
<1>2. \A f \in E : f[1] \in S => f[2] \in S
    <2> SUFFICES ASSUME NEW f \in D, f[1] \in S PROVE f[2] \in S
        BY <1>1
    <2>1. Reaches(D, f[1], f[2])
        BY ReachesByEdge, ReachesItself
    <2> QED
        BY <2>1, ReachesFurther
<1>3. CASE e = <<t, d>>
    <2> HIDE DEF S
    <2> QED
        BY <1>1, <1>2, <1>3, NotReached
<1>4. CASE e \in D
    <2>1. ~Reaches(D, e[2], e[1])
        BY <1>4 DEF Cyclic
    <2>2. PICK T : e[2] \in T /\ e[1] \notin T /\ \A f \in D : f[1] \in T => f[2] \in T
        BY <2>1 DEF Reaches
    <2>3. CASE t \notin T
        <3>1. \A f \in E : f[1] \in T => f[2] \in T
            BY <2>2, <2>3
        <3> QED
            BY <2>2, <3>1, NotReached
    <2>4. CASE e[1] \notin S
        <3>1. \A f \in E : f[1] \in T \cup S => f[2] \in T \cup S
            BY <1>1, <1>2, <2>2
        <3> HIDE DEF S
        <3>2. e[2] \in T \cup S /\ e[1] \notin T \cup S
            BY <2>2, <2>4
        <3> QED
            BY <3>1, <3>2, NotReached
    <2>5. CASE t \in T /\ e[1] \in S
        \* d reaches e[1], and so e[2], which does not reach t.
        <3>1. e[2] \in S
            BY <1>2, <1>4, <2>5
        <3> HIDE DEF S
        <3>2. \A f \in E : f[1] \in T \cap S => f[2] \in T \cap S
            BY <1>1, <1>2, <2>2
        <3> QED
            BY <2>2, <3>1, <3>2, NotReached
    <2> QED
        BY <2>3, <2>4, <2>5
<1> QED
    BY <1>3, <1>4

\* A fold makes no cycle: one through the survivor has a dropped edge, one that
\* is not through it was there before.
LEMMA FoldAcyclic ==
    ASSUME NEW D, ~Cyclic(D), Pairs(D), NEW k, NEW d
    PROVE  ~Cyclic(FoldedEdges(D, k, d)) /\ Pairs(FoldedEdges(D, k, d))
<1> DEFINE M == MovedEdges(D, k, d)
           F == FoldedEdges(D, k, d)
           N == {e \in F : e[1] # k}
<1>1. Pairs(M) /\ F \subseteq M /\ \A e \in F : e[1] = k => ~Reaches(M, e[2], k)
    BY DEF FoldedEdges, MovedEdges, Pairs
<1>2. \A e \in M : e[1] # k /\ e[2] # k => e \in D
    <2> SUFFICES ASSUME NEW f \in D, Onto(k, d, f[1]) # k, Onto(k, d, f[2]) # k
                 PROVE  <<Onto(k, d, f[1]), Onto(k, d, f[2])>> \in D
        BY DEF MovedEdges
    <2> QED
        BY DEF Onto, Pairs
<1> HIDE DEF M, F
<1>3. ASSUME NEW e \in F, Reaches(F, e[2], e[1]) PROVE FALSE
    <2>1. CASE e[1] = k
        <3>1. Reaches(M, e[2], k)
            BY <1>1, <1>3, <2>1, ReachesAlso
        <3> QED
            BY <1>1, <2>1, <3>1
    <2>2. CASE e[1] # k /\ Reaches(N, e[2], e[1])
        <3> DEFINE B == {x \in UNION {{f[1], f[2]} : f \in N} : Reaches(N, x, e[1])}
        <3>1. \A f \in N : f[2] \in B => f[1] \in B
            BY ReachesByEdge
        <3>2. ~Reaches(N, k, e[1])
            BY <2>2, FirstEdge
        <3>3. e \in N /\ e[1] \in B /\ e[2] \in B
            BY <1>3, <2>2, ReachesItself
        <3>4. k \notin B
            BY <3>2
        <3> HIDE DEF B
        <3>5. \A f \in N : f[2] \in B => f \in D
            BY <1>1, <1>2, <3>1, <3>4
        <3>6. ~Reaches(D, e[2], e[1])
            BY <3>3, <3>5 DEF Cyclic
        <3>7. PICK S : e[2] \in S /\ e[1] \notin S /\ \A f \in D : f[1] \in S => f[2] \in S
            BY <3>6 DEF Reaches
        <3> DEFINE T == {x \in {e[2]} \cup {f[2] : f \in N} : x \in B => x \in S}
        <3>8. \A f \in N : f[1] \in T => f[2] \in T
            <4> SUFFICES ASSUME NEW f \in N, f[1] \in T, f[2] \in B PROVE f[2] \in S
                OBVIOUS
            <4> QED
                BY <3>1, <3>5, <3>7
        <3>9. e[2] \in T /\ e[1] \notin T
            BY <3>3, <3>7
        <3> HIDE DEF T, N
        <3> QED
            BY <2>2, <3>8, <3>9, NotReached
    <2>3. CASE e[1] # k /\ ~Reaches(N, e[2], e[1])
        <3>1. PICK S : e[2] \in S /\ e[1] \notin S /\ \A f \in N : f[1] \in S => f[2] \in S
            BY <2>3 DEF Reaches
        <3>2. Reaches(F, e[2], k)
            <4> DEFINE R == {x \in {e[2]} \cup {f[2] : f \in F} : Reaches(F, e[2], x) /\ x # k}
            <4> SUFFICES ASSUME ~Reaches(F, e[2], k) PROVE FALSE
                OBVIOUS
            <4>1. ASSUME NEW f \in F, f[1] \in S \cap R PROVE f[2] \in S \cap R
                <5>1. f \in N /\ f[2] \in S
                    BY <3>1, <4>1
                <5>2. Reaches(F, f[1], f[2])
                    BY ReachesByEdge, ReachesItself
                <5>3. Reaches(F, e[2], f[2])
                    BY <4>1, <5>2, ReachesFurther
                <5> QED
                    BY <5>1, <5>3
            <4>2. e[2] \in S \cap R
                BY <3>1, ReachesItself
            <4>3. e[1] \notin S \cap R
                BY <3>1
            <4> HIDE DEF R
            <4> QED
                BY <1>3, <4>1, <4>2, <4>3, NotReached
        <3>3. PICK f \in F : f[1] = k /\ Reaches(F, f[2], e[1])
            <4> DEFINE B == {x \in UNION {{f[1], f[2]} : f \in F} : Reaches(F, x, e[1])}
            <4> SUFFICES ASSUME \A f \in F : f[1] = k => ~Reaches(F, f[2], e[1]) PROVE FALSE
                OBVIOUS
            <4> DEFINE T == {x \in {e[2]} \cup {f[2] : f \in F} : x \in B => x \in S}
            <4>1. ASSUME NEW f \in F, f[1] \in T, f[2] \in B PROVE f[2] \in S
                <5>1. f[1] \in B
                    BY <4>1, ReachesByEdge
                <5>2. f[1] # k /\ f[1] \in S
                    BY <4>1, <5>1
                <5> QED
                    BY <3>1, <5>2
            <4>2. \A f \in F : f[1] \in T => f[2] \in T
                BY <4>1
            <4>3. e[1] \in B
                BY <1>3, ReachesItself
            <4>4. e[2] \in T /\ e[1] \notin T
                BY <3>1, <4>3
            <4> HIDE DEF T
            <4> QED
                BY <1>3, <4>2, <4>4, NotReached
        <3>4. Reaches(F, e[1], k)
            BY <1>3, <3>2, ReachesByEdge
        <3>5. Reaches(F, f[2], k)
            BY <3>3, <3>4, ReachesFurther
        <3>6. Reaches(M, f[2], k)
            BY <1>1, <3>5, ReachesAlso
        <3> QED
            BY <1>1, <3>3, <3>6
    <2> QED
        BY <2>1, <2>2, <2>3
<1>4. Pairs(F)
    BY <1>1 DEF Pairs
<1> QED
    BY <1>3, <1>4 DEF Cyclic, F

-----------------------------------------------------------------------------
(* Induction, and the rows a FoldSet writes *)

\* Of every nonempty family of subsets of a finite set, one holds no other.
LEMMA SmallestSubset ==
    ASSUME NEW S, IsFiniteSet(S), NEW T, T \subseteq SUBSET S, T # {}
    PROVE  \E x \in T : \A y \in T : y \subseteq x => y = x
<1>1. /\ IsWellFoundedOn(StrictSubsetOrdering(S), FiniteSubsetsOf(S))
      /\ FiniteSubsetsOf(S) = SUBSET S
    BY FS_StrictSubsetOrderingWellFounded, FS_FiniteSubsetsOfFinite
<1>2. PICK x \in T : \A y \in T : <<y, x>> \notin StrictSubsetOrdering(S)
    BY <1>1, WFMin
<1>3. ASSUME NEW y \in T, y \subseteq x PROVE y = x
    <2>1. <<y, x>> \in (SUBSET S) \X (SUBSET S)
        BY <1>3
    <2> QED
        BY <1>2, <1>3, <2>1 DEF StrictSubsetOrdering
<1> QED
    BY <1>3

\* Induction over a finite set: a fault that no set has unless one with an
\* element less has it, no set has.
LEMMA NoneAtFault ==
    ASSUME NEW S, IsFiniteSet(S), NEW B, B \subseteq SUBSET S, {} \notin B,
           \A s \in B : \E x \in s : s \ {x} \in B
    PROVE  B = {}
<1> SUFFICES ASSUME B # {} PROVE FALSE
    OBVIOUS
<1>1. PICK s \in B : \A t \in B : t \subseteq s => t = s
    BY SmallestSubset
<1>2. PICK x \in s : s \ {x} \in B
    OBVIOUS
<1>3. s \ {x} \subseteq s /\ s \ {x} # s
    BY <1>2
<1> QED
    BY <1>1, <1>2, <1>3

\* A nonempty set of naturals has a least element.
LEMMA LeastNatural ==
    ASSUME NEW S \in SUBSET Nat, S # {}
    PROVE  \E x \in S : \A y \in S : x <= y
<1>1. \E x \in S : \A y \in S : <<y, x>> \notin OpToRel(<, Nat)
    BY NatLessThanWellFounded, WFMin
<1>2. PICK x \in S : \A y \in S : <<y, x>> \notin OpToRel(<, Nat)
    BY <1>1
<1>3. \A y \in S : ~(y < x)
    BY <1>2 DEF OpToRel
<1> QED BY <1>3

\* The element of s that a fold takes first.
One(s) == CHOOSE x \in s : TRUE
\* The folds of Written over the sets of Q.
WritesOver(rows, new, Q, it) ==
    it = [s \in Q |-> IF s = {} THEN rows ELSE [it[s \ {One(s)}] EXCEPT ![One(s)] = new[One(s)]]]

\* A subset of a finite set, and the subset one element smaller that a fold goes on with.
LEMMA SubsetSize ==
    ASSUME NEW S, IsFiniteSet(S), NEW s \in SUBSET S
    PROVE  /\ IsFiniteSet(s) /\ Cardinality(s) \in Nat /\ Cardinality(s) <= Cardinality(S)
           /\ Cardinality(s) = 0 <=> s = {}
           /\ s # {} => /\ One(s) \in s /\ s \ {One(s)} \in SUBSET S
                        /\ Cardinality(s \ {One(s)}) = Cardinality(s) - 1
<1>1. IsFiniteSet(s) /\ Cardinality(s) <= Cardinality(S)
    BY FS_Subset
<1>2. Cardinality(s) \in Nat /\ (Cardinality(s) = 0 <=> s = {})
    BY <1>1, FS_CardinalityType, FS_EmptySet
<1>3. s # {} => One(s) \in s
    BY DEF One
<1>4. s # {} => Cardinality(s \ {One(s)}) = Cardinality(s) - 1
    BY <1>1, <1>3, FS_RemoveElement
<1> QED
    BY <1>1, <1>2, <1>3, <1>4

\* Such a function exists, so that the CHOOSE in FoldSet's definition finds one.
LEMMA WritesExist ==
    ASSUME NEW S, IsFiniteSet(S), NEW rows, NEW new
    PROVE  \E it : WritesOver(rows, new, SUBSET S, it)
<1> DEFINE Upto(n) == {s \in SUBSET S : Cardinality(s) <= n}
           Bad == {n \in Nat : ~\E it : WritesOver(rows, new, Upto(n), it)}
<1>1. \A n, s : s \in Upto(n) <=> s \in SUBSET S /\ Cardinality(s) <= n
    OBVIOUS
<1> HIDE DEF Upto
<1>2. 0 \notin Bad
    <2>1. ASSUME NEW s \in Upto(0) PROVE s = {}
        <3>1. s \in SUBSET S /\ Cardinality(s) <= 0
            BY <1>1
        <3>2. Cardinality(s) \in Nat /\ (Cardinality(s) = 0 <=> s = {})
            BY <3>1, SubsetSize
        <3> QED
            BY <3>1, <3>2
    <2>2. WritesOver(rows, new, Upto(0), [s \in Upto(0) |-> rows])
        BY <2>1 DEF WritesOver
    <2> QED
        BY <2>2
<1>3. ASSUME NEW n \in Nat, n \notin Bad PROVE n + 1 \notin Bad
    <2>1. PICK it : WritesOver(rows, new, Upto(n), it)
        BY <1>3
    <2> DEFINE jt == [s \in Upto(n + 1) |-> IF s = {} THEN rows ELSE [it[s \ {One(s)}] EXCEPT ![One(s)] = new[One(s)]]]
    <2>2. ASSUME NEW s \in Upto(n + 1), s # {} PROVE jt[s \ {One(s)}] = it[s \ {One(s)}]
        <3> DEFINE t == s \ {One(s)}
        <3>1. /\ t \in SUBSET S /\ Cardinality(t) = Cardinality(s) - 1
              /\ Cardinality(s) \in Nat /\ Cardinality(s) <= n + 1
            BY <1>1, <2>2, SubsetSize
        <3>3. Cardinality(t) <= n /\ Cardinality(t) <= n + 1
            BY <3>1
        <3>4. t \in Upto(n) /\ t \in Upto(n + 1)
            BY <1>1, <3>1, <3>3
        <3>2. it[t] = IF t = {} THEN rows ELSE [it[t \ {One(t)}] EXCEPT ![One(t)] = new[One(t)]]
            BY <2>1, <3>4 DEF WritesOver
        <3> QED
            BY <3>2, <3>4
    <2>3. jt = [s \in Upto(n + 1) |-> IF s = {} THEN rows ELSE [jt[s \ {One(s)}] EXCEPT ![One(s)] = new[One(s)]]]
        BY <2>2
    <2> HIDE DEF jt
    <2>4. WritesOver(rows, new, Upto(n + 1), jt)
        BY <2>3 DEF WritesOver
    <2> QED
        BY <2>4
<1>4. Bad = {}
    <2> SUFFICES ASSUME Bad # {} PROVE FALSE
        OBVIOUS
    <2>1. PICK m \in Bad : \A k \in Bad : m <= k
        BY LeastNatural
    <2>2. m \in Nat /\ m # 0
        BY <1>2
    <2> HIDE DEF Bad
    <2>3. m - 1 \in Nat /\ m - 1 \notin Bad /\ (m - 1) + 1 = m
        BY <2>1, <2>2
    <2> QED
        BY <1>3, <2>1, <2>3
<1>5. PICK it : WritesOver(rows, new, Upto(Cardinality(S)), it)
    <2>1. Cardinality(S) \in Nat
        BY FS_CardinalityType
    <2> QED
        BY <1>4, <2>1
<1>6. \A s \in SUBSET S : s \in Upto(Cardinality(S))
    BY <1>1, SubsetSize
<1>7. Upto(Cardinality(S)) = SUBSET S
    BY <1>1, <1>6
<1> QED
    BY <1>5, <1>7

\* Written is its value at the whole domain.
LEMMA WrittenIsFold ==
    ASSUME NEW rows, NEW new, IsFiniteSet(DOMAIN new)
    PROVE  \E it : WritesOver(rows, new, SUBSET DOMAIN new, it) /\ Written(rows, new) = it[DOMAIN new]
<1> DEFINE D == DOMAIN new
           it == CHOOSE it : it = [s \in SUBSET D |-> IF s = {} THEN rows
                    ELSE [it[s \ {CHOOSE x \in s : TRUE}] EXCEPT ![CHOOSE x \in s : TRUE] = new[CHOOSE x \in s : TRUE]]]
<1>1. Written(rows, new) = it[D]
    BY DEF Written, FoldSet, MapThenFoldSet
<1>2. \E jt : WritesOver(rows, new, SUBSET D, jt)
    BY WritesExist
<1>3. \E jt : jt = [s \in SUBSET D |-> IF s = {} THEN rows
                    ELSE [jt[s \ {CHOOSE x \in s : TRUE}] EXCEPT ![CHOOSE x \in s : TRUE] = new[CHOOSE x \in s : TRUE]]]
    BY <1>2 DEF WritesOver, One
<1>4. it = [s \in SUBSET D |-> IF s = {} THEN rows
                    ELSE [it[s \ {CHOOSE x \in s : TRUE}] EXCEPT ![CHOOSE x \in s : TRUE] = new[CHOOSE x \in s : TRUE]]]
    BY <1>3, Zenon
<1> HIDE DEF it
<1>5. WritesOver(rows, new, SUBSET D, it)
    BY <1>4 DEF WritesOver, One
<1> QED
    BY <1>1, <1>5

\* It is the rows where new has none, and new's where it has one.
LEMMA WrittenIs ==
    ASSUME NEW rows, rows = [t \in Ids |-> rows[t]], NEW new, IsFiniteSet(DOMAIN new), DOMAIN new \subseteq Ids
    PROVE  Written(rows, new) = [t \in Ids |-> IF t \in DOMAIN new THEN new[t] ELSE rows[t]]
<1> DEFINE D == DOMAIN new
           Made(s) == [t \in Ids |-> IF t \in s THEN new[t] ELSE rows[t]]
<1>1. PICK it : WritesOver(rows, new, SUBSET D, it) /\ Written(rows, new) = it[D]
    BY WrittenIsFold
<1> DEFINE Bad == {s \in SUBSET D : it[s] # Made(s)}
<1>2. \A s \in SUBSET D : it[s] = IF s = {} THEN rows ELSE [it[s \ {One(s)}] EXCEPT ![One(s)] = new[One(s)]]
    BY <1>1 DEF WritesOver
<1>3. {} \notin Bad
    <2>1. it[{}] = rows
        BY <1>2
    <2>2. Made({}) = rows
        OBVIOUS
    <2> QED
        BY <2>1, <2>2
<1>4. ASSUME NEW s \in Bad PROVE s \ {One(s)} \in Bad /\ One(s) \in s
    <2> DEFINE x == One(s)
               r == s \ {x}
    <2>1. s # {} /\ s \in SUBSET D
        BY <1>3
    <2>2. x \in s /\ r \in SUBSET D /\ it[s] = [it[r] EXCEPT ![x] = new[x]]
        BY <1>2, <2>1 DEF One
    <2> HIDE DEF x
    <2>3. ASSUME it[r] = Made(r) PROVE FALSE
        <3>1. [Made(r) EXCEPT ![x] = new[x]] = Made(s)
            BY <2>1, <2>2
        <3> QED
            BY <2>2, <2>3, <3>1
    <2> QED
        BY <2>2, <2>3 DEF x
<1>5. Bad = {}
    <2>1. IsFiniteSet(D) /\ Bad \subseteq SUBSET D
        OBVIOUS
    <2> HIDE DEF Bad
    <2> QED
        BY <1>3, <1>4, <2>1, NoneAtFault
<1> QED
    BY <1>1, <1>5

-----------------------------------------------------------------------------
(* Types *)

\* A row, field by field.
RowWith(parent, due, status, since, completed, tracked, adj, modified) ==
    [parent |-> parent, due |-> due, status |-> status, since |-> since, completed |-> completed,
     tracked |-> tracked, adj |-> adj, modified |-> modified]
\* A task has a due; what has none is no task.
RowOK(r) ==
    /\ r = RowWith(r.parent, r.due, r.status, r.since, r.completed, r.tracked, r.adj, r.modified)
    /\ r.parent \in Nat /\ r.due \in Nat /\ r.status \in {"pending", "active", "done"}
    /\ r.due = 0 => r = NoRow
\* A store, field by field: a row and a log for every id, and the edges.
StoreOK(st) ==
    /\ st = [row |-> st.row, log |-> st.log, deps |-> st.deps]
    /\ st.row = [t \in Ids |-> st.row[t]] /\ st.log = [t \in Ids |-> st.log[t]]
    /\ \A t \in Ids : RowOK(st.row[t])
    /\ Pairs(st.deps)

\* The ids of tasks are finitely many naturals, and None is none of them.
LEMMA IdsAre ==
    /\ MaxTask \in Nat /\ Ids \subseteq Nat /\ 0 \notin Ids
    /\ IsFiniteSet(Ids) /\ Cardinality(Ids) = MaxTask
BY OccurrencesAssumption, FS_Interval, MaxTask - 1 + 1 = MaxTask DEF Ids

\* What stands for no row.
LEMMA NoRowIs ==
    /\ RowOK(NoRow) /\ NoRow.due = 0 /\ NoRow.parent = None /\ NoRow.status = "pending"
BY DEF NoRow, NewRow, RowOK, RowWith, None

\* A row is a task exactly when it has a due.
LEMMA TaskByDue ==
    ASSUME NEW r, RowOK(r)
    PROVE  (r # NoRow <=> r.due # 0) /\ (r.due # 0 <=> r.due >= 1)
BY NoRowIs DEF RowOK

\* What a row is made of.
LEMMA FieldsOf ==
    ASSUME NEW p, NEW d, NEW s, NEW i, NEW c, NEW n, NEW j, NEW m
    PROVE  LET r == RowWith(p, d, s, i, c, n, j, m)
           IN  /\ r.parent = p /\ r.due = d /\ r.status = s /\ r.since = i /\ r.completed = c
               /\ r.tracked = n /\ r.adj = j /\ r.modified = m
BY DEF RowWith

\* Such a row is well formed when its place in the series and its status are.
LEMMA RowWritten ==
    ASSUME NEW p \in Nat, NEW d \in Nat, d # 0, NEW s \in {"pending", "active", "done"},
           NEW i, NEW c, NEW n, NEW j, NEW m
    PROVE  LET r == RowWith(p, d, s, i, c, n, j, m)
           IN  RowOK(r) /\ r # NoRow /\ r.parent = p /\ r.due = d /\ r.status = s
                    /\ r.since = i /\ r.completed = c
BY FieldsOf, NoRowIs DEF RowOK

\* A row with the fields a merge or a fold sets written over.
Relined(r, due, parent, m) == [r EXCEPT !.due = due, !.parent = parent, !.modified = m]

\* WithStatus writes the three columns of the status.
LEMMA StatusWritten ==
    ASSUME NEW r, RowOK(r), NEW w
    PROVE  WithStatus(r, w) =
               RowWith(r.parent, r.due, w.status, w.since,
                       w.completed, r.tracked, r.adj, r.modified)
<1> DEFINE q == WithStatus(r, w)
<1>1. q = [r EXCEPT !.status = w.status, !.since = w.since, !.completed = w.completed]
    BY DEF WithStatus
<1> HIDE DEF q
<1>2. q = RowWith(r.parent, r.due, w.status, w.since,
                       w.completed, r.tracked, r.adj, r.modified)
    BY <1>1 DEF RowOK, RowWith
<1> QED
    BY <1>2 DEF q

\* WithTotal writes the two columns of the time.
LEMMA TotalWritten ==
    ASSUME NEW r, RowOK(r), NEW total
    PROVE  WithTotal(r, total) =
               RowWith(r.parent, r.due, r.status, r.since,
                       r.completed, total.tracked, total.adj, r.modified)
<1> DEFINE q == WithTotal(r, total)
<1>1. q = [r EXCEPT !.tracked = total.tracked, !.adj = total.adj]
    BY DEF WithTotal
<1> HIDE DEF q
<1>2. q = RowWith(r.parent, r.due, r.status, r.since,
                       r.completed, total.tracked, total.adj, r.modified)
    BY <1>1 DEF RowOK, RowWith
<1> QED
    BY <1>2 DEF q

\* A merge writes the place in the series and the stamp.
LEMMA LineWritten ==
    ASSUME NEW r, RowOK(r), NEW due, NEW parent, NEW m
    PROVE  Relined(r, due, parent, m) =
               RowWith(parent, due, r.status, r.since,
                       r.completed, r.tracked, r.adj, m)
<1> DEFINE q == Relined(r, due, parent, m)
<1>1. q = [r EXCEPT !.due = due, !.parent = parent, !.modified = m]
    BY DEF Relined
<1> HIDE DEF q
<1>2. q = RowWith(parent, due, r.status, r.since,
                       r.completed, r.tracked, r.adj, m)
    BY <1>1 DEF RowOK, RowWith
<1> QED
    BY <1>2 DEF q

\* A fold re-points a successor.
LEMMA ParentWritten ==
    ASSUME NEW r, RowOK(r), NEW parent
    PROVE  [r EXCEPT !.parent = parent] =
               RowWith(parent, r.due, r.status, r.since,
                       r.completed, r.tracked, r.adj, r.modified)
<1> DEFINE q == [r EXCEPT !.parent = parent]
<1>1. q = [r EXCEPT !.parent = parent]
    OBVIOUS
<1> HIDE DEF q
<1>2. q = RowWith(parent, r.due, r.status, r.since,
                       r.completed, r.tracked, r.adj, r.modified)
    BY <1>1 DEF RowOK, RowWith
<1> QED
    BY <1>2 DEF q

-----------------------------------------------------------------------------
(* The merge of two rows *)

\* The winner of a group of fields is one of the two rows.
LEMMA WinnerIsOne ==
    ASSUME NEW a, NEW b, NEW g
    PROVE  Winner(a, b, g) \in {a.row, b.row}
BY DEF Winner

\* A merged row takes its due, parent and status from the two (store_import).
LEMMA MergedRowIs ==
    ASSUME NEW a, NEW b, RowOK(a.row), RowOK(b.row), a.row.due # 0, b.row.due # 0
    PROVE  LET r == MergedRow(a, b)
           IN  /\ RowOK(r)
               /\ r.due \in {a.row.due, b.row.due} /\ r.parent \in {a.row.parent, b.row.parent}
               /\ r.status \in {a.row.status, b.row.status}
<1> DEFINE v == Winner(a, b, "status")
           w == Winner(a, b, "schedule")
           p == Winner(a, b, "spawned_from")
           m == Larger(a.row.modified, b.row.modified)
           row == [WithStatus(a.row, v) EXCEPT !.due = w.due, !.parent = p.parent, !.modified = m]
           total == MergedTotal(a, b, Running(row))
           f == RowWith(p.parent, w.due, v.status, v.since, v.completed, total.tracked, total.adj, m)
<1>1. v \in {a.row, b.row} /\ w \in {a.row, b.row} /\ p \in {a.row, b.row}
    BY WinnerIsOne
<1>2. MergedRow(a, b) \in {a.row, b.row} \/ MergedRow(a, b) = WithTotal(row, total)
    BY DEF MergedRow, Counted
<1> HIDE DEF v, w, p, m, total
<1> DEFINE x == WithStatus(a.row, v)
           y == Relined(x, w.due, p.parent, m)
<1>7. RowOK(x) /\ x.due = a.row.due
      /\ x.status = v.status /\ x.since = v.since /\ x.completed = v.completed
    <2>1. x = RowWith(a.row.parent, a.row.due, v.status, v.since, v.completed, a.row.tracked,
                      a.row.adj, a.row.modified)
        BY StatusWritten
    <2>2. a.row.parent \in Nat /\ a.row.due \in Nat /\ v.status \in {"pending", "active", "done"}
        BY <1>1 DEF RowOK
    <2> HIDE DEF x
    <2> QED
        BY <2>1, <2>2, RowWritten
<1> HIDE DEF x
<1>8. RowOK(y) /\ y.due = w.due /\ y.parent = p.parent /\ y.modified = m
      /\ y.status = v.status /\ y.since = v.since /\ y.completed = v.completed
    <2>1. y = RowWith(p.parent, w.due, v.status, v.since, v.completed, x.tracked, x.adj, m)
        BY <1>7, LineWritten
    <2>2. p.parent \in Nat /\ w.due \in Nat /\ w.due # 0 /\ v.status \in {"pending", "active", "done"}
        BY <1>1 DEF RowOK
    <2> HIDE DEF y
    <2> QED
        BY <2>1, <2>2, RowWritten, FieldsOf
<1> HIDE DEF y
<1>3. WithTotal(y, total) = f
    BY <1>7, <1>8, TotalWritten
<1>4. RowOK(f)
    <2>1. p.parent \in Nat /\ w.due \in Nat /\ w.due # 0 /\ v.status \in {"pending", "active", "done"}
        BY <1>1 DEF RowOK
    <2> QED
        BY <2>1, RowWritten
<1>5. CASE MergedRow(a, b) = WithTotal(row, total)
    <2>1. MergedRow(a, b) = f
        BY <1>3, <1>5 DEF x, y, Relined
    <2>2. f.due = w.due /\ f.parent = p.parent /\ f.status = v.status
        BY FieldsOf
    <2> HIDE DEF f
    <2> QED
        BY <1>1, <1>4, <2>1, <2>2
<1>6. CASE MergedRow(a, b) \in {a.row, b.row}
    BY <1>6
<1> QED
    BY <1>2, <1>5, <1>6

\* A folded row keeps the survivor's place and takes its status from the two (fold).
LEMMA FoldedRowIs ==
    ASSUME NEW a, NEW b, RowOK(a.row), RowOK(b.row), a.row.due # 0
    PROVE  LET r == FoldedRow(a, b)
           IN  /\ RowOK(r) /\ r.due = a.row.due /\ r.parent = a.row.parent
               /\ r.status \in {a.row.status, b.row.status}
<1> DEFINE v == FoldedStatus(a, b)
           row == WithStatus(a.row, v)
           total == MergedTotal(a, b, Running(row))
           f == RowWith(a.row.parent, a.row.due, v.status, v.since, v.completed, total.tracked,
                        total.adj, a.row.modified)
<1>1. v \in {a.row, b.row}
    BY WinnerIsOne DEF FoldedStatus
<1>2. FoldedRow(a, b) = WithTotal(row, total)
    BY DEF FoldedRow, Counted
<1> HIDE DEF v, total
<1> DEFINE x == WithStatus(a.row, v)
<1>5. RowOK(x) /\ x.parent = a.row.parent /\ x.due = a.row.due /\ x.modified = a.row.modified
      /\ x.status = v.status /\ x.since = v.since /\ x.completed = v.completed
    <2>1. x = RowWith(a.row.parent, a.row.due, v.status, v.since, v.completed, a.row.tracked,
                      a.row.adj, a.row.modified)
        BY StatusWritten
    <2>2. a.row.parent \in Nat /\ a.row.due \in Nat /\ v.status \in {"pending", "active", "done"}
        BY <1>1 DEF RowOK
    <2> HIDE DEF x
    <2> QED
        BY <2>1, <2>2, RowWritten, FieldsOf
<1> HIDE DEF x
<1>3. WithTotal(x, total) = f
    BY <1>5, TotalWritten
<1>4. RowOK(f)
    <2>1. a.row.parent \in Nat /\ a.row.due \in Nat /\ v.status \in {"pending", "active", "done"}
        BY <1>1 DEF RowOK
    <2> QED
        BY <2>1, RowWritten
<1>6. FoldedRow(a, b) = f
    BY <1>2, <1>3 DEF x
<1>7. f.due = a.row.due /\ f.parent = a.row.parent /\ f.status = v.status
    BY FieldsOf
<1> HIDE DEF f
<1> QED
    BY <1>1, <1>4, <1>6, <1>7

-----------------------------------------------------------------------------
(* A fold *)

\* What a fold of d into k leaves of st.
FoldLeaves(st, f, k, d) ==
    /\ StoreOK(f)
    /\ f.row[d] = NoRow
    /\ \A t \in Ids \ {d} :
        /\ f.row[t].due = st.row[t].due
        /\ f.row[t].parent = Onto(k, d, st.row[t].parent)
        /\ t # k => f.row[t].status = st.row[t].status
    /\ f.row[k].status \in {st.row[k].status, st.row[d].status}
    /\ f.deps = FoldedEdges(st.deps, k, d)
    /\ f.log = [st.log EXCEPT ![k] = st.log[k] \cup st.log[d], ![d] = {}]

\* A fold of d into k: d is gone, its successors are k's, every other task keeps
\* its due, and the events and edges of d are k's.
LEMMA FoldIs ==
    ASSUME NEW st, StoreOK(st), NEW k \in Tasks(st), NEW d \in Tasks(st), k # d, NEW seen
    PROVE  FoldLeaves(st, Fold(st, k, d, seen), k, d)
<1> DEFINE a == [row |-> st.row[k], log |-> CopyLog(st, k, seen)]
           b == [row |-> st.row[d], log |-> CopyLog(st, d, seen)]
           r == FoldedRow(a, b)
           f == Fold(st, k, d, seen)
           rows == [st.row EXCEPT ![k] = r, ![d] = NoRow]
           mine == {t \in Ids : rows[t].parent = d}
           new == [t \in mine |-> [rows[t] EXCEPT !.parent = k]]
<1>1. /\ k \in Ids /\ d \in Ids /\ k \in Nat /\ d \in Nat /\ d # None
      /\ RowOK(st.row[k]) /\ RowOK(st.row[d])
      /\ st.row[k].due # 0 /\ st.row[d].due # 0
    BY IdsAre, TaskByDue DEF StoreOK, Tasks, None
<1>2. /\ RowOK(r) /\ r.due = st.row[k].due /\ r.parent = st.row[k].parent
      /\ r.status \in {st.row[k].status, st.row[d].status}
    BY <1>1, FoldedRowIs
<1>3. f.row = Adopted(k, d, rows) /\ f.deps = FoldedEdges(st.deps, k, d)
      /\ f.log = [st.log EXCEPT ![k] = st.log[k] \cup st.log[d], ![d] = {}]
      /\ f = [row |-> f.row, log |-> f.log, deps |-> f.deps]
    BY DEF Fold
<1> HIDE DEF r, f
<1>4. /\ rows = [t \in Ids |-> rows[t]]
      /\ \A t \in Ids : rows[t] = IF t = d THEN NoRow ELSE IF t = k THEN r ELSE st.row[t]
    BY <1>1 DEF StoreOK
<1> HIDE DEF rows
<1>5. \A t \in Ids : RowOK(rows[t])
    BY <1>2, <1>4, NoRowIs DEF StoreOK
<1>6. IsFiniteSet(mine) /\ mine \subseteq Ids
    BY IdsAre, FS_Subset
<1>7. f.row = [t \in Ids |-> IF t \in mine THEN new[t] ELSE rows[t]]
    <2>1. f.row = Written(rows, new) /\ DOMAIN new = mine
        BY <1>3 DEF Adopted
    <2> HIDE DEF new, mine
    <2>2. Written(rows, new) = [t \in Ids |-> IF t \in DOMAIN new THEN new[t] ELSE rows[t]]
        BY <1>4, <1>6, <2>1, WrittenIs
    <2> QED
        BY <2>1, <2>2
<1>8. ASSUME NEW t \in Ids
      PROVE  /\ RowOK(f.row[t]) /\ f.row[t].due = rows[t].due /\ f.row[t].status = rows[t].status
             /\ f.row[t].parent = Onto(k, d, rows[t].parent)
    <2> DEFINE x == rows[t]
    <2>1. RowOK(x)
        BY <1>5
    <2>2. CASE x.parent # d
        BY <1>7, <2>1, <2>2 DEF Onto
    <2>3. CASE x.parent = d
        <3>1. f.row[t] = [x EXCEPT !.parent = k]
            BY <1>7, <2>3
        <3>2. x.due # 0
            <4>1. x # NoRow
                BY <1>1, <2>3, NoRowIs
            <4> QED
                BY <2>1, <4>1, TaskByDue
        <3> HIDE DEF x
        <3>3. f.row[t] = RowWith(k, x.due, x.status, x.since, x.completed, x.tracked, x.adj, x.modified)
            BY <2>1, <3>1, ParentWritten
        <3>6. x.due \in Nat /\ x.status \in {"pending", "active", "done"}
            BY <2>1 DEF RowOK
        <3>4. RowOK(f.row[t])
            BY <1>1, <3>2, <3>3, <3>6, RowWritten
        <3>5. f.row[t].due = x.due /\ f.row[t].status = x.status /\ f.row[t].parent = k
            BY <3>3, FieldsOf
        <3> QED
            BY <2>3, <3>4, <3>5 DEF x, Onto
    <2> QED
        BY <2>2, <2>3
<1>9. f.row[d] = NoRow
    BY <1>1, <1>4, <1>7, NoRowIs
<1>10. Pairs(f.deps)
    <2>1. f.deps \subseteq MovedEdges(st.deps, k, d)
        BY <1>3 DEF FoldedEdges
    <2> QED
        BY <2>1 DEF MovedEdges, Pairs
<1>11. StoreOK(f)
    <2>1. f.row = [t \in Ids |-> f.row[t]]
        BY <1>7
    <2>2. f.log = [t \in Ids |-> f.log[t]]
        BY <1>3 DEF StoreOK
    <2>3. \A t \in Ids : RowOK(f.row[t])
        BY <1>8
    <2>4. f = [row |-> f.row, log |-> f.log, deps |-> f.deps]
        BY <1>3
    <2> QED
        BY <1>10, <2>1, <2>2, <2>3, <2>4 DEF StoreOK
<1>12. ASSUME NEW t \in Ids \ {d}
       PROVE  /\ f.row[t].due = st.row[t].due
              /\ f.row[t].parent = Onto(k, d, st.row[t].parent)
              /\ t # k => f.row[t].status = st.row[t].status
    BY <1>2, <1>4, <1>8
<1>13. f.row[k].status \in {st.row[k].status, st.row[d].status}
    BY <1>1, <1>2, <1>4, <1>8
<1>14. f.deps = FoldedEdges(st.deps, k, d) /\ f.log = [st.log EXCEPT ![k] = st.log[k] \cup st.log[d], ![d] = {}]
    BY <1>3
<1>15. FoldLeaves(st, f, k, d)
    BY ONLY <1>9, <1>11, <1>12, <1>13, <1>14 DEF FoldLeaves
<1> QED
    BY <1>15 DEF f

-----------------------------------------------------------------------------
(* One fold after the other *)

\* The folds up to the n-th.
Chain(st, seen, n, f) == f = [i \in 0 .. n |-> IF i = 0 THEN st ELSE FoldOnce(f[i - 1], seen)]

\* The folds up to any number, by induction over that number.
LEMMA ChainExists ==
    ASSUME NEW st, NEW seen, NEW n \in Nat
    PROVE  \E f : Chain(st, seen, n, f)
<1> DEFINE Bad == {m \in Nat : ~\E f : Chain(st, seen, m, f)}
<1>1. 0 \notin Bad
    <2>1. Chain(st, seen, 0, [i \in 0 .. 0 |-> st])
        BY DEF Chain
    <2> QED
        BY <2>1
<1>2. ASSUME NEW m \in Nat, m \notin Bad PROVE m + 1 \notin Bad
    <2>1. PICK f : Chain(st, seen, m, f)
        BY <1>2
    <2> DEFINE g == [i \in 0 .. m + 1 |-> IF i = 0 THEN st ELSE FoldOnce(f[i - 1], seen)]
    <2>2. ASSUME NEW i \in 0 .. m + 1, i # 0 PROVE g[i - 1] = f[i - 1]
        <3>1. i - 1 \in 0 .. m /\ i - 1 \in 0 .. m + 1
            BY <2>2
        <3>2. f[i - 1] = IF i - 1 = 0 THEN st ELSE FoldOnce(f[(i - 1) - 1], seen)
            BY <2>1, <3>1 DEF Chain
        <3> QED
            BY <3>1, <3>2
    <2>3. g = [i \in 0 .. m + 1 |-> IF i = 0 THEN st ELSE FoldOnce(g[i - 1], seen)]
        BY <2>2
    <2> HIDE DEF g
    <2>4. Chain(st, seen, m + 1, g)
        BY <2>3 DEF Chain
    <2> QED
        BY <2>4
<1>3. Bad = {}
    <2> SUFFICES ASSUME Bad # {} PROVE FALSE
        OBVIOUS
    <2>1. PICK m \in Bad : \A k \in Bad : m <= k
        BY LeastNatural
    <2>2. m \in Nat /\ m # 0
        BY <1>1
    <2> HIDE DEF Bad
    <2>3. m - 1 \in Nat /\ m - 1 \notin Bad /\ (m - 1) + 1 = m
        BY <2>1, <2>2
    <2> QED
        BY <1>2, <2>1, <2>3
<1> QED
    BY <1>3

\* Folded is the last of them.
LEMMA FoldedIs ==
    ASSUME NEW st, NEW seen
    PROVE  \E f : Chain(st, seen, MaxTask, f) /\ Folded(st, seen) = f[MaxTask]
<1> DEFINE f == CHOOSE f : f = [n \in 0 .. MaxTask |-> IF n = 0 THEN st ELSE FoldOnce(f[n - 1], seen)]
<1>1. Folded(st, seen) = f[MaxTask]
    BY DEF Folded
<1>2. \E g : g = [n \in 0 .. MaxTask |-> IF n = 0 THEN st ELSE FoldOnce(g[n - 1], seen)]
    <2>1. \E g : Chain(st, seen, MaxTask, g)
        BY ChainExists, IdsAre
    <2> QED
        BY <2>1, Zenon DEF Chain
<1>3. f = [n \in 0 .. MaxTask |-> IF n = 0 THEN st ELSE FoldOnce(f[n - 1], seen)]
    BY <1>2, Zenon
<1> HIDE DEF f
<1> QED
    BY <1>1, <1>3 DEF Chain

\* What holds before the folds and after each fold that follows one where it
\* holds, holds after them all: Bad are those where it does not.
LEMMA FaultlessFolds ==
    ASSUME NEW st, NEW seen, NEW f, Chain(st, seen, MaxTask, f), NEW Bad \in SUBSET (0 .. MaxTask),
           f[0] = st => 0 \notin Bad,
           \A n \in 0 .. MaxTask : n # 0 /\ n - 1 \notin Bad /\ f[n] = FoldOnce(f[n - 1], seen) => n \notin Bad
    PROVE  Bad = {}
<1> SUFFICES ASSUME Bad # {} PROVE FALSE
    OBVIOUS
<1>1. MaxTask \in Nat
    BY IdsAre
<1>2. PICK m \in Bad : \A k \in Bad : m <= k
    <2>1. Bad \in SUBSET Nat
        BY <1>1
    <2> QED
        BY <2>1, LeastNatural
<1>3. f[0] = st /\ m # 0
    BY <1>1, <1>2 DEF Chain
<1>4. m \in 0 .. MaxTask /\ m - 1 \in 0 .. MaxTask /\ m - 1 \notin Bad
    BY <1>1, <1>2, <1>3
<1>5. f[m] = FoldOnce(f[m - 1], seen)
    BY <1>3, <1>4 DEF Chain
<1> QED
    BY <1>2, <1>3, <1>4, <1>5

-----------------------------------------------------------------------------
(* The line a series is: each occurrence one period after its parent, and a   *)
(* completed one followed by the next.                                       *)

Recurring(st) == Tasks(st) \ {Errand}
Rooted(st) == \A t \in {Series, Errand} : t \in Tasks(st) /\ st.row[t].due = 1 /\ st.row[t].parent = None
Stepwise(st) ==
    \A t \in Tasks(st) \ {Series, Errand} :
        LET p == st.row[t].parent IN p \in Recurring(st) /\ st.row[t].due = st.row[p].due + 1
Followed(st) ==
    \A t \in Recurring(st) : st.row[t].status = "done" =>
        \E n \in Recurring(st) : st.row[n].due = st.row[t].due + 1
Lined(st) == Rooted(st) /\ Stepwise(st) /\ Followed(st)
Single(st) == \A x, y \in Recurring(st) : st.row[x].due = st.row[y].due => x = y
Steady(st) == ~Has(st, "modify")

\* A row of a well-formed store, and whether it is a task.
LEMMA TaskDue ==
    ASSUME NEW st, StoreOK(st), NEW t \in Ids
    PROVE  /\ RowOK(st.row[t]) /\ st.row[t].due \in Nat /\ st.row[t].parent \in Nat
           /\ t \in Tasks(st) <=> st.row[t].due # 0
BY TaskByDue DEF StoreOK, Tasks, RowOK

\* While a slot holds two rows, next_pair finds a pair of twins.
LEMMA NextPairIs ==
    ASSUME NEW st, StoreOK(st), Twins(st) # {}
    PROVE  NextPair(st) \in Twins(st)
<1> DEFINE S == {Rank(st, p) : p \in Twins(st)}
<1>1. ASSUME NEW p \in Twins(st) PROVE Rank(st, p) \in Nat
    <2>1. p[1] \in Ids /\ p[2] \in Ids /\ p[1] \in Nat /\ p[2] \in Nat
        BY IdsAre DEF Twins, Tasks
    <2>2. st.row[p[1]].parent \in Nat /\ st.row[p[1]].due \in Nat /\ MaxTask \in Nat
        BY <2>1, TaskDue, IdsAre
    <2> DEFINE a == st.row[p[1]].parent
               b == st.row[p[1]].due
    <2>3. Rank(st, p) = ((a * MaxTask + b) * MaxTask + p[1]) * MaxTask + p[2]
        BY DEF Rank
    <2> HIDE DEF a, b
    <2>4. a * MaxTask \in Nat
        BY <2>2 DEF a
    <2>5. (a * MaxTask + b) * MaxTask \in Nat
        BY <2>2, <2>4 DEF b
    <2>6. ((a * MaxTask + b) * MaxTask + p[1]) * MaxTask \in Nat
        BY <2>1, <2>2, <2>5
    <2> QED
        BY <2>1, <2>3, <2>6
<1>2. S \in SUBSET Nat /\ S # {}
    BY <1>1
<1>3. PICK x \in S : \A y \in S : x <= y
    BY <1>2, LeastNatural
<1>4. \E p \in Twins(st) : \A q \in Twins(st) : Rank(st, p) <= Rank(st, q)
    BY <1>3
<1> QED
    BY <1>4 DEF NextPair

\* What a fold leaves of a store.
Fewer(st, after) ==
    /\ StoreOK(after)
    /\ Tasks(after) \subseteq Tasks(st)
    /\ \A t \in Tasks(after) : after.row[t].due = st.row[t].due
    /\ Known(after) = Known(st)
    /\ \A t \in Ids : st.row[t] = NoRow /\ st.log[t] = {} => after.row[t] = NoRow /\ after.log[t] = {}
    /\ ~Cyclic(st.deps) => ~Cyclic(after.deps)
    /\ Lined(st) => Lined(after)

\* A fold of twins takes the higher id away and leaves the line a line: the
\* survivor is due when its twin was, so it may stand for it as parent and as
\* successor.
LEMMA FoldOfTwins ==
    ASSUME NEW st, StoreOK(st), NEW p \in Twins(st), NEW seen
    PROVE  LET f == Fold(st, p[1], p[2], seen)
           IN  Fewer(st, f) /\ Tasks(f) \subseteq Tasks(st) \ {p[2]} /\ p[2] \in Tasks(st)
<1> DEFINE k == p[1]
           d == p[2]
           f == Fold(st, k, d, seen)
<1>1. /\ k \in Tasks(st) /\ d \in Tasks(st) /\ k # d /\ k \in Ids /\ d \in Ids
      /\ st.row[k].parent # None /\ st.row[d].parent = st.row[k].parent /\ st.row[d].due = st.row[k].due
    <2>1. p \in Tasks(st) \X Tasks(st) /\ k < d /\ st.row[k].parent # None
          /\ d \in Slot(st, st.row[k].parent, st.row[k].due)
        BY DEF Twins
    <2> HIDE DEF k, d
    <2>2. d \in Tasks(st) /\ st.row[d].parent = st.row[k].parent /\ st.row[d].due = st.row[k].due
        BY <2>1 DEF Slot
    <2>3. k \in Tasks(st)
        BY <2>1 DEF k
    <2>4. k \in Ids /\ d \in Ids /\ k \in Nat /\ d \in Nat
        BY <2>2, <2>3, IdsAre DEF Tasks
    <2> QED
        BY <2>1, <2>2, <2>3, <2>4
<1>2. /\ StoreOK(f)
      /\ f.row[d] = NoRow
      /\ \A t \in Ids \ {d} :
           /\ f.row[t].due = st.row[t].due
           /\ f.row[t].parent = Onto(k, d, st.row[t].parent)
           /\ t # k => f.row[t].status = st.row[t].status
      /\ f.row[k].status \in {st.row[k].status, st.row[d].status}
      /\ f.deps = FoldedEdges(st.deps, k, d)
      /\ f.log = [st.log EXCEPT ![k] = st.log[k] \cup st.log[d], ![d] = {}]
    <2>1. FoldLeaves(st, f, k, d)
        BY <1>1, FoldIs
    <2> HIDE DEF f, k, d
    <2> QED
        BY ONLY <2>1 DEF FoldLeaves
<1> HIDE DEF f, k, d
<1>3. Tasks(f) = Tasks(st) \ {d}
    <2>1. d \notin Tasks(f)
        BY <1>2 DEF Tasks
    <2>2. \A t \in Ids \ {d} : t \in Tasks(f) <=> t \in Tasks(st)
        BY <1>2, TaskDue
    <2> QED
        BY <2>1, <2>2 DEF Tasks
<1>4. \A t \in Tasks(f) : f.row[t].due = st.row[t].due
    BY <1>2, <1>3 DEF Tasks
<1>5. Known(f) = Known(st)
    <2>1. st.log = [t \in Ids |-> st.log[t]]
        BY DEF StoreOK
    <2>2. \A t \in Ids : f.log[t] = IF t = d THEN {} ELSE IF t = k THEN st.log[k] \cup st.log[d] ELSE st.log[t]
        BY <1>1, <1>2, <2>1
    <2>3. ASSUME NEW e \in Known(f) PROVE e \in Known(st)
        BY <1>1, <2>2 DEF Known
    <2>4. ASSUME NEW e \in Known(st) PROVE e \in Known(f)
        <3>1. PICK t \in Ids : e \in st.log[t]
            BY DEF Known
        <3>2. e \in f.log[Onto(k, d, t)] /\ Onto(k, d, t) \in Ids
            BY <1>1, <2>2, <3>1 DEF Onto
        <3> QED
            BY <3>2 DEF Known
    <2> QED
        BY <2>3, <2>4
<1>6. \A t \in Ids : st.row[t] = NoRow /\ st.log[t] = {} => f.row[t] = NoRow /\ f.log[t] = {}
    <2> SUFFICES ASSUME NEW t \in Ids, st.row[t] = NoRow, st.log[t] = {}
                 PROVE  f.row[t] = NoRow /\ f.log[t] = {}
        OBVIOUS
    <2>1. t \notin Tasks(st) /\ t # d /\ t # k
        BY <1>1 DEF Tasks
    <2>2. f.row[t] = NoRow
        BY <1>3, <2>1 DEF Tasks
    <2>3. f.log[t] = {}
        BY <1>2, <2>1 DEF StoreOK
    <2> QED
        BY <2>2, <2>3
<1>7. ~Cyclic(st.deps) => ~Cyclic(f.deps)
    BY <1>2, FoldAcyclic DEF StoreOK
<1>8. ASSUME Lined(st) PROVE Lined(f)
    <2>1. k \notin {Series, Errand} /\ d \notin {Series, Errand}
        BY <1>1, <1>8 DEF Lined, Rooted
    <2>11. Series \in Ids /\ Errand \in Ids /\ None \notin Ids
        BY <1>8, IdsAre DEF Lined, Rooted, Tasks, None
    <2>2. \A t \in Ids \ {d} : f.row[t].due = st.row[t].due /\ f.row[t].parent = Onto(k, d, st.row[t].parent)
        BY <1>2
    <2>3. Rooted(f)
        <3> SUFFICES ASSUME NEW t \in {Series, Errand}
                     PROVE  t \in Tasks(f) /\ f.row[t].due = 1 /\ f.row[t].parent = None
            BY DEF Rooted
        <3>1. t \in Tasks(st) /\ st.row[t].due = 1 /\ st.row[t].parent = None
            BY <1>8 DEF Lined, Rooted
        <3>2. t # d /\ t \in Ids /\ None # d
            BY <1>1, <2>1, <2>11
        <3>3. Onto(k, d, None) = None
            BY <3>2 DEF Onto
        <3> QED
            BY <1>3, <2>2, <3>1, <3>2, <3>3
    <2>4. Stepwise(f)
        <3> SUFFICES ASSUME NEW t \in Tasks(f) \ {Series, Errand}
                     PROVE  f.row[t].parent \in Recurring(f) /\ f.row[t].due = f.row[f.row[t].parent].due + 1
            BY DEF Stepwise
        <3>1. t \in Tasks(st) /\ t # d /\ t \in Ids
            BY <1>3 DEF Tasks
        <3> DEFINE q == st.row[t].parent
        <3>2. q \in Recurring(st) /\ st.row[t].due = st.row[q].due + 1
            BY <1>8, <3>1 DEF Lined, Stepwise
        <3>3. f.row[t].parent = Onto(k, d, q) /\ f.row[t].due = st.row[t].due
            BY <2>2, <3>1
        <3> HIDE DEF q
        <3>4. Onto(k, d, q) \in Recurring(st) /\ Onto(k, d, q) # d /\ st.row[Onto(k, d, q)].due = st.row[q].due
            BY <1>1, <2>1, <3>2 DEF Onto, Recurring
        <3>5. Onto(k, d, q) \in Recurring(f) /\ Onto(k, d, q) \in Ids
            BY <1>3, <3>4 DEF Recurring, Tasks
        <3> QED
            BY <2>2, <3>2, <3>3, <3>4, <3>5
    <2>5. Followed(f)
        <3> SUFFICES ASSUME NEW t \in Recurring(f), f.row[t].status = "done"
                     PROVE  \E n \in Recurring(f) : f.row[n].due = f.row[t].due + 1
            BY DEF Followed
        <3>1. t \in Recurring(st) /\ t # d /\ t \in Ids
            BY <1>3 DEF Recurring, Tasks
        <3>2. PICK n \in Recurring(st) : st.row[n].due = st.row[t].due + 1
            <4>1. \E u \in Recurring(st) : st.row[u].status = "done" /\ st.row[u].due = st.row[t].due
                <5>1. CASE t # k
                    BY <1>2, <3>1, <5>1
                <5>2. CASE t = k
                    <6>1. st.row[k].status = "done" \/ st.row[d].status = "done"
                        BY <1>2, <5>2
                    <6> QED
                        BY <1>1, <2>1, <5>2, <6>1 DEF Recurring
                <5> QED
                    BY <5>1, <5>2
            <4> QED
                BY <1>8, <4>1 DEF Lined, Followed
        <3> DEFINE m == Onto(k, d, n)
        <3>3. m \in Recurring(st) /\ m # d /\ st.row[m].due = st.row[n].due
            BY <1>1, <2>1 DEF Onto, Recurring
        <3>4. m \in Recurring(f) /\ m \in Ids
            BY <1>3, <3>3 DEF Recurring, Tasks
        <3> HIDE DEF m
        <3> QED
            BY <2>2, <3>1, <3>2, <3>3, <3>4
    <2> QED
        BY <2>3, <2>4, <2>5 DEF Lined
<1>9. Fewer(st, f)
    BY <1>2, <1>3, <1>4, <1>5, <1>6, <1>7, <1>8 DEF Fewer
<1> QED
    BY <1>1, <1>3, <1>9 DEF f, k, d

\* So do two, one after the other.
LEMMA FewerStill ==
    ASSUME NEW a, NEW b, NEW c, Fewer(a, b), Fewer(b, c)
    PROVE  Fewer(a, c)
<1>1. StoreOK(c) /\ Tasks(c) \subseteq Tasks(a) /\ \A t \in Tasks(c) : c.row[t].due = a.row[t].due
    BY DEF Fewer
<1>2. /\ Known(c) = Known(a) /\ (~Cyclic(a.deps) => ~Cyclic(c.deps)) /\ (Lined(a) => Lined(c))
      /\ \A t \in Ids : a.row[t] = NoRow /\ a.log[t] = {} => c.row[t] = NoRow /\ c.log[t] = {}
    BY DEF Fewer
<1> QED
    BY <1>1, <1>2 DEF Fewer

\* The folds take a row each while a slot holds two, so none holds two after
\* as many as there are ids.
LEMMA FoldedFewer ==
    ASSUME NEW st, StoreOK(st), NEW seen
    PROVE  Fewer(st, Folded(st, seen)) /\ Twins(Folded(st, seen)) = {}
<1>1. PICK f : Chain(st, seen, MaxTask, f) /\ Folded(st, seen) = f[MaxTask]
    BY FoldedIs
<1>2. MaxTask \in Nat /\ MaxTask \in 0 .. MaxTask
    BY IdsAre
<1> DEFINE Good(n) == /\ Fewer(st, f[n]) /\ IsFiniteSet(Tasks(f[n])) /\ Cardinality(Tasks(f[n])) \in Nat
                      /\ Twins(f[n]) = {} \/ Cardinality(Tasks(f[n])) <= MaxTask - n
           Bad == {n \in 0 .. MaxTask : ~Good(n)}
<1>3. ASSUME f[0] = st PROVE Good(0)
    <2>1. Fewer(st, st)
        BY DEF Fewer
    <2>2. IsFiniteSet(Tasks(st)) /\ Cardinality(Tasks(st)) <= MaxTask /\ Cardinality(Tasks(st)) \in Nat
        BY IdsAre, FS_Subset, FS_CardinalityType DEF Tasks
    <2> QED
        BY <1>2, <1>3, <2>1, <2>2
<1>4. ASSUME NEW n \in 0 .. MaxTask, n # 0, Good(n - 1), f[n] = FoldOnce(f[n - 1], seen) PROVE Good(n)
    <2> DEFINE x == f[n - 1]
               y == f[n]
    <2>1. CASE Twins(x) = {}
        <3>1. y = x
            BY <1>4, <2>1 DEF FoldOnce
        <3> QED
            BY <1>4, <2>1, <3>1
    <2>2. CASE Twins(x) # {}
        <3>1. NextPair(x) \in Twins(x)
            BY <1>4, <2>2, NextPairIs DEF Fewer
        <3>2. PICK p \in Twins(x) : y = Fold(x, p[1], p[2], seen)
            BY <1>4, <2>2, <3>1 DEF FoldOnce
        <3>3. Fewer(x, y) /\ Tasks(y) \subseteq Tasks(x) \ {p[2]} /\ p[2] \in Tasks(x)
            <4>1. StoreOK(x)
                BY <1>4 DEF Fewer
            <4> HIDE DEF x, y
            <4> QED
                BY <3>2, <4>1, FoldOfTwins
        <3>4. Fewer(st, y)
            BY <1>4, <3>3, FewerStill
        <3>5. IsFiniteSet(Tasks(x)) /\ Cardinality(Tasks(x)) \in Nat /\ Cardinality(Tasks(x)) <= MaxTask - (n - 1)
            BY <1>4, <2>2
        <3> HIDE DEF x, y
        <3>6. IsFiniteSet(Tasks(x) \ {p[2]}) /\ Cardinality(Tasks(x) \ {p[2]}) = Cardinality(Tasks(x)) - 1
            BY <3>3, <3>5, FS_RemoveElement
        <3>7. IsFiniteSet(Tasks(y)) /\ Cardinality(Tasks(y)) <= Cardinality(Tasks(x)) - 1
            BY <3>3, <3>6, FS_Subset
        <3>8. Cardinality(Tasks(y)) \in Nat
            BY <3>7, FS_CardinalityType
        <3>9. Cardinality(Tasks(y)) <= MaxTask - n
            BY <1>2, <3>5, <3>7, <3>8
        <3> QED
            BY <3>4, <3>7, <3>8, <3>9 DEF y
    <2> QED
        BY <2>1, <2>2
<1>5. Bad = {}
    <2> HIDE DEF Good
    <2>1. Bad \in SUBSET (0 .. MaxTask)
        OBVIOUS
    <2>2. f[0] = st => 0 \notin Bad
        BY <1>3
    <2>3. \A n \in 0 .. MaxTask : n # 0 /\ n - 1 \notin Bad /\ f[n] = FoldOnce(f[n - 1], seen) => n \notin Bad
        <3> SUFFICES ASSUME NEW n \in 0 .. MaxTask, n # 0, n - 1 \notin Bad, f[n] = FoldOnce(f[n - 1], seen)
                     PROVE  n \notin Bad
            OBVIOUS
        <3>1. n - 1 \in 0 .. MaxTask
            BY <1>2
        <3> QED
            BY <1>4, <3>1
    <2> HIDE DEF Bad
    <2> QED
        BY <1>1, <2>1, <2>2, <2>3, FaultlessFolds
<1>6. Good(MaxTask)
    BY <1>2, <1>5
<1>7. Twins(f[MaxTask]) = {}
    <2> SUFFICES ASSUME Cardinality(Tasks(f[MaxTask])) <= MaxTask - MaxTask PROVE Twins(f[MaxTask]) = {}
        BY <1>6
    <2>1. Cardinality(Tasks(f[MaxTask])) = 0
        BY <1>2, <1>6
    <2>2. Tasks(f[MaxTask]) = {}
        BY <1>6, <2>1, FS_EmptySet
    <2> QED
        BY <2>2 DEF Twins
<1> QED
    BY <1>1, <1>6, <1>7

-----------------------------------------------------------------------------
(* An import *)

Agree(a, b) == \A t \in Tasks(a) \cap Tasks(b) : a.row[t].due = b.row[t].due
\* The store before the folds.
Joined(mine, theirs) ==
    [row |-> Rows(mine, theirs), log |-> Events(mine, theirs), deps |-> mine.deps \cup theirs.deps]

\* The store that an import has before its folds (store_import).
LEMMA JoinedIs ==
    ASSUME NEW mine, StoreOK(mine), NEW theirs, StoreOK(theirs)
    PROVE  LET u == Joined(mine, theirs)
           IN  /\ StoreOK(u)
               /\ Tasks(u) = Tasks(mine) \cup Tasks(theirs)
               /\ \A t \in Ids : \/ u.row[t] = mine.row[t] /\ t \notin Tasks(theirs)
                                 \/ u.row[t] = theirs.row[t] /\ t \notin Tasks(mine)
                                 \/ /\ t \in Tasks(mine) \cap Tasks(theirs)
                                    /\ u.row[t].due \in {mine.row[t].due, theirs.row[t].due}
                                    /\ u.row[t].parent \in {mine.row[t].parent, theirs.row[t].parent}
                                    /\ u.row[t].status \in {mine.row[t].status, theirs.row[t].status}
               /\ Known(u) = Known(mine) \cup Known(theirs)
               /\ \A t \in Ids : mine.log[t] = {} /\ theirs.log[t] = {} => u.log[t] = {}
               /\ u.deps = mine.deps \cup theirs.deps
<1> DEFINE u == Joined(mine, theirs)
           new == [t \in Tasks(theirs) |-> RowFor(Copy(mine, t), Copy(theirs, t))]
<1>1. u = [row |-> u.row, log |-> u.log, deps |-> u.deps] /\ u.row = Written(mine.row, new)
      /\ u.log = Events(mine, theirs) /\ u.deps = mine.deps \cup theirs.deps
    BY DEF Joined, Rows
<1> HIDE DEF u
<1>2. u.row = [t \in Ids |-> IF t \in Tasks(theirs) THEN new[t] ELSE mine.row[t]]
    <2>1. DOMAIN new = Tasks(theirs) /\ Tasks(theirs) \subseteq Ids
        BY DEF Tasks
    <2>2. IsFiniteSet(Tasks(theirs)) /\ mine.row = [t \in Ids |-> mine.row[t]]
        BY <2>1, IdsAre, FS_Subset DEF StoreOK
    <2> HIDE DEF new
    <2>3. Written(mine.row, new) = [t \in Ids |-> IF t \in DOMAIN new THEN new[t] ELSE mine.row[t]]
        BY <2>1, <2>2, WrittenIs
    <2> QED
        BY <1>1, <2>1, <2>3
<1>3. ASSUME NEW t \in Ids
      PROVE  /\ RowOK(u.row[t])
             /\ \/ u.row[t] = mine.row[t] /\ t \notin Tasks(theirs)
                \/ u.row[t] = theirs.row[t] /\ t \notin Tasks(mine)
                \/ /\ t \in Tasks(mine) \cap Tasks(theirs)
                   /\ u.row[t].due \in {mine.row[t].due, theirs.row[t].due}
                   /\ u.row[t].parent \in {mine.row[t].parent, theirs.row[t].parent}
                   /\ u.row[t].status \in {mine.row[t].status, theirs.row[t].status}
    <2> DEFINE a == Copy(mine, t)
               b == Copy(theirs, t)
    <2>1. a.row = mine.row[t] /\ b.row = theirs.row[t] /\ RowOK(a.row) /\ RowOK(b.row)
        BY DEF Copy, StoreOK
    <2>2. t \in Tasks(theirs) => u.row[t] = RowFor(a, b)
        BY <1>2
    <2> HIDE DEF a, b
    <2>3. CASE t \notin Tasks(theirs)
        BY <1>2, <2>1, <2>3
    <2>4. CASE t \in Tasks(theirs) /\ t \notin Tasks(mine)
        BY <2>1, <2>2, <2>4 DEF RowFor, Tasks
    <2>5. CASE t \in Tasks(theirs) /\ t \in Tasks(mine)
        <3>1. u.row[t] = MergedRow(a, b)
            BY <2>1, <2>2, <2>5 DEF RowFor, Tasks
        <3>2. a.row.due # 0 /\ b.row.due # 0
            BY <2>1, <2>5, TaskDue DEF Tasks
        <3> QED
            BY <2>1, <2>5, <3>1, <3>2, MergedRowIs
    <2> QED
        BY <2>3, <2>4, <2>5
<1>4. StoreOK(u)
    <2>1. u.row = [t \in Ids |-> u.row[t]]
        BY <1>2
    <2>2. u.log = [t \in Ids |-> u.log[t]]
        BY <1>1 DEF Events
    <2>3. Pairs(u.deps)
        BY <1>1 DEF StoreOK, Pairs
    <2>4. \A t \in Ids : RowOK(u.row[t])
        BY <1>3
    <2>5. u = [row |-> u.row, log |-> u.log, deps |-> u.deps]
        BY <1>1
    <2> QED
        BY <2>1, <2>2, <2>3, <2>4, <2>5 DEF StoreOK
<1>5. Tasks(u) = Tasks(mine) \cup Tasks(theirs)
    <2> SUFFICES ASSUME NEW t \in Ids
                 PROVE  t \in Tasks(u) <=> t \in Tasks(mine) \/ t \in Tasks(theirs)
        BY DEF Tasks
    <2>1. /\ t \in Tasks(u) <=> u.row[t].due # 0
          /\ t \in Tasks(mine) <=> mine.row[t].due # 0
          /\ t \in Tasks(theirs) <=> theirs.row[t].due # 0
        BY <1>4, TaskDue
    <2> QED
        BY <1>3, <2>1
<1>6. Known(u) = Known(mine) \cup Known(theirs)
    <2>1. \A t \in Ids : u.log[t] = mine.log[t] \cup (theirs.log[t] \ Known(mine))
        BY <1>1 DEF Events
    <2>2. ASSUME NEW e \in Known(u) PROVE e \in Known(mine) \cup Known(theirs)
        BY <2>1 DEF Known
    <2>3. ASSUME NEW e \in Known(mine) PROVE e \in Known(u)
        BY <2>1 DEF Known
    <2>4. ASSUME NEW e \in Known(theirs), e \notin Known(mine) PROVE e \in Known(u)
        <3>1. PICK t \in Ids : e \in theirs.log[t]
            BY DEF Known
        <3>2. e \in u.log[t]
            BY <2>1, <2>4, <3>1
        <3> QED
            BY <3>2 DEF Known
    <2> QED
        BY <2>2, <2>3, <2>4
<1>7. \A t \in Ids : mine.log[t] = {} /\ theirs.log[t] = {} => u.log[t] = {}
    BY <1>1 DEF Events
<1> QED
    BY <1>1, <1>3, <1>4, <1>5, <1>6, <1>7 DEF u

\* Two stores that agree on the dues join into a line.
LEMMA JoinedLined ==
    ASSUME NEW mine, StoreOK(mine), NEW theirs, StoreOK(theirs), Lined(mine), Lined(theirs), Agree(mine, theirs)
    PROVE  LET u == Joined(mine, theirs)
           IN  /\ Lined(u)
               /\ \A t \in Tasks(mine) : u.row[t].due = mine.row[t].due
               /\ \A t \in Tasks(theirs) : u.row[t].due = theirs.row[t].due
<1> DEFINE u == Joined(mine, theirs)
<1>1. /\ StoreOK(u)
      /\ Tasks(u) = Tasks(mine) \cup Tasks(theirs)
      /\ \A t \in Ids : \/ u.row[t] = mine.row[t] /\ t \notin Tasks(theirs)
                        \/ u.row[t] = theirs.row[t] /\ t \notin Tasks(mine)
                        \/ /\ t \in Tasks(mine) \cap Tasks(theirs)
                           /\ u.row[t].due \in {mine.row[t].due, theirs.row[t].due}
                           /\ u.row[t].parent \in {mine.row[t].parent, theirs.row[t].parent}
                           /\ u.row[t].status \in {mine.row[t].status, theirs.row[t].status}
    BY JoinedIs
<1> HIDE DEF u
<1>2. \A t \in Tasks(mine) : u.row[t].due = mine.row[t].due
    BY <1>1 DEF Agree, Tasks
<1>3. \A t \in Tasks(theirs) : u.row[t].due = theirs.row[t].due
    BY <1>1 DEF Agree, Tasks
<1>4. Recurring(u) = Recurring(mine) \cup Recurring(theirs)
    BY <1>1 DEF Recurring
<1>5. \A t \in Tasks(u) : \E st \in {mine, theirs} : t \in Tasks(st) /\ u.row[t].parent = st.row[t].parent
    BY <1>1 DEF Tasks
<1>6. \A t \in Tasks(u) : \E st \in {mine, theirs} : t \in Tasks(st) /\ u.row[t].status = st.row[t].status
    BY <1>1 DEF Tasks
<1>7. \A st \in {mine, theirs} : Lined(st) /\ \A t \in Tasks(st) : u.row[t].due = st.row[t].due
    BY <1>2, <1>3
<1>8. Rooted(u)
    <2> SUFFICES ASSUME NEW t \in {Series, Errand}
                 PROVE  t \in Tasks(u) /\ u.row[t].due = 1 /\ u.row[t].parent = None
        BY DEF Rooted
    <2>1. \A st \in {mine, theirs} : t \in Tasks(st) /\ st.row[t].due = 1 /\ st.row[t].parent = None
        BY DEF Lined, Rooted
    <2> QED
        BY <1>1, <1>5, <1>7, <2>1
<1>9. Stepwise(u)
    <2> SUFFICES ASSUME NEW t \in Tasks(u) \ {Series, Errand}
                 PROVE  u.row[t].parent \in Recurring(u) /\ u.row[t].due = u.row[u.row[t].parent].due + 1
        BY DEF Stepwise
    <2>1. PICK st \in {mine, theirs} : t \in Tasks(st) /\ u.row[t].parent = st.row[t].parent
        BY <1>5
    <2> DEFINE q == st.row[t].parent
    <2>2. q \in Recurring(st) /\ st.row[t].due = st.row[q].due + 1
        BY <1>7, <2>1 DEF Lined, Stepwise
    <2> HIDE DEF q
    <2>3. q \in Recurring(u) /\ u.row[t].due = st.row[t].due /\ u.row[q].due = st.row[q].due
        BY <1>4, <1>7, <2>1, <2>2 DEF Recurring
    <2> QED
        BY <2>1, <2>2, <2>3 DEF q
<1>10. Followed(u)
    <2> SUFFICES ASSUME NEW t \in Recurring(u), u.row[t].status = "done"
                 PROVE  \E n \in Recurring(u) : u.row[n].due = u.row[t].due + 1
        BY DEF Followed
    <2>1. PICK st \in {mine, theirs} : t \in Tasks(st) /\ u.row[t].status = st.row[t].status
        BY <1>6 DEF Recurring
    <2>2. t \in Recurring(st) /\ Followed(st)
        BY <1>7, <2>1 DEF Recurring, Lined
    <2>3. PICK n \in Recurring(st) : st.row[n].due = st.row[t].due + 1
        BY <2>1, <2>2 DEF Followed
    <2>4. n \in Recurring(u) /\ u.row[n].due = st.row[n].due /\ u.row[t].due = st.row[t].due
        BY <1>4, <1>7, <2>1, <2>3 DEF Recurring
    <2> QED
        BY <2>3, <2>4
<1> QED
    BY <1>2, <1>3, <1>8, <1>9, <1>10 DEF Lined, u

\* On a line whose slots hold one row each, there is one task for each due.
LEMMA SingleWithoutTwins ==
    ASSUME NEW st, StoreOK(st), Lined(st), Twins(st) = {}
    PROVE  Single(st)
<1> DEFINE Bad == {st.row[x].due : x \in {x \in Recurring(st) : \E y \in Recurring(st) : y # x /\ st.row[y].due = st.row[x].due}}
<1> SUFFICES ASSUME Bad # {} PROVE FALSE
    BY DEF Single
<1>1. \A t \in Recurring(st) : t \in Ids /\ t \in Nat /\ st.row[t].due \in Nat /\ st.row[t].due # 0 /\ t \in Tasks(st)
    BY TaskDue, IdsAre DEF Recurring, Tasks
<1>2. Bad \in SUBSET Nat
    BY <1>1
<1>3. PICK m \in Bad : \A n \in Bad : m <= n
    BY <1>2, LeastNatural
<1>4. PICK x \in Recurring(st), y \in Recurring(st) : x # y /\ st.row[x].due = m /\ st.row[y].due = m
    OBVIOUS
<1>5. ASSUME NEW t \in Recurring(st), t # Series, NEW q, q = st.row[t].parent
      PROVE  q \in Recurring(st) /\ st.row[t].due = st.row[q].due + 1
    BY <1>5 DEF Lined, Stepwise, Recurring
<1>6. st.row[Series].due = 1 /\ Errand # Series
    BY DEF Lined, Rooted, Series, Errand
<1>7. x # Series /\ y # Series
    <2>1. ASSUME NEW t \in Recurring(st), t # Series, st.row[t].due = 1 PROVE FALSE
        <3> DEFINE q == st.row[t].parent
        <3>1. q \in Recurring(st) /\ st.row[t].due = st.row[q].due + 1
            BY <1>5, <2>1
        <3> HIDE DEF q
        <3> QED
            BY <1>1, <2>1, <3>1
    <2> QED
        BY <1>4, <1>6, <2>1
<1> DEFINE px == st.row[x].parent
           py == st.row[y].parent
<1>8. px \in Recurring(st) /\ py \in Recurring(st) /\ m = st.row[px].due + 1 /\ m = st.row[py].due + 1
    BY <1>4, <1>5, <1>7
<1> HIDE DEF Bad
<1>9. px = py
    <2> SUFFICES ASSUME px # py PROVE FALSE
        OBVIOUS
    <2> DEFINE n == st.row[px].due
    <2>1. n \in Nat /\ st.row[py].due = n /\ m = n + 1
        BY <1>1, <1>8
    <2>2. n \in Bad
        BY <1>8, <2>1 DEF Bad
    <2> HIDE DEF n
    <2>3. m <= n
        BY <1>3, <2>2
    <2> QED
        BY <2>1, <2>3
<1>10. px # None
    BY <1>1, <1>8, IdsAre DEF None
<1> DEFINE lo == IF x < y THEN x ELSE y
           hi == IF x < y THEN y ELSE x
<1>11. lo < hi /\ lo \in Tasks(st) /\ hi \in Tasks(st) /\ st.row[lo].parent = px /\ st.row[hi].parent = px
       /\ st.row[lo].due = m /\ st.row[hi].due = m
    BY <1>1, <1>4, <1>9
<1> HIDE DEF lo, hi, px
<1>12. <<lo, hi>> \in Twins(st)
    BY <1>10, <1>11 DEF Twins, Slot
<1> QED
    BY <1>12

\* What an import leaves of two stores.
LEMMA ImportedIs ==
    ASSUME NEW mine, StoreOK(mine), NEW theirs, StoreOK(theirs)
    PROVE  LET st == Imported(mine, theirs)
           IN  /\ StoreOK(st)
               /\ Tasks(st) \subseteq Tasks(mine) \cup Tasks(theirs)
               /\ Known(st) = Known(mine) \cup Known(theirs)
               /\ \A t \in Ids : mine.row[t] = NoRow /\ theirs.row[t] = NoRow
                                    /\ mine.log[t] = {} /\ theirs.log[t] = {}
                                 => st.row[t] = NoRow /\ st.log[t] = {}
               /\ ~Refused(mine, theirs) => ~Cyclic(st.deps)
               /\ Lined(mine) /\ Lined(theirs) /\ Agree(mine, theirs) =>
                    /\ Lined(st) /\ Single(st)
                    /\ Agree(st, mine) /\ Agree(st, theirs)
<1> DEFINE u == Joined(mine, theirs)
           st == Imported(mine, theirs)
<1>1. /\ StoreOK(u)
      /\ Tasks(u) = Tasks(mine) \cup Tasks(theirs)
      /\ Known(u) = Known(mine) \cup Known(theirs)
      /\ \A t \in Ids : mine.log[t] = {} /\ theirs.log[t] = {} => u.log[t] = {}
      /\ u.deps = mine.deps \cup theirs.deps
    BY JoinedIs
<1>2. st = Folded(u, theirs.log)
    BY DEF Imported, Joined
<1> HIDE DEF u, st
<1>3. Fewer(u, st) /\ Twins(st) = {}
    BY <1>1, <1>2, FoldedFewer
<1>4. /\ StoreOK(st) /\ Tasks(st) \subseteq Tasks(u) /\ Known(st) = Known(u)
      /\ \A t \in Tasks(st) : st.row[t].due = u.row[t].due
      /\ \A t \in Ids : u.row[t] = NoRow /\ u.log[t] = {} => st.row[t] = NoRow /\ st.log[t] = {}
      /\ ~Cyclic(u.deps) => ~Cyclic(st.deps)
      /\ Lined(u) => Lined(st)
    BY <1>3 DEF Fewer
<1>5. \A t \in Ids : mine.row[t] = NoRow /\ theirs.row[t] = NoRow /\ mine.log[t] = {} /\ theirs.log[t] = {}
            => st.row[t] = NoRow /\ st.log[t] = {}
    <2>1. \A t \in Ids : mine.row[t] = NoRow /\ theirs.row[t] = NoRow => u.row[t] = NoRow
        BY <1>1 DEF Tasks
    <2> QED
        BY <1>1, <1>4, <2>1
<1>6. ~Refused(mine, theirs) => ~Cyclic(st.deps)
    BY <1>1, <1>4 DEF Refused
<1>7. ASSUME Lined(mine) /\ Lined(theirs) /\ Agree(mine, theirs)
      PROVE  Lined(st) /\ Single(st) /\ Agree(st, mine) /\ Agree(st, theirs)
    <2>1. /\ Lined(u)
          /\ \A t \in Tasks(mine) : u.row[t].due = mine.row[t].due
          /\ \A t \in Tasks(theirs) : u.row[t].due = theirs.row[t].due
        BY <1>7, JoinedLined DEF u
    <2>2. Lined(st)
        BY <1>4, <2>1
    <2>3. Single(st)
        BY <1>3, <1>4, <2>2, SingleWithoutTwins
    <2>4. Agree(st, mine) /\ Agree(st, theirs)
        BY <1>4, <2>1 DEF Agree
    <2> QED
        BY <2>2, <2>3, <2>4
<1> QED
    BY <1>1, <1>4, <1>5, <1>6, <1>7 DEF st

-----------------------------------------------------------------------------
(* What an edit writes *)

Put(st, t, r, l) == [st EXCEPT !.row[t] = r, !.log[t] = l]
PutRow(st, t, r) == [st EXCEPT !.row[t] = r]
PutEdges(st, D) == [st EXCEPT !.deps = D]

\* A row and a log put into a store.
LEMMA StorePut ==
    ASSUME NEW st, StoreOK(st), NEW t \in Ids, NEW r, RowOK(r), NEW l
    PROVE  LET q == Put(st, t, r, l)
           IN  /\ StoreOK(q) /\ q.deps = st.deps
           /\ \A u \in Ids : /\ q.row[u] = IF u = t THEN r ELSE st.row[u]
                             /\ q.log[u] = IF u = t THEN l ELSE st.log[u]
<1> DEFINE q == Put(st, t, r, l)
<1>0. q = [st EXCEPT !.row[t] = r, !.log[t] = l]
    BY DEF Put
<1> HIDE DEF q
<1>1. q = [row |-> [st.row EXCEPT ![t] = r], log |-> [st.log EXCEPT ![t] = l], deps |-> st.deps]
    BY <1>0 DEF StoreOK
<1>2. q.row = [st.row EXCEPT ![t] = r] /\ q.log = [st.log EXCEPT ![t] = l] /\ q.deps = st.deps
      /\ q = [row |-> q.row, log |-> q.log, deps |-> q.deps]
    BY <1>1
<1>3. \A u \in Ids : /\ q.row[u] = IF u = t THEN r ELSE st.row[u]
                     /\ q.log[u] = IF u = t THEN l ELSE st.log[u]
    BY <1>2 DEF StoreOK
<1>4. q.row = [u \in Ids |-> q.row[u]] /\ q.log = [u \in Ids |-> q.log[u]]
    BY <1>2 DEF StoreOK
<1>5. \A u \in Ids : RowOK(q.row[u])
    BY <1>3 DEF StoreOK
<1>6. StoreOK(q)
    BY <1>2, <1>4, <1>5 DEF StoreOK
<1> QED
    BY <1>2, <1>3, <1>6 DEF q

\* A row put into a store.
LEMMA RowPut ==
    ASSUME NEW st, StoreOK(st), NEW t \in Ids, NEW r, RowOK(r)
    PROVE  LET q == PutRow(st, t, r)
           IN  /\ StoreOK(q) /\ q.deps = st.deps /\ q.log = st.log
           /\ \A u \in Ids : q.row[u] = IF u = t THEN r ELSE st.row[u]
<1> DEFINE q == PutRow(st, t, r)
<1>0. q = [st EXCEPT !.row[t] = r]
    BY DEF PutRow
<1> HIDE DEF q
<1>1. q = [row |-> [st.row EXCEPT ![t] = r], log |-> st.log, deps |-> st.deps]
    BY <1>0 DEF StoreOK
<1>2. q.row = [st.row EXCEPT ![t] = r] /\ q.log = st.log /\ q.deps = st.deps
      /\ q = [row |-> q.row, log |-> q.log, deps |-> q.deps]
    BY <1>1
<1>3. \A u \in Ids : q.row[u] = IF u = t THEN r ELSE st.row[u]
    BY <1>2 DEF StoreOK
<1>4. q.row = [u \in Ids |-> q.row[u]] /\ q.log = [u \in Ids |-> q.log[u]]
    BY <1>2 DEF StoreOK
<1>5. \A u \in Ids : RowOK(q.row[u])
    BY <1>3 DEF StoreOK
<1>6. StoreOK(q)
    BY <1>2, <1>4, <1>5 DEF StoreOK
<1> QED
    BY <1>2, <1>3, <1>6 DEF q

\* Edges put into a store.
LEMMA EdgePut ==
    ASSUME NEW st, StoreOK(st), NEW D, Pairs(D)
    PROVE  LET q == PutEdges(st, D) IN  StoreOK(q) /\ q.deps = D /\ q.log = st.log /\ q.row = st.row
<1> DEFINE q == PutEdges(st, D)
<1>0. q = [st EXCEPT !.deps = D]
    BY DEF PutEdges
<1> HIDE DEF q
<1>1. q = [row |-> st.row, log |-> st.log, deps |-> D]
    BY <1>0 DEF StoreOK
<1> QED
    BY <1>1 DEF StoreOK, q

\* A row with the fields an edit writes over.
RowStarted(r, s, i) == [r EXCEPT !.status = s, !.since = i]
RowStopped(r, s, i, n) == [r EXCEPT !.status = s, !.since = i, !.tracked = n]
RowClosed(r, s, i, c, n) == [r EXCEPT !.status = s, !.since = i, !.completed = c, !.tracked = n]
RowReopened(r, s, c) == [r EXCEPT !.status = s, !.completed = c]
RowAdjusted(r, n, j) == [r EXCEPT !.tracked = n, !.adj = j]
RowStamped(r, m) == [r EXCEPT !.modified = m]
RowMoved(r, d) == [r EXCEPT !.due = d]

\* Each of them keeps a row well formed, and all but a move its place.
LEMMA RowStartedIs ==
    ASSUME NEW r, RowOK(r), r.due # 0, NEW s \in {"pending", "active", "done"}, NEW i
    PROVE  LET q == RowStarted(r, s, i)
           IN  RowOK(q) /\ q.due = r.due /\ q.parent = r.parent /\ q.status = s
<1> DEFINE q == RowStarted(r, s, i)
<1>1. q = [r EXCEPT !.status = s, !.since = i]
    BY DEF RowStarted
<1> HIDE DEF q
<1>2. q = RowWith(r.parent, r.due, s, i, r.completed, r.tracked, r.adj, r.modified)
    BY <1>1 DEF RowOK, RowWith
<1>3. r.parent \in Nat /\ r.due \in Nat /\ r.status \in {"pending", "active", "done"}
    BY DEF RowOK
<1> QED
    BY <1>2, <1>3, RowWritten DEF q

\* A stop, a start or its cascade changes status and clock alone.
LEMMA RowStoppedIs ==
    ASSUME NEW r, RowOK(r), r.due # 0, NEW s \in {"pending", "active", "done"}, NEW i, NEW n
    PROVE  LET q == RowStopped(r, s, i, n)
           IN  RowOK(q) /\ q.due = r.due /\ q.parent = r.parent /\ q.status = s
<1> DEFINE q == RowStopped(r, s, i, n)
<1>1. q = [r EXCEPT !.status = s, !.since = i, !.tracked = n]
    BY DEF RowStopped
<1> HIDE DEF q
<1>2. q = RowWith(r.parent, r.due, s, i, r.completed, n, r.adj, r.modified)
    BY <1>1 DEF RowOK, RowWith
<1>3. r.parent \in Nat /\ r.due \in Nat /\ r.status \in {"pending", "active", "done"}
    BY DEF RowOK
<1> QED
    BY <1>2, <1>3, RowWritten DEF q

\* A close changes status, clock and completion alone.
LEMMA RowClosedIs ==
    ASSUME NEW r, RowOK(r), r.due # 0, NEW s \in {"pending", "active", "done"}, NEW i, NEW c, NEW n
    PROVE  LET q == RowClosed(r, s, i, c, n)
           IN  RowOK(q) /\ q.due = r.due /\ q.parent = r.parent /\ q.status = s
<1> DEFINE q == RowClosed(r, s, i, c, n)
<1>1. q = [r EXCEPT !.status = s, !.since = i, !.completed = c, !.tracked = n]
    BY DEF RowClosed
<1> HIDE DEF q
<1>2. q = RowWith(r.parent, r.due, s, i, c, n, r.adj, r.modified)
    BY <1>1 DEF RowOK, RowWith
<1>3. r.parent \in Nat /\ r.due \in Nat /\ r.status \in {"pending", "active", "done"}
    BY DEF RowOK
<1> QED
    BY <1>2, <1>3, RowWritten DEF q

\* A reopen changes status and completion alone.
LEMMA RowReopenedIs ==
    ASSUME NEW r, RowOK(r), r.due # 0, NEW s \in {"pending", "active", "done"}, NEW c
    PROVE  LET q == RowReopened(r, s, c)
           IN  RowOK(q) /\ q.due = r.due /\ q.parent = r.parent /\ q.status = s
<1> DEFINE q == RowReopened(r, s, c)
<1>1. q = [r EXCEPT !.status = s, !.completed = c]
    BY DEF RowReopened
<1> HIDE DEF q
<1>2. q = RowWith(r.parent, r.due, s, r.since, c, r.tracked, r.adj, r.modified)
    BY <1>1 DEF RowOK, RowWith
<1>3. r.parent \in Nat /\ r.due \in Nat /\ r.status \in {"pending", "active", "done"}
    BY DEF RowOK
<1> QED
    BY <1>2, <1>3, RowWritten DEF q

\* A correction changes the two totals alone.
LEMMA RowAdjustedIs ==
    ASSUME NEW r, RowOK(r), r.due # 0, NEW n, NEW j
    PROVE  LET q == RowAdjusted(r, n, j)
           IN  RowOK(q) /\ q.due = r.due /\ q.parent = r.parent /\ q.status = r.status
<1> DEFINE q == RowAdjusted(r, n, j)
<1>1. q = [r EXCEPT !.tracked = n, !.adj = j]
    BY DEF RowAdjusted
<1> HIDE DEF q
<1>2. q = RowWith(r.parent, r.due, r.status, r.since, r.completed, n, j, r.modified)
    BY <1>1 DEF RowOK, RowWith
<1>3. r.parent \in Nat /\ r.due \in Nat /\ r.status \in {"pending", "active", "done"}
    BY DEF RowOK
<1> QED
    BY <1>2, <1>3, RowWritten DEF q

\* A stamp changes the modified time alone.
LEMMA RowStampedIs ==
    ASSUME NEW r, RowOK(r), r.due # 0, NEW m
    PROVE  LET q == RowStamped(r, m)
           IN  RowOK(q) /\ q.due = r.due /\ q.parent = r.parent /\ q.status = r.status
<1> DEFINE q == RowStamped(r, m)
<1>1. q = [r EXCEPT !.modified = m]
    BY DEF RowStamped
<1> HIDE DEF q
<1>2. q = RowWith(r.parent, r.due, r.status, r.since, r.completed, r.tracked, r.adj, m)
    BY <1>1 DEF RowOK, RowWith
<1>3. r.parent \in Nat /\ r.due \in Nat /\ r.status \in {"pending", "active", "done"}
    BY DEF RowOK
<1> QED
    BY <1>2, <1>3, RowWritten DEF q

\* A moved due changes nothing else.
LEMMA RowMovedIs ==
    ASSUME NEW r, RowOK(r), r.due # 0, NEW d \in Nat, d # 0
    PROVE  LET q == RowMoved(r, d)
           IN  RowOK(q) /\ q.due = d /\ q.parent = r.parent /\ q.status = r.status
<1> DEFINE q == RowMoved(r, d)
<1>1. q = [r EXCEPT !.due = d]
    BY DEF RowMoved
<1> HIDE DEF q
<1>2. q = RowWith(r.parent, d, r.status, r.since, r.completed, r.tracked, r.adj, r.modified)
    BY <1>1 DEF RowOK, RowWith
<1>3. r.parent \in Nat /\ r.due \in Nat /\ r.status \in {"pending", "active", "done"}
    BY DEF RowOK
<1> QED
    BY <1>2, <1>3, RowWritten DEF q

\* An edit of t: its row and one event more.
LEMMA EditedIs ==
    ASSUME NEW st, StoreOK(st), NEW t \in Tasks(st), NEW row, RowOK(row), row.due # 0, NEW e
    PROVE  LET q == Edited(st, t, row, e)
           IN  /\ StoreOK(q) /\ q.deps = st.deps
               /\ \A u \in Ids \ {t} : q.row[u] = st.row[u] /\ q.log[u] = st.log[u]
               /\ q.row[t].due = row.due /\ q.row[t].parent = row.parent /\ q.row[t].status = row.status
               /\ q.log[t] = st.log[t] \cup {e}
<1> DEFINE q == Edited(st, t, row, e)
           r == RowStamped(row, now)
<1>1. RowOK(r) /\ r.due = row.due /\ r.parent = row.parent /\ r.status = row.status
    BY RowStampedIs
<1>2. q = Put(st, t, r, st.log[t] \cup {e}) /\ t \in Ids
    BY DEF Edited, Tasks, Put, RowStamped
<1> HIDE DEF q, r
<1>3. /\ StoreOK(q) /\ q.deps = st.deps
      /\ \A u \in Ids : /\ q.row[u] = IF u = t THEN r ELSE st.row[u]
                        /\ q.log[u] = IF u = t THEN st.log[t] \cup {e} ELSE st.log[u]
    BY <1>1, <1>2, StorePut
<1> QED
    BY <1>1, <1>2, <1>3 DEF q

-----------------------------------------------------------------------------
(* The inductive invariant *)

Held(st, n) ==
    /\ StoreOK(st)
    /\ \A t \in Ids : t >= n => st.row[t] = NoRow /\ st.log[t] = {}
    /\ Steady(st) => Lined(st) /\ Single(st)
\* The completion an undo would take back spawned a row that is its child and
\* nothing's parent.
LastFits(l, st) ==
    l.t # None =>
        /\ l.t \in Tasks(st) /\ RowOK(l.before) /\ Open(l.before)
        /\ l.spawn # None => /\ l.spawn \in Ids
                             /\ Steady(st) => /\ l.spawn \in Tasks(st) \ {Series, Errand, l.t} /\ l.t # Errand
                                              /\ st.row[l.spawn].parent = l.t
                                              /\ \A x \in Tasks(st) : st.row[x].parent # l.spawn
All == {store[s] : s \in Stores} \cup ({doc} \ {Empty})
LineInv ==
    /\ now \in Nat /\ now >= 3 /\ now <= 3 + scene.most /\ scene \in Scenes
    /\ store = [s \in Stores |-> store[s]] /\ last = [s \in Stores |-> last[s]]
    /\ \A st \in All : Held(st, now)
    /\ \A a, b \in All : Steady(a) /\ Steady(b) => Agree(a, b)
    /\ \A s \in Stores : LastFits(last[s], store[s])

\* What an edit of st leaves.
Follows(st, after, done) ==
    /\ Held(after, now + 1)
    /\ Steady(after) => /\ Steady(st)
                        /\ \A t \in Tasks(after) : \/ t = now
                                                   \/ t \in Tasks(st) /\ after.row[t].due = st.row[t].due
    /\ LastFits(done, after)

\* While events only come, a store in which a due was moved stays one.
LEMMA KnownGrows ==
    ASSUME NEW st, NEW after, \A t \in Ids : st.log[t] \subseteq after.log[t]
    PROVE  Known(st) \subseteq Known(after) /\ (Steady(after) => Steady(st))
BY DEF Known, Steady, Has

\* An edit that leaves the rows their dues and parents, and completes none that
\* has no successor.
LEMMA SameLine ==
    ASSUME NEW st, Held(st, now), NEW after, StoreOK(after), now \in Nat,
           \A t \in Ids : after.row[t].due = st.row[t].due /\ after.row[t].parent = st.row[t].parent,
           \A t \in Ids : st.log[t] \subseteq after.log[t] /\ (t \notin Tasks(st) => after.log[t] = st.log[t]),
           \A t \in Recurring(st) : after.row[t].status = "done" =>
                st.row[t].status = "done" \/ \E n \in Tasks(st) : st.row[n].parent = t /\ st.row[n].due = st.row[t].due + 1
    PROVE  /\ Held(after, now + 1)
           /\ Steady(after) => /\ Steady(st)
                               /\ \A t \in Tasks(after) : t \in Tasks(st) /\ after.row[t].due = st.row[t].due
<1>1. StoreOK(st)
    BY DEF Held
<1>2. Tasks(after) = Tasks(st) /\ Recurring(after) = Recurring(st)
    <2>1. \A t \in Ids : t \in Tasks(after) <=> t \in Tasks(st)
        BY <1>1, TaskDue
    <2> QED
        BY <2>1 DEF Tasks, Recurring
<1>3. Steady(after) => Steady(st)
    BY KnownGrows
<1>4. \A t \in Ids : t >= now + 1 => after.row[t] = NoRow /\ after.log[t] = {}
    <2> SUFFICES ASSUME NEW t \in Ids, t >= now + 1 PROVE after.row[t] = NoRow /\ after.log[t] = {}
        OBVIOUS
    <2>1. t >= now
        BY IdsAre
    <2>2. st.row[t] = NoRow /\ st.log[t] = {}
        BY <2>1 DEF Held
    <2>3. t \notin Tasks(st)
        BY <2>2 DEF Tasks
    <2>4. after.row[t] = NoRow
        BY <1>2, <2>3 DEF Tasks
    <2> QED
        BY <2>2, <2>3, <2>4
<1>5. ASSUME Steady(after) PROVE Lined(after) /\ Single(after)
    <2>1. Rooted(st) /\ Stepwise(st) /\ Followed(st) /\ Single(st)
        BY <1>3, <1>5 DEF Held, Lined
    <2>2. \A t \in Tasks(st) : t \in Ids
        BY DEF Tasks
    <2>3. Rooted(after)
        BY <1>2, <2>1, <2>2 DEF Rooted
    <2>4. Stepwise(after)
        <3> SUFFICES ASSUME NEW t \in Tasks(st) \ {Series, Errand}
                     PROVE  after.row[t].parent \in Recurring(st)
                            /\ after.row[t].due = after.row[after.row[t].parent].due + 1
            BY <1>2 DEF Stepwise
        <3> DEFINE q == st.row[t].parent
        <3>1. q \in Recurring(st) /\ st.row[t].due = st.row[q].due + 1
            BY <2>1 DEF Stepwise
        <3> HIDE DEF q
        <3>2. q \in Ids /\ t \in Ids
            BY <2>2, <3>1 DEF Recurring
        <3>3. after.row[t].parent = q
            BY <3>2 DEF q
        <3> QED
            BY <3>1, <3>2, <3>3
    <2>5. Followed(after)
        <3> SUFFICES ASSUME NEW t \in Recurring(st), after.row[t].status = "done"
                     PROVE  \E n \in Recurring(st) : after.row[n].due = after.row[t].due + 1
            BY <1>2 DEF Followed
        <3>1. \E n \in Recurring(st) : st.row[n].due = st.row[t].due + 1
            <4>1. CASE st.row[t].status = "done"
                BY <2>1, <4>1 DEF Followed
            <4>2. CASE \E n \in Tasks(st) : st.row[n].parent = t /\ st.row[n].due = st.row[t].due + 1
                <5>1. PICK n \in Tasks(st) : st.row[n].parent = t /\ st.row[n].due = st.row[t].due + 1
                    BY <4>2
                <5>2. t # None
                    BY <2>2, IdsAre DEF Recurring, None
                <5>3. n # Errand
                    BY <2>1, <5>1, <5>2 DEF Rooted
                <5> QED
                    BY <5>1, <5>3 DEF Recurring
            <4> QED
                BY <4>1, <4>2
        <3> QED
            BY <2>2, <3>1 DEF Recurring
    <2>6. Single(after)
        BY <1>2, <2>1, <2>2 DEF Single, Recurring
    <2> QED
        BY <2>3, <2>4, <2>5, <2>6 DEF Lined
<1>6. Held(after, now + 1)
    BY <1>4, <1>5 DEF Held
<1> QED
    BY <1>2, <1>3, <1>6 DEF Tasks

-----------------------------------------------------------------------------
(* The edits *)

\* An edit of one task that leaves its place in the series.
LEMMA PlainEdit ==
    ASSUME now \in Nat, NEW st, Held(st, now), NEW t \in Tasks(st), NEW row, RowOK(row),
           row.due = st.row[t].due, row.parent = st.row[t].parent,
           row.status = "done" /\ t # Errand =>
                st.row[t].status = "done" \/ \E n \in Tasks(st) : st.row[n].parent = t /\ st.row[n].due = st.row[t].due + 1,
           NEW e
    PROVE  LET q == Edited(st, t, row, e)
           IN  /\ StoreOK(q) /\ Tasks(q) = Tasks(st) /\ q.deps = st.deps
               /\ \A u \in Ids \ {t} : q.row[u] = st.row[u] /\ q.log[u] = st.log[u]
               /\ q.row[t].due = row.due /\ q.row[t].parent = row.parent /\ q.row[t].status = row.status
               /\ q.log[t] = st.log[t] \cup {e}
               /\ Held(q, now + 1)
               /\ Steady(q) => /\ Steady(st)
                               /\ \A u \in Tasks(q) : u \in Tasks(st) /\ q.row[u].due = st.row[u].due
<1> DEFINE q == Edited(st, t, row, e)
<1>1. StoreOK(st) /\ t \in Ids /\ row.due # 0
    BY TaskDue DEF Held, Tasks
<1>2. /\ StoreOK(q) /\ q.deps = st.deps
      /\ \A u \in Ids \ {t} : q.row[u] = st.row[u] /\ q.log[u] = st.log[u]
      /\ q.row[t].due = row.due /\ q.row[t].parent = row.parent /\ q.row[t].status = row.status
      /\ q.log[t] = st.log[t] \cup {e}
    BY <1>1, EditedIs
<1> HIDE DEF q
<1>3. \A u \in Ids : q.row[u].due = st.row[u].due /\ q.row[u].parent = st.row[u].parent
    BY <1>1, <1>2
<1>4. \A u \in Ids : st.log[u] \subseteq q.log[u] /\ (u \notin Tasks(st) => q.log[u] = st.log[u])
    BY <1>1, <1>2
<1>5. \A u \in Recurring(st) : q.row[u].status = "done" =>
        st.row[u].status = "done" \/ \E n \in Tasks(st) : st.row[n].parent = u /\ st.row[n].due = st.row[u].due + 1
    BY <1>2 DEF Recurring, Tasks
<1>6. /\ Held(q, now + 1)
      /\ Steady(q) => /\ Steady(st)
                      /\ \A u \in Tasks(q) : u \in Tasks(st) /\ q.row[u].due = st.row[u].due
    BY <1>2, <1>3, <1>4, <1>5, SameLine
<1>7. Tasks(q) = Tasks(st)
    <2>1. \A u \in Ids : u \in Tasks(q) <=> u \in Tasks(st)
        BY <1>1, <1>2, <1>3, TaskDue
    <2> QED
        BY <2>1 DEF Tasks
<1> QED
    BY <1>2, <1>6, <1>7 DEF q

\* An edit that takes nothing back forgets what undo would.
LEMMA PlainFollows ==
    ASSUME now \in Nat, NEW st, Held(st, now), NEW t \in Tasks(st), NEW row, RowOK(row),
           row.due = st.row[t].due, row.parent = st.row[t].parent,
           row.status = "done" => st.row[t].status = "done", NEW e
    PROVE  Follows(st, Edited(st, t, row, e), NoDone) /\ Edited(st, t, row, e).deps = st.deps
<1> DEFINE q == Edited(st, t, row, e)
<1>1. /\ Held(q, now + 1) /\ q.deps = st.deps
      /\ Steady(q) => /\ Steady(st)
                      /\ \A u \in Tasks(q) : u \in Tasks(st) /\ q.row[u].due = st.row[u].due
    BY PlainEdit
<1> HIDE DEF q
<1>2. LastFits(NoDone, q)
    BY DEF LastFits, NoDone
<1>3. Follows(st, q, NoDone)
    BY <1>1, <1>2 DEF Follows
<1> QED
    BY <1>1, <1>3 DEF q

\* What a task of a held store is.
LEMMA TaskRow ==
    ASSUME NEW st, Held(st, now), NEW t \in Tasks(st)
    PROVE  t \in Ids /\ RowOK(st.row[t]) /\ st.row[t].due # 0 /\ st.row[t].due \in Nat
           /\ st.row[t].status \in {"pending", "active", "done"}
BY TaskDue DEF Held, Tasks, RowOK

\* A start changes no place in the series.
LEMMA StartFollows ==
    ASSUME now \in Nat, NEW s, NEW st, Held(st, now), NEW t \in Tasks(st), Start(s, st, t)
    PROVE  \E after, done : Edit(s, after, done) /\ Follows(st, after, done) /\ after.deps = st.deps
<1> DEFINE row == RowStarted(st.row[t], "active", now)
           e == [Logged("start") EXCEPT !.since = now]
<1>1. Edit(s, Edited(st, t, row, e), NoDone)
    BY DEF Start, RowStarted
<1> HIDE DEF row, e
<1>3. RowOK(row) /\ row.due = st.row[t].due /\ row.parent = st.row[t].parent /\ row.status = "active"
    BY TaskRow, RowStartedIs DEF row
<1>4. Follows(st, Edited(st, t, row, e), NoDone) /\ Edited(st, t, row, e).deps = st.deps
    BY <1>3, PlainFollows
<1> QED
    BY <1>1, <1>4

\* Nor does a stop.
LEMMA StopFollows ==
    ASSUME now \in Nat, NEW s, NEW st, Held(st, now), NEW t \in Tasks(st), Stop(s, st, t)
    PROVE  \E after, done : Edit(s, after, done) /\ Follows(st, after, done) /\ after.deps = st.deps
<1> DEFINE n == st.row[t].tracked + Elapsed(st.row[t])
           row == RowStopped(st.row[t], "pending", 0, n)
           e == [Logged("stop") EXCEPT !.since = st.row[t].since, !.secs = Elapsed(st.row[t])]
<1>1. Edit(s, Edited(st, t, row, e), NoDone)
    BY DEF Stop, RowStopped
<1> HIDE DEF row, e, n
<1>3. RowOK(row) /\ row.due = st.row[t].due /\ row.parent = st.row[t].parent /\ row.status = "pending"
    BY TaskRow, RowStoppedIs DEF row
<1>4. Follows(st, Edited(st, t, row, e), NoDone) /\ Edited(st, t, row, e).deps = st.deps
    BY <1>3, PlainFollows
<1> QED
    BY <1>1, <1>4

\* Nor a reopen, which completes nothing.
LEMMA ReopenFollows ==
    ASSUME now \in Nat, NEW s, NEW st, Held(st, now), NEW t \in Tasks(st), Reopen(s, st, t)
    PROVE  \E after, done : Edit(s, after, done) /\ Follows(st, after, done) /\ after.deps = st.deps
<1> DEFINE row == RowReopened(st.row[t], "pending", 0)
           e == Logged("reopen")
<1>1. Edit(s, Edited(st, t, row, e), NoDone)
    BY DEF Reopen, RowReopened
<1> HIDE DEF row, e
<1>3. RowOK(row) /\ row.due = st.row[t].due /\ row.parent = st.row[t].parent /\ row.status = "pending"
    BY TaskRow, RowReopenedIs DEF row
<1>4. Follows(st, Edited(st, t, row, e), NoDone) /\ Edited(st, t, row, e).deps = st.deps
    BY <1>3, PlainFollows
<1> QED
    BY <1>1, <1>4

\* Nor a correction of the time.
LEMMA AdjustFollows ==
    ASSUME now \in Nat, NEW s, NEW st, Held(st, now), NEW t \in Tasks(st), Adjust(s, st, t)
    PROVE  \E after, done : Edit(s, after, done) /\ Follows(st, after, done) /\ after.deps = st.deps
<1> DEFINE n == st.row[t].tracked + 1
           j == st.row[t].adj + 1
           row == RowAdjusted(st.row[t], n, j)
           e == [Logged("adjust_tracked") EXCEPT !.delta = 1]
<1>1. Edit(s, Edited(st, t, row, e), NoDone)
    BY DEF Adjust, RowAdjusted
<1> HIDE DEF row, e, n, j
<1>3. RowOK(row) /\ row.due = st.row[t].due /\ row.parent = st.row[t].parent /\ row.status = st.row[t].status
    BY TaskRow, RowAdjustedIs DEF row
<1>4. Follows(st, Edited(st, t, row, e), NoDone) /\ Edited(st, t, row, e).deps = st.deps
    BY <1>3, PlainFollows
<1> QED
    BY <1>1, <1>4

\* An edge is added only to a task that does not reach the one that waits.
LEMMA AddEdgeFollows ==
    ASSUME now \in Nat, NEW s, NEW st, Held(st, now), NEW t \in Tasks(st), NEW d \in Tasks(st),
           AddEdge(s, st, t, d)
    PROVE  \E after, done : /\ Edit(s, after, done) /\ Follows(st, after, done)
                            /\ ~Cyclic(st.deps) => ~Cyclic(after.deps)
<1> DEFINE e == Logged("dependency.add")
           x == Edited(st, t, st.row[t], e)
           D == st.deps \cup {<<t, d>>}
           q == PutEdges(x, D)
<1>2. Follows(st, x, NoDone) /\ x.deps = st.deps
    BY TaskRow, PlainFollows
<1>1. Edit(s, q, NoDone) /\ t # d /\ ~Reaches(st.deps, d, t)
    <2>1. Edit(s, [x EXCEPT !.deps = x.deps \cup {<<t, d>>}], NoDone) /\ t # d /\ ~Reaches(st.deps, d, t)
        BY DEF AddEdge
    <2> HIDE DEF x
    <2> QED
        BY <1>2, <2>1 DEF PutEdges
<1> HIDE DEF x
<1>4. Pairs(D)
    BY DEF Held, StoreOK, Pairs
<1>5. StoreOK(q) /\ q.deps = D /\ q.log = x.log /\ q.row = x.row
    <2>1. StoreOK(x)
        BY <1>2 DEF Follows, Held
    <2> HIDE DEF D
    <2> QED
        BY <1>4, <2>1, EdgePut
<1> HIDE DEF q
<1>6. Tasks(q) = Tasks(x) /\ Recurring(q) = Recurring(x) /\ (Steady(q) <=> Steady(x))
    BY <1>5 DEF Tasks, Recurring, Steady, Has, Known
<1>7. Follows(st, q, NoDone)
    <2>1. Lined(x) /\ Single(x) => Lined(q) /\ Single(q)
        BY <1>5, <1>6 DEF Lined, Rooted, Stepwise, Followed, Single
    <2>2. Held(q, now + 1)
        BY <1>2, <1>5, <1>6, <2>1 DEF Follows, Held
    <2>3. LastFits(NoDone, q)
        BY DEF LastFits, NoDone
    <2> QED
        BY <1>2, <1>5, <1>6, <2>2, <2>3 DEF Follows
<1>8. ~Cyclic(st.deps) => ~Cyclic(q.deps)
    BY <1>1, <1>5, EdgeAdded
<1> QED
    BY <1>1, <1>7, <1>8

\* A store with a due moved promises nothing of its line.
LEMMA MoveFollows ==
    ASSUME now \in Nat, NEW s, NEW st, Held(st, now), NEW t \in Tasks(st), Move(s, st, t)
    PROVE  \E after, done : Edit(s, after, done) /\ Follows(st, after, done) /\ after.deps = st.deps
<1> DEFINE d == st.row[t].due + 1
           row == RowMoved(st.row[t], d)
           e == [Logged("modify") EXCEPT !.cols = {"schedule"}]
           q == Edited(st, t, row, e)
<1>1. Edit(s, q, NoDone)
    BY DEF Move, RowMoved
<1>2. row = RowMoved(st.row[t], d) /\ d \in Nat /\ d # 0 /\ t \in Ids
    BY TaskRow
<1>3. e.op = "modify"
    BY DEF Logged, Event
<1> HIDE DEF row, e, d
<1>4. RowOK(row) /\ row.due # 0
    BY <1>2, TaskRow, RowMovedIs
<1>5. /\ StoreOK(q) /\ q.deps = st.deps
      /\ \A u \in Ids \ {t} : q.row[u] = st.row[u] /\ q.log[u] = st.log[u]
      /\ q.row[t].due = row.due
      /\ q.log[t] = st.log[t] \cup {e}
    BY <1>4, EditedIs DEF Held
<1> HIDE DEF q
<1>6. ~Steady(q)
    BY <1>2, <1>3, <1>5 DEF Steady, Has, Known
<1>7. \A u \in Ids : u >= now + 1 => q.row[u] = NoRow /\ q.log[u] = {}
    <2> SUFFICES ASSUME NEW u \in Ids, u >= now + 1 PROVE q.row[u] = NoRow /\ q.log[u] = {}
        OBVIOUS
    <2>1. u >= now /\ st.row[u] = NoRow /\ st.log[u] = {}
        BY IdsAre DEF Held
    <2>2. u # t
        BY <2>1 DEF Tasks
    <2> QED
        BY <1>5, <2>1, <2>2
<1>8. Held(q, now + 1) /\ LastFits(NoDone, q)
    BY <1>5, <1>6, <1>7 DEF Held, LastFits, NoDone
<1> QED
    BY <1>1, <1>5, <1>6, <1>8 DEF Follows

\* The row of a task just made.
LEMMA NewRowIs ==
    ASSUME NEW p \in Nat, NEW d \in Nat, d # 0, NEW m
    PROVE  LET r == NewRow(p, d, m)
           IN  RowOK(r) /\ r # NoRow /\ r.parent = p /\ r.due = d /\ r.status = "pending"
<1>1. NewRow(p, d, m) = RowWith(p, d, "pending", 0, 0, 0, 0, m)
    BY DEF NewRow, RowWith
<1> QED
    BY <1>1, RowWritten

\* The clock of an edit is an id that no task has.
LEMMA FreshId ==
    ASSUME now \in Nat, now >= 3, scene \in Scenes, now < 3 + scene.most, NEW st, Held(st, now)
    PROVE  /\ now \in Ids \ Tasks(st) /\ now \notin {Series, Errand, None}
           /\ st.row[now] = NoRow /\ st.log[now] = {}
<1>1. scene.most \in Nat /\ MaxTask \in Nat /\ scene.most + 2 <= MaxTask
    BY OccurrencesAssumption
<1>2. now \in Ids
    BY <1>1 DEF Ids
<1>3. st.row[now] = NoRow /\ st.log[now] = {}
    BY <1>2 DEF Held
<1> QED
    BY <1>2, <1>3 DEF Tasks, Series, Errand, None

\* A completion that spawns: the line goes on by a task of its own due.
LEMMA SpawnFollows ==
    ASSUME now \in Nat, now >= 3, scene \in Scenes, now < 3 + scene.most,
           NEW st, Held(st, now), NEW t \in Tasks(st), t # Errand, Slot(st, t, st.row[t].due + 1) = {},
           Open(st.row[t]),
           NEW row, RowOK(row), row.due = st.row[t].due, row.parent = st.row[t].parent, NEW e
    PROVE  LET q == Put(Edited(st, t, row, e), now, NewRow(t, st.row[t].due + 1, now), {AddAt(now)})
           IN  Follows(st, q, [t |-> t, spawn |-> now, before |-> st.row[t]]) /\ q.deps = st.deps
<1> DEFINE x == Edited(st, t, row, e)
           r == NewRow(t, st.row[t].due + 1, now)
           q == Put(x, now, r, {AddAt(now)})
           l == [t |-> t, spawn |-> now, before |-> st.row[t]]
           due == st.row[t].due
<1>1. t \in Ids /\ RowOK(st.row[t]) /\ due \in Nat /\ due # 0 /\ row.due # 0 /\ StoreOK(st) /\ t \in Nat
    <2>1. t \in Ids /\ RowOK(st.row[t]) /\ due \in Nat /\ due # 0
        BY TaskRow
    <2> QED
        BY <2>1, IdsAre DEF Held
<1>2. /\ now \in Ids /\ now \notin Tasks(st) /\ now \notin {Series, Errand, None}
      /\ st.row[now] = NoRow /\ st.log[now] = {} /\ now # t
    BY FreshId
<1>3. RowOK(r) /\ r # NoRow /\ r.parent = t /\ r.due = due + 1 /\ r.status = "pending"
    <2>1. due + 1 \in Nat /\ due + 1 # 0
        BY <1>1
    <2> HIDE DEF due
    <2> QED
        BY <1>1, <2>1, NewRowIs DEF due
<1> HIDE DEF r
<1>4. /\ StoreOK(x) /\ x.deps = st.deps
      /\ \A u \in Ids \ {t} : x.row[u] = st.row[u] /\ x.log[u] = st.log[u]
      /\ x.row[t].due = row.due /\ x.row[t].parent = row.parent /\ x.row[t].status = row.status
      /\ x.log[t] = st.log[t] \cup {e}
    BY <1>1, EditedIs
<1> HIDE DEF x
<1>5. /\ StoreOK(q) /\ q.deps = st.deps
      /\ \A u \in Ids : /\ q.row[u] = IF u = now THEN r ELSE x.row[u]
                        /\ q.log[u] = IF u = now THEN {AddAt(now)} ELSE x.log[u]
    BY <1>2, <1>3, <1>4, StorePut
<1> HIDE DEF q
<1>6. \A u \in Ids \ {now} : q.row[u].due = st.row[u].due /\ q.row[u].parent = st.row[u].parent
    BY <1>1, <1>4, <1>5
<1>7. \A u \in Ids \ {now, t} : q.row[u] = st.row[u] /\ q.log[u] = st.log[u]
    BY <1>4, <1>5
<1>8. q.row[now] = r
    BY <1>2, <1>5
<1>9. Tasks(q) = Tasks(st) \cup {now} /\ Recurring(q) = Recurring(st) \cup {now}
    <2>1. \A u \in Ids \ {now} : u \in Tasks(q) <=> u \in Tasks(st)
        <3> SUFFICES ASSUME NEW u \in Ids \ {now} PROVE u \in Tasks(q) <=> u \in Tasks(st)
            OBVIOUS
        <3>1. u \in Tasks(q) <=> q.row[u].due # 0
            BY <1>5, TaskDue
        <3>2. u \in Tasks(st) <=> st.row[u].due # 0
            BY <1>1, TaskDue
        <3> QED
            BY <1>6, <3>1, <3>2
    <2>2. now \in Tasks(q)
        BY <1>2, <1>3, <1>8 DEF Tasks
    <2>3. Tasks(q) = Tasks(st) \cup {now}
        BY <2>1, <2>2 DEF Tasks
    <2> QED
        BY <1>2, <2>3 DEF Recurring
<1>10. Steady(q) => Steady(st)
    <2>1. \A u \in Ids : st.log[u] \subseteq q.log[u]
        BY <1>2, <1>4, <1>5
    <2> QED
        BY <2>1, KnownGrows
<1>11. \A u \in Ids : u >= now + 1 => q.row[u] = NoRow /\ q.log[u] = {}
    <2> SUFFICES ASSUME NEW u \in Ids, u >= now + 1 PROVE q.row[u] = NoRow /\ q.log[u] = {}
        OBVIOUS
    <2>1. u >= now /\ u # now /\ st.row[u] = NoRow /\ st.log[u] = {}
        BY IdsAre DEF Held
    <2>2. u # t
        BY <2>1 DEF Tasks
    <2> QED
        BY <1>7, <2>1, <2>2
<1>12. ASSUME Steady(q)
       PROVE  /\ Lined(q) /\ Single(q)
              /\ \A u \in Tasks(q) : q.row[u].parent # now
    <2>1. Rooted(st) /\ Stepwise(st) /\ Followed(st) /\ Single(st)
        BY <1>10, <1>12 DEF Held, Lined
    <2>2. \A u \in Tasks(st) : u \in Ids \ {now}
        BY <1>2 DEF Tasks
    <2>3. t \in Recurring(st)
        BY DEF Recurring
    <2>4. Rooted(q)
        BY <1>6, <1>9, <2>1, <2>2 DEF Rooted
    <2>5. ASSUME NEW u \in Tasks(st) \ {Series, Errand}, NEW p, p = st.row[u].parent
          PROVE  p \in Recurring(st) /\ p \in Ids \ {now} /\ st.row[u].due = st.row[p].due + 1
        BY <2>1, <2>2, <2>5 DEF Stepwise, Recurring
    <2>6. Stepwise(q)
        <3> SUFFICES ASSUME NEW u \in Tasks(q) \ {Series, Errand}
                     PROVE  q.row[u].parent \in Recurring(q) /\ q.row[u].due = q.row[q.row[u].parent].due + 1
            BY DEF Stepwise
        <3>1. CASE u = now
            BY <1>2, <1>3, <1>6, <1>8, <1>9, <2>2, <2>3, <3>1
        <3>2. CASE u # now
            <4> DEFINE p == st.row[u].parent
            <4>1. u \in Tasks(st) \ {Series, Errand} /\ u \in Ids \ {now}
                BY <1>9, <2>2, <3>2
            <4>2. p \in Recurring(st) /\ p \in Ids \ {now} /\ st.row[u].due = st.row[p].due + 1
                BY <2>5, <4>1
            <4>3. q.row[u].parent = p /\ q.row[u].due = st.row[u].due
                BY <1>6, <4>1
            <4> HIDE DEF p
            <4> QED
                BY <1>6, <1>9, <4>2, <4>3
        <3> QED
            BY <3>1, <3>2
    <2>7. Followed(q)
        <3> SUFFICES ASSUME NEW u \in Recurring(q), q.row[u].status = "done"
                     PROVE  \E n \in Recurring(q) : q.row[n].due = q.row[u].due + 1
            BY DEF Followed
        <3>1. u # now
            BY <1>3, <1>8
        <3>2. CASE u = t
            BY <1>2, <1>3, <1>6, <1>8, <1>9, <2>2, <3>2
        <3>3. CASE u # t
            <4>1. u \in Recurring(st) /\ u \in Ids \ {now, t} /\ st.row[u].status = "done"
                BY <1>7, <1>9, <2>2, <3>1, <3>3 DEF Recurring
            <4>2. PICK n \in Recurring(st) : st.row[n].due = st.row[u].due + 1
                BY <2>1, <4>1 DEF Followed
            <4>3. n \in Ids \ {now} /\ n \in Recurring(q)
                BY <1>9, <2>2 DEF Recurring
            <4> QED
                BY <1>6, <4>1, <4>2, <4>3
        <3> QED
            BY <3>2, <3>3
    <2>8. ASSUME NEW u \in Recurring(st), st.row[u].due = due + 1 PROVE FALSE
        <3>1. u \in Tasks(st) /\ u # Errand
            BY DEF Recurring
        <3>2. u # Series
            BY <1>1, <2>1, <2>8 DEF Rooted
        <3> DEFINE p == st.row[u].parent
        <3>3. p \in Recurring(st) /\ p \in Ids /\ st.row[u].due = st.row[p].due + 1
            BY <2>5, <3>1, <3>2
        <3>4. st.row[p].due \in Nat
            BY <1>1, <3>3, TaskDue
        <3> HIDE DEF p
        <3>5. st.row[p].due = due
            BY <1>1, <2>8, <3>3, <3>4
        <3>6. p = t
            BY <2>1, <2>3, <3>3, <3>5 DEF Single
        <3>7. u \in Slot(st, t, st.row[t].due + 1)
            BY <2>8, <3>1, <3>6 DEF Slot, p
        <3> QED
            BY <3>7
    <2>9. Single(q)
        <3> SUFFICES ASSUME NEW u \in Recurring(q), NEW v \in Recurring(q), q.row[u].due = q.row[v].due PROVE u = v
            BY DEF Single
        <3>1. CASE u # now /\ v # now
            <4>1. u \in Recurring(st) /\ v \in Recurring(st) /\ u \in Ids \ {now} /\ v \in Ids \ {now}
                BY <1>9, <2>2, <3>1 DEF Recurring
            <4> QED
                BY <1>6, <2>1, <4>1 DEF Single
        <3>2. ASSUME NEW w \in Recurring(q), w # now, q.row[w].due = due + 1 PROVE FALSE
            <4>1. w \in Recurring(st) /\ w \in Ids \ {now}
                BY <1>9, <2>2, <3>2 DEF Recurring
            <4> HIDE DEF due
            <4> QED
                BY <1>6, <2>8, <3>2, <4>1
        <3> QED
            BY <1>3, <1>8, <3>1, <3>2
    <2>10. \A u \in Tasks(q) : q.row[u].parent # now
        <3> SUFFICES ASSUME NEW u \in Tasks(q) PROVE q.row[u].parent # now
            OBVIOUS
        <3>1. CASE u = now
            BY <1>2, <1>3, <1>8, <3>1
        <3>2. CASE u \in {Series, Errand}
            BY <1>2, <2>4, <3>2 DEF Rooted
        <3>3. CASE u # now /\ u \notin {Series, Errand}
            BY <1>6, <1>9, <2>2, <2>5, <3>3
        <3> QED
            BY <3>1, <3>2, <3>3
    <2> QED
        BY <2>4, <2>6, <2>7, <2>9, <2>10 DEF Lined
<1>13. Held(q, now + 1)
    BY <1>5, <1>11, <1>12 DEF Held
<1>14. LastFits(l, q)
    <2>1. l.t = t /\ l.spawn = now /\ l.before = st.row[t]
        OBVIOUS
    <2> HIDE DEF l
    <2>2. t \in Tasks(q) /\ now \in Tasks(q) \ {Series, Errand, t} /\ q.row[now].parent = t /\ now \in Ids
        BY <1>2, <1>3, <1>8, <1>9
    <2> QED
        BY <1>1, <1>12, <2>1, <2>2 DEF LastFits
<1>15. \A u \in Tasks(q) : u = now \/ (u \in Tasks(st) /\ q.row[u].due = st.row[u].due)
    BY <1>6, <1>9 DEF Tasks
<1>16. Follows(st, q, l)
    <2> HIDE DEF l
    <2> QED
        BY <1>10, <1>13, <1>14, <1>15 DEF Follows
<1> QED
    BY <1>5, <1>16 DEF q, x, r

\* A completion spawns, or the next occurrence is there (spawn_next).
LEMMA DoneFollows ==
    ASSUME now \in Nat, now >= 3, scene \in Scenes, NEW s, NEW st, Held(st, now), NEW t \in Tasks(st),
           Done(s, st, t)
    PROVE  \E after, done : Edit(s, after, done) /\ Follows(st, after, done) /\ after.deps = st.deps
<1> DEFINE n == st.row[t].tracked + Elapsed(st.row[t])
           row == RowClosed(st.row[t], "done", 0, now, n)
           e == [Logged("done") EXCEPT !.since = Running(st.row[t])]
           x == Edited(st, t, row, e)
           child == NewRow(t, st.row[t].due + 1, now)
           q == Put(x, now, child, {AddAt(now)})
           l == [t |-> t, spawn |-> now, before |-> st.row[t]]
           k == [t |-> t, spawn |-> None, before |-> st.row[t]]
<1>1. /\ Open(st.row[t])
      /\ IF Spawns(st, t) THEN Edit(s, q, l) ELSE Edit(s, x, k)
    BY DEF Done, RowClosed, Put
<1>2. RowOK(row) /\ row.due = st.row[t].due /\ row.parent = st.row[t].parent /\ row.status = "done"
    BY TaskRow, RowClosedIs
<1> HIDE DEF row, e, n
<1>3. CASE Spawns(st, t)
    <2>1. t # Errand /\ Slot(st, t, st.row[t].due + 1) = {}
        BY <1>3 DEF Spawns, SlotTaken
    <2>2. Edit(s, q, l)
        BY <1>1, <1>3
    <2>3. now < 3 + scene.most
        BY <2>2 DEF Edit
    <2>4. Follows(st, q, l) /\ q.deps = st.deps
        BY <1>1, <1>2, <2>1, <2>3, SpawnFollows
    <2> HIDE DEF q, l
    <2> QED
        BY <2>2, <2>4
<1>4. CASE ~Spawns(st, t)
    <2>1. t # Errand => \E u \in Tasks(st) : st.row[u].parent = t /\ st.row[u].due = st.row[t].due + 1
        BY <1>4 DEF Spawns, SlotTaken, Slot
    <2>2. /\ Tasks(x) = Tasks(st) /\ x.deps = st.deps
          /\ Held(x, now + 1)
          /\ Steady(x) => /\ Steady(st)
                          /\ \A u \in Tasks(x) : u \in Tasks(st) /\ x.row[u].due = st.row[u].due
        BY <1>2, <2>1, PlainEdit
    <2>3. k.t = t /\ k.spawn = None /\ k.before = st.row[t]
        OBVIOUS
    <2>4. Edit(s, x, k)
        BY <1>1, <1>4
    <2> HIDE DEF k, x
    <2>5. LastFits(k, x)
        BY <1>1, <2>2, <2>3, TaskRow DEF LastFits
    <2>6. Follows(st, x, k)
        BY <2>2, <2>5 DEF Follows
    <2> QED
        BY <2>2, <2>4, <2>6
<1> QED
    BY <1>3, <1>4

\* The spawn an undo takes back is nothing's parent, and the one successor of a
\* task that is open again.
LEMMA UnspawnFollows ==
    ASSUME now \in Nat, NEW st, StoreOK(st), Held(st, now), NEW l, LastFits(l, st), l.t # None, l.spawn # None,
           NEW row, RowOK(row), row.due = st.row[l.t].due, row.parent = st.row[l.t].parent,
           row.status # "done", NEW e
    PROVE  LET q == PutRow(Edited(st, l.t, row, e), l.spawn, NoRow)
           IN  Follows(st, q, NoDone) /\ q.deps = st.deps
<1> DEFINE t == l.t
           n == l.spawn
           x == Edited(st, t, row, e)
           q == PutRow(x, n, NoRow)
<1>1. t \in Tasks(st) /\ n \in Ids
    BY DEF LastFits
<1> HIDE DEF t, n
<1>2. /\ StoreOK(x) /\ Tasks(x) = Tasks(st) /\ x.deps = st.deps
      /\ \A u \in Ids \ {t} : x.row[u] = st.row[u] /\ x.log[u] = st.log[u]
      /\ x.row[t].due = row.due /\ x.row[t].parent = row.parent /\ x.row[t].status = row.status
      /\ x.log[t] = st.log[t] \cup {e}
      /\ Held(x, now + 1)
      /\ Steady(x) => /\ Steady(st)
                      /\ \A u \in Tasks(x) : u \in Tasks(st) /\ x.row[u].due = st.row[u].due
    BY <1>1, PlainEdit DEF t
<1> HIDE DEF x
<1>3. /\ StoreOK(q) /\ q.deps = x.deps /\ q.log = x.log
      /\ \A u \in Ids : q.row[u] = IF u = n THEN NoRow ELSE x.row[u]
    BY <1>1, <1>2, NoRowIs, RowPut
<1> HIDE DEF q
<1>4. Tasks(q) = Tasks(x) \ {n} /\ Recurring(q) = Recurring(x) \ {n} /\ (Steady(q) <=> Steady(x))
    <2>1. Tasks(q) = Tasks(x) \ {n}
        BY <1>3 DEF Tasks
    <2> QED
        BY <1>3, <2>1 DEF Recurring, Steady, Has, Known
<1>5. \A u \in Tasks(q) : u \in Ids /\ u # n /\ q.row[u] = x.row[u]
    BY <1>3, <1>4 DEF Tasks
<1>6. ASSUME Steady(q) PROVE Lined(q) /\ Single(q)
    <2>1. Rooted(x) /\ Stepwise(x) /\ Followed(x) /\ Single(x) /\ Steady(st) /\ Single(st) /\ Rooted(st) /\ Stepwise(st)
        BY <1>2, <1>4, <1>6 DEF Held, Lined
    <2>2. /\ n \in Tasks(st) \ {Series, Errand, t} /\ t # Errand
          /\ st.row[n].parent = t /\ \A u \in Tasks(st) : st.row[u].parent # n
        BY <2>1 DEF LastFits, t, n
    <2>3. \A u \in Tasks(x) : x.row[u].parent # n
        BY <1>1, <1>2, <2>2 DEF Tasks, t
    <2>4. \A u \in Recurring(x) : u \in Tasks(x) /\ u \in Ids
        BY DEF Recurring, Tasks
    <2>5. x.row[n].due = x.row[t].due + 1 /\ t \in Recurring(x) /\ n \in Recurring(x)
        <3>1. st.row[n].due = st.row[t].due + 1
            BY <2>1, <2>2 DEF Stepwise
        <3>2. x.row[n] = st.row[n] /\ x.row[t].due = st.row[t].due
            BY <1>1, <1>2, <2>2 DEF Tasks, t
        <3> QED
            BY <1>1, <1>2, <2>2, <3>1, <3>2 DEF Recurring
    <2>6. Rooted(q)
        BY <1>4, <1>5, <2>1, <2>2 DEF Rooted
    <2>7. Stepwise(q)
        <3> SUFFICES ASSUME NEW u \in Tasks(q) \ {Series, Errand}
                     PROVE  q.row[u].parent \in Recurring(q) /\ q.row[u].due = q.row[q.row[u].parent].due + 1
            BY DEF Stepwise
        <3> DEFINE p == x.row[u].parent
        <3>1. q.row[u] = x.row[u] /\ u \in Tasks(x) \ {Series, Errand}
            BY <1>4, <1>5
        <3>2. p \in Recurring(x) /\ x.row[u].due = x.row[p].due + 1 /\ p # n
            BY <2>1, <2>3, <3>1 DEF Stepwise
        <3>3. q.row[u].parent = p
            BY <3>1
        <3> HIDE DEF p
        <3>4. p \in Recurring(q) /\ q.row[p] = x.row[p]
            BY <1>4, <1>5, <3>2 DEF Recurring
        <3> QED
            BY <3>1, <3>2, <3>3, <3>4
    <2>8. Followed(q)
        <3> SUFFICES ASSUME NEW u \in Recurring(q), q.row[u].status = "done"
                     PROVE  \E m \in Recurring(q) : q.row[m].due = q.row[u].due + 1
            BY DEF Followed
        <3>1. u \in Recurring(x) /\ q.row[u] = x.row[u] /\ u # t
            BY <1>2, <1>4, <1>5 DEF Recurring
        <3>2. PICK m \in Recurring(x) : x.row[m].due = x.row[u].due + 1
            BY <2>1, <3>1 DEF Followed
        <3>3. m # n
            <4> SUFFICES ASSUME m = n PROVE FALSE
                OBVIOUS
            <4>1. x.row[u].due \in Nat /\ x.row[t].due \in Nat
                BY <1>2, <2>4, <2>5, <3>1, TaskDue
            <4>2. x.row[u].due = x.row[t].due
                BY <2>5, <3>2, <4>1
            <4> QED
                BY <2>1, <2>5, <3>1, <4>2 DEF Single
        <3>4. m \in Recurring(q) /\ q.row[m] = x.row[m]
            BY <1>4, <1>5, <3>2, <3>3 DEF Recurring
        <3> QED
            BY <3>1, <3>2, <3>4
    <2>9. Single(q)
        <3>1. \A u \in Recurring(q) : u \in Recurring(x) /\ q.row[u] = x.row[u]
            BY <1>4, <1>5 DEF Recurring
        <3> QED
            BY <2>1, <3>1 DEF Single
    <2> QED
        BY <2>6, <2>7, <2>8, <2>9 DEF Lined
<1>7. Held(q, now + 1)
    <2>1. \A u \in Ids : u >= now + 1 => q.row[u] = NoRow /\ q.log[u] = {}
        BY <1>2, <1>3 DEF Held
    <2> QED
        BY <1>3, <1>6, <2>1 DEF Held
<1>8. LastFits(NoDone, q)
    BY DEF LastFits, NoDone
<1>9. Follows(st, q, NoDone)
    BY <1>2, <1>4, <1>5, <1>7, <1>8 DEF Follows
<1> QED
    BY <1>2, <1>3, <1>9 DEF q, x, t, n

\* The undo of the newest completion, with its spawn or without (revert_done).
LEMMA UndoFollows ==
    ASSUME now \in Nat, NEW s, NEW st, Held(st, now), LastFits(last[s], st), UndoDone(s, st)
    PROVE  \E after, done : Edit(s, after, done) /\ Follows(st, after, done) /\ after.deps = st.deps
<1> DEFINE t == last[s].t
           before == last[s].before
           undone == {e \in st.log[t] : e.op = "done" /\ e.at = st.row[t].completed}
           row == RowClosed(st.row[t], before.status, before.since, 0, before.tracked)
           e == [Logged("undo") EXCEPT !.undone = Last(undone).id, !.of = "done",
                    !.since = Last(undone).since, !.secs = st.row[t].tracked - before.tracked]
           x == Edited(st, t, row, e)
           q == PutRow(x, last[s].spawn, NoRow)
<1>1. t # None /\ Edit(s, IF last[s].spawn = None THEN x ELSE q, NoDone)
    BY DEF UndoDone, RowClosed, PutRow
<1>2. t \in Tasks(st) /\ RowOK(before) /\ Open(before) /\ StoreOK(st)
    BY <1>1 DEF LastFits, Held
<1>3. before.status \in {"pending", "active", "done"} /\ before.status # "done"
    BY <1>2 DEF Open
<1>4. RowOK(row) /\ row.due = st.row[t].due /\ row.parent = st.row[t].parent /\ row.status # "done"
    BY <1>2, <1>3, TaskRow, RowClosedIs
<1> HIDE DEF row, e, undone
<1>5. CASE last[s].spawn = None
    <2>1. Follows(st, x, NoDone) /\ x.deps = st.deps
        BY <1>2, <1>4, PlainFollows
    <2>2. Edit(s, x, NoDone)
        BY <1>1, <1>5
    <2> HIDE DEF x
    <2> QED
        BY <2>1, <2>2
<1>6. CASE last[s].spawn # None
    <2>1. Follows(st, q, NoDone) /\ q.deps = st.deps
        BY <1>1, <1>2, <1>4, <1>6, UnspawnFollows
    <2>2. Edit(s, q, NoDone)
        BY <1>1, <1>6
    <2> HIDE DEF q
    <2> QED
        BY <2>1, <2>2
<1> QED
    BY <1>5, <1>6

\* Every edit leaves what the line's invariant asks of a store, and no cycle.
LEMMA UserEditFollows ==
    ASSUME LineInv, NEW s \in Stores, UserEdit(s, store[s])
    PROVE  \E after, done : /\ Edit(s, after, done) /\ Follows(store[s], after, done)
                            /\ ~Cyclic(store[s].deps) => ~Cyclic(after.deps)
<1> DEFINE st == store[s]
<1>1. now \in Nat /\ now >= 3 /\ scene \in Scenes /\ Held(st, now) /\ LastFits(last[s], st)
    BY DEF LineInv, All
<1>2. \/ UndoDone(s, st)
      \/ \E t \in Tasks(st) :
        \/ Start(s, st, t) \/ Stop(s, st, t) \/ Done(s, st, t) \/ Reopen(s, st, t)
        \/ Move(s, st, t) \/ Adjust(s, st, t) \/ \E d \in Tasks(st) : AddEdge(s, st, t, d)
    BY DEF UserEdit
<1> HIDE DEF st
<1>4. ASSUME NEW t \in Tasks(st), Start(s, st, t)
      PROVE  \E after, done : Edit(s, after, done) /\ Follows(st, after, done) /\ after.deps = st.deps
    BY <1>1, <1>4, StartFollows
<1>5. ASSUME NEW t \in Tasks(st), Stop(s, st, t)
      PROVE  \E after, done : Edit(s, after, done) /\ Follows(st, after, done) /\ after.deps = st.deps
    BY <1>1, <1>5, StopFollows
<1>6. ASSUME NEW t \in Tasks(st), Done(s, st, t)
      PROVE  \E after, done : Edit(s, after, done) /\ Follows(st, after, done) /\ after.deps = st.deps
    BY <1>1, <1>6, DoneFollows
<1>7. ASSUME NEW t \in Tasks(st), Reopen(s, st, t)
      PROVE  \E after, done : Edit(s, after, done) /\ Follows(st, after, done) /\ after.deps = st.deps
    BY <1>1, <1>7, ReopenFollows
<1>8. ASSUME NEW t \in Tasks(st), Move(s, st, t)
      PROVE  \E after, done : Edit(s, after, done) /\ Follows(st, after, done) /\ after.deps = st.deps
    BY <1>1, <1>8, MoveFollows
<1>9. ASSUME NEW t \in Tasks(st), Adjust(s, st, t)
      PROVE  \E after, done : Edit(s, after, done) /\ Follows(st, after, done) /\ after.deps = st.deps
    BY <1>1, <1>9, AdjustFollows
<1>10. ASSUME NEW t \in Tasks(st), NEW d \in Tasks(st), AddEdge(s, st, t, d)
       PROVE  \E after, done : /\ Edit(s, after, done) /\ Follows(st, after, done)
                               /\ ~Cyclic(st.deps) => ~Cyclic(after.deps)
    BY <1>1, <1>10, AddEdgeFollows
<1>11. \E after, done : /\ Edit(s, after, done) /\ Follows(st, after, done)
                        /\ ~Cyclic(st.deps) => ~Cyclic(after.deps)
    <2>1. CASE \E after, done : Edit(s, after, done) /\ Follows(st, after, done) /\ after.deps = st.deps
        BY <2>1
    <2>2. CASE \E t, d \in Tasks(st) : AddEdge(s, st, t, d)
        BY <1>10, <2>2
    <2>3. UndoDone(s, st) => \E after, done : Edit(s, after, done) /\ Follows(st, after, done) /\ after.deps = st.deps
        BY <1>1, UndoFollows DEF st
    <2> QED
        BY <1>2, <1>4, <1>5, <1>6, <1>7, <1>8, <1>9, <2>1, <2>2, <2>3
<1> QED
    BY <1>11 DEF st

-----------------------------------------------------------------------------
(* The invariant *)

\* The two tasks both machines begin with are a line.
LEMMA InitLine ==
    Init => LineInv /\ EdgesStayAcyclic
<1> SUFFICES ASSUME Init PROVE LineInv /\ EdgesStayAcyclic
    OBVIOUS
<1> DEFINE two == [row |-> [t \in Ids |-> IF t \in {Series, Errand} THEN NewRow(None, 1, t) ELSE NoRow],
                   log |-> [t \in Ids |-> IF t \in {Series, Errand} THEN {AddAt(t)} ELSE {}],
                   deps |-> {}]
<1>1. /\ now = 3 /\ scene \in Scenes /\ store = [s \in Stores |-> two]
      /\ doc = Empty /\ last = [s \in Stores |-> NoDone]
    BY DEF Init
<1>2. two.deps = {} /\ two = [row |-> two.row, log |-> two.log, deps |-> two.deps]
      /\ two.row = [t \in Ids |-> IF t \in {Series, Errand} THEN NewRow(None, 1, t) ELSE NoRow]
      /\ two.log = [t \in Ids |-> IF t \in {Series, Errand} THEN {AddAt(t)} ELSE {}]
    OBVIOUS
<1> HIDE DEF two
<1>3. scene.most \in Nat /\ {Series, Errand} \subseteq Ids
    BY <1>1, OccurrencesAssumption DEF Ids, Series, Errand
<1>4. \A t \in Ids : /\ t \in {Series, Errand} => /\ RowOK(two.row[t]) /\ two.row[t] # NoRow /\ two.row[t].parent = None
                                                 /\ two.row[t].due = 1 /\ two.row[t].status = "pending"
                     /\ t \notin {Series, Errand} => two.row[t] = NoRow /\ two.log[t] = {}
    BY <1>2, NewRowIs DEF None
<1>5. StoreOK(two)
    <2>1. two.row = [t \in Ids |-> two.row[t]] /\ two.log = [t \in Ids |-> two.log[t]]
        BY <1>2
    <2>2. \A t \in Ids : RowOK(two.row[t])
        BY <1>4, NoRowIs
    <2>3. Pairs(two.deps)
        BY <1>2 DEF Pairs
    <2> QED
        BY <1>2, <2>1, <2>2, <2>3 DEF StoreOK
<1>6. Tasks(two) = {Series, Errand}
    BY <1>3, <1>4 DEF Tasks
<1>7. Recurring(two) = {Series}
    BY <1>6 DEF Recurring, Series, Errand
<1>8. Lined(two) /\ Single(two)
    <2>1. Rooted(two) /\ Stepwise(two)
        BY <1>3, <1>4, <1>6 DEF Rooted, Stepwise
    <2>2. Followed(two) /\ Single(two)
        BY <1>3, <1>4, <1>7 DEF Followed, Single
    <2> QED
        BY <2>1, <2>2 DEF Lined
<1>9. Held(two, now)
    <2>1. \A t \in Ids : t >= 3 => two.row[t] = NoRow /\ two.log[t] = {}
        BY <1>4 DEF Series, Errand
    <2> QED
        BY <1>1, <1>5, <1>8, <2>1 DEF Held
<1>10. \A st \in All : st = two
    BY <1>1 DEF All
<1>11. LineInv
    <2>1. \A a, b \in All : Steady(a) /\ Steady(b) => Agree(a, b)
        BY <1>10 DEF Agree
    <2>2. \A s \in Stores : LastFits(last[s], store[s])
        BY <1>1 DEF LastFits, NoDone
    <2>3. now \in Nat /\ now >= 3 /\ now <= 3 + scene.most /\ scene \in Scenes
        BY <1>1, <1>3
    <2>4. store = [s \in Stores |-> store[s]] /\ last = [s \in Stores |-> last[s]]
        BY <1>1
    <2>5. \A st \in All : Held(st, now)
        BY <1>9, <1>10
    <2> QED
        BY <2>1, <2>2, <2>3, <2>4, <2>5 DEF LineInv
<1>12. EdgesStayAcyclic
    BY <1>1, <1>2 DEF EdgesStayAcyclic, Cyclic
<1> QED
    BY <1>11, <1>12

\* Later is no less held.
LEMMA HeldLater ==
    ASSUME now \in Nat, NEW st, Held(st, now)
    PROVE  Held(st, now + 1)
<1>1. \A t \in Ids : t >= now + 1 => t >= now
    BY IdsAre
<1> QED
    BY <1>1 DEF Held

\* An edit on one machine, seen from both: the id of what it spawns is new to all.
LEMMA EditKeepsLine ==
    ASSUME LineInv, NEW s \in Stores, UserEdit(s, store[s])
    PROVE  LineInv' /\ (EdgesStayAcyclic => EdgesStayAcyclic')
<1>1. PICK after, done : /\ Edit(s, after, done) /\ Follows(store[s], after, done)
                         /\ ~Cyclic(store[s].deps) => ~Cyclic(after.deps)
    BY UserEditFollows
<1>2. /\ now' = now + 1 /\ now < 3 + scene.most /\ scene' = scene /\ doc' = doc
      /\ store' = [store EXCEPT ![s] = after] /\ last' = [last EXCEPT ![s] = done]
    BY <1>1 DEF Edit
<1>3. /\ now \in Nat /\ now >= 3 /\ scene \in Scenes /\ scene.most \in Nat
      /\ store = [x \in Stores |-> store[x]] /\ last = [x \in Stores |-> last[x]]
    BY OccurrencesAssumption DEF LineInv
<1>4. /\ store' = [x \in Stores |-> store'[x]] /\ last' = [x \in Stores |-> last'[x]]
      /\ store'[s] = after /\ last'[s] = done
      /\ \A x \in Stores \ {s} : store'[x] = store[x] /\ last'[x] = last[x]
    BY <1>2, <1>3
<1>5. now' \in Nat /\ now' >= 3 /\ now' <= 3 + scene'.most /\ scene' \in Scenes
    BY <1>2, <1>3
<1>6. \A st \in All' : st = after \/ st \in All
    BY <1>2, <1>4 DEF All
<1>7. \A st \in All' : Held(st, now')
    <2>1. Held(after, now + 1)
        BY <1>1 DEF Follows
    <2>2. \A st \in All : Held(st, now + 1)
        BY <1>3, HeldLater DEF LineInv
    <2> QED
        BY <1>2, <1>6, <2>1, <2>2
<1>8. ASSUME NEW b \in All, Steady(after), Steady(b) PROVE Agree(after, b) /\ Agree(b, after)
    <2>1. /\ Steady(store[s]) /\ store[s] \in All
          /\ \A t \in Tasks(after) : \/ t = now
                                     \/ t \in Tasks(store[s]) /\ after.row[t].due = store[s].row[t].due
        BY <1>1, <1>8 DEF Follows, All
    <2>2. Agree(store[s], b)
        BY <1>8, <2>1 DEF LineInv
    <2>3. now \notin Tasks(b)
        <3>1. Held(b, now)
            BY DEF LineInv
        <3> QED
            BY <1>3, <3>1 DEF Held, Tasks
    <2> QED
        BY <2>1, <2>2, <2>3 DEF Agree
<1>9. \A a, b \in All' : Steady(a) /\ Steady(b) => Agree(a, b)
    <2>1. Agree(after, after)
        BY DEF Agree
    <2>2. \A a, b \in All : Steady(a) /\ Steady(b) => Agree(a, b)
        BY DEF LineInv
    <2> QED
        BY <1>6, <1>8, <2>1, <2>2
<1>10. \A x \in Stores : LastFits(last'[x], store'[x])
    <2>1. LastFits(done, after)
        BY <1>1 DEF Follows
    <2>2. \A x \in Stores : LastFits(last[x], store[x])
        BY DEF LineInv
    <2> QED
        BY <1>4, <2>1, <2>2
<1>11. LineInv'
    BY <1>4, <1>5, <1>7, <1>9, <1>10 DEF LineInv
<1>12. EdgesStayAcyclic => EdgesStayAcyclic'
    BY <1>1, <1>4 DEF EdgesStayAcyclic
<1> QED
    BY <1>11, <1>12

\* An export copies a store that is held.
LEMMA ExportKeepsLine ==
    ASSUME LineInv, NEW s \in Stores, Export(s)
    PROVE  LineInv' /\ (EdgesStayAcyclic => EdgesStayAcyclic')
<1>1. doc' = store[s] /\ UNCHANGED <<now, scene, store, last>>
    BY DEF Export
<1>2. All' \subseteq All
    BY <1>1 DEF All
<1>3. /\ \A st \in All' : Held(st, now')
      /\ \A a, b \in All' : Steady(a) /\ Steady(b) => Agree(a, b)
    BY <1>1, <1>2 DEF LineInv
<1>4. /\ now' \in Nat /\ now' >= 3 /\ now' <= 3 + scene'.most /\ scene' \in Scenes
      /\ store' = [x \in Stores |-> store'[x]] /\ last' = [x \in Stores |-> last'[x]]
    BY <1>1 DEF LineInv
<1>5. \A x \in Stores : LastFits(last'[x], store'[x])
    BY <1>1 DEF LineInv
<1>6. LineInv'
    BY <1>3, <1>4, <1>5 DEF LineInv
<1> QED
    BY <1>1, <1>6 DEF EdgesStayAcyclic

\* An import of a document of any age keeps every promise of the two stores.
LEMMA MergeKeepsLine ==
    ASSUME LineInv, NEW s \in Stores, Merge(s)
    PROVE  LineInv' /\ (EdgesStayAcyclic => EdgesStayAcyclic')
<1> DEFINE mine == store[s]
           after == Imported(mine, doc)
<1>1. /\ doc # Empty /\ ~Refused(mine, doc)
      /\ store' = [store EXCEPT ![s] = after] /\ last' = [last EXCEPT ![s] = NoDone]
      /\ UNCHANGED <<now, scene, doc>>
    BY DEF Merge
<1>2. mine \in All /\ doc \in All /\ Held(mine, now) /\ Held(doc, now)
    BY <1>1 DEF LineInv, All
<1>3. /\ StoreOK(after)
      /\ Tasks(after) \subseteq Tasks(mine) \cup Tasks(doc)
      /\ Known(after) = Known(mine) \cup Known(doc)
      /\ \A t \in Ids : mine.row[t] = NoRow /\ doc.row[t] = NoRow /\ mine.log[t] = {} /\ doc.log[t] = {}
                            => after.row[t] = NoRow /\ after.log[t] = {}
      /\ ~Refused(mine, doc) => ~Cyclic(after.deps)
      /\ Lined(mine) /\ Lined(doc) /\ Agree(mine, doc) =>
            /\ Lined(after) /\ Single(after)
            /\ Agree(after, mine) /\ Agree(after, doc)
    BY <1>2, ImportedIs DEF Held
<1> HIDE DEF mine, after
<1>4. ASSUME Steady(after)
      PROVE  /\ Steady(mine) /\ Steady(doc) /\ Lined(after) /\ Single(after)
             /\ Agree(after, mine) /\ Agree(after, doc)
    <2>1. Steady(mine) /\ Steady(doc)
        BY <1>3, <1>4 DEF Steady, Has
    <2>2. Lined(mine) /\ Lined(doc) /\ Agree(mine, doc)
        BY <1>2, <2>1 DEF Held, LineInv
    <2> QED
        BY <1>3, <2>1, <2>2
<1>5. Held(after, now)
    <2>1. \A t \in Ids : t >= now => after.row[t] = NoRow /\ after.log[t] = {}
        BY <1>2, <1>3 DEF Held
    <2> QED
        BY <1>3, <1>4, <2>1 DEF Held
<1>6. store = [x \in Stores |-> store[x]] /\ last = [x \in Stores |-> last[x]]
    BY DEF LineInv
<1>7. /\ store' = [x \in Stores |-> store'[x]] /\ last' = [x \in Stores |-> last'[x]]
      /\ store'[s] = after /\ last'[s] = NoDone
      /\ \A x \in Stores \ {s} : store'[x] = store[x] /\ last'[x] = last[x]
    BY <1>1, <1>6
<1>8. \A st \in All' : st = after \/ st \in All
    BY <1>1, <1>7 DEF All
<1>9. \A st \in All' : Held(st, now')
    BY <1>1, <1>5, <1>8 DEF LineInv
<1>10. ASSUME NEW b \in All, Steady(after), Steady(b) PROVE Agree(after, b) /\ Agree(b, after)
    <2>1. Steady(mine) /\ Steady(doc) /\ Agree(after, mine) /\ Agree(after, doc)
        BY <1>4, <1>10
    <2>2. Agree(mine, b) /\ Agree(doc, b)
        BY <1>2, <1>10, <2>1 DEF LineInv
    <2> QED
        BY <1>3, <2>1, <2>2 DEF Agree
<1>11. \A a, b \in All' : Steady(a) /\ Steady(b) => Agree(a, b)
    <2>1. Agree(after, after)
        BY DEF Agree
    <2>2. \A a, b \in All : Steady(a) /\ Steady(b) => Agree(a, b)
        BY DEF LineInv
    <2> QED
        BY <1>8, <1>10, <2>1, <2>2
<1>12. \A x \in Stores : LastFits(last'[x], store'[x])
    <2>1. LastFits(NoDone, after)
        BY DEF LastFits, NoDone
    <2>2. \A x \in Stores : LastFits(last[x], store[x])
        BY DEF LineInv
    <2> QED
        BY <1>7, <2>1, <2>2
<1>13. now' \in Nat /\ now' >= 3 /\ now' <= 3 + scene'.most /\ scene' \in Scenes
    BY <1>1 DEF LineInv
<1>14. LineInv'
    BY <1>7, <1>9, <1>11, <1>12, <1>13 DEF LineInv
<1>15. EdgesStayAcyclic => EdgesStayAcyclic'
    BY <1>1, <1>3, <1>7 DEF EdgesStayAcyclic
<1> QED
    BY <1>14, <1>15

\* Every step keeps the invariant, and the graphs without a cycle.
LEMMA LineStep ==
    LineInv /\ [Next]_vars => LineInv' /\ (EdgesStayAcyclic => EdgesStayAcyclic')
<1> SUFFICES ASSUME LineInv, [Next]_vars PROVE LineInv' /\ (EdgesStayAcyclic => EdgesStayAcyclic')
    OBVIOUS
<1>1. CASE UNCHANGED vars
    <2>1. UNCHANGED <<now, scene, store, doc, last>>
        BY <1>1 DEF vars
    <2>2. All' = All
        BY <2>1 DEF All
    <2>3. LineInv'
        BY <2>1, <2>2 DEF LineInv
    <2> QED
        BY <2>1, <2>3 DEF EdgesStayAcyclic
<1>2. ASSUME NEW s \in Stores, UserEdit(s, store[s])
      PROVE  LineInv' /\ (EdgesStayAcyclic => EdgesStayAcyclic')
    BY <1>2, EditKeepsLine
<1>3. ASSUME NEW s \in Stores, Export(s)
      PROVE  LineInv' /\ (EdgesStayAcyclic => EdgesStayAcyclic')
    BY <1>3, ExportKeepsLine
<1>4. ASSUME NEW s \in Stores, Merge(s)
      PROVE  LineInv' /\ (EdgesStayAcyclic => EdgesStayAcyclic')
    BY <1>4, MergeKeepsLine
<1> QED
    BY <1>1, <1>2, <1>3, <1>4 DEF Next

\* Every store and the document in flight are well formed, know no id ahead of
\* the clock and, where no due is moved, hold the series as one line; and any two
\* of them agree on the dues (task_done, event.revert, store.import).
THEOREM LineInvCorrect == Spec => []LineInv
<1>1. Init => LineInv
    BY InitLine
<1>2. LineInv /\ [Next]_vars => LineInv'
    BY LineStep
<1> QED
    BY <1>1, <1>2, PTL DEF Spec

\* No task waits for itself: dependency.add refuses an edge that closes a cycle,
\* an import that would close one is refused whole, and the fold drops the
\* survivor's edges that would (reaches, store_import, break_cycles).
THEOREM EdgesStayAcyclicCorrect == Spec => []EdgesStayAcyclic
<1>1. Init => LineInv /\ EdgesStayAcyclic
    BY InitLine
<1>2. LineInv /\ EdgesStayAcyclic /\ [Next]_vars => LineInv' /\ EdgesStayAcyclic'
    BY LineStep
<1> QED
    BY <1>1, <1>2, PTL DEF Spec

\* One task for each due is one row for each slot, and the successor of a
\* completed task, one period on, is its own child.
LEMMA LineIsOne ==
    LineInv => OneNextOccurrence
<1> SUFFICES ASSUME LineInv, NEW s \in Stores, Steady(store[s]), NEW t \in Tasks(store[s])
             PROVE  LET st == store[s]
                        next == Slot(st, t, st.row[t].due + 1)
                    IN  /\ \A x, y \in next : x = y
                        /\ st.row[t].status = "done" /\ t # Errand => next # {}
    BY DEF OneNextOccurrence, Steady
<1> DEFINE st == store[s]
           next == Slot(st, t, st.row[t].due + 1)
<1>1. Held(st, now)
    BY DEF LineInv, All
<1> HIDE DEF st
<1>2. StoreOK(st) /\ Rooted(st) /\ Stepwise(st) /\ Followed(st) /\ Single(st) /\ t \in Tasks(st)
    BY <1>1 DEF Held, Lined, st
<1>3. t \in Ids /\ t # None /\ st.row[t].due \in Nat /\ st.row[t].due # 0
    BY <1>1, <1>2, TaskRow, IdsAre DEF None
<1>4. ASSUME NEW x \in next PROVE x \in Recurring(st) /\ st.row[x].due = st.row[t].due + 1
    <2>1. x \in Tasks(st) /\ st.row[x].parent = t /\ st.row[x].due = st.row[t].due + 1
        BY DEF Slot
    <2>2. x # Errand
        BY <1>2, <1>3, <2>1 DEF Rooted
    <2> QED
        BY <2>1, <2>2 DEF Recurring
<1>5. \A x, y \in next : x = y
    <2> HIDE DEF next
    <2> QED
        BY <1>2, <1>4 DEF Single
<1>6. ASSUME st.row[t].status = "done", t # Errand PROVE next # {}
    <2>1. t \in Recurring(st)
        BY <1>2, <1>6 DEF Recurring
    <2>2. PICK n \in Recurring(st) : st.row[n].due = st.row[t].due + 1
        BY <1>2, <1>6, <2>1 DEF Followed
    <2>3. n \in Tasks(st) \ {Series, Errand}
        BY <1>2, <1>3, <2>2 DEF Recurring, Rooted
    <2> DEFINE p == st.row[n].parent
    <2>4. p \in Recurring(st) /\ st.row[n].due = st.row[p].due + 1
        BY <1>2, <2>3 DEF Stepwise
    <2> HIDE DEF p
    <2>5. p \in Ids /\ st.row[p].due \in Nat
        BY <1>2, <2>4, TaskDue DEF Recurring, Tasks
    <2>6. st.row[p].due = st.row[t].due
        BY <1>3, <2>2, <2>4, <2>5
    <2>7. p = t
        BY <1>2, <2>1, <2>4, <2>6 DEF Single
    <2> QED
        BY <2>2, <2>3, <2>7 DEF Slot, p
<1> QED
    BY <1>5, <1>6 DEF st

\* Where no due is moved, a slot holds one row and the occurrence after a completed
\* one is there, by whatever completions, undos, exports and imports (spawn_next,
\* fold_duplicate_occurrences).
THEOREM OneNextOccurrenceCorrect == Spec => []OneNextOccurrence
BY LineInvCorrect, LineIsOne, PTL

-----------------------------------------------------------------------------
(* Sums over finite sets *)

\* The sums of f over the subsets of S that are among those of Q, as SumFunction folds them.
Sums(f, Q, it) == it = [s \in Q |-> IF s = {} THEN 0 ELSE f[One(s)] + it[s \ {One(s)}]]

\* There are such sums, by induction over the size of the subsets.
LEMMA SumsExist ==
    ASSUME NEW S, IsFiniteSet(S), NEW f
    PROVE  \E it : Sums(f, SUBSET S, it)
<1> DEFINE Upto(n) == {s \in SUBSET S : Cardinality(s) <= n}
           Bad == {n \in Nat : ~\E it : Sums(f, Upto(n), it)}
<1>1. \A n, s : s \in Upto(n) <=> s \in SUBSET S /\ Cardinality(s) <= n
    OBVIOUS
<1> HIDE DEF Upto
<1>2. 0 \notin Bad
    <2>1. ASSUME NEW s \in Upto(0) PROVE s = {}
        <3>1. s \in SUBSET S /\ Cardinality(s) <= 0
            BY <1>1
        <3>2. Cardinality(s) \in Nat /\ (Cardinality(s) = 0 <=> s = {})
            BY <3>1, SubsetSize
        <3> QED
            BY <3>1, <3>2
    <2>2. Sums(f, Upto(0), [s \in Upto(0) |-> 0])
        BY <2>1 DEF Sums
    <2> QED
        BY <2>2
<1>3. ASSUME NEW n \in Nat, n \notin Bad PROVE n + 1 \notin Bad
    <2>1. PICK it : Sums(f, Upto(n), it)
        BY <1>3
    <2> DEFINE jt == [s \in Upto(n + 1) |-> IF s = {} THEN 0 ELSE f[One(s)] + it[s \ {One(s)}]]
    <2>2. ASSUME NEW s \in Upto(n + 1), s # {} PROVE jt[s \ {One(s)}] = it[s \ {One(s)}]
        <3> DEFINE t == s \ {One(s)}
        <3>1. /\ t \in SUBSET S /\ Cardinality(t) = Cardinality(s) - 1
              /\ Cardinality(s) \in Nat /\ Cardinality(s) <= n + 1
            BY <1>1, <2>2, SubsetSize
        <3>3. Cardinality(t) <= n /\ Cardinality(t) <= n + 1
            BY <3>1
        <3>4. t \in Upto(n) /\ t \in Upto(n + 1)
            BY <1>1, <3>1, <3>3
        <3>2. it[t] = IF t = {} THEN 0 ELSE f[One(t)] + it[t \ {One(t)}]
            BY <2>1, <3>4 DEF Sums
        <3> QED
            BY <3>2, <3>4
    <2>3. jt = [s \in Upto(n + 1) |-> IF s = {} THEN 0 ELSE f[One(s)] + jt[s \ {One(s)}]]
        BY <2>2
    <2> HIDE DEF jt
    <2>4. Sums(f, Upto(n + 1), jt)
        BY <2>3 DEF Sums
    <2> QED
        BY <2>4
<1>4. Bad = {}
    <2> SUFFICES ASSUME Bad # {} PROVE FALSE
        OBVIOUS
    <2>1. PICK m \in Bad : \A k \in Bad : m <= k
        BY LeastNatural
    <2>2. m \in Nat /\ m # 0
        BY <1>2
    <2> HIDE DEF Bad
    <2>3. m - 1 \in Nat /\ m - 1 \notin Bad /\ (m - 1) + 1 = m
        BY <2>1, <2>2
    <2> QED
        BY <1>3, <2>1, <2>3
<1>5. PICK it : Sums(f, Upto(Cardinality(S)), it)
    <2>1. Cardinality(S) \in Nat
        BY FS_CardinalityType
    <2> QED
        BY <1>4, <2>1
<1>6. \A s \in SUBSET S : s \in Upto(Cardinality(S))
    BY <1>1, SubsetSize
<1>7. Upto(Cardinality(S)) = SUBSET S
    BY <1>1, <1>6
<1> QED
    BY <1>5, <1>7

\* What SumFunction is: some fold of the function over the subsets of its domain.
LEMMA SumIsFold ==
    ASSUME NEW f, IsFiniteSet(DOMAIN f)
    PROVE  \E it : Sums(f, SUBSET DOMAIN f, it) /\ SumFunction(f) = it[DOMAIN f]
<1> DEFINE D == DOMAIN f
           it == CHOOSE it : it = [s \in SUBSET D |-> IF s = {} THEN 0 ELSE f[CHOOSE x \in s : TRUE] + it[s \ {CHOOSE x \in s : TRUE}]]
<1>1. SumFunction(f) = it[D]
    BY DEF SumFunction, SumFunctionOnSet, FoldFunctionOnSet, MapThenFoldSet
<1>2. \E jt : Sums(f, SUBSET D, jt)
    BY SumsExist
<1>3. \E jt : jt = [s \in SUBSET D |-> IF s = {} THEN 0
                          ELSE f[CHOOSE x \in s : TRUE] + jt[s \ {CHOOSE x \in s : TRUE}]]
    BY <1>2 DEF Sums, One
<1>4. it = [s \in SUBSET D |-> IF s = {} THEN 0
                          ELSE f[CHOOSE x \in s : TRUE] + it[s \ {CHOOSE x \in s : TRUE}]]
    BY <1>3, Zenon
<1> HIDE DEF it
<1>5. Sums(f, SUBSET D, it)
    BY <1>4 DEF Sums, One
<1> QED
    BY <1>1, <1>5

\* A sum of naturals is one.
LEMMA SumType ==
    ASSUME NEW f, IsFiniteSet(DOMAIN f), \A x \in DOMAIN f : f[x] \in Nat
    PROVE  SumFunction(f) \in Nat
<1> DEFINE D == DOMAIN f
<1>1. PICK it : Sums(f, SUBSET D, it) /\ SumFunction(f) = it[D]
    BY SumIsFold
<1> DEFINE B == {s \in SUBSET D : it[s] \notin Nat}
<1>2. B = {}
    <2>1. {} \notin B
        BY <1>1 DEF Sums
    <2>2. ASSUME NEW s \in B PROVE \E x \in s : s \ {x} \in B
        <3>1. s # {} /\ it[s] = f[One(s)] + it[s \ {One(s)}]
            BY <1>1, <2>1, <2>2 DEF Sums
        <3>2. One(s) \in s /\ s \ {One(s)} \in SUBSET D /\ f[One(s)] \in Nat
            BY <3>1 DEF One
        <3>3. it[s \ {One(s)}] \notin Nat
            BY <2>2, <3>1, <3>2
        <3> QED
            BY <3>2, <3>3
    <2>3. B \subseteq SUBSET D /\ IsFiniteSet(D)
        OBVIOUS
    <2> HIDE DEF B
    <2> QED
        BY <2>1, <2>2, <2>3, NoneAtFault
<1> QED
    BY <1>1, <1>2

\* The sum over no element.
LEMMA SumOfNone ==
    ASSUME NEW f, DOMAIN f = {}
    PROVE  SumFunction(f) = 0
<1>1. IsFiniteSet(DOMAIN f)
    BY FS_EmptySet
<1>2. PICK it : Sums(f, SUBSET DOMAIN f, it) /\ SumFunction(f) = it[DOMAIN f]
    BY <1>1, SumIsFold
<1> QED
    BY <1>2 DEF Sums

\* Whichever element a sum begins with.
AnyFirst(f, it) ==
    \A s \in SUBSET DOMAIN f : it[s] \in Int /\ \A x \in s : it[s] = f[x] + it[s \ {x}]
\* The order of a sum is any.
LEMMA SumWithout ==
    ASSUME NEW f, IsFiniteSet(DOMAIN f), \A x \in DOMAIN f : f[x] \in Int,
           NEW it, Sums(f, SUBSET DOMAIN f, it)
    PROVE  AnyFirst(f, it)
<1> DEFINE D == DOMAIN f
           Good(s) == it[s] \in Int /\ \A x \in s : it[s] = f[x] + it[s \ {x}]
           B == {s \in SUBSET D : ~\A t \in SUBSET s : Good(t)}
<1>1. \A s \in SUBSET D : it[s] = IF s = {} THEN 0 ELSE f[One(s)] + it[s \ {One(s)}]
    BY DEF Sums
<1>0. it[{}] = 0
    <2>1. {} \in SUBSET D
        OBVIOUS
    <2> QED
        BY <1>1, <2>1
<1>2. {} \notin B
    <2>1. Good({})
        BY <1>0
    <2> QED
        BY <2>1
<1>3. ASSUME NEW s \in SUBSET D, \A x \in s : \A t \in SUBSET (s \ {x}) : Good(t) PROVE Good(s)
    <2>1. CASE s = {}
        BY <1>0, <2>1
    <2>2. CASE s # {}
        <3> DEFINE c == One(s)
        <3>1. c \in s /\ it[s] = f[c] + it[s \ {c}] /\ f[c] \in Int
            BY <1>1, <2>2 DEF One
        <3> HIDE DEF c
        <3>2. Good(s \ {c})
            BY <1>3, <3>1
        <3>3. ASSUME NEW x \in s, x # c PROVE it[s] = f[x] + it[s \ {x}]
            <4> DEFINE r == (s \ {c}) \ {x}
            <4>1. it[s \ {c}] = f[x] + it[r]
                BY <3>2, <3>3
            <4>2. Good(s \ {x})
                BY <1>3
            <4>3. (s \ {x}) \ {c} = r /\ c \in s \ {x}
                BY <3>1, <3>3
            <4>4. it[s \ {x}] = f[c] + it[r]
                BY <4>2, <4>3
            <4>5. Good(r)
                <5>1. r \in SUBSET (s \ {x})
                    OBVIOUS
                <5> QED
                    BY <1>3, <5>1
            <4>6. f[x] \in Int
                BY <3>3
            <4> HIDE DEF r
            <4>7. it[r] \in Int
                BY <4>5
            <4> QED
                BY <3>1, <4>1, <4>4, <4>6, <4>7
        <3>4. it[s] \in Int
            BY <3>1, <3>2
        <3> QED
            BY <3>1, <3>3, <3>4
    <2> QED
        BY <2>1, <2>2
<1>4. ASSUME NEW s \in B PROVE \E x \in s : s \ {x} \in B
    <2> SUFFICES ASSUME \A x \in s : s \ {x} \notin B PROVE FALSE
        OBVIOUS
    <2> HIDE DEF Good
    <2>1. \A x \in s : \A t \in SUBSET (s \ {x}) : Good(t)
        OBVIOUS
    <2>2. PICK t \in SUBSET s : ~Good(t)
        OBVIOUS
    <2>3. t = s
        <3>2. t # s => \E x \in s : x \notin t
            OBVIOUS
        <3>1. t # s => \E x \in s : t \in SUBSET (s \ {x})
            BY <3>2
        <3> QED
            BY <2>1, <2>2, <3>1
    <2> QED
        BY <1>3, <2>1, <2>2, <2>3
<1>5. B = {}
    <2>1. B \subseteq SUBSET D /\ IsFiniteSet(D)
        OBVIOUS
    <2> HIDE DEF B
    <2> QED
        BY <1>2, <1>4, <2>1, NoneAtFault
<1> QED
    BY <1>5 DEF AnyFirst

\* The sums over two functions that agree where they are summed.
LEMMA SumOfPart ==
    ASSUME NEW f, IsFiniteSet(DOMAIN f), NEW S \in SUBSET DOMAIN f, NEW g, DOMAIN g = S,
           \A x \in S : g[x] = f[x],
           NEW it, Sums(f, SUBSET DOMAIN f, it)
    PROVE  SumFunction(g) = it[S]
<1>1. IsFiniteSet(S)
    BY FS_Subset
<1>2. PICK jt : Sums(g, SUBSET S, jt) /\ SumFunction(g) = jt[S]
    BY <1>1, SumIsFold
<1> DEFINE B == {s \in SUBSET S : jt[s] # it[s]}
<1>3. {} \notin B
    BY <1>2 DEF Sums
<1>4. ASSUME NEW s \in B PROVE \E x \in s : s \ {x} \in B
    <2>1. s # {} /\ s \in SUBSET S /\ s \in SUBSET DOMAIN f
        BY <1>3, <1>4
    <2>2. jt[s] = g[One(s)] + jt[s \ {One(s)}] /\ it[s] = f[One(s)] + it[s \ {One(s)}]
        BY <1>2, <2>1 DEF Sums
    <2>3. One(s) \in s /\ g[One(s)] = f[One(s)]
        BY <2>1 DEF One
    <2>4. jt[s \ {One(s)}] # it[s \ {One(s)}] /\ s \ {One(s)} \in SUBSET S
        BY <1>4, <2>1, <2>2, <2>3
    <2> QED
        BY <2>3, <2>4
<1>5. B = {}
    <2>1. B \subseteq SUBSET S
        OBVIOUS
    <2> HIDE DEF B
    <2> QED
        BY <1>1, <1>3, <1>4, <2>1, NoneAtFault
<1> QED
    BY <1>2, <1>5

\* One element more.
LEMMA SumWithOneMore ==
    ASSUME NEW g, IsFiniteSet(DOMAIN g), NEW x, x \notin DOMAIN g,
           NEW f, DOMAIN f = DOMAIN g \cup {x}, \A y \in DOMAIN g : f[y] = g[y],
           \A y \in DOMAIN f : f[y] \in Int
    PROVE  SumFunction(f) = SumFunction(g) + f[x]
<1>1. IsFiniteSet(DOMAIN f)
    BY FS_AddElement
<1>2. PICK it : Sums(f, SUBSET DOMAIN f, it) /\ SumFunction(f) = it[DOMAIN f]
    BY <1>1, SumIsFold
<1>3. DOMAIN g \in SUBSET DOMAIN f /\ DOMAIN f \ {x} = DOMAIN g /\ x \in DOMAIN f
    OBVIOUS
<1>4. SumFunction(g) = it[DOMAIN g]
    BY <1>1, <1>2, <1>3, SumOfPart
<1>10. AnyFirst(f, it)
    BY <1>1, <1>2, SumWithout
<1>6. \A s \in SUBSET DOMAIN f : it[s] \in Int /\ \A y \in s : it[s] = f[y] + it[s \ {y}]
    BY <1>10 DEF AnyFirst
<1>7. DOMAIN f \in SUBSET DOMAIN f
    OBVIOUS
<1>8. it[DOMAIN g] \in Int
    BY <1>3, <1>6
<1>9. it[DOMAIN f] = f[x] + it[DOMAIN f \ {x}]
    BY <1>3, <1>6, <1>7
<1>5. it[DOMAIN g] \in Int /\ it[DOMAIN f] = f[x] + it[DOMAIN g] /\ f[x] \in Int
    BY <1>3, <1>8, <1>9
<1> QED
    BY <1>2, <1>3, <1>4, <1>5

-----------------------------------------------------------------------------
(* The events of a store in which nothing is moved or taken back, and their order *)

PlainOps == {"add", "start", "stop", "done", "reopen", "adjust_tracked", "dependency.add"}
\* An event as the edits write it. The two ids of an instant are its calls' and its spawns'.
EventOK(e) ==
    /\ e.op \in PlainOps /\ e.of = "none"
    /\ e.at \in Nat /\ e.id \in {2 * e.at, 2 * e.at + 1} /\ e.since \in Nat
    /\ e.op = "start" => e.since = e.at /\ e.at # 0
    /\ e.op \in Closing => e.since < e.at
    /\ e.op \notin Closing \cup {"start"} => e.since = 0
    /\ e.op = "stop" => e.secs = Secs(e.since, e.at)
    /\ e.op = "adjust_tracked" => e.delta = 1
\* A set of such events from before n: finite, and an id is one event's.
LogOK(L, n) ==
    /\ IsFiniteSet(L)
    /\ \A e \in L : EventOK(e) /\ e.at < n
    /\ \A e, f \in L : e.id = f.id => e = f

\* No close is slow where the clocks agree: an event's place is its instant and its id.
LEMMA PlaceIs ==
    ASSUME NEW e, EventOK(e)
    PROVE  /\ Place(e) = (2 * e.at) * MaxId + e.id /\ Place(e) \in Nat
           /\ When(e) = e.at /\ e.id \in Nat /\ e.at \in Nat
<1>1. ~Slow(e)
    BY DEF EventOK, Slow
<1>2. MaxId \in Nat /\ e.at \in Nat /\ e.id \in Nat
    BY LogAssumption DEF EventOK
<1>3. (2 * e.at) * MaxId \in Nat
    BY <1>2
<1>4. Place(e) = (2 * e.at) * MaxId + e.id /\ When(e) = e.at
    BY <1>1 DEF Place, When
<1> QED
    BY <1>2, <1>3, <1>4

\* An earlier event has the lower place.
LEMMA Sooner ==
    ASSUME NEW e, EventOK(e), NEW f, EventOK(f), e.at < f.at
    PROVE  Place(e) < Place(f) /\ e.id < f.id
<1> DEFINE a == 2 * e.at
           b == 2 * f.at
<1>1. /\ Place(e) = a * MaxId + e.id /\ Place(f) = b * MaxId + f.id /\ MaxId \in Nat
      /\ e.at \in Nat /\ f.at \in Nat
    BY PlaceIs, LogAssumption
<1>2. a \in Nat /\ b \in Nat /\ a + 2 <= b /\ e.id \in Nat /\ f.id \in Nat /\ e.id <= a + 1 /\ f.id >= b
    BY <1>1 DEF EventOK
<1> HIDE DEF a, b
<1>3. a * MaxId <= b * MaxId /\ a * MaxId \in Nat /\ b * MaxId \in Nat
    <2> DEFINE c == b - a
    <2>1. c \in Nat /\ b = a + c
        BY <1>2
    <2> HIDE DEF c
    <2>2. c * MaxId \in Nat /\ a * MaxId \in Nat
        BY <1>1, <1>2, <2>1
    <2>3. b * MaxId = a * MaxId + c * MaxId
        BY <1>1, <1>2, <2>1
    <2> QED
        BY <2>2, <2>3
<1> QED
    BY <1>1, <1>2, <1>3

\* A place is one event's.
LEMMA OnePlace ==
    ASSUME NEW L, NEW n, LogOK(L, n), NEW e \in L, NEW f \in L, Place(e) = Place(f)
    PROVE  e = f
<1>1. EventOK(e) /\ EventOK(f) /\ e.at \in Nat /\ f.at \in Nat
    BY DEF LogOK, EventOK
<1>2. Place(e) \in Nat /\ Place(f) \in Nat
    BY <1>1, PlaceIs
<1>3. ~(e.at < f.at) /\ ~(f.at < e.at)
    BY <1>1, <1>2, Sooner
<1>4. e.at = f.at
    BY <1>1, <1>3
<1>5. e.id = f.id
    <2> DEFINE p == (2 * e.at) * MaxId
    <2>1. /\ Place(e) = p + e.id /\ Place(f) = p + f.id
          /\ e.id \in Nat /\ f.id \in Nat
        BY <1>1, <1>4, PlaceIs
    <2>2. p \in Nat
        BY <1>1, LogAssumption
    <2> HIDE DEF p
    <2>3. p + e.id = p + f.id
        BY <2>1, Zenon
    <2>4. \A i, j, k \in Nat : k + i = k + j => i = j
        OBVIOUS
    <2> QED
        BY <2>1, <2>2, <2>3, <2>4
<1> QED
    BY <1>5 DEF LogOK

\* A part of a log is one.
LEMMA PartOfLog ==
    ASSUME NEW L, NEW n, LogOK(L, n), NEW S, S \subseteq L
    PROVE  LogOK(S, n)
<1>1. IsFiniteSet(S)
    BY FS_Subset DEF LogOK
<1> QED
    BY <1>1 DEF LogOK

\* A log with an event has a last and a first one.
LEMMA LastIs ==
    ASSUME NEW n \in Nat, NEW L, LogOK(L, n), L # {}
    PROVE  /\ Last(L) \in L /\ \A x \in L : Place(x) <= Place(Last(L))
           /\ First(L) \in L /\ \A x \in L : Place(First(L)) <= Place(x)
<1>1. \A x \in L : EventOK(x) /\ Place(x) \in Nat /\ x.at < n
    BY PlaceIs DEF LogOK
<1>2. Last(L) \in L /\ \A x \in L : Place(x) <= Place(Last(L))
    <2> DEFINE B == (2 * n) * MaxId + 2 * n
               S == {B - Place(x) : x \in L}
    <2>1. \A x \in L : B - Place(x) \in Nat
        <3> SUFFICES ASSUME NEW x \in L PROVE B - Place(x) \in Nat
            OBVIOUS
        <3> DEFINE a == x.at
                   c == n - a - 1
        <3>1. Place(x) = (2 * a) * MaxId + x.id /\ a \in Nat /\ a < n /\ x.id \in Nat /\ x.id <= 2 * a + 1 /\ MaxId \in Nat
            BY <1>1, PlaceIs, LogAssumption DEF EventOK
        <3>2. c \in Nat /\ n = a + 1 + c
            BY <3>1
        <3> HIDE DEF a, c
        <3>3. c * MaxId \in Nat /\ a * MaxId \in Nat
            BY <3>1, <3>2
        <3>4. (2 * n) * MaxId = (2 * a) * MaxId + 2 * MaxId + 2 * (c * MaxId)
            BY <3>1, <3>2
        <3>5. (2 * a) * MaxId = 2 * (a * MaxId)
            BY <3>1
        <3> QED
            BY <3>1, <3>2, <3>3, <3>4, <3>5
    <2>2. S \in SUBSET Nat /\ S # {}
        BY <2>1
    <2>3. PICK m \in S : \A y \in S : m <= y
        BY <2>2, LeastNatural
    <2>4. B \in Nat
        BY LogAssumption
    <2>5. PICK e \in L : m = B - Place(e)
        BY <2>3
    <2> HIDE DEF B
    <2>6. \A x \in L : Place(x) <= Place(e)
        <3> SUFFICES ASSUME NEW x \in L PROVE Place(x) <= Place(e)
            OBVIOUS
        <3>1. m <= B - Place(x)
            BY <2>3
        <3> QED
            BY <1>1, <2>4, <2>5, <3>1
    <2> QED
        BY <2>6 DEF Last
<1>3. First(L) \in L /\ \A x \in L : Place(First(L)) <= Place(x)
    <2> DEFINE S == {Place(x) : x \in L}
    <2>1. S \in SUBSET Nat /\ S # {}
        BY <1>1
    <2>2. PICK m \in S : \A y \in S : m <= y
        BY <2>1, LeastNatural
    <2> QED
        BY <2>2 DEF First
<1> QED
    BY <1>2, <1>3

\* Which event is the last of a log, and which the first.
LEMMA LastWhich ==
    ASSUME NEW n \in Nat, NEW L, LogOK(L, n), NEW e \in L
    PROVE  /\ (\A x \in L : Place(x) <= Place(e)) => Last(L) = e
           /\ (\A x \in L : Place(e) <= Place(x)) => First(L) = e
<1>1. /\ Last(L) \in L /\ Place(e) <= Place(Last(L))
      /\ First(L) \in L /\ Place(First(L)) <= Place(e)
    BY LastIs
<1>2. \A x \in L : Place(x) \in Nat
    BY PlaceIs DEF LogOK
<1>3. ASSUME \A x \in L : Place(x) <= Place(e) PROVE Last(L) = e
    <2>1. Place(Last(L)) = Place(e)
        BY <1>1, <1>2, <1>3
    <2> QED
        BY <1>1, <2>1, OnePlace
<1>4. ASSUME \A x \in L : Place(e) <= Place(x) PROVE First(L) = e
    <2>1. Place(First(L)) = Place(e)
        BY <1>1, <1>2, <1>4
    <2> QED
        BY <1>1, <2>1, OnePlace
<1> QED
    BY <1>3, <1>4

\* The last of two logs together is the later of their last ones.
LEMMA LastOfTwo ==
    ASSUME NEW n \in Nat, NEW A, NEW B, LogOK(A \cup B, n), A # {}, B # {}
    PROVE  Last(A \cup B) = IF Place(Last(B)) > Place(Last(A)) THEN Last(B) ELSE Last(A)
<1>1. LogOK(A, n) /\ LogOK(B, n)
    BY PartOfLog
<1>2. /\ Last(A) \in A /\ \A x \in A : Place(x) <= Place(Last(A))
      /\ Last(B) \in B /\ \A x \in B : Place(x) <= Place(Last(B))
    BY <1>1, LastIs
<1>3. \A x \in A \cup B : Place(x) \in Nat
    BY PlaceIs DEF LogOK
<1>4. CASE Place(Last(B)) > Place(Last(A))
    <2>1. \A x \in A \cup B : Place(x) <= Place(Last(B))
        BY <1>2, <1>3, <1>4
    <2> QED
        BY <1>2, <1>4, <2>1, LastWhich
<1>5. CASE ~(Place(Last(B)) > Place(Last(A)))
    <2>1. \A x \in A \cup B : Place(x) <= Place(Last(A))
        BY <1>2, <1>3, <1>5
    <2> QED
        BY <1>2, <1>5, <2>1, LastWhich
<1> QED
    BY <1>4, <1>5

\* What is not in the past of a log is last in it.
LEMMA LastIsNew ==
    ASSUME NEW n \in Nat, NEW L, LogOK(L, n), NEW e, EventOK(e), e.at = n
    PROVE  /\ LogOK(L \cup {e}, n + 1) /\ e \notin L
           /\ \A x \in L : Place(x) < Place(e)
           /\ Last(L \cup {e}) = e
<1>1. \A x \in L : EventOK(x) /\ x.at < n /\ x.at \in Nat
    BY DEF LogOK, EventOK
<1>2. \A x \in L : Place(x) < Place(e) /\ x.id < e.id
    BY <1>1, Sooner
<1>3. \A x \in L : Place(x) \in Nat /\ x.id \in Nat /\ Place(e) \in Nat /\ e.id \in Nat
    BY <1>1, PlaceIs
<1>4. LogOK(L \cup {e}, n + 1)
    <2>1. IsFiniteSet(L \cup {e})
        BY FS_AddElement DEF LogOK
    <2>2. \A x, y \in L \cup {e} : x.id = y.id => x = y
        BY <1>2, <1>3 DEF LogOK
    <2>3. \A x \in L \cup {e} : EventOK(x) /\ x.at < n + 1
        BY <1>1
    <2> QED
        BY <2>1, <2>2, <2>3 DEF LogOK
<1>5. e \notin L
    BY <1>1
<1>6. \A x \in L \cup {e} : Place(x) <= Place(e)
    BY <1>2, <1>3, PlaceIs
<1>7. Last(L \cup {e}) = e
    BY <1>4, <1>6, LastWhich
<1> QED
    BY <1>2, <1>4, <1>5, <1>7

-----------------------------------------------------------------------------
(* The status a log tells, and whose copy has it *)

\* The status, the running interval and the completion an event leaves.
Told(e) ==
    CASE e.op = "start" -> <<"active", e.since, 0>>
      [] e.op = "done" -> <<"done", 0, e.at>>
      [] OTHER -> <<"pending", 0, 0>>
Says(L) == Edits(L, "status")
Word(L) == Told(Last(Says(L)))

\* What writes a status: an add does, as the calls do.
LEMMA SaysIs ==
    ASSUME NEW L, NEW n, LogOK(L, n)
    PROVE  /\ Says(L) = {e \in L : e.op \in Calls \cup {"add"}}
           /\ LogOK(Says(L), n)
<1>1. \A e \in L : e.op \in PlainOps
    BY DEF LogOK, EventOK
<1>2. Says(L) = {e \in L : e.op \in Calls \cup {"add"}}
    BY <1>1 DEF Says, Edits, Touches, PlainOps, Calls
<1>3. Says(L) \subseteq L
    BY <1>2
<1> QED
    BY <1>2, <1>3, PartOfLog

\* The copy whose status event is the later one tells what the logs tell
\* together (group_winner).
LEMMA WinnerSays ==
    ASSUME NEW n \in Nat, NEW a, NEW b, LogOK(a.log \cup b.log, n), HoldAdds(a, b),
           Value(a.row, "status") = Word(a.log), Value(b.row, "status") = Word(b.log)
    PROVE  Value(Winner(a, b, "status"), "status") = Word(a.log \cup b.log)
<1> DEFINE A == Says(a.log)
           B == Says(b.log)
           tie == TieIsTheirs(a.row, b.row, "status")
<1>1. A # {} /\ B # {}
    <2>1. ASSUME NEW L, NEW e \in L, e.op = "add" PROVE Says(L) # {}
        BY <2>1 DEF Says, Edits, Touches
    <2>2. (\E e \in a.log : e.op = "add") /\ \E e \in b.log : e.op = "add"
        BY DEF HoldAdds
    <2> QED
        BY <2>1, <2>2
<1>2. Says(a.log \cup b.log) = A \cup B
    <2>1. ASSUME NEW X, NEW Y PROVE Says(X \cup Y) = Says(X) \cup Says(Y)
        BY DEF Says, Edits
    <2> QED
        BY <2>1
<1>3. LogOK(A \cup B, n)
    <2>1. LogOK(Says(a.log \cup b.log), n)
        BY SaysIs
    <2> QED
        BY <1>2, <2>1, Zenon
<1>4. Last(A \cup B) = IF Place(Last(B)) > Place(Last(A)) THEN Last(B) ELSE Last(A)
    BY <1>1, <1>3, LastOfTwo
<1>5. Last(A) \in A /\ Last(B) \in B
    <2>1. LogOK(A, n) /\ LogOK(B, n)
        BY <1>3, PartOfLog
    <2> QED
        BY <1>1, <2>1, LastIs
<1>6. PayloadWins(a.log, b.log, "status", tie) =
        IF Place(Last(A)) # Place(Last(B)) THEN Place(Last(B)) > Place(Last(A)) ELSE tie
    BY <1>1 DEF PayloadWins, Says
<1>7. Value(a.row, "status") = Told(Last(A)) /\ Value(b.row, "status") = Told(Last(B))
      /\ Word(a.log \cup b.log) = Told(Last(A \cup B))
    BY <1>2 DEF Word
<1>8. Winner(a, b, "status") = IF PayloadWins(a.log, b.log, "status", tie) THEN b.row ELSE a.row
    BY DEF Winner
<1> HIDE DEF A, B, tie
<1>9. CASE Place(Last(A)) = Place(Last(B))
    <2>1. Last(A) = Last(B)
        BY <1>3, <1>5, <1>9, OnePlace
    <2>2. Last(A \cup B) = Last(A)
        BY <1>4, <2>1
    <2> QED
        BY <1>7, <1>8, <2>1, <2>2
<1>10. CASE Place(Last(A)) # Place(Last(B))
    BY <1>4, <1>6, <1>7, <1>8, <1>10
<1> QED
    BY <1>9, <1>10

-----------------------------------------------------------------------------
(* The time a log counts *)

Starts(L) == {e \in L : e.op = "start"}
Adjusts(L) == {e \in L : e.op = "adjust_tracked"}
Left(L, r) == SumFunction([i \in LeftOpen(L, r) |-> Banked(L, i)])
\* What is known of an interval that no close has ended, in a log without a reset.
Opening(L, i) == First({e \in Starts(L) : e.since = i})
Sequel(L, i) == Edits(After(L, Opening(L, i)), "status")

\* Nothing is reset or taken back in such a log.
LEMMA NothingUndone ==
    ASSUME NEW L, NEW n, LogOK(L, n)
    PROVE  /\ Resets(L) = {} /\ Since(L) = L /\ Reopens(L) = {}
           /\ Standing(L) = Closes(L) /\ Openings(L) = Starts(L)
           /\ {e \in L : "adjust_tracked" \in {e.op, e.of}} = Adjusts(L)
<1>1. \A e \in L : e.op \in PlainOps /\ e.of = "none" /\ (e.op = "start" => e.since # 0)
    BY DEF LogOK, EventOK
<1>2. Resets(L) = {} /\ Reopens(L) = {}
    BY <1>1 DEF Resets, Reopens, PlainOps
<1>3. Since(L) = L
    BY <1>2 DEF Since
<1>4. Standing(L) = Closes(L)
    BY <1>2 DEF Standing
<1>5. Openings(L) = Starts(L)
    BY <1>1, <1>2 DEF Openings, Starts
<1>6. {e \in L : "adjust_tracked" \in {e.op, e.of}} = Adjusts(L)
    BY <1>1 DEF Adjusts
<1> QED
    BY <1>2, <1>3, <1>4, <1>5, <1>6

\* Each correction is one.
LEMMA AdjustedIs ==
    ASSUME NEW L, NEW n, LogOK(L, n)
    PROVE  /\ Adjusted(L) = SumFunction([e \in Adjusts(L) |-> 1])
           /\ Adjusted(L) \in Nat
<1> DEFINE Back(e) == {d \in L : d.op = "adjust_tracked" /\ d.id = e.undone}
           Delta(e) == IF e.op = "adjust_tracked" THEN e.delta
                       ELSE -SumFunction([d \in Back(e) |-> d.delta])
           f == [e \in Adjusts(L) |-> Delta(e)]
           g == [e \in Adjusts(L) |-> 1]
<1>1. {e \in Since(L) : "adjust_tracked" \in {e.op, e.of}} = Adjusts(L)
    BY NothingUndone
<1>2. Adjusted(L) = SumFunction([e \in {e \in Since(L) : "adjust_tracked" \in {e.op, e.of}} |-> Delta(e)])
    BY DEF Adjusted
<1>3. Adjusted(L) = SumFunction(f)
    BY <1>1, <1>2
<1>4. \A e \in Adjusts(L) : Delta(e) = 1
    BY DEF LogOK, EventOK, Adjusts
<1> HIDE DEF Delta
<1>5. f = g
    BY <1>4
<1>6. IsFiniteSet(Adjusts(L))
    <2>1. Adjusts(L) \subseteq L /\ IsFiniteSet(L)
        BY DEF LogOK, Adjusts
    <2> QED
        BY <2>1, FS_Subset
<1>7. SumFunction(g) \in Nat
    BY <1>6, SumType
<1> QED
    BY <1>3, <1>5, <1>7

\* The values of a function on a finite domain.
LEMMA ValuesFinite ==
    ASSUME NEW f, IsFiniteSet(DOMAIN f)
    PROVE  IsFiniteSet({f[x] : x \in DOMAIN f})
<1> DEFINE Vals(s) == {f[x] : x \in s}
           B == {s \in SUBSET DOMAIN f : ~IsFiniteSet(Vals(s))}
<1>1. {} \notin B
    <2>1. Vals({}) = {}
        OBVIOUS
    <2> QED
        BY <2>1, FS_EmptySet
<1>2. ASSUME NEW s \in B PROVE \E x \in s : s \ {x} \in B
    <2>1. PICK x : x \in s
        BY <1>1, <1>2
    <2>2. Vals(s) = Vals(s \ {x}) \cup {f[x]}
        BY <2>1
    <2>3. ~IsFiniteSet(Vals(s)) /\ s \ {x} \in SUBSET DOMAIN f
        OBVIOUS
    <2> HIDE DEF Vals
    <2>4. IsFiniteSet(Vals(s \ {x})) => IsFiniteSet(Vals(s))
        BY <2>2, FS_AddElement
    <2> QED
        BY <2>1, <2>3, <2>4
<1>3. B = {}
    <2>1. B \subseteq SUBSET DOMAIN f
        OBVIOUS
    <2> HIDE DEF B
    <2> QED
        BY <1>1, <1>2, <2>1, NoneAtFault
<1>4. DOMAIN f \in SUBSET DOMAIN f
    OBVIOUS
<1> QED
    BY <1>3, <1>4

\* Elapsed seconds are a natural number.
LEMMA SecsType ==
    ASSUME NEW from \in Nat, NEW to \in Nat
    PROVE  Secs(from, to) \in Nat
<1>1. from \div SECOND \in Int /\ to \div SECOND \in Int
    BY LogAssumption
<1> QED
    BY <1>1 DEF Secs

\* The largest of a finite set of naturals is one of them.
LEMMA LargestIs ==
    ASSUME NEW S, IsFiniteSet(S), S # {}, S \subseteq Nat
    PROVE  Max(S) \in S /\ \A x \in S : x <= Max(S)
<1> DEFINE B == {s \in SUBSET S : s # {} /\ ~\E m \in s : \A x \in s : x <= m}
<1>1. {} \notin B
    OBVIOUS
<1>2. ASSUME NEW s \in B PROVE \E x \in s : s \ {x} \in B
    <2>1. PICK x \in s : TRUE
        OBVIOUS
    <2>2. ASSUME s \ {x} = {} PROVE FALSE
        <3>1. s = {x} /\ x \in Nat
            BY <2>2
        <3> QED
            BY <3>1
    <2>3. ASSUME NEW m \in s \ {x}, \A y \in s \ {x} : y <= m PROVE FALSE
        <3>1. m \in Nat /\ x \in Nat /\ s \subseteq Nat
            OBVIOUS
        <3>2. CASE x <= m
            BY <2>3, <3>2
        <3>3. CASE ~(x <= m)
            <4>1. \A y \in s : y <= x
                BY <2>3, <3>1, <3>3
            <4> QED
                BY <4>1
        <3> QED
            BY <3>2, <3>3
    <2> QED
        BY <2>2, <2>3
<1>3. B = {}
    <2>1. B \subseteq SUBSET S
        OBVIOUS
    <2> HIDE DEF B
    <2> QED
        BY <1>1, <1>2, <2>1, NoneAtFault
<1>4. S \in SUBSET S
    OBVIOUS
<1>5. \E m \in S : \A x \in S : x <= m
    BY <1>3, <1>4
<1> QED
    BY <1>5 DEF Max

\* The lengths of the closes of an interval, and the interval's.
Lengths(S, i) == {Length(c) : c \in {c \in S : c.since = i}}
Spans(S) == {c.since : c \in S}

\* Each interval counts once, by the longest of its closes.
LEMMA IntervalsIs ==
    ASSUME NEW L, NEW n, LogOK(L, n)
    PROVE  LET C == Closes(L)
           IN  /\ Intervals(C) = SumFunction([i \in Spans(C) |-> Max(Lengths(C, i))])
               /\ IsFiniteSet(Spans(C))
               /\ \A i \in Spans(C) : Max(Lengths(C, i)) \in Nat
               /\ Intervals(C) \in Nat
<1> DEFINE C == Closes(L)
           f == [i \in Spans(C) |-> Max(Lengths(C, i))]
<1>1. Intervals(C) = SumFunction(f)
    BY DEF Intervals, Lengths, Spans
<1>2. C \subseteq L /\ IsFiniteSet(L)
    BY DEF LogOK, Closes
<1>3. IsFiniteSet(C)
    BY <1>2, FS_Subset
<1>4. \A c \in C : Length(c) \in Nat
    <2> SUFFICES ASSUME NEW c \in C PROVE Length(c) \in Nat
        OBVIOUS
    <2>1. EventOK(c) /\ c.op \in Closing
        BY DEF LogOK, Closes
    <2>2. Length(c) = Secs(c.since, c.at)
        BY <2>1 DEF Length, EventOK
    <2>3. c.since \in Nat /\ c.at \in Nat
        BY <2>1 DEF EventOK
    <2> QED
        BY <2>2, <2>3, SecsType
<1> HIDE DEF C
<1>5. IsFiniteSet(Spans(C))
    <2> DEFINE f1 == [c \in C |-> c.since]
    <2>1. IsFiniteSet({f1[c] : c \in DOMAIN f1})
        <3>1. IsFiniteSet(DOMAIN f1)
            BY <1>3
        <3> HIDE DEF f1
        <3> QED
            BY <3>1, ValuesFinite
    <2>2. Spans(C) = {f1[c] : c \in DOMAIN f1}
        BY DEF Spans
    <2> QED
        BY <2>1, <2>2
<1>6. ASSUME NEW i \in Spans(C) PROVE Max(Lengths(C, i)) \in Nat
    <2> DEFINE D == {c \in C : c.since = i}
    <2>1. IsFiniteSet(D) /\ D # {} /\ D \subseteq C
        BY <1>3, FS_Subset DEF Spans
    <2>2. Lengths(C, i) = {Length(c) : c \in D}
        BY DEF Lengths
    <2> HIDE DEF D
    <2>3. IsFiniteSet(Lengths(C, i)) /\ Lengths(C, i) # {} /\ Lengths(C, i) \subseteq Nat
        <3> DEFINE f2 == [c \in D |-> Length(c)]
        <3>1. IsFiniteSet({f2[c] : c \in DOMAIN f2})
            <4>1. IsFiniteSet(DOMAIN f2)
                BY <2>1
            <4> HIDE DEF f2
            <4> QED
                BY <4>1, ValuesFinite
        <3>2. Lengths(C, i) = {f2[c] : c \in DOMAIN f2}
            BY <2>2
        <3> QED
            BY <1>4, <2>1, <2>2, <3>1, <3>2
    <2> QED
        BY <2>3, LargestIs
<1>7. SumFunction(f) \in Nat
    BY <1>5, <1>6, SumType
<1> QED
    BY <1>1, <1>5, <1>6, <1>7 DEF C

\* The first of a log with a later event is the first of the log.
LEMMA FirstOfMore ==
    ASSUME NEW n \in Nat, NEW S, NEW e, LogOK(S \cup {e}, n), S # {}, \A x \in S : Place(x) < Place(e)
    PROVE  First(S \cup {e}) = First(S)
<1>1. LogOK(S, n)
    BY PartOfLog
<1>2. First(S) \in S /\ \A x \in S : Place(First(S)) <= Place(x)
    BY <1>1, LastIs
<1>3. \A x \in S \cup {e} : Place(x) \in Nat
    BY PlaceIs DEF LogOK
<1>4. \A x \in S \cup {e} : Place(First(S)) <= Place(x)
    BY <1>2, <1>3
<1> QED
    BY <1>2, <1>4, LastWhich

\* What no close has ended and is not running.
LEMMA LeftOpenIs ==
    ASSUME NEW L, NEW n, LogOK(L, n), NEW r
    PROVE  LeftOpen(L, r) = Spans(Starts(L)) \ (Spans(Closes(L)) \cup {r})
<1>1. Openings(L) = Starts(L) /\ Standing(L) = Closes(L)
    BY NothingUndone
<1> QED
    BY <1>1, Zenon DEF LeftOpen, Spans

\* The start of an interval, and what followed it.
LEMMA SequelIs ==
    ASSUME NEW n \in Nat, NEW L, LogOK(L, n), NEW i \in Spans(Starts(L))
    PROVE  LET f == Opening(L, i)
               after == After(L, f)
           IN  /\ f \in L /\ f.op = "start" /\ f.since = i /\ f.at = i /\ i \in Nat \ {0}
               /\ after \subseteq L /\ Sequel(L, i) \subseteq after
               /\ Sequel(L, i) = Edits(after, "status")
               /\ Banked(L, i) = IF Sequel(L, i) = {} \/ First(Sequel(L, i)).op = "start" THEN 0
                                 ELSE Secs(i, First(after).at)
               /\ Banked(L, i) \in Nat
<1> DEFINE S == {e \in Starts(L) : e.since = i}
           f == First(S)
           after == After(L, f)
           next == Sequel(L, i)
<1>1. S \subseteq L /\ S # {}
    BY DEF Starts, Spans
<1>2. f \in S
    <2>1. LogOK(S, n)
        BY <1>1, PartOfLog
    <2> HIDE DEF S
    <2> QED
        BY <1>1, <2>1, LastIs
<1>3. f \in L /\ f.op = "start" /\ f.since = i
    BY <1>2 DEF Starts
<1>4. f.at = i /\ i \in Nat \ {0}
    BY <1>3 DEF LogOK, EventOK
<1>5. Openings(L) = Starts(L) /\ Resets(L) = {}
    BY NothingUndone
<1>6. next = Edits(after, "status")
    BY DEF Sequel, Opening
<1>7. after \subseteq L /\ next \subseteq after
    BY <1>6 DEF After, Edits
<1>8. Banked(L, i) = IF next = {} \/ First(next).op \in {"start", "undo"} THEN 0 ELSE Secs(i, First(after).at)
    <2>1. Banked(L, i) = IF Edits(After(L, First({e \in Starts(L) : e.since = i})), "status") = {}
                            \/ First(Edits(After(L, First({e \in Starts(L) : e.since = i})), "status")).op \in {"start", "undo"}
                         THEN 0 ELSE Secs(i, First(After(L, First({e \in Starts(L) : e.since = i}))).at)
        BY <1>5, Zenon DEF Banked
    <2> QED
        BY <1>6, <2>1, Zenon
<1> HIDE DEF S, f, after, next
<1>9. ASSUME next # {}
      PROVE  First(next).op # "undo" /\ First(after).at \in Nat
    <2>1. LogOK(next, n) /\ LogOK(after, n) /\ after # {}
        BY <1>7, <1>9, PartOfLog
    <2>2. First(next) \in L /\ First(after) \in L
        BY <1>7, <1>9, <2>1, LastIs
    <2> QED
        BY <2>2 DEF LogOK, EventOK, PlainOps
<1>10. Banked(L, i) = IF next = {} \/ First(next).op = "start" THEN 0 ELSE Secs(i, First(after).at)
    BY <1>8, <1>9
<1>11. Banked(L, i) \in Nat
    <2>1. next # {} => Secs(i, First(after).at) \in Nat
        BY <1>4, <1>9, SecsType
    <2> QED
        BY <1>10, <2>1
<1> QED
    BY <1>3, <1>4, <1>6, <1>7, <1>10, <1>11 DEF S, f, after, next, Opening

\* What count adds up in such a log.
LEMMA TrackedIs ==
    ASSUME NEW n \in Nat, NEW L, LogOK(L, n), NEW r
    PROVE  /\ Tracked(L, r) = Intervals(Closes(L)) + Adjusted(L) + Left(L, r)
           /\ Intervals(Closes(L)) \in Nat /\ Adjusted(L) \in Nat /\ Left(L, r) \in Nat
<1>1. /\ Resets(L) = {} /\ Since(L) = L /\ Reopens(L) = {} /\ Standing(L) = Closes(L)
    BY NothingUndone
<1>2. Intervals(Closes(L)) \in Nat /\ Adjusted(L) \in Nat
    BY IntervalsIs, AdjustedIs
<1>3. Left(L, r) \in Nat
    <2> DEFINE D == LeftOpen(L, r)
               f == [i \in D |-> Banked(L, i)]
    <2>1. D = Spans(Starts(L)) \ (Spans(Closes(L)) \cup {r})
        BY LeftOpenIs
    <2>2. IsFiniteSet(D)
        <3> DEFINE g == [e \in Starts(L) |-> e.since]
        <3>1. Starts(L) \subseteq L /\ IsFiniteSet(L)
            BY DEF Starts, LogOK
        <3>2. IsFiniteSet(DOMAIN g)
            BY <3>1, FS_Subset
        <3>3. Spans(Starts(L)) = {g[e] : e \in DOMAIN g}
            BY DEF Spans
        <3> HIDE DEF g
        <3>4. IsFiniteSet(Spans(Starts(L)))
            BY <3>2, <3>3, ValuesFinite
        <3> QED
            BY <2>1, <3>4, FS_Subset
    <2>3. \A i \in D : Banked(L, i) \in Nat
        BY <2>1, SequelIs
    <2> HIDE DEF D
    <2>4. SumFunction(f) \in Nat
        BY <2>2, <2>3, SumType
    <2> QED
        BY <2>4 DEF Left, D
<1>4. TakenBack(L) = 0
    <2>1. \A S : {u \in {} \cap S : Reopened(L, u) = {}} = {}
        OBVIOUS
    <2>2. TakenBack(L) = SumFunction([u \in {u \in {} \cap L : Reopened(L, u) = {}} |-> u.secs])
        BY <1>1 DEF TakenBack
    <2>3. TakenBack(L) = SumFunction([u \in {} |-> u.secs])
        BY <2>1, <2>2
    <2> DEFINE f == [u \in {} |-> u.secs]
    <2>4. DOMAIN f = {}
        OBVIOUS
    <2> HIDE DEF f
    <2> QED
        BY <2>3, <2>4, SumOfNone DEF f
<1>5. Standing(L) \cap Since(L) = Closes(L)
    BY <1>1 DEF Closes
<1>6. Tracked(L, r) = 0 + Intervals(Closes(L)) + Adjusted(L) - TakenBack(L) + Left(L, r)
    BY <1>1, <1>5 DEF Tracked, Left
<1> QED
    BY <1>2, <1>3, <1>4, <1>6

-----------------------------------------------------------------------------
(* One event more *)

\* What one event more adds to the parts of a log.
LEMMA OneMore ==
    ASSUME NEW L, NEW e
    PROVE  LET M == L \cup {e}
           IN  /\ e.op = "start" => Starts(M) = Starts(L) \cup {e}
               /\ e.op # "start" => Starts(M) = Starts(L)
               /\ e.op = "adjust_tracked" => Adjusts(M) = Adjusts(L) \cup {e}
               /\ e.op # "adjust_tracked" => Adjusts(M) = Adjusts(L)
               /\ e.op \in Closing /\ e.since # 0 => Closes(M) = Closes(L) \cup {e}
               /\ e.op \notin Closing \/ e.since = 0 => Closes(M) = Closes(L)
               /\ Touches(e, "status") => Says(M) = Says(L) \cup {e}
               /\ ~Touches(e, "status") => Says(M) = Says(L)
BY DEF Starts, Adjusts, Closes, Says, Edits

\* The last word of a log with one event more.
LEMMA LastWord ==
    ASSUME NEW n \in Nat, NEW L, LogOK(L, n), NEW e, EventOK(e), e.at = n
    PROVE  Word(L \cup {e}) = IF Touches(e, "status") THEN Told(e) ELSE Word(L)
<1>1. LogOK(Says(L), n)
    BY SaysIs
<1>2. Last(Says(L) \cup {e}) = e
    BY <1>1, LastIsNew
<1>3. Says(L \cup {e}) = IF Touches(e, "status") THEN Says(L) \cup {e} ELSE Says(L)
    BY OneMore
<1> QED
    BY <1>2, <1>3 DEF Word

\* An interval left open is worth what it was, once its sequel is known.
LEMMA BankedStays ==
    ASSUME NEW n \in Nat, NEW L, LogOK(L, n), NEW e, EventOK(e), e.at = n,
           NEW i \in Spans(Starts(L)),
           Sequel(L, i) # {} \/ e.op = "start" \/ ~Touches(e, "status")
    PROVE  Banked(L \cup {e}, i) = Banked(L, i)
<1> DEFINE M == L \cup {e}
           f == Opening(L, i)
           old == After(L, f)
           new == After(M, f)
<1>1. LogOK(M, n + 1) /\ \A x \in L : Place(x) < Place(e)
    BY LastIsNew
<1>2. /\ f \in L /\ f.op = "start" /\ f.since = i /\ f.at = i /\ i \in Nat \ {0}
      /\ old \subseteq L /\ Sequel(L, i) \subseteq old
      /\ Sequel(L, i) = Edits(old, "status")
      /\ Banked(L, i) = IF Sequel(L, i) = {} \/ First(Sequel(L, i)).op = "start" THEN 0
                        ELSE Secs(i, First(old).at)
    BY SequelIs
<1>3. i < n
    BY <1>2 DEF LogOK
<1>4. {x \in Starts(M) : x.since = i} = {x \in Starts(L) : x.since = i}
    <2>1. e.op = "start" => e.since = n
        BY DEF EventOK
    <2>2. e.op = "start" => e.since # i
        BY <1>2, <1>3, <2>1
    <2>3. /\ e.op = "start" => Starts(M) = Starts(L) \cup {e}
          /\ e.op # "start" => Starts(M) = Starts(L)
        BY OneMore
    <2> HIDE DEF M
    <2> QED
        BY <2>2, <2>3
<1>5. i \in Spans(Starts(M))
    <2>1. Starts(L) \subseteq Starts(M)
        BY DEF Starts
    <2> QED
        BY <2>1 DEF Spans
<1>6. /\ Sequel(M, i) = Edits(new, "status")
      /\ Banked(M, i) = IF Sequel(M, i) = {} \/ First(Sequel(M, i)).op = "start" THEN 0
                        ELSE Secs(i, First(new).at)
    <2> DEFINE g == Opening(M, i)
               after == After(M, g)
    <2>1. n + 1 \in Nat
        OBVIOUS
    <2>2. g = f
        BY <1>4 DEF Opening
    <2> HIDE DEF M
    <2>3. /\ g \in M /\ g.op = "start" /\ g.since = i /\ g.at = i /\ i \in Nat \ {0}
          /\ after \subseteq M /\ Sequel(M, i) \subseteq after
          /\ Sequel(M, i) = Edits(after, "status")
          /\ Banked(M, i) = IF Sequel(M, i) = {} \/ First(Sequel(M, i)).op = "start" THEN 0
                            ELSE Secs(i, First(after).at)
          /\ Banked(M, i) \in Nat
        BY <1>1, <1>5, <2>1, SequelIs
    <2> QED
        BY <2>2, <2>3
<1> HIDE DEF f
<1>7. new = old \cup {e}
    BY <1>1, <1>2 DEF After
<1>8. Sequel(M, i) = IF Touches(e, "status") THEN Sequel(L, i) \cup {e} ELSE Sequel(L, i)
    BY <1>2, <1>6, <1>7 DEF Edits
<1>9. LogOK(new, n + 1) /\ LogOK(Sequel(L, i) \cup {e}, n + 1)
    <2>1. new \subseteq M /\ Sequel(L, i) \cup {e} \subseteq M
        BY <1>2, <1>7
    <2> HIDE DEF M, new
    <2> QED
        BY <1>1, <2>1, PartOfLog
<1> HIDE DEF M, old, new
<1>10. ASSUME old # {} PROVE First(new) = First(old)
    BY <1>1, <1>2, <1>7, <1>9, <1>10, FirstOfMore
<1>11. CASE Sequel(L, i) # {}
    <2>1. First(Sequel(L, i) \cup {e}) = First(Sequel(L, i))
        BY <1>1, <1>2, <1>9, <1>11, FirstOfMore
    <2>2. First(Sequel(M, i)) = First(Sequel(L, i)) /\ Sequel(M, i) # {}
        BY <1>8, <1>11, <2>1
    <2>3. First(new) = First(old)
        BY <1>2, <1>10, <1>11
    <2> QED
        BY <1>2, <1>6, <1>11, <2>2, <2>3 DEF M
<1>12. CASE Sequel(L, i) = {} /\ ~Touches(e, "status")
    BY <1>2, <1>6, <1>8, <1>12 DEF M
<1>13. CASE Sequel(L, i) = {} /\ Touches(e, "status") /\ e.op = "start"
    <2>1. Sequel(M, i) = {e}
        BY <1>8, <1>13
    <2>2. First({e}) = e
        BY DEF First
    <2> QED
        BY <1>2, <1>6, <1>13, <2>1, <2>2 DEF M
<1> QED
    BY <1>11, <1>12, <1>13

\* A start that is not the last word has a sequel.
LEMMA HasSequel ==
    ASSUME NEW n \in Nat, NEW L, LogOK(L, n), NEW i \in Spans(Starts(L)),
           LET w == Last(Says(L)) IN w.op # "start" \/ w.since # i
    PROVE  Sequel(L, i) # {}
<1> DEFINE f == Opening(L, i)
           w == Last(Says(L))
<1>1. f \in L /\ f.op = "start" /\ f.since = i /\ Sequel(L, i) = Edits(After(L, f), "status")
    BY SequelIs
<1> HIDE DEF f
<1>2. f \in Says(L) /\ Says(L) \subseteq L
    BY <1>1 DEF Says, Edits, Touches
<1>3. LogOK(Says(L), n)
    BY SaysIs
<1>4. w \in Says(L) /\ Place(f) <= Place(w)
    BY <1>2, <1>3, LastIs
<1> HIDE DEF w
<1>5. w # f
    BY <1>1 DEF w
<1>6. Place(w) # Place(f)
    BY <1>2, <1>3, <1>4, <1>5, OnePlace
<1>7. Place(w) \in Nat /\ Place(f) \in Nat
    BY <1>2, <1>4, PlaceIs DEF LogOK
<1>8. w \in After(L, f)
    BY <1>2, <1>4, <1>6, <1>7 DEF After
<1>9. w \in Edits(After(L, f), "status")
    BY <1>4, <1>8 DEF Says, Edits
<1> QED
    BY <1>1, <1>9

\* What is left open counts the same after an event that leaves the same open.
LEMMA LeftStays ==
    ASSUME NEW n \in Nat, NEW L, LogOK(L, n), NEW e, EventOK(e), e.at = n, NEW r, NEW q,
           LeftOpen(L \cup {e}, q) = LeftOpen(L, r),
           \A i \in LeftOpen(L, r) : Sequel(L, i) # {} \/ e.op = "start" \/ ~Touches(e, "status")
    PROVE  Left(L \cup {e}, q) = Left(L, r)
<1>1. LeftOpen(L, r) \subseteq Spans(Starts(L))
    BY LeftOpenIs
<1>2. \A i \in LeftOpen(L, r) : Banked(L \cup {e}, i) = Banked(L, i)
    BY <1>1, BankedStays
<1>3. [i \in LeftOpen(L \cup {e}, q) |-> Banked(L \cup {e}, i)] = [i \in LeftOpen(L, r) |-> Banked(L, i)]
    BY <1>2
<1> QED
    BY <1>3 DEF Left

-----------------------------------------------------------------------------
(* A row that tells its log, and what an edit does to both *)

\* The row has the status its log leaves and the time its log counts.
Tells(r, L) ==
    /\ Value(r, "status") = Word(L)
    /\ r.tracked = Tracked(L, Running(r)) /\ r.adj = Adjusted(L) /\ r.modified \in Nat

\* What the status of such a row says of the last word, and which interval runs.
LEMMA LastWordIs ==
    ASSUME NEW n \in Nat, NEW L, LogOK(L, n), NEW r, Tells(r, L), Says(L) # {}
    PROVE  LET w == Last(Says(L))
           IN  /\ w \in Says(L) /\ w \in L
               /\ r.status = "active" <=> w.op = "start"
               /\ w.op = "start" => r.since = w.since /\ r.completed = 0 /\ Running(r) = w.since
               /\ w.op # "start" => r.since = 0 /\ Running(r) = 0
               /\ r.status = "pending" => r.completed = 0
<1> DEFINE w == Last(Says(L))
<1>1. LogOK(Says(L), n) /\ Says(L) \subseteq L
    BY SaysIs DEF Says, Edits
<1>2. w \in Says(L) /\ w \in L
    BY <1>1, LastIs
<1>3. <<r.status, r.since, r.completed>> = Told(w)
    BY DEF Tells, Word, Value
<1> HIDE DEF w
<1>4. CASE w.op = "start"
    <2>1. r.status = "active" /\ r.since = w.since /\ r.completed = 0
        BY <1>3, <1>4 DEF Told
    <2> QED
        BY <1>2, <1>4, <2>1 DEF Running, w
<1>5. CASE w.op = "done"
    <2>1. r.status = "done" /\ r.since = 0
        BY <1>3, <1>5 DEF Told
    <2> QED
        BY <1>2, <1>5, <2>1 DEF Running, w
<1>6. CASE w.op \notin {"start", "done"}
    <2>1. r.status = "pending" /\ r.since = 0 /\ r.completed = 0
        BY <1>3, <1>6 DEF Told
    <2> QED
        BY <1>2, <1>6, <2>1 DEF Running, w
<1> QED
    BY <1>4, <1>5, <1>6

\* A clock runs on while no close of its interval is known.
LEMMA StillOpen ==
    ASSUME NEW n \in Nat, NEW L, LogOK(L, n), Says(L) # {}, Last(Says(L)).op = "start"
    PROVE  Last(Says(L)).since \notin Spans(Closes(L))
<1> DEFINE w == Last(Says(L))
<1> SUFFICES ASSUME NEW c \in Closes(L), c.since = w.since PROVE FALSE
    BY DEF Spans
<1>1. LogOK(Says(L), n) /\ Says(L) \subseteq L
    BY SaysIs DEF Says, Edits
<1>2. w \in L /\ \A x \in Says(L) : Place(x) <= Place(w)
    BY <1>1, LastIs
<1> HIDE DEF w
<1>3. c \in L /\ c.op \in Closing /\ EventOK(c) /\ EventOK(w)
    BY <1>2 DEF Closes, LogOK
<1>4. w.since = w.at /\ c.since < c.at
    BY <1>3 DEF EventOK, w
<1>5. c.op \in {"stop", "done"}
    BY <1>3 DEF EventOK, PlainOps, Closing
<1>6. c \in Says(L)
    BY <1>3, <1>5 DEF Says, Edits, Touches
<1>7. Place(w) < Place(c)
    <2>1. w.at < c.at
        BY <1>4
    <2> QED
        BY <1>3, <2>1, Sooner
<1> QED
    BY <1>2, <1>3, <1>6, <1>7, PlaceIs

\* The first close of an interval adds its length.
LEMMA IntervalClosed ==
    ASSUME NEW n \in Nat, NEW L, LogOK(L, n), NEW e, EventOK(e), e.at = n, e.op \in Closing, e.since # 0,
           e.since \notin Spans(Closes(L))
    PROVE  Intervals(Closes(L \cup {e})) = Intervals(Closes(L)) + Secs(e.since, n)
<1> DEFINE C == Closes(L)
           D == Closes(L \cup {e})
           i == e.since
           f == [j \in Spans(D) |-> Max(Lengths(D, j))]
           g == [j \in Spans(C) |-> Max(Lengths(C, j))]
<1>1. LogOK(L \cup {e}, n + 1)
    BY LastIsNew
<1>2. /\ Intervals(C) = SumFunction(g) /\ IsFiniteSet(Spans(C))
      /\ \A j \in Spans(C) : Max(Lengths(C, j)) \in Nat
    BY IntervalsIs
<1>3. /\ Intervals(D) = SumFunction(f)
      /\ \A j \in Spans(D) : Max(Lengths(D, j)) \in Nat
    BY <1>1, IntervalsIs
<1>4. D = C \cup {e}
    BY OneMore
<1> HIDE DEF C, D
<1>5. Spans(D) = Spans(C) \cup {i}
    BY <1>4 DEF Spans
<1>6. \A j \in Spans(C) : Lengths(D, j) = Lengths(C, j)
    <2> SUFFICES ASSUME NEW j \in Spans(C) PROVE Lengths(D, j) = Lengths(C, j)
        OBVIOUS
    <2>1. {c \in D : c.since = j} = {c \in C : c.since = j}
        BY <1>4 DEF C
    <2> QED
        BY <2>1 DEF Lengths
<1>7. f[i] = Secs(i, n)
    <2>1. {c \in D : c.since = i} = {e}
        BY <1>4 DEF Spans, C
    <2>2. Lengths(D, i) = {Length(e)}
        BY <2>1 DEF Lengths
    <2>3. Length(e) = Secs(i, n)
        BY DEF Length, EventOK
    <2>4. Secs(i, n) \in Nat
        BY SecsType DEF EventOK
    <2> HIDE DEF i
    <2>5. IsFiniteSet({Secs(i, n)})
        BY FS_Singleton
    <2> DEFINE S == {Secs(i, n)}
    <2>7. S # {} /\ S \subseteq Nat
        BY <2>4
    <2>8. Max(S) \in S
        BY <2>5, <2>7, LargestIs
    <2>6. Max({Secs(i, n)}) = Secs(i, n)
        BY <2>8
    <2> QED
        BY <1>5, <2>2, <2>3, <2>6 DEF i
<1>8. SumFunction(f) = SumFunction(g) + f[i]
    <2>1. DOMAIN f = DOMAIN g \cup {i} /\ i \notin DOMAIN g /\ IsFiniteSet(DOMAIN g)
        BY <1>2, <1>5 DEF C
    <2>2. \A j \in DOMAIN g : f[j] = g[j]
        BY <1>5, <1>6
    <2>3. \A j \in DOMAIN f : f[j] \in Int
        BY <1>3
    <2> HIDE DEF f, g, i
    <2> QED
        BY <2>1, <2>2, <2>3, SumWithOneMore
<1> QED
    BY <1>2, <1>3, <1>7, <1>8 DEF C, D

\* A start: its interval counts once it is closed.
LEMMA StartTells ==
    ASSUME NEW n \in Nat, NEW L, LogOK(L, n), Says(L) # {}, NEW r, Tells(r, L), r.status = "pending",
           NEW e, EventOK(e), e.at = n, e.op = "start",
           NEW q, q.status = "active", q.since = n, q.completed = r.completed, q.tracked = r.tracked,
           q.adj = r.adj, q.modified \in Nat
    PROVE  Tells(q, L \cup {e})
<1> DEFINE M == L \cup {e}
<1>1. LogOK(M, n + 1)
    BY LastIsNew
<1>2. /\ Starts(M) = Starts(L) \cup {e} /\ Adjusts(M) = Adjusts(L) /\ Closes(M) = Closes(L)
    <2>1. e.op # "adjust_tracked" /\ e.op \notin Closing
        BY DEF Closing
    <2> QED
        BY <2>1, OneMore
<1>3. Word(M) = Told(e) /\ Told(e) = <<"active", n, 0>>
    BY LastWord DEF Touches, Told, EventOK
<1>4. Running(r) = 0 /\ r.completed = 0
    BY LastWordIs
<1>5. Running(q) = n
    BY DEF Running
<1> HIDE DEF M
<1>6. LeftOpen(M, n) = LeftOpen(L, 0)
    <2>1. /\ LeftOpen(M, n) = Spans(Starts(M)) \ (Spans(Closes(M)) \cup {n})
          /\ LeftOpen(L, 0) = Spans(Starts(L)) \ (Spans(Closes(L)) \cup {0})
        BY <1>1, LeftOpenIs
    <2>2. Spans(Starts(M)) = Spans(Starts(L)) \cup {n}
        <3>1. e.since = n
            BY DEF EventOK
        <3> QED
            BY <1>2, <3>1 DEF Spans
    <2>3. \A i \in Spans(Starts(L)) : i # n /\ i # 0
        BY DEF Spans, Starts, LogOK, EventOK
    <2> QED
        BY <1>2, <2>1, <2>2, <2>3
<1>7. Left(M, n) = Left(L, 0)
    BY <1>6, LeftStays DEF M
<1>8. Adjusted(M) = Adjusted(L)
    BY <1>1, <1>2, AdjustedIs
<1>9. Tracked(M, n) = Tracked(L, 0)
    BY <1>1, <1>2, <1>7, <1>8, TrackedIs
<1>10. Value(q, "status") = <<"active", n, 0>>
    BY <1>4 DEF Value
<1> QED
    BY <1>3, <1>4, <1>5, <1>8, <1>9, <1>10 DEF Tells, M

\* A stop or a completion of a running clock adds its interval.
LEMMA CloseTells ==
    ASSUME NEW n \in Nat, NEW L, LogOK(L, n), Says(L) # {}, NEW r, Tells(r, L), r.status = "active",
           NEW e, EventOK(e), e.at = n, e.op \in {"stop", "done"}, e.since = r.since,
           NEW q, Value(q, "status") = Told(e), q.tracked = r.tracked + Secs(r.since, n),
           q.adj = r.adj, q.modified \in Nat
    PROVE  Tells(q, L \cup {e})
<1> DEFINE M == L \cup {e}
           i == r.since
           w == Last(Says(L))
<1>1. LogOK(M, n + 1)
    BY LastIsNew
<1>2. w.op = "start" /\ i = w.since /\ Running(r) = i /\ w \in L
    BY LastWordIs
<1>3. i # 0 /\ i \in Nat /\ e.since = i
    BY <1>2 DEF LogOK, EventOK
<1>4. /\ Starts(M) = Starts(L) /\ Adjusts(M) = Adjusts(L) /\ Closes(M) = Closes(L) \cup {e}
    <2>1. e.op # "adjust_tracked" /\ e.op \in Closing /\ e.op # "start"
        BY DEF Closing
    <2> QED
        BY <1>3, <2>1, OneMore
<1>5. Word(M) = Told(e)
    BY LastWord DEF Touches
<1>6. i \notin Spans(Closes(L))
    BY <1>2, StillOpen
<1>7. Intervals(Closes(M)) = Intervals(Closes(L)) + Secs(i, n)
    BY <1>3, <1>6, IntervalClosed DEF Closing
<1>8. LeftOpen(M, 0) = LeftOpen(L, i)
    <2>1. /\ LeftOpen(M, 0) = Spans(Starts(M)) \ (Spans(Closes(M)) \cup {0})
          /\ LeftOpen(L, i) = Spans(Starts(L)) \ (Spans(Closes(L)) \cup {i})
        <3> HIDE DEF M
        <3> QED
            BY <1>1, LeftOpenIs
    <2>2. Spans(Closes(M)) = Spans(Closes(L)) \cup {i}
        BY <1>3, <1>4 DEF Spans
    <2>3. \A j \in Spans(Starts(L)) : j # 0
        BY DEF Spans, Starts, LogOK, EventOK
    <2> HIDE DEF M
    <2> QED
        BY <1>4, <2>1, <2>2, <2>3
<1>9. \A j \in LeftOpen(L, i) : Sequel(L, j) # {}
    <2>1. \A j \in LeftOpen(L, i) : j \in Spans(Starts(L)) /\ j # i
        BY LeftOpenIs
    <2> HIDE DEF i, w
    <2> QED
        BY <1>2, <2>1, HasSequel DEF w
<1>10. Left(M, 0) = Left(L, i)
    BY <1>8, <1>9, LeftStays
<1> HIDE DEF M
<1>11. Adjusted(M) = Adjusted(L)
    BY <1>1, <1>4, AdjustedIs
<1>12. Tracked(M, 0) = Tracked(L, i) + Secs(i, n)
    <2>1. Secs(i, n) \in Nat
        BY <1>3, SecsType
    <2>2. n + 1 \in Nat
        OBVIOUS
    <2>3. Tracked(M, 0) = Intervals(Closes(M)) + Adjusted(M) + Left(M, 0)
        BY <1>1, <2>2, TrackedIs
    <2>4. /\ Tracked(L, i) = Intervals(Closes(L)) + Adjusted(L) + Left(L, i)
          /\ Intervals(Closes(L)) \in Nat /\ Adjusted(L) \in Nat /\ Left(L, i) \in Nat
        BY TrackedIs
    <2> HIDE DEF i
    <2> QED
        BY <1>7, <1>10, <1>11, <2>1, <2>3, <2>4
<1>13. Running(q) = 0
    BY DEF Value, Told, Running
<1> QED
    BY <1>2, <1>5, <1>11, <1>12, <1>13 DEF Tells, M

\* A word that closes nothing adds no time.
LEMMA WordTells ==
    ASSUME NEW n \in Nat, NEW L, LogOK(L, n), Says(L) # {}, NEW r, Tells(r, L), r.status # "active",
           NEW e, EventOK(e), e.at = n, e.op \in {"done", "reopen"}, e.since = 0,
           NEW q, Value(q, "status") = Told(e), q.tracked = r.tracked, q.adj = r.adj, q.modified \in Nat
    PROVE  Tells(q, L \cup {e})
<1> DEFINE M == L \cup {e}
           w == Last(Says(L))
<1>1. LogOK(M, n + 1)
    BY LastIsNew
<1>2. w.op # "start" /\ Running(r) = 0
    BY LastWordIs
<1>4. /\ Starts(M) = Starts(L) /\ Adjusts(M) = Adjusts(L) /\ Closes(M) = Closes(L)
    <2>1. e.op # "adjust_tracked" /\ e.op # "start"
        OBVIOUS
    <2> QED
        BY <2>1, OneMore
<1>5. Word(M) = Told(e)
    BY LastWord DEF Touches
<1>8. LeftOpen(M, 0) = LeftOpen(L, 0)
    <2>1. /\ LeftOpen(M, 0) = Spans(Starts(M)) \ (Spans(Closes(M)) \cup {0})
          /\ LeftOpen(L, 0) = Spans(Starts(L)) \ (Spans(Closes(L)) \cup {0})
        <3> HIDE DEF M
        <3> QED
            BY <1>1, LeftOpenIs
    <2> QED
        BY <1>4, <2>1
<1>9. \A j \in LeftOpen(L, 0) : Sequel(L, j) # {}
    <2>1. \A j \in LeftOpen(L, 0) : j \in Spans(Starts(L))
        BY LeftOpenIs
    <2> HIDE DEF w
    <2> QED
        BY <1>2, <2>1, HasSequel DEF w
<1>10. Left(M, 0) = Left(L, 0)
    BY <1>8, <1>9, LeftStays
<1> HIDE DEF M
<1>11. Adjusted(M) = Adjusted(L)
    BY <1>1, <1>4, AdjustedIs
<1>12. Tracked(M, 0) = Tracked(L, 0)
    <2>2. n + 1 \in Nat
        OBVIOUS
    <2>3. Tracked(M, 0) = Intervals(Closes(M)) + Adjusted(M) + Left(M, 0)
        BY <1>1, <2>2, TrackedIs
    <2>4. Tracked(L, 0) = Intervals(Closes(L)) + Adjusted(L) + Left(L, 0)
        BY TrackedIs
    <2> QED
        BY <1>4, <1>10, <1>11, <2>3, <2>4
<1>13. Running(q) = 0
    BY DEF Value, Told, Running
<1> QED
    BY <1>2, <1>5, <1>11, <1>12, <1>13 DEF Tells, M

\* An edge changes nothing that is told, a correction both totals by one.
LEMMA RestTells ==
    ASSUME NEW n \in Nat, NEW L, LogOK(L, n), Says(L) # {}, NEW r, Tells(r, L),
           NEW e, EventOK(e), e.at = n, e.op \in {"adjust_tracked", "dependency.add"},
           NEW d, d = IF e.op = "adjust_tracked" THEN 1 ELSE 0,
           NEW q, q.status = r.status, q.since = r.since, q.completed = r.completed,
           q.tracked = r.tracked + d, q.adj = r.adj + d, q.modified \in Nat
    PROVE  Tells(q, L \cup {e})
<1> DEFINE M == L \cup {e}
           run == Running(r)
<1>1. LogOK(M, n + 1) /\ e \notin L
    BY LastIsNew
<1>4. /\ Starts(M) = Starts(L) /\ Closes(M) = Closes(L)
      /\ e.op = "adjust_tracked" => Adjusts(M) = Adjusts(L) \cup {e}
      /\ e.op # "adjust_tracked" => Adjusts(M) = Adjusts(L)
    <2>1. e.op \notin Closing /\ e.op # "start"
        BY DEF Closing
    <2> QED
        BY <2>1, OneMore
<1>3. ~Touches(e, "status")
    BY DEF Touches, EventOK
<1>5. Word(M) = Word(L)
    BY <1>3, LastWord
<1>8. LeftOpen(M, run) = LeftOpen(L, run)
    <2>1. /\ LeftOpen(M, run) = Spans(Starts(M)) \ (Spans(Closes(M)) \cup {run})
          /\ LeftOpen(L, run) = Spans(Starts(L)) \ (Spans(Closes(L)) \cup {run})
        <3> HIDE DEF M
        <3> QED
            BY <1>1, LeftOpenIs
    <2> QED
        BY <1>4, <2>1
<1>10. Left(M, run) = Left(L, run)
    BY <1>3, <1>8, LeftStays
<1> HIDE DEF M
<1>11. Adjusted(M) = Adjusted(L) + d
    <2> DEFINE f == [x \in Adjusts(M) |-> 1]
               g == [x \in Adjusts(L) |-> 1]
    <2>1. Adjusted(M) = SumFunction(f) /\ Adjusted(L) = SumFunction(g) /\ Adjusted(L) \in Nat
        BY <1>1, AdjustedIs
    <2>2. CASE e.op = "adjust_tracked"
        <3>1. e \notin DOMAIN g /\ DOMAIN f = DOMAIN g \cup {e}
            BY <1>1, <1>4, <2>2 DEF Adjusts
        <3>2. IsFiniteSet(DOMAIN g)
            <4>1. Adjusts(L) \subseteq L /\ IsFiniteSet(L)
                BY DEF Adjusts, LogOK
            <4> QED
                BY <4>1, FS_Subset
        <3>3. (\A x \in DOMAIN g : f[x] = g[x]) /\ (\A x \in DOMAIN f : f[x] \in Int) /\ f[e] = 1
            BY <3>1
        <3> HIDE DEF f, g
        <3>4. SumFunction(f) = SumFunction(g) + f[e]
            BY <3>1, <3>2, <3>3, SumWithOneMore
        <3> QED
            BY <2>1, <2>2, <3>3, <3>4
    <2>3. CASE e.op # "adjust_tracked"
        <3>1. Adjusts(M) = Adjusts(L)
            BY <1>4, <2>3
        <3> QED
            BY <2>1, <2>3, <3>1
    <2> QED
        BY <2>2, <2>3
<1>12. Tracked(M, run) = Tracked(L, run) + d
    <2>2. n + 1 \in Nat /\ d \in Nat
        OBVIOUS
    <2>3. Tracked(M, run) = Intervals(Closes(M)) + Adjusted(M) + Left(M, run)
        BY <1>1, <2>2, TrackedIs
    <2>4. /\ Tracked(L, run) = Intervals(Closes(L)) + Adjusted(L) + Left(L, run)
          /\ Intervals(Closes(L)) \in Nat /\ Adjusted(L) \in Nat /\ Left(L, run) \in Nat
        BY TrackedIs
    <2> HIDE DEF run
    <2> QED
        BY <1>4, <1>10, <1>11, <2>2, <2>3, <2>4
<1>13. Running(q) = run /\ Value(q, "status") = Value(r, "status")
    BY DEF Value, Running
<1> QED
    BY <1>5, <1>11, <1>12, <1>13 DEF Tells, M

\* A task just added has told nothing but its add.
LEMMA AddTells ==
    ASSUME NEW e, EventOK(e), e.op = "add",
           NEW q, q.status = "pending", q.since = 0, q.completed = 0, q.tracked = 0, q.adj = 0, q.modified \in Nat
    PROVE  Tells(q, {e})
<1> DEFINE L == {e}
           n == e.at + 1
<1>1. LogOK(L, n) /\ n \in Nat
    <2>6. IsFiniteSet({e})
        BY FS_Singleton, Zenon
    <2>7. e.at \in Nat
        BY DEF EventOK
    <2>8. e.at < e.at + 1
        BY <2>7
    <2>1. IsFiniteSet({e}) /\ e.at \in Nat /\ e.at < e.at + 1
        BY <2>6, <2>7, <2>8
    <2>2. \A x \in {e} : EventOK(x) /\ x.at < e.at + 1
        BY <2>1
    <2>3. \A x, y \in {e} : x.id = y.id => x = y
        OBVIOUS
    <2>4. LogOK({e}, e.at + 1)
        BY <2>1, <2>2, <2>3, Zenon DEF LogOK
    <2>5. e.at + 1 \in Nat
        BY <2>1
    <2> QED
        BY <2>4, <2>5
<1>2. Says(L) = {e} /\ Starts(L) = {} /\ Closes(L) = {} /\ Adjusts(L) = {}
    BY DEF Says, Edits, Touches, Starts, Closes, Closing, Adjusts
<1>3. Word(L) = <<"pending", 0, 0>>
    <2>1. Last({e}) = e
        BY DEF Last
    <2> QED
        BY <1>2, <2>1 DEF Word, Told
<1> HIDE DEF L, n
<1>4. Adjusted(L) = 0
    <2> DEFINE f == [x \in Adjusts(L) |-> 1]
    <2>1. Adjusted(L) = SumFunction(f) /\ DOMAIN f = {}
        BY <1>1, <1>2, AdjustedIs
    <2> HIDE DEF f
    <2> QED
        BY <2>1, SumOfNone
<1>5. Intervals(Closes(L)) = 0
    <2> DEFINE f == [i \in Spans(Closes(L)) |-> Max(Lengths(Closes(L), i))]
    <2>1. Intervals(Closes(L)) = SumFunction(f)
        BY <1>1, IntervalsIs
    <2>2. DOMAIN f = {}
        BY <1>2 DEF Spans
    <2> HIDE DEF f
    <2> QED
        BY <2>1, <2>2, SumOfNone
<1>6. Left(L, 0) = 0
    <2> DEFINE f == [i \in LeftOpen(L, 0) |-> Banked(L, i)]
    <2>1. DOMAIN f = {}
        BY <1>1, <1>2, LeftOpenIs DEF Spans
    <2> HIDE DEF f
    <2> QED
        BY <2>1, SumOfNone DEF Left, f
<1>7. Tracked(L, 0) = 0
    BY <1>1, <1>4, <1>5, <1>6, TrackedIs
<1>8. Running(q) = 0 /\ Value(q, "status") = <<"pending", 0, 0>>
    BY DEF Running, Value
<1> QED
    BY <1>3, <1>4, <1>7, <1>8 DEF Tells, L

-----------------------------------------------------------------------------
(* Merged and folded rows tell the logs together *)

\* A merged row, field by field.
LEMMA MergedRowMade ==
    ASSUME NEW a, NEW b, RowOK(a.row), RowOK(b.row), a.row.due # 0, b.row.due # 0, HoldAdds(a, b)
    PROVE  LET v == Winner(a, b, "status")
               total == MergedTotal(a, b, Running(v))
           IN  MergedRow(a, b) =
                 RowWith(Winner(a, b, "spawned_from").parent, Winner(a, b, "schedule").due,
                         v.status, v.since, v.completed, total.tracked, total.adj,
                         Larger(a.row.modified, b.row.modified))
<1> DEFINE v == Winner(a, b, "status")
           w == Winner(a, b, "schedule")
           p == Winner(a, b, "spawned_from")
           m == Larger(a.row.modified, b.row.modified)
           row == [WithStatus(a.row, v) EXCEPT !.due = w.due, !.parent = p.parent, !.modified = m]
           x == WithStatus(a.row, v)
           y == Relined(x, w.due, p.parent, m)
           total == MergedTotal(a, b, Running(v))
<1>1. v \in {a.row, b.row} /\ w \in {a.row, b.row} /\ p \in {a.row, b.row}
    BY WinnerIsOne
<1>2. MergedRow(a, b) = WithTotal(y, MergedTotal(a, b, Running(y)))
    BY DEF MergedRow, Counted, Relined
<1> HIDE DEF v, w, p, m
<1>3. RowOK(x) /\ x.due = a.row.due /\ x.status = v.status /\ x.since = v.since /\ x.completed = v.completed
    <2>1. x = RowWith(a.row.parent, a.row.due, v.status, v.since, v.completed, a.row.tracked,
                      a.row.adj, a.row.modified)
        BY StatusWritten
    <2>2. a.row.parent \in Nat /\ a.row.due \in Nat /\ v.status \in {"pending", "active", "done"}
        BY <1>1 DEF RowOK
    <2> HIDE DEF x
    <2> QED
        BY <2>1, <2>2, RowWritten
<1> HIDE DEF x
<1>4. RowOK(y) /\ y.due = w.due /\ y.parent = p.parent /\ y.modified = m
      /\ y.status = v.status /\ y.since = v.since /\ y.completed = v.completed
    <2>1. y = RowWith(p.parent, w.due, v.status, v.since, v.completed, x.tracked, x.adj, m)
        BY <1>3, LineWritten
    <2>2. p.parent \in Nat /\ w.due \in Nat /\ w.due # 0 /\ v.status \in {"pending", "active", "done"}
        BY <1>1 DEF RowOK
    <2> HIDE DEF y
    <2> QED
        BY <2>1, <2>2, RowWritten, FieldsOf
<1> HIDE DEF y
<1>5. Running(y) = Running(v)
    BY <1>4 DEF Running
<1> HIDE DEF total
<1>6. WithTotal(y, total) = RowWith(p.parent, w.due, v.status, v.since, v.completed, total.tracked, total.adj, m)
    BY <1>4, TotalWritten
<1> QED
    BY <1>2, <1>5, <1>6 DEF v, w, p, m, total

\* A folded row, field by field.
LEMMA FoldedRowMade ==
    ASSUME NEW a, NEW b, RowOK(a.row), RowOK(b.row), a.row.due # 0
    PROVE  LET v == Winner(a, b, "status")
               total == MergedTotal(a, b, Running(v))
           IN  FoldedRow(a, b) =
                 RowWith(a.row.parent, a.row.due, v.status, v.since, v.completed, total.tracked,
                         total.adj, a.row.modified)
<1> DEFINE v == Winner(a, b, "status")
           x == WithStatus(a.row, v)
           total == MergedTotal(a, b, Running(v))
<1>1. v \in {a.row, b.row}
    BY WinnerIsOne
<1>2. FoldedRow(a, b) = WithTotal(x, MergedTotal(a, b, Running(x)))
    BY DEF FoldedRow, Counted, FoldedStatus
<1> HIDE DEF v
<1>3. RowOK(x) /\ x.parent = a.row.parent /\ x.due = a.row.due /\ x.modified = a.row.modified
      /\ x.status = v.status /\ x.since = v.since /\ x.completed = v.completed
    <2>1. x = RowWith(a.row.parent, a.row.due, v.status, v.since, v.completed, a.row.tracked,
                      a.row.adj, a.row.modified)
        BY StatusWritten
    <2>2. a.row.parent \in Nat /\ a.row.due \in Nat /\ v.status \in {"pending", "active", "done"}
        BY <1>1 DEF RowOK
    <2> HIDE DEF x
    <2> QED
        BY <2>1, <2>2, RowWritten, FieldsOf
<1> HIDE DEF x
<1>4. Running(x) = Running(v)
    BY <1>3 DEF Running
<1> HIDE DEF total
<1>5. WithTotal(x, total) = RowWith(a.row.parent, a.row.due, v.status, v.since, v.completed, total.tracked,
                                    total.adj, a.row.modified)
    BY <1>3, TotalWritten
<1> QED
    BY <1>2, <1>4, <1>5 DEF v, total

\* The total of two rows that tell their logs is what the logs together count.
LEMMA MergedTotalIs ==
    ASSUME NEW n \in Nat, NEW a, NEW b, LogOK(a.log \cup b.log, n), Tells(a.row, a.log), Tells(b.row, b.log), NEW run
    PROVE  LET U == a.log \cup b.log
           IN  MergedTotal(a, b, run) = [tracked |-> Tracked(U, run), adj |-> Adjusted(U)]
<1> DEFINE U == a.log \cup b.log
           Zero == [tracked |-> 0, adj |-> 0]
<1>1. LogOK(a.log, n) /\ LogOK(b.log, n)
    BY PartOfLog
<1>2. ASSUME NEW c, LogOK(c.log, n), Tells(c.row, c.log) PROVE Beyond(c) = Zero
    <2> DEFINE x == Tracked(c.log, Running(c.row))
               y == Adjusted(c.log)
    <2>1. x \in Nat /\ y \in Nat
        BY <1>2, TrackedIs
    <2>2. c.row.tracked = x /\ c.row.adj = y
        BY <1>2 DEF Tells
    <2>3. Beyond(c) = [tracked |-> c.row.tracked - x, adj |-> c.row.adj - y]
        BY DEF Beyond
    <2> HIDE DEF x, y
    <2>4. c.row.tracked - x = 0 /\ c.row.adj - y = 0
        BY <2>1, <2>2
    <2> QED
        BY <2>3, <2>4
<1>3. Beyond(a) = Zero /\ Beyond(b) = Zero
    BY <1>1, <1>2
<1>4. Resets(U) = {}
    BY NothingUndone
<1>5. Kept(a, b) = {Zero}
    <2>1. Kept(a, b) = {Beyond(c) : c \in {c \in {a, b} : Holds(c.log, U)}}
        BY DEF Kept
    <2>2. {c \in {a, b} : Holds(c.log, U)} = {a, b}
        BY <1>4 DEF Holds
    <2> HIDE DEF Zero
    <2> QED
        BY <1>3, <2>1, <2>2
<1>6. {k.tracked : k \in {Zero}} = {0} /\ {k.adj : k \in {Zero}} = {0}
    <2>1. Zero.tracked = 0 /\ Zero.adj = 0
        OBVIOUS
    <2> HIDE DEF Zero
    <2> QED
        BY <2>1
<1>7. Rest({0}) = 0
    <2>3. IsFiniteSet({0})
        BY FS_Singleton, Zenon
    <2>1. {0} # {} /\ {0} \subseteq Nat
        OBVIOUS
    <2>2. Max({0}) \in {0}
        BY <2>1, <2>3, LargestIs
    <2> QED
        BY <2>2 DEF Rest
<1> DEFINE t == Tracked(U, run)
           j == Adjusted(U)
<1>8. t \in Nat /\ j \in Nat
    BY TrackedIs
<1>9. MergedTotal(a, b, run) = AtLeastZero(t + Larger(0, Rest({k.tracked : k \in {Zero}})), j + Rest({k.adj : k \in {Zero}}))
    BY <1>5 DEF MergedTotal, TotalOf
<1> HIDE DEF t, j, Zero
<1>10. MergedTotal(a, b, run) = AtLeastZero(t + Larger(0, 0), j + 0)
    BY <1>6, <1>7, <1>9
<1>11. t + Larger(0, 0) = t /\ j + 0 = j
    BY <1>8 DEF Larger
<1>12. AtLeastZero(t, j) = [tracked |-> t, adj |-> j]
    BY <1>8 DEF AtLeastZero
<1> QED
    BY <1>10, <1>11, <1>12 DEF t, j

\* A row with the status and the total that a log tells, and a stamp, tells it.
LEMMA MadeTells ==
    ASSUME NEW L, NEW v, Value(v, "status") = Word(L), NEW p, NEW d, NEW m \in Nat
    PROVE  Tells(RowWith(p, d, v.status, v.since, v.completed, Tracked(L, Running(v)), Adjusted(L), m), L)
<1> DEFINE t == Tracked(L, Running(v))
           j == Adjusted(L)
           r == RowWith(p, d, v.status, v.since, v.completed, t, j, m)
<1> HIDE DEF t, j
<1>1. /\ r.status = v.status /\ r.since = v.since /\ r.completed = v.completed
      /\ r.tracked = t /\ r.adj = j /\ r.modified = m
    BY FieldsOf
<1> HIDE DEF r
<1>2. Running(r) = Running(v) /\ Value(r, "status") = Value(v, "status")
    BY <1>1 DEF Running, Value
<1>3. Tells(r, L)
    BY <1>1, <1>2 DEF Tells, t, j
<1> QED
    BY <1>3 DEF r, t, j

\* A merged row tells both logs (store_import).
LEMMA MergedTells ==
    ASSUME NEW n \in Nat, NEW a, NEW b, RowOK(a.row), RowOK(b.row), a.row.due # 0, b.row.due # 0,
           LogOK(a.log \cup b.log, n), HoldAdds(a, b), Tells(a.row, a.log), Tells(b.row, b.log)
    PROVE  Tells(MergedRow(a, b), a.log \cup b.log)
<1> DEFINE U == a.log \cup b.log
           v == Winner(a, b, "status")
           p == Winner(a, b, "spawned_from").parent
           d == Winner(a, b, "schedule").due
           m == Larger(a.row.modified, b.row.modified)
           total == MergedTotal(a, b, Running(v))
<1>1. MergedRow(a, b) = RowWith(p, d, v.status, v.since, v.completed, total.tracked, total.adj, m)
    BY MergedRowMade
<1>2. Value(v, "status") = Word(U)
    <2>1. Value(a.row, "status") = Word(a.log) /\ Value(b.row, "status") = Word(b.log)
        BY DEF Tells
    <2> QED
        BY <2>1, WinnerSays
<1>3. m \in Nat
    BY DEF Tells, Larger
<1> HIDE DEF v, p, d, m
<1>4. total.tracked = Tracked(U, Running(v)) /\ total.adj = Adjusted(U)
    <2> DEFINE run == Running(v)
    <2> HIDE DEF run
    <2>2. MergedTotal(a, b, run) = [tracked |-> Tracked(U, run), adj |-> Adjusted(U)]
        <3>1. LogOK(U, n) /\ Tells(a.row, a.log) /\ Tells(b.row, b.log)
            OBVIOUS
        <3> QED
            BY ONLY <3>1, n \in Nat, MergedTotalIs, SMTT(30)
    <2>1. total = [tracked |-> Tracked(U, Running(v)), adj |-> Adjusted(U)]
        BY <2>2 DEF run
    <2> HIDE DEF total
    <2> QED
        BY <2>1
<1> HIDE DEF total, U
<1> QED
    BY <1>1, <1>2, <1>3, <1>4, MadeTells DEF U

\* So does a folded one (fold).
LEMMA FoldedTells ==
    ASSUME NEW n \in Nat, NEW a, NEW b, RowOK(a.row), RowOK(b.row), a.row.due # 0,
           LogOK(a.log \cup b.log, n), HoldAdds(a, b), Tells(a.row, a.log), Tells(b.row, b.log)
    PROVE  Tells(FoldedRow(a, b), a.log \cup b.log)
<1> DEFINE U == a.log \cup b.log
           v == Winner(a, b, "status")
           p == a.row.parent
           d == a.row.due
           m == a.row.modified
           total == MergedTotal(a, b, Running(v))
<1>1. FoldedRow(a, b) = RowWith(p, d, v.status, v.since, v.completed, total.tracked, total.adj, m)
    BY FoldedRowMade
<1>2. Value(v, "status") = Word(U)
    <2>1. Value(a.row, "status") = Word(a.log) /\ Value(b.row, "status") = Word(b.log)
        BY DEF Tells
    <2> QED
        BY <2>1, WinnerSays
<1>3. m \in Nat
    BY DEF Tells
<1> HIDE DEF v, p, d, m
<1>4. total.tracked = Tracked(U, Running(v)) /\ total.adj = Adjusted(U)
    <2> DEFINE run == Running(v)
    <2> HIDE DEF run
    <2>2. MergedTotal(a, b, run) = [tracked |-> Tracked(U, run), adj |-> Adjusted(U)]
        BY MergedTotalIs
    <2>1. total = [tracked |-> Tracked(U, Running(v)), adj |-> Adjusted(U)]
        BY <2>2 DEF run
    <2> HIDE DEF total
    <2> QED
        BY <2>1
<1> HIDE DEF total, U
<1> QED
    BY <1>1, <1>2, <1>3, <1>4, MadeTells DEF U

\* What a row tells is not where it stands in the series.
LEMMA TellsAsWell ==
    ASSUME NEW L, NEW r, Tells(r, L), NEW q, q.status = r.status, q.since = r.since, q.completed = r.completed,
           q.tracked = r.tracked, q.adj = r.adj, q.modified = r.modified
    PROVE  Tells(q, L)
BY DEF Tells, Value, Running

-----------------------------------------------------------------------------
(* The rows of a fold *)

\* What of a row its log tells.
SameWords(q, r) ==
    /\ q.status = r.status /\ q.since = r.since /\ q.completed = r.completed
    /\ q.tracked = r.tracked /\ q.adj = r.adj /\ q.modified = r.modified

\* A fold writes the survivor's status and total, and no other's.
LEMMA FoldMade ==
    ASSUME NEW st, StoreOK(st), NEW k \in Tasks(st), NEW d \in Tasks(st), k # d, NEW seen
    PROVE  LET f == Fold(st, k, d, seen)
               a == [row |-> st.row[k], log |-> CopyLog(st, k, seen)]
               b == [row |-> st.row[d], log |-> CopyLog(st, d, seen)]
           IN  /\ SameWords(f.row[k], FoldedRow(a, b))
               /\ \A t \in Ids \ {k, d} : SameWords(f.row[t], st.row[t])
<1> DEFINE a == [row |-> st.row[k], log |-> CopyLog(st, k, seen)]
           b == [row |-> st.row[d], log |-> CopyLog(st, d, seen)]
           r == FoldedRow(a, b)
           f == Fold(st, k, d, seen)
           rows == [st.row EXCEPT ![k] = r, ![d] = NoRow]
           mine == {t \in Ids : rows[t].parent = d}
           new == [t \in mine |-> [rows[t] EXCEPT !.parent = k]]
<1>1. /\ k \in Ids /\ d \in Ids
      /\ RowOK(st.row[k]) /\ RowOK(st.row[d])
      /\ st.row[k].due # 0 /\ st.row[d].due # 0
    BY TaskDue DEF Tasks
<1>2. RowOK(r)
    BY <1>1, FoldedRowIs
<1>3. f.row = Adopted(k, d, rows)
    BY DEF Fold
<1> HIDE DEF r, f
<1>4. /\ rows = [t \in Ids |-> rows[t]]
      /\ \A t \in Ids : rows[t] = IF t = d THEN NoRow ELSE IF t = k THEN r ELSE st.row[t]
    BY <1>1 DEF StoreOK
<1> HIDE DEF rows
<1>5. \A t \in Ids : RowOK(rows[t])
    BY <1>2, <1>4, NoRowIs DEF StoreOK
<1>6. IsFiniteSet(mine) /\ mine \subseteq Ids
    BY IdsAre, FS_Subset
<1>7. f.row = [t \in Ids |-> IF t \in mine THEN new[t] ELSE rows[t]]
    <2>1. f.row = Written(rows, new) /\ DOMAIN new = mine
        BY <1>3 DEF Adopted
    <2> HIDE DEF new, mine
    <2>2. Written(rows, new) = [t \in Ids |-> IF t \in DOMAIN new THEN new[t] ELSE rows[t]]
        BY <1>4, <1>6, <2>1, WrittenIs
    <2> QED
        BY <2>1, <2>2
<1>8. ASSUME NEW t \in Ids PROVE SameWords(f.row[t], rows[t])
    <2> DEFINE x == rows[t]
    <2>1. RowOK(x)
        BY <1>5
    <2>2. CASE x.parent # d
        BY <1>7, <2>1, <2>2 DEF SameWords
    <2>3. CASE x.parent = d
        <3>1. f.row[t] = [x EXCEPT !.parent = k]
            BY <1>7, <2>3
        <3> HIDE DEF x
        <3>3. f.row[t] = RowWith(k, x.due, x.status, x.since, x.completed, x.tracked, x.adj, x.modified)
            BY <2>1, <3>1, ParentWritten
        <3>4. SameWords(f.row[t], x)
            BY <3>3, FieldsOf DEF SameWords
        <3> QED
            BY <3>4 DEF x
    <2> QED
        BY <2>2, <2>3
<1>9. SameWords(f.row[k], r)
    BY <1>1, <1>4, <1>8
<1>10. \A t \in Ids \ {k, d} : SameWords(f.row[t], st.row[t])
    BY <1>4, <1>8
<1> QED
    BY <1>9, <1>10 DEF f, r

-----------------------------------------------------------------------------
(* Where events are filed *)

\* The piece of work a task stands for: an occurrence by its due.
Piece(st, t) == IF t = Errand THEN 0 ELSE st.row[t].due
\* An event that both hold is filed under the same piece of work.
Filed(a, b) == \A x, y \in Ids : a.log[x] \cap b.log[y] # {} => Piece(a, x) = Piece(b, y)
\* Events are filed under tasks, and a task's row tells what is filed under it.
Booked(st) ==
    /\ \A t \in Ids : st.log[t] # {} => t \in Tasks(st)
    /\ \A t \in Tasks(st) : AddAt(t) \in st.log[t] /\ Tells(st.row[t], st.log[t])

\* Two stores of one series.
Meet(mine, theirs, n) ==
    /\ n \in Nat /\ LogOK(Known(mine) \cup Known(theirs), n)
    /\ \A st \in {mine, theirs} : StoreOK(st) /\ Lined(st) /\ Single(st) /\ Booked(st)
    /\ Agree(mine, theirs)
    /\ Filed(mine, mine) /\ Filed(mine, theirs) /\ Filed(theirs, theirs)
\* A store in the course of an import: every row tells what either has filed
\* under its task.
Underway(mine, theirs, st) ==
    /\ StoreOK(st) /\ Lined(st) /\ Tasks(st) \subseteq Tasks(mine) \cup Tasks(theirs)
    /\ Agree(st, mine) /\ Agree(st, theirs)
    /\ Known(st) = Known(mine) \cup Known(theirs)
    /\ Filed(mine, st) /\ Filed(theirs, st)
    /\ \A t \in Ids : st.log[t] # {} => t \in Tasks(st)
    /\ \A t \in Tasks(st) : LET L == CopyLog(st, t, theirs.log) IN AddAt(t) \in L /\ Tells(st.row[t], L)

\* The rows before the folds.
LEMMA JoinedRows ==
    ASSUME NEW mine, StoreOK(mine), NEW theirs
    PROVE  LET u == Joined(mine, theirs)
           IN  /\ u.row = [t \in Ids |-> u.row[t]]
               /\ \A t \in Ids : u.row[t] = IF t \in Tasks(theirs) THEN RowFor(Copy(mine, t), Copy(theirs, t))
                                           ELSE mine.row[t]
<1> DEFINE u == Joined(mine, theirs)
           new == [t \in Tasks(theirs) |-> RowFor(Copy(mine, t), Copy(theirs, t))]
<1>1. u.row = Written(mine.row, new)
    BY DEF Joined, Rows
<1>2. DOMAIN new = Tasks(theirs) /\ Tasks(theirs) \subseteq Ids /\ mine.row = [t \in Ids |-> mine.row[t]]
    BY DEF Tasks, StoreOK
<1>3. IsFiniteSet(Tasks(theirs))
    BY <1>2, IdsAre, FS_Subset
<1>4. \A t \in Tasks(theirs) : new[t] = RowFor(Copy(mine, t), Copy(theirs, t))
    OBVIOUS
<1> HIDE DEF new
<1>5. Written(mine.row, new) = [t \in Ids |-> IF t \in DOMAIN new THEN new[t] ELSE mine.row[t]]
    BY <1>2, <1>3, WrittenIs
<1> HIDE DEF u
<1>6. u.row = [t \in Ids |-> u.row[t]]
    BY <1>1, <1>5
<1>7. \A t \in Ids : u.row[t] = IF t \in Tasks(theirs) THEN RowFor(Copy(mine, t), Copy(theirs, t)) ELSE mine.row[t]
    BY <1>1, <1>2, <1>4, <1>5
<1> QED
    BY <1>6, <1>7 DEF u

\* The store before the folds is such a store.
LEMMA JoinedUnderway ==
    ASSUME NEW mine, NEW theirs, NEW n, Meet(mine, theirs, n)
    PROVE  /\ Underway(mine, theirs, Joined(mine, theirs))
           /\ \A t \in Ids : CopyLog(Joined(mine, theirs), t, theirs.log) = mine.log[t] \cup theirs.log[t]
<1> DEFINE u == Joined(mine, theirs)
           Both(t) == mine.log[t] \cup theirs.log[t]
<1>1. /\ StoreOK(mine) /\ StoreOK(theirs) /\ Lined(mine) /\ Lined(theirs) /\ Booked(mine) /\ Booked(theirs)
      /\ Agree(mine, theirs) /\ n \in Nat /\ LogOK(Known(mine) \cup Known(theirs), n)
    BY DEF Meet
<1>2. /\ StoreOK(u) /\ Tasks(u) = Tasks(mine) \cup Tasks(theirs) /\ Known(u) = Known(mine) \cup Known(theirs)
    BY <1>1, JoinedIs
<1>3. /\ Lined(u)
      /\ \A t \in Tasks(mine) : u.row[t].due = mine.row[t].due
      /\ \A t \in Tasks(theirs) : u.row[t].due = theirs.row[t].due
    BY <1>1, JoinedLined
<1>4. \A t \in Ids : u.log[t] = mine.log[t] \cup (theirs.log[t] \ Known(mine))
    BY DEF Joined, Events
<1>5. \A t \in Ids : u.row[t] = IF t \in Tasks(theirs) THEN RowFor(Copy(mine, t), Copy(theirs, t)) ELSE mine.row[t]
    BY <1>1, JoinedRows
<1> HIDE DEF u
<1>6. \A t \in Ids : CopyLog(u, t, theirs.log) = Both(t)
    BY <1>4 DEF CopyLog
<1>7. Agree(u, mine) /\ Agree(u, theirs)
    BY <1>3 DEF Agree
<1>8. \A t \in Ids : u.log[t] # {} => t \in Tasks(u)
    BY <1>1, <1>2, <1>4 DEF Booked
<1>9. ASSUME NEW st \in {mine, theirs} PROVE Filed(st, u)
    <2> SUFFICES ASSUME NEW x \in Ids, NEW y \in Ids, NEW e \in st.log[x] \cap u.log[y]
                 PROVE  Piece(st, x) = Piece(u, y)
        BY DEF Filed
    <2>1. PICK o \in {mine, theirs} : e \in o.log[y]
        BY <1>4
    <2>2. Piece(st, x) = Piece(o, y)
        <3>1. Filed(st, o) \/ Filed(o, st)
            BY DEF Meet
        <3> QED
            BY <2>1, <3>1 DEF Filed
    <2>3. y \in Tasks(o)
        BY <1>1, <2>1 DEF Booked
    <2>4. Piece(o, y) = Piece(u, y)
        BY <1>3, <2>3 DEF Piece
    <2> QED
        BY <2>2, <2>4
<1>10. ASSUME NEW t \in Tasks(u) PROVE AddAt(t) \in Both(t) /\ Tells(u.row[t], Both(t))
    <2> DEFINE a == Copy(mine, t)
               b == Copy(theirs, t)
    <2>1. /\ t \in Ids
          /\ a.row = mine.row[t] /\ a.log = mine.log[t] /\ b.row = theirs.row[t] /\ b.log = theirs.log[t]
        BY DEF Copy, Tasks
    <2>2. t \in Tasks(theirs) => u.row[t] = RowFor(a, b)
        BY <1>5, <2>1
    <2> HIDE DEF a, b
    <2>3. CASE t \notin Tasks(theirs)
        <3>1. t \in Tasks(mine) /\ u.row[t] = mine.row[t]
            BY <1>2, <1>5, <2>1, <2>3
        <3>2. theirs.log[t] = {}
            BY <1>1, <2>1, <2>3 DEF Booked
        <3>3. Both(t) = mine.log[t]
            BY <3>2
        <3> HIDE DEF Both
        <3> QED
            BY <1>1, <3>1, <3>3 DEF Booked
    <2>4. CASE t \in Tasks(theirs) /\ t \notin Tasks(mine)
        <3>1. u.row[t] = theirs.row[t]
            BY <2>1, <2>2, <2>4 DEF RowFor, Tasks
        <3>2. mine.log[t] = {}
            BY <1>1, <2>1, <2>4 DEF Booked
        <3>3. Both(t) = theirs.log[t]
            BY <3>2
        <3> HIDE DEF Both
        <3> QED
            BY <1>1, <2>4, <3>1, <3>3 DEF Booked
    <2>5. CASE t \in Tasks(theirs) /\ t \in Tasks(mine)
        <3>1. u.row[t] = MergedRow(a, b)
            BY <2>1, <2>2, <2>5 DEF RowFor, Tasks
        <3>2. RowOK(a.row) /\ RowOK(b.row) /\ a.row.due # 0 /\ b.row.due # 0
            BY <1>1, <2>1, <2>5, TaskDue
        <3>3. AddAt(t) \in a.log /\ AddAt(t) \in b.log /\ Tells(a.row, a.log) /\ Tells(b.row, b.log)
            BY <1>1, <2>1, <2>5 DEF Booked
        <3>4. HoldAdds(a, b)
            <4>1. AddAt(t).op = "add"
                BY DEF AddAt, Event
            <4> QED
                BY <3>3, <4>1 DEF HoldAdds
        <3>5. LogOK(a.log \cup b.log, n)
            <4>1. a.log \cup b.log \subseteq Known(mine) \cup Known(theirs)
                BY <2>1 DEF Known
            <4> QED
                BY <1>1, <4>1, PartOfLog
        <3>6. Tells(MergedRow(a, b), a.log \cup b.log)
            BY <1>1, <3>2, <3>3, <3>4, <3>5, MergedTells
        <3>7. Both(t) = a.log \cup b.log
            BY <2>1
        <3> HIDE DEF Both
        <3> QED
            BY <3>1, <3>3, <3>6, <3>7
    <2> QED
        BY <2>3, <2>4, <2>5
<1>11. \A t \in Tasks(u) : LET L == CopyLog(u, t, theirs.log) IN AddAt(t) \in L /\ Tells(u.row[t], L)
    BY <1>6, <1>10 DEF Tasks
<1>12. Underway(mine, theirs, u)
    BY <1>2, <1>3, <1>7, <1>8, <1>9, <1>11 DEF Underway
<1> QED
    BY <1>6, <1>12 DEF u

\* Two stores that hold one row for each occurrence have at most two between them.
LEMMA AtMostTwo ==
    ASSUME NEW mine, NEW theirs, Single(mine), Single(theirs),
           NEW st, Tasks(st) \subseteq Tasks(mine) \cup Tasks(theirs), Agree(st, mine), Agree(st, theirs),
           NEW x \in Recurring(st), NEW y \in Recurring(st), NEW z \in Recurring(st),
           st.row[x].due = st.row[y].due, st.row[y].due = st.row[z].due
    PROVE  x = y \/ y = z \/ x = z
<1>1. \A t \in Recurring(st) : \E o \in {mine, theirs} : t \in Recurring(o) /\ o.row[t].due = st.row[t].due
    BY DEF Recurring, Agree
<1>2. \A o \in {mine, theirs} : Single(o)
    OBVIOUS
<1>3. PICK o \in {mine, theirs} : x \in Recurring(o) /\ o.row[x].due = st.row[x].due
    BY <1>1
<1>4. PICK p \in {mine, theirs} : y \in Recurring(p) /\ p.row[y].due = st.row[y].due
    BY <1>1
<1>5. PICK q \in {mine, theirs} : z \in Recurring(q) /\ q.row[z].due = st.row[z].due
    BY <1>1
<1>6. o = p \/ p = q \/ o = q
    OBVIOUS
<1> QED
    BY <1>2, <1>3, <1>4, <1>5, <1>6 DEF Single

\* An event of the other store is filed with the piece of work it is filed with
\* there, whichever row stands for it.
LEMMA FiledWith ==
    ASSUME NEW mine, NEW theirs, NEW n, Meet(mine, theirs, n), NEW st, Underway(mine, theirs, st),
           NEW t \in Tasks(st), NEW e \in theirs.log[t]
    PROVE  \E y \in Tasks(st) : e \in st.log[y] /\ Piece(st, y) = Piece(st, t)
<1>1. t \in Ids
    BY DEF Tasks
<1>2. e \in Known(st)
    BY <1>1 DEF Underway, Known
<1>3. PICK y \in Ids : e \in st.log[y]
    BY <1>2 DEF Known
<1>4. y \in Tasks(st)
    BY <1>3 DEF Underway
<1>5. Piece(theirs, t) = Piece(st, y)
    BY <1>1, <1>3 DEF Underway, Filed
<1>6. t \in Tasks(theirs)
    BY <1>1 DEF Meet, Booked
<1>7. Piece(theirs, t) = Piece(st, t)
    BY <1>6 DEF Underway, Agree, Piece
<1> QED
    BY <1>3, <1>4, <1>5, <1>7

\* A fold moves what the loser's log says to the survivor's, leaves every other log
\* and every other due, and takes the loser's row away.
Refiles(st, f, k, d) ==
    /\ StoreOK(f) /\ f.row[d] = NoRow
    /\ \A t \in Ids \ {d} : f.row[t].due = st.row[t].due
    /\ f.log = [st.log EXCEPT ![k] = st.log[k] \cup st.log[d], ![d] = {}]

\* A fold of any two rows does so.
LEMMA FoldLog ==
    ASSUME NEW st, StoreOK(st), NEW k \in Tasks(st), NEW d \in Tasks(st), k # d, NEW seen
    PROVE  Refiles(st, Fold(st, k, d, seen), k, d)
<1> DEFINE f == Fold(st, k, d, seen)
<1>1. FoldLeaves(st, f, k, d)
    BY FoldIs
<1> HIDE DEF f
<1>2. Refiles(st, f, k, d)
    BY ONLY <1>1 DEF FoldLeaves, Refiles
<1> QED
    BY <1>2 DEF f

-----------------------------------------------------------------------------
(* The folds of an import *)

\* What the two rows of a pair are, in a store on its way.
LEMMA TwinsAre ==
    ASSUME NEW st, StoreOK(st), Lined(st), NEW p \in Twins(st)
    PROVE  /\ p[1] \in Recurring(st) /\ p[2] \in Recurring(st) /\ p[1] # p[2]
           /\ p[1] \in Ids /\ p[2] \in Ids
           /\ st.row[p[1]].due = st.row[p[2]].due /\ st.row[p[1]].due # 0
           /\ st.row[p[1]].parent # None /\ st.row[p[2]].parent = st.row[p[1]].parent
<1>1. p \in Tasks(st) \X Tasks(st) /\ p[1] < p[2] /\ st.row[p[1]].parent # None
      /\ p[2] \in Slot(st, st.row[p[1]].parent, st.row[p[1]].due)
    BY DEF Twins
<1>2. p[1] \in Tasks(st) /\ p[2] \in Tasks(st) /\ p[1] # p[2]
    <2>1. p[1] \in Tasks(st) /\ p[2] \in Tasks(st)
        BY <1>1
    <2>2. p[1] \in Nat /\ p[2] \in Nat
        BY <2>1, IdsAre DEF Tasks
    <2> QED
        BY <1>1, <2>1, <2>2
<1>3. st.row[p[2]].parent = st.row[p[1]].parent /\ st.row[p[2]].due = st.row[p[1]].due
    BY <1>1 DEF Slot
<1>4. p[1] # Errand /\ p[2] # Errand
    BY <1>1, <1>3 DEF Lined, Rooted
<1>5. p[1] \in Ids /\ p[2] \in Ids /\ st.row[p[1]].due # 0
    <2>1. p[1] \in Ids /\ p[2] \in Ids
        BY <1>2 DEF Tasks
    <2> QED
        BY <1>2, <2>1, TaskDue
<1> QED
    BY <1>1, <1>2, <1>3, <1>4, <1>5 DEF Recurring

\* The survivor's log is what both stores have filed under the two rows.
LEMMA SurvivorsLog ==
    ASSUME NEW mine, NEW theirs, NEW n, Meet(mine, theirs, n), NEW st, Underway(mine, theirs, st),
           NEW p \in Twins(st)
    PROVE  LET f == Fold(st, p[1], p[2], theirs.log)
           IN  /\ CopyLog(f, p[1], theirs.log) =
                     CopyLog(st, p[1], theirs.log) \cup CopyLog(st, p[2], theirs.log)
               /\ \A t \in Ids \ {p[1], p[2]} : CopyLog(f, t, theirs.log) = CopyLog(st, t, theirs.log)
<1> DEFINE k == p[1]
           d == p[2]
           f == Fold(st, k, d, theirs.log)
<1>1. StoreOK(st) /\ Lined(st)
    BY DEF Underway
<1>2. /\ k \in Recurring(st) /\ d \in Recurring(st) /\ k # d /\ k \in Ids /\ d \in Ids
      /\ st.row[k].due = st.row[d].due /\ st.row[k].due # 0
    BY <1>1, TwinsAre
<1>3. k \in Tasks(st) /\ d \in Tasks(st)
    BY <1>2 DEF Recurring
<1>4. /\ StoreOK(f) /\ f.row[d] = NoRow
      /\ \A t \in Ids \ {d} : f.row[t].due = st.row[t].due
      /\ f.log = [st.log EXCEPT ![k] = st.log[k] \cup st.log[d], ![d] = {}]
    <2>1. Refiles(st, f, k, d)
        BY <1>1, <1>2, <1>3, FoldLog
    <2> HIDE DEF f, k, d
    <2> QED
        BY ONLY <2>1 DEF Refiles
<1> HIDE DEF f, k, d
<1>5. /\ f.log[k] = st.log[k] \cup st.log[d]
      /\ \A t \in Ids \ {k, d} : f.log[t] = st.log[t]
    <2>1. st.log = [t \in Ids |-> st.log[t]]
        BY <1>1 DEF StoreOK
    <2> QED
        BY <1>2, <1>4, <2>1
<1>6. theirs.log[d] \subseteq st.log[k] \cup st.log[d]
    <2> SUFFICES ASSUME NEW e \in theirs.log[d] PROVE e \in st.log[k] \cup st.log[d]
        OBVIOUS
    <2>1. PICK y \in Tasks(st) : e \in st.log[y] /\ Piece(st, y) = Piece(st, d)
        BY <1>3, FiledWith
    <2>2. y # Errand /\ st.row[y].due = st.row[d].due
        BY <1>2, <2>1 DEF Piece, Recurring
    <2>3. y \in Recurring(st)
        BY <2>1, <2>2 DEF Recurring
    <2>4. y = k \/ y = d
        <3>1. /\ Single(mine) /\ Single(theirs) /\ Tasks(st) \subseteq Tasks(mine) \cup Tasks(theirs)
              /\ Agree(st, mine) /\ Agree(st, theirs)
            BY DEF Meet, Underway
        <3> QED
            BY <1>2, <2>2, <2>3, <3>1, AtMostTwo
    <2> QED
        BY <2>1, <2>4
<1>7. CopyLog(f, k, theirs.log) = CopyLog(st, k, theirs.log) \cup CopyLog(st, d, theirs.log)
    BY <1>5, <1>6 DEF CopyLog
<1>8. \A t \in Ids \ {k, d} : CopyLog(f, t, theirs.log) = CopyLog(st, t, theirs.log)
    BY <1>5 DEF CopyLog
<1> QED
    BY <1>7, <1>8 DEF f, k, d

\* A fold of two rows leaves every row telling what is filed under its task.
LEMMA FoldUnderway ==
    ASSUME NEW mine, NEW theirs, NEW n, Meet(mine, theirs, n), NEW st, Underway(mine, theirs, st),
           NEW p \in Twins(st)
    PROVE  Underway(mine, theirs, Fold(st, p[1], p[2], theirs.log))
<1> DEFINE k == p[1]
           d == p[2]
           seen == theirs.log
           f == Fold(st, k, d, seen)
<1>1. /\ StoreOK(st) /\ Lined(st) /\ Tasks(st) \subseteq Tasks(mine) \cup Tasks(theirs)
      /\ Agree(st, mine) /\ Agree(st, theirs)
      /\ Known(st) = Known(mine) \cup Known(theirs)
      /\ Filed(mine, st) /\ Filed(theirs, st)
      /\ \A t \in Ids : st.log[t] # {} => t \in Tasks(st)
      /\ \A t \in Tasks(st) : AddAt(t) \in CopyLog(st, t, seen) /\ Tells(st.row[t], CopyLog(st, t, seen))
    BY DEF Underway
<1>2. /\ k \in Recurring(st) /\ d \in Recurring(st) /\ k # d /\ k \in Ids /\ d \in Ids
      /\ st.row[k].due = st.row[d].due /\ st.row[k].due # 0
    BY <1>1, TwinsAre
<1>3. k \in Tasks(st) /\ d \in Tasks(st) /\ k # Errand /\ d # Errand
    BY <1>2 DEF Recurring
<1>4. /\ StoreOK(f) /\ f.row[d] = NoRow
      /\ \A t \in Ids \ {d} : f.row[t].due = st.row[t].due
      /\ f.log = [st.log EXCEPT ![k] = st.log[k] \cup st.log[d], ![d] = {}]
    <2>1. Refiles(st, f, k, d)
        BY <1>1, <1>2, <1>3, FoldLog
    <2> HIDE DEF f, k, d
    <2> QED
        BY ONLY <2>1 DEF Refiles
<1>5. /\ Tasks(f) \subseteq Tasks(st) \ {d}
      /\ \A t \in Tasks(f) : f.row[t].due = st.row[t].due
      /\ Known(f) = Known(st) /\ Lined(f)
    BY <1>1, FoldOfTwins DEF Fewer
<1>6. /\ CopyLog(f, k, seen) = CopyLog(st, k, seen) \cup CopyLog(st, d, seen)
      /\ \A t \in Ids \ {k, d} : CopyLog(f, t, seen) = CopyLog(st, t, seen)
    BY SurvivorsLog
<1> DEFINE a == [row |-> st.row[k], log |-> CopyLog(st, k, seen)]
           b == [row |-> st.row[d], log |-> CopyLog(st, d, seen)]
<1>7. /\ SameWords(f.row[k], FoldedRow(a, b))
      /\ \A t \in Ids \ {k, d} : SameWords(f.row[t], st.row[t])
    BY <1>1, <1>2, <1>3, FoldMade
<1>8. /\ a.row = st.row[k] /\ a.log = CopyLog(st, k, seen)
      /\ b.row = st.row[d] /\ b.log = CopyLog(st, d, seen)
    OBVIOUS
<1> HIDE DEF f, k, d, a, b
<1>9. /\ f.log[k] = st.log[k] \cup st.log[d] /\ f.log[d] = {}
      /\ \A t \in Ids \ {k, d} : f.log[t] = st.log[t]
    <2>1. st.log = [t \in Ids |-> st.log[t]]
        BY <1>1 DEF StoreOK
    <2> QED
        BY <1>2, <1>4, <2>1
<1>10. Agree(f, mine) /\ Agree(f, theirs) /\ Tasks(f) \subseteq Tasks(mine) \cup Tasks(theirs)
    BY <1>1, <1>5 DEF Agree
<1>11. Known(f) = Known(mine) \cup Known(theirs)
    BY <1>1, <1>5
<1>12. \A t \in Ids : f.log[t] # {} => t \in Tasks(f)
    <2> SUFFICES ASSUME NEW t \in Ids, f.log[t] # {} PROVE t \in Tasks(f)
        OBVIOUS
    <2>1. t # d
        BY <1>9
    <2>2. t \in Tasks(st)
        BY <1>1, <1>3, <1>9, <2>1
    <2>3. st.row[t].due # 0 /\ f.row[t].due = st.row[t].due
        BY <1>1, <1>4, <2>1, <2>2, TaskDue
    <2> QED
        BY <1>4, <2>3, TaskDue
<1>13. ASSUME NEW o, Filed(o, st) PROVE Filed(o, f)
    <2> SUFFICES ASSUME NEW x \in Ids, NEW y \in Ids, NEW e \in o.log[x] \cap f.log[y]
                 PROVE  Piece(o, x) = Piece(f, y)
        BY DEF Filed
    <2>1. y # d
        BY <1>9
    <2>2. Piece(f, y) = Piece(st, y)
        BY <1>4, <2>1 DEF Piece
    <2>3. CASE y # k
        <3>1. e \in st.log[y]
            BY <1>9, <2>1, <2>3
        <3> QED
            BY <1>13, <2>2, <3>1 DEF Filed
    <2>4. CASE y = k
        <3>1. PICK z \in {k, d} : e \in st.log[z]
            BY <1>9, <2>4
        <3>2. Piece(o, x) = Piece(st, z)
            BY <1>2, <1>13, <3>1 DEF Filed
        <3>3. Piece(st, z) = Piece(st, k)
            BY <1>2, <1>3 DEF Piece
        <3> QED
            BY <2>2, <2>4, <3>2, <3>3
    <2> QED
        BY <2>3, <2>4
<1>14. AddAt(k) \in CopyLog(f, k, seen) /\ Tells(f.row[k], CopyLog(f, k, seen))
    <2>1. AddAt(k) \in a.log /\ AddAt(d) \in b.log /\ Tells(a.row, a.log) /\ Tells(b.row, b.log)
        BY <1>1, <1>3, <1>8
    <2>2. HoldAdds(a, b)
        <3>1. AddAt(k).op = "add" /\ AddAt(d).op = "add"
            BY DEF AddAt, Event
        <3> QED
            BY <2>1, <3>1 DEF HoldAdds
    <2>3. n \in Nat /\ LogOK(a.log \cup b.log, n)
        <3>1. LogOK(Known(mine) \cup Known(theirs), n) /\ n \in Nat
            BY DEF Meet
        <3>2. a.log \cup b.log \subseteq Known(st) \cup Known(theirs)
            BY <1>2, <1>8 DEF CopyLog, Known
        <3>3. a.log \cup b.log \subseteq Known(mine) \cup Known(theirs)
            BY <1>1, <3>2
        <3> QED
            BY <3>1, <3>3, PartOfLog
    <2>4. RowOK(a.row) /\ RowOK(b.row) /\ a.row.due # 0
        BY <1>1, <1>2, <1>8, TaskDue
    <2>5. Tells(FoldedRow(a, b), a.log \cup b.log)
        BY <2>1, <2>2, <2>3, <2>4, FoldedTells
    <2>6. Tells(f.row[k], a.log \cup b.log)
        BY <1>7, <2>5, TellsAsWell DEF SameWords
    <2> QED
        BY <1>6, <1>8, <2>1, <2>6
<1>15. ASSUME NEW t \in Tasks(f) PROVE AddAt(t) \in CopyLog(f, t, seen) /\ Tells(f.row[t], CopyLog(f, t, seen))
    <2>1. CASE t = k
        BY <1>14, <2>1
    <2>2. CASE t # k
        <3>1. t \in Tasks(st) /\ t \in Ids \ {k, d}
            BY <1>5, <2>2 DEF Tasks
        <3>2. CopyLog(f, t, seen) = CopyLog(st, t, seen)
            BY <1>6, <3>1
        <3>3. Tells(st.row[t], CopyLog(st, t, seen)) /\ SameWords(f.row[t], st.row[t])
            BY <1>1, <1>7, <3>1
        <3>4. Tells(f.row[t], CopyLog(st, t, seen))
            BY <3>3, TellsAsWell DEF SameWords
        <3> QED
            BY <1>1, <3>1, <3>2, <3>4
    <2> QED
        BY <2>1, <2>2
<1>16. Filed(mine, f) /\ Filed(theirs, f)
    BY <1>1, <1>13
<1>17. Underway(mine, theirs, f)
    BY <1>4, <1>5, <1>10, <1>11, <1>12, <1>15, <1>16 DEF Underway
<1> QED
    BY <1>17 DEF f, k, d

\* So do all of them.
LEMMA FoldedUnderway ==
    ASSUME NEW mine, NEW theirs, NEW n, Meet(mine, theirs, n), NEW st, Underway(mine, theirs, st)
    PROVE  Underway(mine, theirs, Folded(st, theirs.log))
<1> DEFINE seen == theirs.log
<1>1. PICK f : Chain(st, seen, MaxTask, f) /\ Folded(st, seen) = f[MaxTask]
    BY FoldedIs
<1>2. MaxTask \in Nat /\ MaxTask \in 0 .. MaxTask
    BY IdsAre
<1> DEFINE Bad == {m \in 0 .. MaxTask : ~Underway(mine, theirs, f[m])}
<1>3. ASSUME NEW m \in 0 .. MaxTask, Underway(mine, theirs, f[m - 1]), f[m] = FoldOnce(f[m - 1], seen)
      PROVE  Underway(mine, theirs, f[m])
    <2> DEFINE x == f[m - 1]
               y == f[m]
    <2>1. CASE Twins(x) = {}
        BY <1>3, <2>1 DEF FoldOnce
    <2>2. CASE Twins(x) # {}
        <3>1. NextPair(x) \in Twins(x)
            BY <1>3, <2>2, NextPairIs DEF Underway
        <3>2. PICK p \in Twins(x) : y = Fold(x, p[1], p[2], seen)
            BY <1>3, <2>2, <3>1 DEF FoldOnce
        <3>3. Underway(mine, theirs, x)
            BY <1>3
        <3> HIDE DEF x, y
        <3>4. Underway(mine, theirs, y)
            BY <3>2, <3>3, FoldUnderway
        <3> QED
            BY <3>4 DEF y
    <2> QED
        BY <2>1, <2>2
<1>4. Bad = {}
    <2>1. Bad \in SUBSET (0 .. MaxTask)
        OBVIOUS
    <2>2. f[0] = st => 0 \notin Bad
        OBVIOUS
    <2>3. \A m \in 0 .. MaxTask : m # 0 /\ m - 1 \notin Bad /\ f[m] = FoldOnce(f[m - 1], seen) => m \notin Bad
        <3> SUFFICES ASSUME NEW m \in 0 .. MaxTask, m # 0, m - 1 \notin Bad, f[m] = FoldOnce(f[m - 1], seen)
                     PROVE  m \notin Bad
            OBVIOUS
        <3>1. m - 1 \in 0 .. MaxTask
            BY <1>2
        <3> QED
            BY <1>3, <3>1
    <2> HIDE DEF Bad
    <2> QED
        BY <1>1, <2>1, <2>2, <2>3, FaultlessFolds
<1> QED
    BY <1>1, <1>2, <1>4

-----------------------------------------------------------------------------
(* What an import leaves of two stores whose rows tell their logs *)

\* An imported store's rows tell what it has filed itself: with one row for each
\* occurrence, nothing of the document is filed elsewhere.
LEMMA ImportedBooked ==
    ASSUME NEW mine, NEW theirs, NEW n, Meet(mine, theirs, n)
    PROVE  LET st == Imported(mine, theirs)
           IN  /\ Booked(st)
               /\ \A t \in Ids : \A e \in st.log[t] : \E o \in {mine, theirs}, y \in Ids :
                    e \in o.log[y] /\ Piece(o, y) = Piece(st, t)
<1> DEFINE u == Joined(mine, theirs)
           st == Imported(mine, theirs)
<1>1. st = Folded(u, theirs.log)
    BY DEF Imported, Joined
<1>2. Underway(mine, theirs, u)
    BY JoinedUnderway
<1> HIDE DEF u, st
<1>3. Underway(mine, theirs, st)
    BY <1>1, <1>2, FoldedUnderway
<1>4. Single(st)
    <2>1. StoreOK(mine) /\ StoreOK(theirs) /\ Lined(mine) /\ Lined(theirs) /\ Agree(mine, theirs)
        BY DEF Meet
    <2>2. /\ StoreOK(st)
          /\ Tasks(st) \subseteq Tasks(mine) \cup Tasks(theirs)
          /\ Known(st) = Known(mine) \cup Known(theirs)
          /\ \A t \in Ids : mine.row[t] = NoRow /\ theirs.row[t] = NoRow
                               /\ mine.log[t] = {} /\ theirs.log[t] = {}
                            => st.row[t] = NoRow /\ st.log[t] = {}
          /\ ~Refused(mine, theirs) => ~Cyclic(st.deps)
          /\ Lined(mine) /\ Lined(theirs) /\ Agree(mine, theirs) =>
               /\ Lined(st) /\ Single(st)
               /\ Agree(st, mine) /\ Agree(st, theirs)
        BY <2>1, ImportedIs DEF st
    <2> QED
        BY <2>1, <2>2
<1>5. /\ StoreOK(st) /\ Lined(st)
      /\ Known(st) = Known(mine) \cup Known(theirs)
      /\ Filed(mine, st) /\ Filed(theirs, st)
      /\ \A t \in Ids : st.log[t] # {} => t \in Tasks(st)
      /\ \A t \in Tasks(st) : AddAt(t) \in CopyLog(st, t, theirs.log) /\ Tells(st.row[t], CopyLog(st, t, theirs.log))
    BY <1>3 DEF Underway
<1>6. ASSUME NEW t \in Tasks(st) PROVE theirs.log[t] \subseteq st.log[t]
    <2> SUFFICES ASSUME NEW e \in theirs.log[t] PROVE e \in st.log[t]
        OBVIOUS
    <2>1. PICK y \in Tasks(st) : e \in st.log[y] /\ Piece(st, y) = Piece(st, t)
        BY <1>3, FiledWith
    <2>2. y \in Ids /\ t \in Ids /\ st.row[y].due # 0 /\ st.row[t].due # 0
        <3>1. y \in Ids /\ t \in Ids
            BY DEF Tasks
        <3> QED
            BY <1>5, <3>1, TaskDue
    <2>3. y = t
        <3>1. CASE t = Errand
            BY <2>1, <2>2, <3>1 DEF Piece
        <3>2. CASE t # Errand
            <4>1. y # Errand /\ st.row[y].due = st.row[t].due
                BY <2>1, <2>2, <3>2 DEF Piece
            <4>2. y \in Recurring(st) /\ t \in Recurring(st)
                BY <3>2, <4>1 DEF Recurring
            <4> QED
                BY <1>4, <4>1, <4>2 DEF Single
        <3> QED
            BY <3>1, <3>2
    <2> QED
        BY <2>1, <2>3
<1>7. \A t \in Tasks(st) : CopyLog(st, t, theirs.log) = st.log[t]
    BY <1>6 DEF CopyLog
<1>8. Booked(st)
    BY <1>5, <1>7 DEF Booked
<1>9. ASSUME NEW t \in Ids, NEW e \in st.log[t]
      PROVE  \E o \in {mine, theirs}, y \in Ids : e \in o.log[y] /\ Piece(o, y) = Piece(st, t)
    <2>1. e \in Known(mine) \cup Known(theirs)
        BY <1>5, <1>9 DEF Known
    <2>2. PICK o \in {mine, theirs}, y \in Ids : e \in o.log[y]
        BY <2>1 DEF Known
    <2>3. Piece(o, y) = Piece(st, t)
        BY <1>5, <1>9, <2>2 DEF Filed
    <2> QED
        BY <2>2, <2>3
<1> QED
    BY <1>8, <1>9 DEF st

\* Where both stores file an event as another does, so does the import.
LEMMA ImportedFiled ==
    ASSUME NEW mine, NEW theirs, NEW st,
           \A t \in Ids : \A e \in st.log[t] : \E o \in {mine, theirs}, y \in Ids :
                e \in o.log[y] /\ Piece(o, y) = Piece(st, t),
           NEW b, Filed(mine, b), Filed(theirs, b)
    PROVE  Filed(st, b)
BY DEF Filed

\* The two ways to say so are one.
LEMMA FiledAsWell ==
    ASSUME NEW a, NEW b, Filed(a, b)
    PROVE  Filed(b, a)
BY DEF Filed

-----------------------------------------------------------------------------
(* The rows and the events the edits write *)

\* What the edits write over a row, and what they leave.
LEMMA StartedFields ==
    ASSUME NEW r, RowOK(r), NEW s, NEW i
    PROVE  LET q == RowStarted(r, s, i)
           IN  q.since = i /\ q.completed = r.completed /\ q.tracked = r.tracked /\ q.adj = r.adj
<1> DEFINE q == RowStarted(r, s, i)
<1>1. q = [r EXCEPT !.status = s, !.since = i]
    BY DEF RowStarted
<1> HIDE DEF q
<1>2. q = RowWith(r.parent, r.due, s, i, r.completed, r.tracked, r.adj, r.modified)
    BY <1>1 DEF RowOK, RowWith
<1> QED
    BY <1>2, FieldsOf DEF q

\* What a stop writes, field by field.
LEMMA StoppedFields ==
    ASSUME NEW r, RowOK(r), NEW s, NEW i, NEW n
    PROVE  LET q == RowStopped(r, s, i, n)
           IN  q.since = i /\ q.completed = r.completed /\ q.tracked = n /\ q.adj = r.adj
<1> DEFINE q == RowStopped(r, s, i, n)
<1>1. q = [r EXCEPT !.status = s, !.since = i, !.tracked = n]
    BY DEF RowStopped
<1> HIDE DEF q
<1>2. q = RowWith(r.parent, r.due, s, i, r.completed, n, r.adj, r.modified)
    BY <1>1 DEF RowOK, RowWith
<1> QED
    BY <1>2, FieldsOf DEF q

\* What a close writes, field by field.
LEMMA ClosedFields ==
    ASSUME NEW r, RowOK(r), NEW s, NEW i, NEW c, NEW n
    PROVE  LET q == RowClosed(r, s, i, c, n)
           IN  q.since = i /\ q.completed = c /\ q.tracked = n /\ q.adj = r.adj
<1> DEFINE q == RowClosed(r, s, i, c, n)
<1>1. q = [r EXCEPT !.status = s, !.since = i, !.completed = c, !.tracked = n]
    BY DEF RowClosed
<1> HIDE DEF q
<1>2. q = RowWith(r.parent, r.due, s, i, c, n, r.adj, r.modified)
    BY <1>1 DEF RowOK, RowWith
<1> QED
    BY <1>2, FieldsOf DEF q

\* What a reopen writes, field by field.
LEMMA ReopenedFields ==
    ASSUME NEW r, RowOK(r), NEW s, NEW c
    PROVE  LET q == RowReopened(r, s, c)
           IN  q.since = r.since /\ q.completed = c /\ q.tracked = r.tracked /\ q.adj = r.adj
<1> DEFINE q == RowReopened(r, s, c)
<1>1. q = [r EXCEPT !.status = s, !.completed = c]
    BY DEF RowReopened
<1> HIDE DEF q
<1>2. q = RowWith(r.parent, r.due, s, r.since, c, r.tracked, r.adj, r.modified)
    BY <1>1 DEF RowOK, RowWith
<1> QED
    BY <1>2, FieldsOf DEF q

\* What a correction writes, field by field.
LEMMA AdjustedFields ==
    ASSUME NEW r, RowOK(r), NEW n, NEW j
    PROVE  LET q == RowAdjusted(r, n, j)
           IN  q.since = r.since /\ q.completed = r.completed /\ q.tracked = n /\ q.adj = j
<1> DEFINE q == RowAdjusted(r, n, j)
<1>1. q = [r EXCEPT !.tracked = n, !.adj = j]
    BY DEF RowAdjusted
<1> HIDE DEF q
<1>2. q = RowWith(r.parent, r.due, r.status, r.since, r.completed, n, j, r.modified)
    BY <1>1 DEF RowOK, RowWith
<1> QED
    BY <1>2, FieldsOf DEF q

\* What a stamp leaves, field by field.
LEMMA StampedFields ==
    ASSUME NEW r, RowOK(r), NEW m
    PROVE  LET q == RowStamped(r, m)
           IN  /\ q.status = r.status /\ q.since = r.since /\ q.completed = r.completed
               /\ q.tracked = r.tracked /\ q.adj = r.adj /\ q.modified = m
<1> DEFINE q == RowStamped(r, m)
<1>1. q = [r EXCEPT !.modified = m]
    BY DEF RowStamped
<1> HIDE DEF q
<1>2. q = RowWith(r.parent, r.due, r.status, r.since, r.completed, r.tracked, r.adj, m)
    BY <1>1 DEF RowOK, RowWith
<1> QED
    BY <1>2, FieldsOf DEF q

\* A call's event, and the add's of a task made at that instant.
LEMMA LoggedIs ==
    ASSUME now \in Nat, now >= 3
    PROVE  /\ LET e == [Logged("start") EXCEPT !.since = now]
              IN  EventOK(e) /\ e.at = now /\ e.id = 2 * now /\ e.op = "start"
           /\ \A i \in Nat : i < now =>
                LET e == [Logged("stop") EXCEPT !.since = i, !.secs = Secs(i, now)]
                IN  EventOK(e) /\ e.at = now /\ e.id = 2 * now /\ e.op = "stop" /\ e.since = i
           /\ \A i \in Nat : i < now =>
                LET e == [Logged("done") EXCEPT !.since = i]
                IN  EventOK(e) /\ e.at = now /\ e.id = 2 * now /\ e.op = "done" /\ e.since = i
           /\ LET e == [Logged("adjust_tracked") EXCEPT !.delta = 1]
              IN  EventOK(e) /\ e.at = now /\ e.id = 2 * now /\ e.op = "adjust_tracked"
           /\ \A op \in {"reopen", "dependency.add"} :
                LET e == Logged(op)
                IN  EventOK(e) /\ e.at = now /\ e.id = 2 * now /\ e.op = op /\ e.since = 0
           /\ LET e == Logged("undo") IN e.op = "undo"
BY DEF Logged, Event, EventOK, PlainOps, Closing

\* The event of an add.
LEMMA AddIs ==
    ASSUME NEW t \in Nat
    PROVE  LET e == AddAt(t)
           IN  EventOK(e) /\ e.at = t /\ e.id = 2 * t + 1 /\ e.op = "add"
BY DEF AddAt, Event, EventOK, PlainOps, Closing

-----------------------------------------------------------------------------
(* What an edit records *)

\* Only new events come, each under one task, and rows tell them.
Recorded(st, after) ==
    /\ \A t \in Ids : st.log[t] \subseteq after.log[t]
    /\ \E N : /\ IsFiniteSet(N) /\ \A e \in N : EventOK(e) /\ e.at = now
              /\ \A e, f \in N : e.id = f.id => e = f
              /\ \A t \in Ids : after.log[t] \subseteq st.log[t] \cup N
              /\ \A x, y \in Ids : \A e \in N : e \in after.log[x] /\ e \in after.log[y] => x = y
    /\ Booked(after)

\* A store's logs before an edit.
Kempt(st) == Held(st, now) /\ Booked(st) /\ LogOK(Known(st), now) /\ now \in Nat /\ now >= 3

\* The row an edit writes, stamped.
LEMMA EditedRow ==
    ASSUME NEW st, StoreOK(st), NEW t \in Tasks(st), NEW row, RowOK(row), row.due # 0, NEW e
    PROVE  LET q == Edited(st, t, row, e)
           IN  /\ q.row[t] = RowStamped(row, now) /\ RowOK(q.row[t]) /\ q.row[t].due # 0
               /\ t \in Ids
<1> DEFINE q == Edited(st, t, row, e)
           r == RowStamped(row, now)
<1>1. RowOK(r) /\ r.due = row.due /\ r.parent = row.parent /\ r.status = row.status
    BY RowStampedIs
<1>2. q = Put(st, t, r, st.log[t] \cup {e}) /\ t \in Ids
    BY DEF Edited, Tasks, Put, RowStamped
<1> HIDE DEF q, r
<1>3. /\ StoreOK(q) /\ q.deps = st.deps
      /\ \A u \in Ids : /\ q.row[u] = IF u = t THEN r ELSE st.row[u]
                        /\ q.log[u] = IF u = t THEN st.log[t] \cup {e} ELSE st.log[u]
    BY <1>1, <1>2, StorePut
<1> QED
    BY <1>1, <1>2, <1>3 DEF q, r

\* What a task's log is, before an edit.
LEMMA KemptLog ==
    ASSUME NEW st, Kempt(st), NEW t \in Tasks(st)
    PROVE  LET L == st.log[t]
           IN  /\ t \in Ids /\ LogOK(L, now) /\ Says(L) # {} /\ Tells(st.row[t], L)
               /\ RowOK(st.row[t]) /\ st.row[t].due # 0
<1> DEFINE L == st.log[t]
<1>1. t \in Ids /\ RowOK(st.row[t]) /\ st.row[t].due # 0
    BY TaskRow DEF Kempt
<1>2. LogOK(L, now)
    <2>1. L \subseteq Known(st)
        BY <1>1 DEF Known
    <2> QED
        BY <2>1, PartOfLog DEF Kempt
<1>3. AddAt(t) \in L /\ Tells(st.row[t], L)
    BY DEF Kempt, Booked
<1>4. AddAt(t).op = "add"
    BY DEF AddAt, Event
<1>5. Says(L) # {}
    BY <1>2, <1>3, <1>4, SaysIs
<1> QED
    BY <1>1, <1>2, <1>3, <1>5

\* An edit of one task records its event.
LEMMA EditRecords ==
    ASSUME NEW st, Kempt(st), NEW t \in Tasks(st), NEW row, RowOK(row), row.due # 0,
           NEW e, EventOK(e), e.at = now, Tells(RowStamped(row, now), st.log[t] \cup {e})
    PROVE  Recorded(st, Edited(st, t, row, e))
<1> DEFINE q == Edited(st, t, row, e)
<1>1. StoreOK(st) /\ now \in Nat /\ Booked(st) /\ t \in Ids
    BY DEF Kempt, Held, Tasks
<1>2. /\ StoreOK(q) /\ q.deps = st.deps
      /\ \A u \in Ids \ {t} : q.row[u] = st.row[u] /\ q.log[u] = st.log[u]
      /\ q.row[t].due = row.due /\ q.row[t].parent = row.parent /\ q.row[t].status = row.status
      /\ q.log[t] = st.log[t] \cup {e}
    BY <1>1, EditedIs
<1>3. /\ q.row[t] = RowStamped(row, now) /\ RowOK(q.row[t]) /\ q.row[t].due # 0
      /\ t \in Ids
    BY <1>1, EditedRow
<1> HIDE DEF q
<1>4. Tasks(q) = Tasks(st)
    <2>1. t \in Tasks(q)
        BY <1>2, <1>3, TaskDue
    <2> QED
        BY <1>2, <2>1 DEF Tasks
<1>5. \A u \in Ids : st.log[u] \subseteq q.log[u] /\ q.log[u] \subseteq st.log[u] \cup {e}
    BY <1>2
<1>6. IsFiniteSet({e})
    BY FS_Singleton, Zenon
<1>7. e \notin Known(st)
    BY <1>1 DEF Kempt, LogOK
<1>8. \A x \in Ids : e \in q.log[x] => x = t
    BY <1>2, <1>7 DEF Known
<1>9. Booked(q)
    <2>1. \A u \in Ids : q.log[u] # {} => u \in Tasks(q)
        BY <1>1, <1>2, <1>4 DEF Booked
    <2>2. ASSUME NEW u \in Tasks(q) PROVE AddAt(u) \in q.log[u] /\ Tells(q.row[u], q.log[u])
        <3>1. u \in Tasks(st) /\ u \in Ids
            BY <1>4 DEF Tasks
        <3>2. AddAt(u) \in st.log[u] /\ Tells(st.row[u], st.log[u])
            BY <1>1, <3>1 DEF Booked
        <3>3. CASE u = t
            BY <1>2, <1>3, <3>2, <3>3
        <3>4. CASE u # t
            BY <1>2, <3>1, <3>2, <3>4
        <3> QED
            BY <3>3, <3>4
    <2> QED
        BY <2>1, <2>2 DEF Booked
<1>10. \E N : /\ IsFiniteSet(N) /\ \A f \in N : EventOK(f) /\ f.at = now
              /\ \A f, g \in N : f.id = g.id => f = g
              /\ \A u \in Ids : q.log[u] \subseteq st.log[u] \cup N
              /\ \A x, y \in Ids : \A f \in N : f \in q.log[x] /\ f \in q.log[y] => x = y
    <2> WITNESS {e}
    <2> QED
        BY <1>5, <1>6, <1>8
<1> QED
    BY <1>5, <1>9, <1>10 DEF Recorded, q

\* So does an edit that adds an edge besides.
LEMMA EdgesRecord ==
    ASSUME NEW st, NEW x, Recorded(st, x), NEW q, q.log = x.log, q.row = x.row
    PROVE  Recorded(st, q)
<1>1. Tasks(q) = Tasks(x)
    BY DEF Tasks
<1> QED
    BY <1>1 DEF Recorded, Booked

\* And one that makes a task, with the event of its add.
LEMMA SpawnRecords ==
    ASSUME NEW st, Kempt(st), scene \in Scenes, now < 3 + scene.most,
           NEW t \in Tasks(st), NEW row, RowOK(row), row.due # 0,
           NEW e, EventOK(e), e.at = now, e.id = 2 * now,
           Tells(RowStamped(row, now), st.log[t] \cup {e}), NEW due \in Nat, due # 0
    PROVE  Recorded(st, Put(Edited(st, t, row, e), now, NewRow(t, due, now), {AddAt(now)}))
<1> DEFINE x == Edited(st, t, row, e)
           a == AddAt(now)
           r == NewRow(t, due, now)
           q == Put(x, now, r, {a})
<1>1. StoreOK(st) /\ now \in Nat /\ now >= 3 /\ Booked(st) /\ Held(st, now) /\ t \in Ids /\ t \in Nat
    <2>1. t \in Ids
        BY DEF Tasks
    <2> QED
        BY <2>1, IdsAre DEF Kempt, Held
<1>2. /\ now \in Ids /\ now \notin Tasks(st) /\ now \notin {Series, Errand, None}
      /\ st.row[now] = NoRow /\ st.log[now] = {} /\ now # t
    BY <1>1, FreshId
<1>3. EventOK(a) /\ a.at = now /\ a.id = 2 * now + 1 /\ a.op = "add"
    BY <1>1, AddIs
<1>4. /\ StoreOK(x) /\ x.deps = st.deps
      /\ \A u \in Ids \ {t} : x.row[u] = st.row[u] /\ x.log[u] = st.log[u]
      /\ x.row[t].due = row.due /\ x.row[t].parent = row.parent /\ x.row[t].status = row.status
      /\ x.log[t] = st.log[t] \cup {e}
    BY <1>1, EditedIs
<1>5. Recorded(st, x)
    BY EditRecords
<1>6. RowOK(r) /\ r # NoRow /\ r.parent = t /\ r.due = due /\ r.status = "pending"
    BY <1>1, NewRowIs
<1>7. Tells(r, {a})
    <2>1. r.status = "pending" /\ r.since = 0 /\ r.completed = 0 /\ r.tracked = 0 /\ r.adj = 0 /\ r.modified \in Nat
        BY <1>1 DEF NewRow
    <2> HIDE DEF r, a
    <2> QED
        BY <1>3, <2>1, AddTells
<1> HIDE DEF x, r, a
<1>8. /\ StoreOK(q) /\ q.deps = x.deps
      /\ \A u \in Ids : /\ q.row[u] = IF u = now THEN r ELSE x.row[u]
                        /\ q.log[u] = IF u = now THEN {a} ELSE x.log[u]
    BY <1>2, <1>4, <1>6, StorePut
<1> HIDE DEF q
<1>9. x.log[now] = {}
    BY <1>2, <1>4
<1>10. \A u \in Ids : st.log[u] \subseteq q.log[u]
    BY <1>5, <1>8, <1>9 DEF Recorded
<1>11. \A u \in Ids : q.log[u] \subseteq st.log[u] \cup {e, a}
    BY <1>4, <1>8
<1>12. e \notin Known(st) /\ a \notin Known(st) /\ e # a /\ e.id # a.id
    <2>1. e.id # a.id
        BY <1>1, <1>3
    <2> QED
        BY <1>1, <1>3, <2>1 DEF Kempt, LogOK
<1>13. \A u \in Ids : (e \in q.log[u] => u = t) /\ (a \in q.log[u] => u = now)
    BY <1>4, <1>8, <1>12 DEF Known
<1>14. IsFiniteSet({e, a})
    <2>1. IsFiniteSet({e})
        BY FS_Singleton, Zenon
    <2>2. IsFiniteSet({e} \cup {a})
        BY <2>1, FS_AddElement, Zenon
    <2>3. {e} \cup {a} = {e, a}
        OBVIOUS
    <2> QED
        BY <2>2, <2>3
<1>15. Booked(q)
    <2>1. Tasks(q) = Tasks(x) \cup {now}
        BY <1>2, <1>6, <1>8 DEF Tasks
    <2>2. \A u \in Ids : q.log[u] # {} => u \in Tasks(q)
        BY <1>5, <1>8, <2>1 DEF Recorded, Booked
    <2>3. ASSUME NEW u \in Tasks(q) PROVE AddAt(u) \in q.log[u] /\ Tells(q.row[u], q.log[u])
        <3>1. u \in Ids
            BY DEF Tasks
        <3>2. CASE u = now
            BY <1>7, <1>8, <3>1, <3>2 DEF a
        <3>3. CASE u # now
            <4>1. u \in Tasks(x)
                BY <2>1, <3>3
            <4>2. AddAt(u) \in x.log[u] /\ Tells(x.row[u], x.log[u])
                BY <1>5, <4>1 DEF Recorded, Booked
            <4> QED
                BY <1>8, <3>1, <3>3, <4>2
        <3> QED
            BY <3>2, <3>3
    <2> QED
        BY <2>2, <2>3 DEF Booked
<1>16. \E N : /\ IsFiniteSet(N) /\ \A f \in N : EventOK(f) /\ f.at = now
              /\ \A f, g \in N : f.id = g.id => f = g
              /\ \A u \in Ids : q.log[u] \subseteq st.log[u] \cup N
              /\ \A y, z \in Ids : \A f \in N : f \in q.log[y] /\ f \in q.log[z] => y = z
    <2> WITNESS {e, a}
    <2> QED
        BY <1>3, <1>11, <1>12, <1>13, <1>14
<1> QED
    BY <1>10, <1>15, <1>16 DEF Recorded, q, x, r, a

-----------------------------------------------------------------------------
(* What each call records *)

\* A start.
LEMMA StartRecords ==
    ASSUME NEW s, NEW st, Kempt(st), NEW t \in Tasks(st), Start(s, st, t)
    PROVE  \E after, done : Edit(s, after, done) /\ Recorded(st, after)
<1> DEFINE r == st.row[t]
           L == st.log[t]
           row == RowStarted(r, "active", now)
           e == [Logged("start") EXCEPT !.since = now]
           q == RowStamped(row, now)
<1>1. Edit(s, Edited(st, t, row, e), NoDone) /\ r.status = "pending"
    BY DEF Start, RowStarted
<1>2. now \in Nat /\ now >= 3
    BY DEF Kempt
<1>3. EventOK(e) /\ e.at = now /\ e.id = 2 * now /\ e.op = "start"
    BY <1>2, LoggedIs
<1>4. t \in Ids /\ LogOK(L, now) /\ Says(L) # {} /\ Tells(r, L) /\ RowOK(r) /\ r.due # 0
    BY KemptLog
<1> HIDE DEF e, r, L
<1>5. RowOK(row) /\ row.due = r.due /\ row.parent = r.parent /\ row.status = "active"
    BY <1>4, RowStartedIs
<1>6. row.since = now /\ row.completed = r.completed /\ row.tracked = r.tracked /\ row.adj = r.adj
    BY <1>4, StartedFields
<1> HIDE DEF row
<1>7. /\ q.status = row.status /\ q.since = row.since /\ q.completed = row.completed
      /\ q.tracked = row.tracked /\ q.adj = row.adj /\ q.modified = now
    BY <1>5, StampedFields
<1> HIDE DEF q
<1>8. Tells(q, L \cup {e})
    BY <1>1, <1>2, <1>3, <1>4, <1>5, <1>6, <1>7, StartTells
<1>9. Recorded(st, Edited(st, t, row, e))
    BY <1>3, <1>4, <1>5, <1>8, EditRecords DEF q, L
<1> QED
    BY <1>1, <1>9

\* The clock that a close closes started before now.
LEMMA ClockIs ==
    ASSUME NEW st, Kempt(st), NEW t \in Tasks(st)
    PROVE  LET r == st.row[t]
           IN  /\ r.status = "active" => r.since \in Nat /\ r.since < now /\ Running(r) = r.since
                                         /\ Elapsed(r) = Secs(r.since, now)
               /\ r.status # "active" => Running(r) = 0 /\ Elapsed(r) = 0 /\ r.since = 0
               /\ r.tracked \in Nat /\ r.adj \in Nat
<1> DEFINE r == st.row[t]
           L == st.log[t]
           w == Last(Says(L))
<1>1. LogOK(L, now) /\ Says(L) # {} /\ Tells(r, L) /\ now \in Nat
    BY KemptLog DEF Kempt
<1> HIDE DEF r, L
<1>2. /\ w \in Says(L) /\ w \in L
      /\ r.status = "active" <=> w.op = "start"
      /\ w.op = "start" => r.since = w.since /\ r.completed = 0 /\ Running(r) = w.since
      /\ w.op # "start" => r.since = 0 /\ Running(r) = 0
      /\ r.status = "pending" => r.completed = 0
    BY <1>1, LastWordIs
<1> HIDE DEF w
<1>3. EventOK(w) /\ w.at < now
    BY <1>1, <1>2 DEF LogOK
<1>4. r.status = "active" => r.since \in Nat /\ r.since < now /\ Running(r) = r.since /\ Elapsed(r) = Secs(r.since, now)
    BY <1>2, <1>3 DEF EventOK, Elapsed
<1>5. r.status # "active" => Running(r) = 0 /\ Elapsed(r) = 0 /\ r.since = 0
    BY <1>2 DEF Elapsed
<1>6. r.tracked \in Nat /\ r.adj \in Nat
    <2> DEFINE k == Running(r)
    <2>1. /\ Tracked(L, k) = Intervals(Closes(L)) + Adjusted(L) + Left(L, k)
          /\ Intervals(Closes(L)) \in Nat /\ Adjusted(L) \in Nat /\ Left(L, k) \in Nat
        BY <1>1, TrackedIs
    <2>2. r.tracked = Tracked(L, k) /\ r.adj = Adjusted(L)
        BY <1>1 DEF Tells
    <2> HIDE DEF k
    <2> QED
        BY <2>1, <2>2
<1> QED
    BY <1>4, <1>5, <1>6 DEF r

\* A stop banks the interval its event records.
LEMMA StopRecords ==
    ASSUME NEW s, NEW st, Kempt(st), NEW t \in Tasks(st), Stop(s, st, t)
    PROVE  \E after, done : Edit(s, after, done) /\ Recorded(st, after)
<1> DEFINE r == st.row[t]
           L == st.log[t]
           n == r.tracked + Elapsed(r)
           row == RowStopped(r, "pending", 0, n)
           e == [Logged("stop") EXCEPT !.since = r.since, !.secs = Elapsed(r)]
           q == RowStamped(row, now)
<1>1. Edit(s, Edited(st, t, row, e), NoDone) /\ r.status = "active"
    BY DEF Stop, RowStopped
<1>2. now \in Nat /\ now >= 3
    BY DEF Kempt
<1>3. r.since \in Nat /\ r.since < now /\ Elapsed(r) = Secs(r.since, now)
    BY <1>1, ClockIs
<1>4. EventOK(e) /\ e.at = now /\ e.id = 2 * now /\ e.op = "stop" /\ e.since = r.since
    <2> DEFINE i == r.since
    <2>1. e = [Logged("stop") EXCEPT !.since = i, !.secs = Secs(i, now)] /\ i \in Nat /\ i < now
        BY <1>3
    <2> HIDE DEF i, e
    <2>2. EventOK(e) /\ e.at = now /\ e.id = 2 * now /\ e.op = "stop" /\ e.since = i
        BY <1>2, <2>1, LoggedIs
    <2> QED
        BY <2>2 DEF i
<1>5. t \in Ids /\ LogOK(L, now) /\ Says(L) # {} /\ Tells(r, L) /\ RowOK(r) /\ r.due # 0
    BY KemptLog
<1>6. n = r.tracked + Secs(r.since, now)
    BY <1>3
<1> HIDE DEF e, r, L, n
<1>7. RowOK(row) /\ row.due = r.due /\ row.parent = r.parent /\ row.status = "pending"
    BY <1>5, RowStoppedIs
<1>8. row.since = 0 /\ row.completed = r.completed /\ row.tracked = n /\ row.adj = r.adj
    BY <1>5, StoppedFields
<1> HIDE DEF row
<1>9. /\ q.status = row.status /\ q.since = row.since /\ q.completed = row.completed
      /\ q.tracked = row.tracked /\ q.adj = row.adj /\ q.modified = now
    BY <1>7, StampedFields
<1> HIDE DEF q
<1>10. r.completed = 0
    <2> DEFINE w == Last(Says(L))
    <2>1. /\ w \in Says(L) /\ w \in L
          /\ r.status = "active" <=> w.op = "start"
          /\ w.op = "start" => r.since = w.since /\ r.completed = 0 /\ Running(r) = w.since
          /\ w.op # "start" => r.since = 0 /\ Running(r) = 0
          /\ r.status = "pending" => r.completed = 0
        BY <1>2, <1>5, LastWordIs
    <2> HIDE DEF w
    <2> QED
        BY <1>1, <2>1
<1>11. Value(q, "status") = Told(e)
    BY <1>4, <1>7, <1>8, <1>9, <1>10 DEF Value, Told
<1>12. Tells(q, L \cup {e})
    BY <1>1, <1>2, <1>4, <1>5, <1>6, <1>8, <1>9, <1>11, CloseTells
<1>13. Recorded(st, Edited(st, t, row, e))
    BY <1>4, <1>5, <1>7, <1>12, EditRecords DEF q, L
<1> QED
    BY <1>1, <1>13

\* A reopen.
LEMMA ReopenRecords ==
    ASSUME NEW s, NEW st, Kempt(st), NEW t \in Tasks(st), Reopen(s, st, t)
    PROVE  \E after, done : Edit(s, after, done) /\ Recorded(st, after)
<1> DEFINE r == st.row[t]
           L == st.log[t]
           row == RowReopened(r, "pending", 0)
           e == Logged("reopen")
           q == RowStamped(row, now)
<1>1. Edit(s, Edited(st, t, row, e), NoDone) /\ r.status # "active"
    BY DEF Reopen, RowReopened, Open
<1>2. now \in Nat /\ now >= 3 /\ r.since = 0
    BY <1>1, ClockIs DEF Kempt
<1>3. EventOK(e) /\ e.at = now /\ e.id = 2 * now /\ e.op = "reopen" /\ e.since = 0
    BY <1>2, LoggedIs
<1>4. t \in Ids /\ LogOK(L, now) /\ Says(L) # {} /\ Tells(r, L) /\ RowOK(r) /\ r.due # 0
    BY KemptLog
<1> HIDE DEF e, r, L
<1>5. RowOK(row) /\ row.due = r.due /\ row.parent = r.parent /\ row.status = "pending"
    BY <1>4, RowReopenedIs
<1>6. row.since = r.since /\ row.completed = 0 /\ row.tracked = r.tracked /\ row.adj = r.adj
    BY <1>4, ReopenedFields
<1> HIDE DEF row
<1>7. /\ q.status = row.status /\ q.since = row.since /\ q.completed = row.completed
      /\ q.tracked = row.tracked /\ q.adj = row.adj /\ q.modified = now
    BY <1>5, StampedFields
<1> HIDE DEF q
<1>8. Value(q, "status") = Told(e)
    BY <1>2, <1>3, <1>5, <1>6, <1>7 DEF Value, Told
<1>9. Tells(q, L \cup {e})
    BY <1>1, <1>2, <1>3, <1>4, <1>6, <1>7, <1>8, WordTells
<1>10. Recorded(st, Edited(st, t, row, e))
    BY <1>3, <1>4, <1>5, <1>9, EditRecords DEF q, L
<1> QED
    BY <1>1, <1>10

\* A correction of the time.
LEMMA AdjustRecords ==
    ASSUME NEW s, NEW st, Kempt(st), NEW t \in Tasks(st), Adjust(s, st, t)
    PROVE  \E after, done : Edit(s, after, done) /\ Recorded(st, after)
<1> DEFINE r == st.row[t]
           L == st.log[t]
           n == r.tracked + 1
           j == r.adj + 1
           row == RowAdjusted(r, n, j)
           e == [Logged("adjust_tracked") EXCEPT !.delta = 1]
           q == RowStamped(row, now)
<1>1. Edit(s, Edited(st, t, row, e), NoDone)
    BY DEF Adjust, RowAdjusted
<1>2. now \in Nat /\ now >= 3
    BY DEF Kempt
<1>3. EventOK(e) /\ e.at = now /\ e.id = 2 * now /\ e.op = "adjust_tracked"
    BY <1>2, LoggedIs
<1>4. t \in Ids /\ LogOK(L, now) /\ Says(L) # {} /\ Tells(r, L) /\ RowOK(r) /\ r.due # 0
    BY KemptLog
<1>5. n = r.tracked + 1 /\ j = r.adj + 1
    OBVIOUS
<1> HIDE DEF e, r, L, n, j
<1>6. RowOK(row) /\ row.due = r.due /\ row.parent = r.parent /\ row.status = r.status
    BY <1>4, RowAdjustedIs
<1>7. row.since = r.since /\ row.completed = r.completed /\ row.tracked = n /\ row.adj = j
    BY <1>4, AdjustedFields
<1> HIDE DEF row
<1>8. /\ q.status = row.status /\ q.since = row.since /\ q.completed = row.completed
      /\ q.tracked = row.tracked /\ q.adj = row.adj /\ q.modified = now
    BY <1>6, StampedFields
<1> HIDE DEF q
<1>9. Tells(q, L \cup {e})
    BY <1>2, <1>3, <1>4, <1>5, <1>6, <1>7, <1>8, RestTells
<1>10. Recorded(st, Edited(st, t, row, e))
    BY <1>3, <1>4, <1>6, <1>9, EditRecords DEF q, L
<1> QED
    BY <1>1, <1>10

\* An edge.
LEMMA AddEdgeRecords ==
    ASSUME NEW s, NEW st, Kempt(st), NEW t \in Tasks(st), NEW d \in Tasks(st), AddEdge(s, st, t, d)
    PROVE  \E after, done : Edit(s, after, done) /\ Recorded(st, after)
<1> DEFINE r == st.row[t]
           L == st.log[t]
           e == Logged("dependency.add")
           q == RowStamped(r, now)
           x == Edited(st, t, r, e)
           D == st.deps \cup {<<t, d>>}
           y == PutEdges(x, D)
<1>1. now \in Nat /\ now >= 3 /\ StoreOK(st)
    BY DEF Kempt, Held
<1>2. t \in Ids /\ LogOK(L, now) /\ Says(L) # {} /\ Tells(r, L) /\ RowOK(r) /\ r.due # 0
    BY KemptLog
<1>3. EventOK(e) /\ e.at = now /\ e.id = 2 * now /\ e.op = "dependency.add" /\ e.since = 0
    BY <1>1, LoggedIs
<1>4. r.tracked = r.tracked + 0 /\ r.adj = r.adj + 0
    BY ClockIs
<1>5. x.deps = st.deps
    <2> HIDE DEF e
    <2>1. /\ StoreOK(x) /\ x.deps = st.deps
          /\ \A u \in Ids \ {t} : x.row[u] = st.row[u] /\ x.log[u] = st.log[u]
          /\ x.row[t].due = r.due /\ x.row[t].parent = r.parent /\ x.row[t].status = r.status
          /\ x.log[t] = st.log[t] \cup {e}
        BY <1>1, <1>2, EditedIs
    <2> HIDE DEF x
    <2> QED
        BY <2>1
<1>6. Edit(s, y, NoDone)
    <2>1. Edit(s, [x EXCEPT !.deps = x.deps \cup {<<t, d>>}], NoDone)
        BY DEF AddEdge
    <2> HIDE DEF x
    <2> QED
        BY <1>5, <2>1 DEF PutEdges
<1> HIDE DEF e, L, r
<1>7. /\ q.status = r.status /\ q.since = r.since /\ q.completed = r.completed
      /\ q.tracked = r.tracked /\ q.adj = r.adj /\ q.modified = now
    BY <1>2, StampedFields
<1> HIDE DEF q
<1>8. Tells(q, L \cup {e})
    <2>1. q.tracked = r.tracked + 0 /\ q.adj = r.adj + 0 /\ 0 = IF e.op = "adjust_tracked" THEN 1 ELSE 0
        BY <1>3, <1>4, <1>7
    <2> QED
        BY <1>1, <1>2, <1>3, <1>7, <2>1, RestTells
<1>9. Recorded(st, x)
    BY <1>2, <1>3, <1>8, EditRecords DEF q, L
<1>10. y.log = x.log /\ y.row = x.row
    <2>1. Pairs(D)
        BY <1>1 DEF StoreOK, Pairs
    <2>2. StoreOK(x)
        BY <1>1, <1>2, EditedIs
    <2> HIDE DEF D, x
    <2>3. StoreOK(y) /\ y.deps = D /\ y.log = x.log /\ y.row = x.row
        BY <2>1, <2>2, EdgePut
    <2> QED
        BY <2>3
<1> HIDE DEF x, y
<1>11. Recorded(st, y)
    BY <1>9, <1>10, EdgesRecord
<1> QED
    BY <1>6, <1>11

\* A completion, of a clock that runs or of none, and the task it may spawn.
LEMMA DoneRecords ==
    ASSUME NEW s, NEW st, Kempt(st), scene \in Scenes, NEW t \in Tasks(st), Done(s, st, t)
    PROVE  \E after, done : Edit(s, after, done) /\ Recorded(st, after)
<1> DEFINE r == st.row[t]
           L == st.log[t]
           n == r.tracked + Elapsed(r)
           i == Running(r)
           row == RowClosed(r, "done", 0, now, n)
           e == [Logged("done") EXCEPT !.since = i]
           x == Edited(st, t, row, e)
           due == r.due + 1
           y == Put(x, now, NewRow(t, due, now), {AddAt(now)})
           k == [t |-> t, spawn |-> None, before |-> r]
           l == [t |-> t, spawn |-> now, before |-> r]
           q == RowStamped(row, now)
<1>1. /\ r.status \in {"pending", "active"}
      /\ IF Spawns(st, t) THEN Edit(s, y, l) ELSE Edit(s, x, k)
    BY DEF Done, RowClosed, Put, Open
<1>2. now \in Nat /\ now >= 3
    BY DEF Kempt
<1>3. /\ r.status = "active" => r.since \in Nat /\ r.since < now /\ Running(r) = r.since
                                /\ Elapsed(r) = Secs(r.since, now)
      /\ r.status # "active" => Running(r) = 0 /\ Elapsed(r) = 0 /\ r.since = 0
      /\ r.tracked \in Nat /\ r.adj \in Nat
    BY ClockIs
<1>4. i \in Nat /\ i < now /\ i = Running(r)
    BY <1>2, <1>3
<1> HIDE DEF i
<1>5. EventOK(e) /\ e.at = now /\ e.id = 2 * now /\ e.op = "done" /\ e.since = i
    BY <1>2, <1>4, LoggedIs
<1>6. t \in Ids /\ LogOK(L, now) /\ Says(L) # {} /\ Tells(r, L) /\ RowOK(r) /\ r.due # 0
    BY KemptLog
<1>7. due \in Nat /\ due # 0
    BY <1>6 DEF RowOK
<1>8. n = r.tracked + Elapsed(r)
    OBVIOUS
<1> HIDE DEF e, r, L, n, due
<1>9. RowOK(row) /\ row.due = r.due /\ row.parent = r.parent /\ row.status = "done"
    BY <1>6, RowClosedIs
<1>10. row.since = 0 /\ row.completed = now /\ row.tracked = n /\ row.adj = r.adj
    BY <1>6, ClosedFields
<1> HIDE DEF row
<1>11. /\ q.status = row.status /\ q.since = row.since /\ q.completed = row.completed
       /\ q.tracked = row.tracked /\ q.adj = row.adj /\ q.modified = now
    BY <1>9, StampedFields
<1> HIDE DEF q
<1>12. Value(q, "status") = Told(e)
    BY <1>5, <1>9, <1>10, <1>11 DEF Value, Told
<1>13. Tells(q, L \cup {e})
    <2>1. CASE r.status = "active"
        <3>1. q.tracked = r.tracked + Secs(r.since, now) /\ e.since = r.since
            BY <1>3, <1>4, <1>5, <1>8, <1>10, <1>11, <2>1
        <3> QED
            BY <1>2, <1>5, <1>6, <1>10, <1>11, <1>12, <2>1, <3>1, CloseTells
    <2>2. CASE r.status # "active"
        <3>1. q.tracked = r.tracked /\ e.since = 0
            BY <1>3, <1>4, <1>5, <1>8, <1>10, <1>11, <2>2
        <3> QED
            BY <1>2, <1>5, <1>6, <1>10, <1>11, <1>12, <2>2, <3>1, WordTells
    <2> QED
        BY <2>1, <2>2
<1>14. RowOK(row) /\ row.due # 0 /\ Tells(RowStamped(row, now), st.log[t] \cup {e})
    BY <1>6, <1>9, <1>13 DEF q, L
<1>15. CASE Spawns(st, t)
    <2>1. Edit(s, y, l)
        BY <1>1, <1>15
    <2>2. now < 3 + scene.most
        BY <2>1 DEF Edit
    <2>3. Recorded(st, y)
        BY <1>5, <1>7, <1>14, <2>2, SpawnRecords
    <2> HIDE DEF y, l
    <2> QED
        BY <2>1, <2>3
<1>16. CASE ~Spawns(st, t)
    <2>1. Edit(s, x, k)
        BY <1>1, <1>16
    <2>2. Recorded(st, x)
        BY <1>5, <1>14, EditRecords
    <2> HIDE DEF x, k
    <2> QED
        BY <2>1, <2>2
<1> QED
    BY <1>15, <1>16

\* What an edit makes of the stores.
LEMMA EditMakes ==
    ASSUME LineInv, NEW s \in Stores, NEW after, NEW done, Edit(s, after, done)
    PROVE  /\ store'[s] = after /\ \A x \in Stores \ {s} : store'[x] = store[x]
           /\ now' = now + 1 /\ doc' = doc /\ scene' = scene
BY DEF Edit, LineInv

\* The event that an edit logs is in the log, with those that were there.
LEMMA EditedLogs ==
    ASSUME NEW st, StoreOK(st), NEW t \in Tasks(st), NEW row, NEW e
    PROVE  LET q == Edited(st, t, row, e)
           IN  /\ q = [row |-> q.row, log |-> q.log, deps |-> q.deps]
               /\ q.log = [u \in Ids |-> q.log[u]]
               /\ \A u \in Ids : q.log[u] = IF u = t THEN st.log[u] \cup {e} ELSE st.log[u]
               /\ e \in Known(q) /\ Known(st) \subseteq Known(q)
<1> DEFINE q == Edited(st, t, row, e)
           l == st.log[t] \cup {e}
           r == [row EXCEPT !.modified = now]
<1>1. q = [st EXCEPT !.row[t] = r, !.log[t] = l] /\ t \in Ids
    BY DEF Edited, Tasks
<1> HIDE DEF q, r, l
<1>2. q = [row |-> [st.row EXCEPT ![t] = r], log |-> [st.log EXCEPT ![t] = l], deps |-> st.deps]
    BY <1>1 DEF StoreOK
<1>3. q.log = [st.log EXCEPT ![t] = l] /\ q = [row |-> q.row, log |-> q.log, deps |-> q.deps]
    BY <1>2
<1>4. q.log = [u \in Ids |-> q.log[u]]
    BY <1>1, <1>3 DEF StoreOK
<1>5. \A u \in Ids : q.log[u] = IF u = t THEN st.log[u] \cup {e} ELSE st.log[u]
    BY <1>1, <1>3 DEF StoreOK, l
<1>6. e \in Known(q) /\ Known(st) \subseteq Known(q)
    <2>1. t \in Ids /\ e \in q.log[t] /\ \A u \in Ids : st.log[u] \subseteq q.log[u]
        <3>1. q.log[t] = l /\ \A u \in Ids \ {t} : q.log[u] = st.log[u]
            BY <1>1, <1>3 DEF StoreOK
        <3> QED
            BY <1>1, <3>1 DEF l
    <2>2. e \in Known(q)
        BY <2>1 DEF Known
    <2>3. Known(st) \subseteq Known(q)
        BY <2>1 DEF Known
    <2> QED
        BY <2>2, <2>3
<1> QED
    BY <1>3, <1>4, <1>5, <1>6 DEF q

\* An edit forgets no event.
LEMMA EditedKeeps ==
    ASSUME NEW st, StoreOK(st), NEW t \in Tasks(st), NEW row, NEW e
    PROVE  LET q == Edited(st, t, row, e)
           IN  q = [row |-> q.row, log |-> q.log, deps |-> q.deps] /\ Known(st) \subseteq Known(q)
<1> DEFINE q == Edited(st, t, row, e)
<1>1. /\ q = [row |-> q.row, log |-> q.log, deps |-> q.deps]
      /\ q.log = [u \in Ids |-> q.log[u]]
      /\ \A u \in Ids : q.log[u] = IF u = t THEN st.log[u] \cup {e} ELSE st.log[u]
      /\ e \in Known(q) /\ Known(st) \subseteq Known(q)
    BY EditedLogs
<1> HIDE DEF q
<1> QED
    BY <1>1 DEF q

\* A store in which a due is moved is not a plain one.
LEMMA MoveIsNotPlain ==
    ASSUME NEW s, NEW st, StoreOK(st), NEW t \in Tasks(st), Move(s, st, t)
    PROVE  \E after, done : Edit(s, after, done) /\ ~Plain(after)
<1> DEFINE e == [Logged("modify") EXCEPT !.cols = {"schedule"}]
           row == [st.row[t] EXCEPT !.due = @ + 1]
           q == Edited(st, t, row, e)
<1>1. Edit(s, q, NoDone)
    BY DEF Move
<1>2. e.op = "modify"
    BY DEF Logged, Event
<1> HIDE DEF e, row
<1>3. e \in Known(q)
    BY EditedLogs
<1> HIDE DEF q
<1>4. ~Plain(q)
    BY <1>2, <1>3 DEF Plain
<1> QED
    BY <1>1, <1>4

\* Nor is one in which a completion is taken back.
LEMMA UndoIsNotPlain ==
    ASSUME NEW s, NEW st, StoreOK(st), LastFits(last[s], st), UndoDone(s, st)
    PROVE  \E after, done : Edit(s, after, done) /\ ~Plain(after)
<1> DEFINE t == last[s].t
           before == last[s].before
           undone == {e \in st.log[t] : e.op = "done" /\ e.at = st.row[t].completed}
           row == [st.row[t] EXCEPT !.status = before.status, !.since = before.since,
                                    !.completed = 0, !.tracked = before.tracked]
           e == [Logged("undo") EXCEPT !.undone = Last(undone).id, !.of = "done",
                    !.since = Last(undone).since, !.secs = st.row[t].tracked - before.tracked]
           x == Edited(st, t, row, e)
           q == [x EXCEPT !.row[last[s].spawn] = NoRow]
<1>1. t # None /\ Edit(s, IF last[s].spawn = None THEN x ELSE q, NoDone)
    BY DEF UndoDone
<1>2. t \in Tasks(st)
    BY <1>1 DEF LastFits
<1>3. e.op = "undo"
    BY DEF Logged, Event
<1> HIDE DEF e, row, undone, before
<1>4. e \in Known(x)
    BY <1>2, EditedLogs
<1>5. q.log = x.log
    <2>1. x = [row |-> x.row, log |-> x.log, deps |-> x.deps] /\ Known(st) \subseteq Known(x)
        BY <1>2, EditedKeeps
    <2> HIDE DEF x
    <2> QED
        BY <2>1
<1> HIDE DEF x, q
<1>6. ~Plain(x) /\ ~Plain(q)
    BY <1>3, <1>4, <1>5 DEF Plain, Known
<1> QED
    BY <1>1, <1>6

\* No edit loses an event.
LEMMA UserEditGrows ==
    ASSUME LineInv, NEW s \in Stores, UserEdit(s, store[s])
    PROVE  Known(store[s]) \subseteq Known(store'[s])
<1> DEFINE st == store[s]
           Result == \E after, done : Edit(s, after, done) /\ Known(st) \subseteq Known(after)
           Simple(t) == \E row, e, done : Edit(s, Edited(st, t, row, e), done)
<1>1. Held(st, now) /\ LastFits(last[s], st) /\ StoreOK(st) /\ now \in Nat
    BY DEF LineInv, All, Held
<1>2. \/ UndoDone(s, st)
      \/ \E t \in Tasks(st) :
        \/ Start(s, st, t) \/ Stop(s, st, t) \/ Done(s, st, t) \/ Reopen(s, st, t)
        \/ Move(s, st, t) \/ Adjust(s, st, t) \/ \E d \in Tasks(st) : AddEdge(s, st, t, d)
    BY DEF UserEdit
<1> HIDE DEF st
<1>3. ASSUME NEW t \in Tasks(st), Simple(t) PROVE Result
    <2>1. PICK row, e, done : Edit(s, Edited(st, t, row, e), done)
        BY <1>3
    <2>2. Known(st) \subseteq Known(Edited(st, t, row, e))
        BY <1>1, EditedLogs
    <2> QED
        BY <2>1, <2>2
<1>4. ASSUME NEW t \in Tasks(st), Start(s, st, t) PROVE Result
    <2>1. Simple(t)
        BY <1>4 DEF Start
    <2> QED
        BY <1>3, <2>1
<1>5. ASSUME NEW t \in Tasks(st), Stop(s, st, t) PROVE Result
    <2>1. Simple(t)
        BY <1>5 DEF Stop
    <2> QED
        BY <1>3, <2>1
<1>6. ASSUME NEW t \in Tasks(st), Reopen(s, st, t) PROVE Result
    <2>1. Simple(t)
        BY <1>6 DEF Reopen
    <2> QED
        BY <1>3, <2>1
<1>7. ASSUME NEW t \in Tasks(st), Move(s, st, t) PROVE Result
    <2>1. Simple(t)
        BY <1>7 DEF Move
    <2> QED
        BY <1>3, <2>1
<1>8. ASSUME NEW t \in Tasks(st), Adjust(s, st, t) PROVE Result
    <2>1. Simple(t)
        BY <1>8 DEF Adjust
    <2> QED
        BY <1>3, <2>1
<1>9. ASSUME NEW t \in Tasks(st), NEW d \in Tasks(st), AddEdge(s, st, t, d) PROVE Result
    <2> DEFINE x == Edited(st, t, st.row[t], Logged("dependency.add"))
               y == [x EXCEPT !.deps = @ \cup {<<t, d>>}]
    <2>1. Edit(s, y, NoDone)
        BY <1>9 DEF AddEdge
    <2>2. x = [row |-> x.row, log |-> x.log, deps |-> x.deps] /\ Known(st) \subseteq Known(x)
        BY <1>1, EditedKeeps
    <2> HIDE DEF x
    <2>3. y.log = x.log
        BY <2>2
    <2> HIDE DEF y
    <2> QED
        BY <2>1, <2>2, <2>3 DEF Known
<1>10. ASSUME NEW t \in Tasks(st), Done(s, st, t) PROVE Result
    <2> DEFINE row == [st.row[t] EXCEPT !.status = "done", !.since = 0, !.completed = now,
                                        !.tracked = @ + Elapsed(st.row[t])]
               e == [Logged("done") EXCEPT !.since = Running(st.row[t])]
               x == Edited(st, t, row, e)
               r == NewRow(t, st.row[t].due + 1, now)
               q == Put(x, now, r, {AddAt(now)})
    <2>1. Simple(t) \/ \E done : Edit(s, q, done)
        BY <1>10 DEF Done, Put
    <2> HIDE DEF row, e, r
    <2>2. /\ x = [row |-> x.row, log |-> x.log, deps |-> x.deps]
          /\ x.log = [u \in Ids |-> x.log[u]]
          /\ \A u \in Ids : x.log[u] = IF u = t THEN st.log[u] \cup {e} ELSE st.log[u]
        BY <1>1, EditedLogs
    <2> HIDE DEF x
    <2>3. q.log = [x.log EXCEPT ![now] = {AddAt(now)}]
        BY <2>2 DEF Put
    <2> HIDE DEF q
    <2>4. \A u \in Ids : u # now => st.log[u] \subseteq q.log[u]
        BY <2>2, <2>3
    <2>5. \A u \in Ids : u = now => st.log[u] = {}
        BY <1>1 DEF Held
    <2>6. Known(st) \subseteq Known(q)
        BY <2>4, <2>5 DEF Known
    <2> QED
        BY <1>3, <2>1, <2>6
<1>11. ASSUME UndoDone(s, st) PROVE Result
    <2> DEFINE t == last[s].t
               before == last[s].before
               undone == {e \in st.log[t] : e.op = "done" /\ e.at = st.row[t].completed}
               row == [st.row[t] EXCEPT !.status = before.status, !.since = before.since,
                                        !.completed = 0, !.tracked = before.tracked]
               e == [Logged("undo") EXCEPT !.undone = Last(undone).id, !.of = "done",
                        !.since = Last(undone).since, !.secs = st.row[t].tracked - before.tracked]
               x == Edited(st, t, row, e)
               q == [x EXCEPT !.row[last[s].spawn] = NoRow]
    <2>1. t # None /\ (Edit(s, x, NoDone) \/ Edit(s, q, NoDone))
        BY <1>11 DEF UndoDone
    <2>2. t \in Tasks(st)
        BY <1>1, <2>1 DEF LastFits
    <2> HIDE DEF e, row, undone, before
    <2>3. x = [row |-> x.row, log |-> x.log, deps |-> x.deps] /\ Known(st) \subseteq Known(x)
        BY <1>1, <2>2, EditedKeeps
    <2> HIDE DEF x
    <2>4. q.log = x.log
        BY <2>3
    <2> HIDE DEF q
    <2>5. Known(st) \subseteq Known(q)
        BY <2>3, <2>4 DEF Known
    <2> QED
        BY <2>1, <2>3, <2>5
<1>12. Result
    <2> HIDE DEF Result, Simple
    <2> QED
        BY <1>2, <1>4, <1>5, <1>6, <1>7, <1>8, <1>9, <1>10, <1>11
<1>13. PICK after, done : Edit(s, after, done) /\ Known(st) \subseteq Known(after)
    BY <1>12
<1>14. store'[s] = after
    BY <1>13, EditMakes
<1> QED
    BY <1>13, <1>14 DEF st

\* An edit after which a store is plain records its events.
LEMMA UserEditRecords ==
    ASSUME LineInv, NEW s \in Stores, Booked(store[s]), LogOK(Known(store[s]), now), UserEdit(s, store[s]),
           Plain(store'[s])
    PROVE  Recorded(store[s], store'[s])
<1> DEFINE st == store[s]
<1>1. Held(st, now) /\ LastFits(last[s], st) /\ scene \in Scenes /\ now \in Nat /\ now >= 3
    BY DEF LineInv, All
<1>2. Kempt(st) /\ StoreOK(st)
    BY <1>1 DEF Kempt, Held
<1>3. \/ UndoDone(s, st)
      \/ \E t \in Tasks(st) :
        \/ Start(s, st, t) \/ Stop(s, st, t) \/ Done(s, st, t) \/ Reopen(s, st, t)
        \/ Move(s, st, t) \/ Adjust(s, st, t) \/ \E d \in Tasks(st) : AddEdge(s, st, t, d)
    BY DEF UserEdit
<1> DEFINE Result == \E after, done : Edit(s, after, done) /\ (Plain(after) => Recorded(st, after))
<1> HIDE DEF st
<1>4. \A t \in Tasks(st) : Start(s, st, t) => Result
    BY <1>2, StartRecords
<1>5. \A t \in Tasks(st) : Stop(s, st, t) => Result
    BY <1>2, StopRecords
<1>6. \A t \in Tasks(st) : Done(s, st, t) => Result
    BY <1>1, <1>2, DoneRecords
<1>7. \A t \in Tasks(st) : Reopen(s, st, t) => Result
    BY <1>2, ReopenRecords
<1>8. \A t \in Tasks(st) : Move(s, st, t) => Result
    BY <1>2, MoveIsNotPlain
<1>9. \A t \in Tasks(st) : Adjust(s, st, t) => Result
    BY <1>2, AdjustRecords
<1>10. \A t, d \in Tasks(st) : AddEdge(s, st, t, d) => Result
    BY <1>2, AddEdgeRecords
<1>11. UndoDone(s, st) => Result
    BY <1>1, <1>2, UndoIsNotPlain
<1>12. Result
    <2> HIDE DEF Result
    <2> QED
        BY <1>3, <1>4, <1>5, <1>6, <1>7, <1>8, <1>9, <1>10, <1>11
<1>13. PICK after, done : Edit(s, after, done) /\ (Plain(after) => Recorded(st, after))
    BY <1>12
<1>14. store'[s] = after
    BY <1>13, EditMakes
<1> QED
    BY <1>13, <1>14 DEF st

-----------------------------------------------------------------------------
(* The invariant of the logs *)

\* The stores whose events are filed where their rows are, and what they know.
Plains == {a \in All : Plain(a)}
Heard == UNION {Known(a) : a \in Plains}
\* Events are from before now, an id is one event's; every row tells what is
\* filed under its task; and an event is filed under one piece of work wherever.
LogInv ==
    /\ LogOK(Heard, now)
    /\ \A a \in Plains : Booked(a)
    /\ \A a, b \in Plains : Filed(a, b)

\* Events of one instant more.
LEMMA LogGrows ==
    ASSUME NEW n \in Nat, NEW L, LogOK(L, n), NEW N, IsFiniteSet(N), \A e \in N : EventOK(e) /\ e.at = n,
           \A e, f \in N : e.id = f.id => e = f
    PROVE  LogOK(L \cup N, n + 1) /\ L \cap N = {}
<1>1. IsFiniteSet(L \cup N)
    BY FS_Union DEF LogOK
<1>2. \A e \in L \cup N : EventOK(e) /\ e.at < n + 1
    BY DEF LogOK, EventOK
<1>3. ASSUME NEW e \in L, NEW f \in N PROVE e.id # f.id
    <2>1. EventOK(e) /\ EventOK(f) /\ e.at < f.at
        BY DEF LogOK
    <2>2. e.id < f.id
        BY <2>1, Sooner
    <2>3. e.id \in Nat /\ f.id \in Nat
        BY <2>1 DEF EventOK
    <2> QED
        BY <2>2, <2>3
<1>4. \A e, f \in L \cup N : e.id = f.id => e = f
    BY <1>3 DEF LogOK
<1> QED
    BY <1>1, <1>2, <1>3, <1>4 DEF LogOK

\* The same events, later.
LEMMA LogLater ==
    ASSUME NEW n \in Nat, NEW L, LogOK(L, n)
    PROVE  LogOK(L, n + 1)
BY DEF LogOK, EventOK

\* A store of a plain one's part is plain.
LEMMA PlainOfMore ==
    ASSUME NEW a, NEW b, Known(a) \subseteq Known(b), Plain(b)
    PROVE  Plain(a)
BY DEF Plain

\* A plain store has no due moved.
LEMMA PlainIsSteady ==
    ASSUME NEW a, Plain(a)
    PROVE  Steady(a)
BY DEF Plain, Steady, Has

\* What a plain store of LogInv is.
LEMMA PlainStore ==
    ASSUME LineInv, LogInv, NEW a \in Plains
    PROVE  /\ a \in All /\ Steady(a) /\ Held(a, now) /\ StoreOK(a) /\ Lined(a) /\ Single(a) /\ Booked(a)
           /\ Known(a) \subseteq Heard /\ LogOK(Known(a), now)
<1>1. a \in All /\ Plain(a)
    BY DEF Plains
<1>2. Steady(a) /\ Held(a, now)
    BY <1>1, PlainIsSteady DEF LineInv
<1>3. Known(a) \subseteq Heard
    BY DEF Heard
<1>4. LogOK(Known(a), now)
    BY <1>3, PartOfLog DEF LogInv
<1> QED
    BY <1>1, <1>2, <1>3, <1>4 DEF Held, LogInv

\* Any two plain stores meet as two stores of one series do.
LEMMA PlainStoresMeet ==
    ASSUME LineInv, LogInv, NEW a \in Plains, NEW b \in Plains
    PROVE  Meet(a, b, now)
<1>1. now \in Nat /\ LogOK(Known(a) \cup Known(b), now)
    <2>1. Known(a) \cup Known(b) \subseteq Heard
        BY DEF Heard
    <2> QED
        BY <2>1, PartOfLog DEF LogInv, LineInv
<1>2. \A st \in {a, b} : StoreOK(st) /\ Lined(st) /\ Single(st) /\ Booked(st)
    BY PlainStore
<1>3. Agree(a, b)
    BY PlainStore DEF LineInv
<1>4. Filed(a, a) /\ Filed(a, b) /\ Filed(b, b)
    BY DEF LogInv
<1> QED
    BY <1>1, <1>2, <1>3, <1>4 DEF Meet

\* The two adds both machines begin with.
LEMMA InitLogs ==
    Init => LogInv
<1> SUFFICES ASSUME Init PROVE LogInv
    OBVIOUS
<1> DEFINE two == [row |-> [t \in Ids |-> IF t \in {Series, Errand} THEN NewRow(None, 1, t) ELSE NoRow],
                   log |-> [t \in Ids |-> IF t \in {Series, Errand} THEN {AddAt(t)} ELSE {}],
                   deps |-> {}]
<1>1. /\ now = 3 /\ store = [s \in Stores |-> two] /\ doc = Empty
    BY DEF Init
<1>2. /\ two.row = [t \in Ids |-> IF t \in {Series, Errand} THEN NewRow(None, 1, t) ELSE NoRow]
      /\ two.log = [t \in Ids |-> IF t \in {Series, Errand} THEN {AddAt(t)} ELSE {}]
    OBVIOUS
<1> HIDE DEF two
<1>3. \A a \in All : a = two
    BY <1>1 DEF All
<1>4. {Series, Errand} \subseteq Ids
    <2>1. LineInv
        BY InitLine
    <2>2. scene.most \in Nat /\ scene.most + 2 <= MaxTask /\ MaxTask \in Nat
        BY <2>1, OccurrencesAssumption DEF LineInv
    <2> QED
        BY <2>2 DEF Ids, Series, Errand
<1>5. Tasks(two) = {Series, Errand}
    <2>1. NewRow(None, 1, Series) # NoRow /\ NewRow(None, 1, Errand) # NoRow
        BY NewRowIs DEF None
    <2> QED
        BY <1>2, <1>4, <2>1 DEF Tasks
<1>6. \A t \in {Series, Errand} : EventOK(AddAt(t)) /\ AddAt(t).at = t /\ AddAt(t).id = 2 * t + 1 /\ AddAt(t).op = "add"
    BY AddIs DEF Series, Errand
<1>7. Known(two) = {AddAt(Series), AddAt(Errand)}
    BY <1>2, <1>4 DEF Known
<1>8. LogOK(Known(two), now)
    <2>1. IsFiniteSet({AddAt(Series)})
        BY FS_Singleton, Zenon
    <2>2. IsFiniteSet({AddAt(Series)} \cup {AddAt(Errand)})
        BY <2>1, FS_AddElement, Zenon
    <2>3. {AddAt(Series)} \cup {AddAt(Errand)} = Known(two)
        BY <1>7
    <2>4. \A e \in Known(two) : EventOK(e) /\ e.at < now
        BY <1>1, <1>6, <1>7 DEF Series, Errand
    <2>5. \A e, f \in Known(two) : e.id = f.id => e = f
        BY <1>6, <1>7 DEF Series, Errand
    <2> QED
        BY <2>2, <2>3, <2>4, <2>5 DEF LogOK
<1>9. LogOK(Heard, now)
    <2>1. Heard \subseteq Known(two)
        BY <1>3 DEF Heard, Plains
    <2> QED
        BY <1>8, <2>1, PartOfLog
<1>10. Booked(two)
    <2>1. ASSUME NEW t \in {Series, Errand} PROVE AddAt(t) \in two.log[t] /\ Tells(two.row[t], two.log[t])
        <3> DEFINE q == NewRow(None, 1, t)
                   e == AddAt(t)
        <3>1. two.row[t] = q /\ two.log[t] = {e}
            BY <1>2, <1>4
        <3>2. q.status = "pending" /\ q.since = 0 /\ q.completed = 0 /\ q.tracked = 0 /\ q.adj = 0 /\ q.modified = t
            BY DEF NewRow
        <3>3. q.modified \in Nat
            BY <3>2 DEF Series, Errand
        <3>4. EventOK(e) /\ e.op = "add"
            BY <1>6
        <3> HIDE DEF q, e
        <3>5. Tells(q, {e})
            BY <3>2, <3>3, <3>4, AddTells
        <3> QED
            BY <3>1, <3>5 DEF e
    <2>2. \A t \in Ids : two.log[t] # {} => t \in Tasks(two)
        BY <1>2, <1>5
    <2> QED
        BY <1>5, <2>1, <2>2 DEF Booked
<1>11. Filed(two, two)
    <2> SUFFICES ASSUME NEW x \in Ids, NEW y \in Ids, NEW e \in two.log[x] \cap two.log[y]
                 PROVE  Piece(two, x) = Piece(two, y)
        BY DEF Filed
    <2>1. x \in {Series, Errand} /\ y \in {Series, Errand} /\ e = AddAt(x) /\ e = AddAt(y)
        BY <1>2
    <2>2. x = y
        <3>1. 2 * x + 1 = 2 * y + 1
            BY <1>6, <2>1
        <3> QED
            BY <2>1, <3>1 DEF Series, Errand
    <2> QED
        BY <2>2
<1> QED
    BY <1>3, <1>9, <1>10, <1>11 DEF LogInv, Plains

\* An export brings no store that was not there.
LEMMA ExportKeepsLogs ==
    ASSUME LogInv, NEW s \in Stores, Export(s)
    PROVE  LogInv'
<1>1. doc' = store[s] /\ UNCHANGED <<now, scene, store, last>>
    BY DEF Export
<1>2. All' \subseteq All
    BY <1>1 DEF All
<1>3. Plains' \subseteq Plains
    BY <1>2 DEF Plains
<1>4. Heard' \subseteq Heard
    BY <1>3 DEF Heard
<1>5. LogOK(Heard', now')
    BY <1>1, <1>4, PartOfLog DEF LogInv
<1> QED
    BY <1>3, <1>5 DEF LogInv

\* An edit files its events in the store it is made in.
LEMMA EditKeepsLogs ==
    ASSUME LineInv, LogInv, NEW s \in Stores, UserEdit(s, store[s])
    PROVE  LogInv'
<1>1. PICK after, done : /\ Edit(s, after, done) /\ Follows(store[s], after, done)
                         /\ ~Cyclic(store[s].deps) => ~Cyclic(after.deps)
    BY UserEditFollows
<1>2. /\ store'[s] = after /\ \A x \in Stores \ {s} : store'[x] = store[x]
      /\ now' = now + 1 /\ doc' = doc /\ scene' = scene
    BY <1>1, EditMakes
<1>3. \A a \in All' : a = after \/ a \in All
    BY <1>2 DEF All
<1>4. now \in Nat
    BY DEF LineInv
<1>5. CASE ~Plain(after)
    <2>1. Plains' \subseteq Plains
        BY <1>3, <1>5 DEF Plains
    <2>2. Heard' \subseteq Heard
        BY <2>1 DEF Heard
    <2>3. LogOK(Heard', now')
        BY <1>2, <1>4, <2>2, LogLater, PartOfLog DEF LogInv
    <2> QED
        BY <2>1, <2>3 DEF LogInv
<1>6. CASE Plain(after)
    <2> DEFINE st == store[s]
    <2>1. st \in Plains
        <3>1. Known(st) \subseteq Known(after)
            BY <1>2, UserEditGrows
        <3>2. Plain(st)
            BY <1>6, <3>1, PlainOfMore
        <3> QED
            BY <3>2 DEF Plains, All
    <2>2. Held(st, now) /\ Booked(st) /\ Known(st) \subseteq Heard /\ LogOK(Known(st), now)
        BY <2>1, PlainStore
    <2>3. Recorded(st, after)
        BY <1>2, <1>6, <2>2, UserEditRecords
    <2>4. /\ \A t \in Ids : st.log[t] \subseteq after.log[t]
          /\ Booked(after)
        BY <2>3 DEF Recorded
    <2>5. PICK N : /\ IsFiniteSet(N) /\ \A e \in N : EventOK(e) /\ e.at = now
                   /\ \A e, f \in N : e.id = f.id => e = f
                   /\ \A t \in Ids : after.log[t] \subseteq st.log[t] \cup N
                   /\ \A x, y \in Ids : \A e \in N : e \in after.log[x] /\ e \in after.log[y] => x = y
        BY <2>3 DEF Recorded
    <2> HIDE DEF st
    <2>6. \A a \in Plains' : a = after \/ a \in Plains
        BY <1>3 DEF Plains
    <2>7. LogOK(Heard \cup N, now') /\ Heard \cap N = {}
        BY <1>2, <1>4, <2>5, LogGrows DEF LogInv
    <2>8. Heard' \subseteq Heard \cup N
        <3>1. Known(after) \subseteq Known(st) \cup N
            BY <2>5 DEF Known
        <3>2. \A a \in Plains : Known(a) \subseteq Heard
            BY DEF Heard
        <3>3. \A a \in Plains' : Known(a) \subseteq Heard \cup N
            BY <2>2, <2>6, <3>1, <3>2
        <3>4. Heard' = UNION {Known(a) : a \in Plains'}
            BY DEF Heard, Known, Ids
        <3> QED
            BY <3>3, <3>4
    <2>9. LogOK(Heard', now')
        BY <2>7, <2>8, PartOfLog
    <2>10. \A a \in Plains' : Booked(a)
        BY <2>4, <2>6 DEF LogInv
    <2>11. ASSUME NEW x \in Ids, st.log[x] # {} PROVE Piece(after, x) = Piece(st, x)
        <3>1. x \in Tasks(st)
            BY <2>2, <2>11 DEF Booked
        <3>2. x \in Tasks(after)
            BY <2>4, <2>11 DEF Booked
        <3>3. x # now
            BY <1>4, <2>2, <3>1 DEF Held, Tasks
        <3>4. Steady(after)
            BY <1>6, PlainIsSteady
        <3>5. after.row[x].due = st.row[x].due
            BY <1>1, <3>2, <3>3, <3>4 DEF Follows, st
        <3> QED
            BY <3>5 DEF Piece
    <2>12. ASSUME NEW b \in Plains PROVE Filed(after, b)
        <3> SUFFICES ASSUME NEW x \in Ids, NEW y \in Ids, NEW e \in after.log[x] \cap b.log[y]
                     PROVE  Piece(after, x) = Piece(b, y)
            BY DEF Filed
        <3>1. e \in Heard
            BY DEF Heard, Known
        <3>2. e \in st.log[x]
            BY <2>5, <2>7, <3>1
        <3>3. Piece(st, x) = Piece(b, y)
            BY <2>1, <3>2 DEF LogInv, Filed, st
        <3> QED
            BY <2>11, <3>2, <3>3
    <2>13. Filed(after, after)
        <3> SUFFICES ASSUME NEW x \in Ids, NEW y \in Ids, NEW e \in after.log[x] \cap after.log[y]
                     PROVE  Piece(after, x) = Piece(after, y)
            BY DEF Filed
        <3>1. CASE e \in N
            BY <2>5, <3>1
        <3>2. CASE e \notin N
            <4>1. e \in st.log[x] /\ e \in st.log[y]
                BY <2>5, <3>2
            <4>2. Piece(st, x) = Piece(st, y)
                BY <2>1, <4>1 DEF LogInv, Filed, st
            <4> QED
                BY <2>11, <4>1, <4>2
        <3> QED
            BY <3>1, <3>2
    <2>14. \A a, b \in Plains' : Filed(a, b)
        <3>1. \A b \in Plains : Filed(after, b) /\ Filed(b, after)
            BY <2>12, FiledAsWell
        <3>2. \A a, b \in Plains : Filed(a, b)
            BY DEF LogInv
        <3> QED
            BY <2>6, <2>13, <3>1, <3>2
    <2> QED
        BY <2>9, <2>10, <2>14 DEF LogInv
<1> QED
    BY <1>5, <1>6

\* An import files every event with the piece of work it is filed under already.
LEMMA MergeKeepsLogs ==
    ASSUME LineInv, LogInv, NEW s \in Stores, Merge(s)
    PROVE  LogInv'
<1> DEFINE mine == store[s]
           after == Imported(mine, doc)
<1>1. /\ doc # Empty
      /\ store' = [store EXCEPT ![s] = after]
      /\ UNCHANGED <<now, scene, doc>>
    BY DEF Merge
<1>2. store'[s] = after /\ \A x \in Stores \ {s} : store'[x] = store[x]
    <2>1. store = [x \in Stores |-> store[x]]
        BY DEF LineInv
    <2> HIDE DEF after
    <2> QED
        BY <1>1, <2>1
<1>3. mine \in All /\ doc \in All /\ StoreOK(mine) /\ StoreOK(doc)
    BY <1>1 DEF LineInv, All, Held
<1> HIDE DEF mine
<1>4. Known(after) = Known(mine) \cup Known(doc)
    <2>1. /\ StoreOK(after)
          /\ Tasks(after) \subseteq Tasks(mine) \cup Tasks(doc)
          /\ Known(after) = Known(mine) \cup Known(doc)
          /\ \A t \in Ids : mine.row[t] = NoRow /\ doc.row[t] = NoRow /\ mine.log[t] = {} /\ doc.log[t] = {}
                                => after.row[t] = NoRow /\ after.log[t] = {}
          /\ ~Refused(mine, doc) => ~Cyclic(after.deps)
          /\ Lined(mine) /\ Lined(doc) /\ Agree(mine, doc) =>
                /\ Lined(after) /\ Single(after)
                /\ Agree(after, mine) /\ Agree(after, doc)
        BY <1>3, ImportedIs
    <2> HIDE DEF after
    <2> QED
        BY <2>1
<1>5. \A a \in All' : a = after \/ a \in All
    <2> HIDE DEF after
    <2> QED
        BY <1>1, <1>2 DEF All
<1>6. CASE ~Plain(after)
    <2>1. Plains' \subseteq Plains
        BY <1>5, <1>6 DEF Plains
    <2>2. Heard' \subseteq Heard
        BY <2>1 DEF Heard
    <2>3. LogOK(Heard', now')
        BY <1>1, <2>2, PartOfLog DEF LogInv
    <2> QED
        BY <2>1, <2>3 DEF LogInv
<1>7. CASE Plain(after)
    <2>1. mine \in Plains /\ doc \in Plains
        <3>1. Plain(mine) /\ Plain(doc)
            BY <1>4, <1>7, PlainOfMore
        <3> QED
            BY <1>3, <3>1 DEF Plains
    <2>2. Meet(mine, doc, now)
        BY <2>1, PlainStoresMeet
    <2>3. /\ Booked(after)
          /\ \A t \in Ids : \A e \in after.log[t] : \E o \in {mine, doc}, y \in Ids :
                e \in o.log[y] /\ Piece(o, y) = Piece(after, t)
        BY <2>2, ImportedBooked
    <2> HIDE DEF after
    <2>4. \A a \in Plains' : a = after \/ a \in Plains
        BY <1>5 DEF Plains
    <2>5. Heard' \subseteq Heard
        <3>1. \A a \in Plains : Known(a) \subseteq Heard
            BY DEF Heard
        <3>2. \A a \in Plains' : Known(a) \subseteq Heard
            BY <1>4, <2>1, <2>4, <3>1
        <3>3. Heard' = UNION {Known(a) : a \in Plains'}
            BY DEF Heard, Known, Ids
        <3> QED
            BY <3>2, <3>3
    <2>6. LogOK(Heard', now')
        BY <1>1, <2>5, PartOfLog DEF LogInv
    <2>7. \A a \in Plains' : Booked(a)
        BY <2>3, <2>4 DEF LogInv
    <2>8. ASSUME NEW b \in Plains PROVE Filed(after, b) /\ Filed(b, after)
        <3>1. Filed(mine, b) /\ Filed(doc, b)
            BY <2>1 DEF LogInv
        <3>2. Filed(after, b)
            BY <2>3, <3>1, ImportedFiled
        <3> QED
            BY <3>2, FiledAsWell
    <2>9. Filed(after, after)
        BY <2>1, <2>3, <2>8, ImportedFiled
    <2>10. \A a, b \in Plains' : Filed(a, b)
        BY <2>4, <2>8, <2>9 DEF LogInv
    <2> QED
        BY <2>6, <2>7, <2>10 DEF LogInv
<1> QED
    BY <1>6, <1>7

\* Every step keeps it.
LEMMA LogStep ==
    LineInv /\ LogInv /\ [Next]_vars => LogInv'
<1> SUFFICES ASSUME LineInv, LogInv, [Next]_vars PROVE LogInv'
    OBVIOUS
<1>1. CASE UNCHANGED vars
    <2>1. UNCHANGED <<now, scene, store, doc, last>>
        BY <1>1 DEF vars
    <2>2. All' = All
        BY <2>1 DEF All
    <2>3. Plains' = Plains
        BY <2>2 DEF Plains
    <2>4. Heard' = Heard
        BY <2>3 DEF Heard
    <2> QED
        BY <2>1, <2>3, <2>4 DEF LogInv
<1>2. ASSUME NEW s \in Stores, UserEdit(s, store[s]) PROVE LogInv'
    BY <1>2, EditKeepsLogs
<1>3. ASSUME NEW s \in Stores, Export(s) PROVE LogInv'
    BY <1>3, ExportKeepsLogs
<1>4. ASSUME NEW s \in Stores, Merge(s) PROVE LogInv'
    BY <1>4, MergeKeepsLogs
<1> QED
    BY <1>1, <1>2, <1>3, <1>4 DEF Next

\* Where no due is moved and nothing taken back, every store's row tells what its
\* own log says, its events are filed in all stores under the same piece of work,
\* and an id is one event's (store.import, fold_duplicate_occurrences, copy_log).
THEOREM LogInvCorrect == Spec => []LogInv
<1>1. Init => LineInv /\ LogInv
    BY InitLine, InitLogs
<1>2. LineInv /\ LogInv /\ [Next]_vars => LineInv' /\ LogInv'
    BY LineStep, LogStep
<1> QED
    BY <1>1, <1>2, PTL DEF Spec

\* A machine's plain store is one of them.
LEMMA PlainTask ==
    ASSUME LineInv, LogInv, NEW s \in Stores, Plain(store[s]), NEW t \in Tasks(store[s])
    PROVE  LET L == store[s].log[t]
           IN  /\ now \in Nat /\ LogOK(L, now) /\ Says(L) # {} /\ Tells(store[s].row[t], L)
               /\ Says(L) = {e \in L : e.op \in Calls \cup {"add"}}
<1> DEFINE st == store[s]
<1>1. st \in Plains
    BY DEF Plains, All
<1>2. Held(st, now) /\ Booked(st) /\ LogOK(Known(st), now) /\ now \in Nat /\ now >= 3
    BY <1>1, PlainStore DEF LineInv
<1>3. Kempt(st)
    BY <1>2 DEF Kempt
<1> HIDE DEF st
<1>4. /\ t \in Ids /\ LogOK(st.log[t], now) /\ Says(st.log[t]) # {} /\ Tells(st.row[t], st.log[t])
      /\ RowOK(st.row[t]) /\ st.row[t].due # 0
    BY <1>3, KemptLog DEF st
<1>5. Says(st.log[t]) = {e \in st.log[t] : e.op \in Calls \cup {"add"}}
    BY <1>4, SaysIs
<1> QED
    BY <1>2, <1>4, <1>5 DEF st

\* The last word of a log is its row's status.
LEMMA LogsLastWord ==
    LineInv /\ LogInv => LastWordStands
<1> SUFFICES ASSUME LineInv, LogInv, NEW s \in Stores, Plain(store[s]), NEW t \in Tasks(store[s])
             PROVE  Heeds(store[s], t, Calls \cup {"add"})
    BY DEF LastWordStands
<1> DEFINE r == store[s].row[t]
           L == store[s].log[t]
           w == Last(Says(L))
<1>1. /\ now \in Nat /\ LogOK(L, now) /\ Says(L) # {} /\ Tells(r, L)
      /\ Says(L) = {e \in L : e.op \in Calls \cup {"add"}}
    BY PlainTask
<1>2. Value(r, "status") = Told(w)
    BY <1>1 DEF Tells, Word
<1> HIDE DEF w
<1>3. r.status = CASE w.op = "start" -> "active" [] w.op = "done" -> "done" [] OTHER -> "pending"
    <2>1. <<r.status, r.since, r.completed>> = Told(w)
        BY <1>2 DEF Value
    <2> HIDE DEF r
    <2>2. CASE w.op = "start"
        BY <2>1, <2>2 DEF Told
    <2>3. CASE w.op = "done"
        BY <2>1, <2>3 DEF Told
    <2>4. CASE w.op # "start" /\ w.op # "done"
        BY <2>1, <2>4 DEF Told
    <2> QED
        BY <2>2, <2>3, <2>4
<1> QED
    BY <1>1, <1>3 DEF Heeds, w

\* A log counts what its row holds.
LEMMA LogsTotals ==
    LineInv /\ LogInv => LogsExplainTotals
<1> SUFFICES ASSUME LineInv, LogInv, NEW s \in Stores, Plain(store[s]), NEW t \in Tasks(store[s])
             PROVE  Beyond(Copy(store[s], t)) = [tracked |-> 0, adj |-> 0]
    BY DEF LogsExplainTotals
<1> DEFINE r == store[s].row[t]
           L == store[s].log[t]
           k == Running(r)
<1>1. /\ now \in Nat /\ LogOK(L, now) /\ Says(L) # {} /\ Tells(r, L)
      /\ Says(L) = {e \in L : e.op \in Calls \cup {"add"}}
    BY PlainTask
<1>2. Beyond(Copy(store[s], t)) = [tracked |-> r.tracked - Tracked(L, k), adj |-> r.adj - Adjusted(L)]
    BY DEF Beyond, Copy
<1>3. r.tracked = Tracked(L, k) /\ r.adj = Adjusted(L)
    BY <1>1 DEF Tells
<1> HIDE DEF r, L, k
<1>4. /\ Tracked(L, k) = Intervals(Closes(L)) + Adjusted(L) + Left(L, k)
      /\ Intervals(Closes(L)) \in Nat /\ Adjusted(L) \in Nat /\ Left(L, k) \in Nat
    BY <1>1, TrackedIs
<1>5. r.tracked - Tracked(L, k) = 0 /\ r.adj - Adjusted(L) = 0
    BY <1>3, <1>4
<1> QED
    BY <1>2, <1>5

\* A row's status is the one its last status event leaves, whichever copy it was
\* logged on and whichever store the copy was folded in (group_winner, copy_log).
THEOREM LastWordStandsCorrect == Spec => []LastWordStands
BY LineInvCorrect, LogInvCorrect, LogsLastWord, PTL

\* A row holds the time its events count, none of it lost or counted twice by
\* merges and folds (merged_total, count, fold_duplicate_occurrences).
THEOREM LogsExplainTotalsCorrect == Spec => []LogsExplainTotals
BY LineInvCorrect, LogInvCorrect, LogsTotals, PTL

-----------------------------------------------------------------------------
(* The files of stores in which no due was moved *)

\* An event of whatever call has a place among the others.
Timed(e) == e.at \in Nat /\ e.id \in Nat /\ (e.op \in Closing => e.since \in Nat)
\* The instants of a row's status are those its status has.
GroupOK(r) ==
    /\ r.since \in Nat /\ r.completed \in Nat /\ r.modified \in Nat
    /\ r.status = "active" => r.completed = 0
    /\ r.status = "done" => r.since = 0
    /\ r.status = "pending" => r.since = 0 /\ r.completed = 0
\* What is left of an occurrence taken back is the event of its add; a task's add
\* is filed under it.
Homed(st) ==
    /\ \A t \in Ids \ Tasks(st) : st.log[t] \subseteq {AddAt(t)}
    /\ \A t \in Tasks(st) : AddAt(t) \in st.log[t]
Tended(st, n) ==
    /\ \A t \in Tasks(st) : GroupOK(st.row[t])
    /\ IsFiniteSet(Known(st)) /\ \A e \in Known(st) : Timed(e) /\ e.at < n
    /\ Homed(st)
\* An event that tasks of two stores have is about one piece of work.
Together(a, b) ==
    \A x \in Tasks(a), y \in Tasks(b) : a.log[x] \cap b.log[y] # {} => Piece(a, x) = Piece(b, y)
\* The row an undo would put back, and the occurrence it would take back.
Returns(l, st) ==
    l.t # None => /\ GroupOK(l.before)
                  /\ l.spawn # None => st.log[l.spawn] = {AddAt(l.spawn)}

Steadies == {a \in All : Steady(a)}
FileInv ==
    /\ \A a \in Steadies : Tended(a, now)
    /\ \A a, b \in Steadies : Together(a, b)
    /\ \A s \in Stores : Steady(store[s]) => Returns(last[s], store[s])

\* What an edit files: events of this instant, each under one task.
Filing(st, after) ==
    /\ \A t \in Ids : st.log[t] \subseteq after.log[t]
    /\ \E N : /\ IsFiniteSet(N) /\ \A e \in N : Timed(e) /\ e.at = now
              /\ \A t \in Ids : after.log[t] \subseteq st.log[t] \cup N
              /\ \A x, y \in Ids : \A e \in N : e \in after.log[x] /\ e \in after.log[y] => x = y
    /\ \A t \in Tasks(after) : GroupOK(after.row[t])
    /\ Homed(after)
\* A store before an edit.
Minded(st) == Held(st, now) /\ Tended(st, now) /\ now \in Nat /\ now >= 3

\* A row is stamped with the instant it is written at.
LEMMA GroupStamped ==
    ASSUME now \in Nat, NEW row, RowOK(row), row.since \in Nat, row.completed \in Nat,
           row.status = "active" => row.completed = 0,
           row.status = "done" => row.since = 0,
           row.status = "pending" => row.since = 0 /\ row.completed = 0
    PROVE  GroupOK(RowStamped(row, now))
<1> DEFINE q == RowStamped(row, now)
<1>1. /\ q.status = row.status /\ q.since = row.since /\ q.completed = row.completed
      /\ q.tracked = row.tracked /\ q.adj = row.adj /\ q.modified = now
    BY StampedFields
<1> HIDE DEF q
<1>2. GroupOK(q)
    BY <1>1 DEF GroupOK
<1> QED
    BY <1>2 DEF q

\* An edit of one task files its event.
LEMMA EditFiles ==
    ASSUME NEW st, Minded(st), NEW t \in Tasks(st), NEW row, RowOK(row), row.due # 0,
           GroupOK(RowStamped(row, now)), NEW e, Timed(e), e.at = now
    PROVE  Filing(st, Edited(st, t, row, e))
<1> DEFINE q == Edited(st, t, row, e)
<1>1. StoreOK(st) /\ now \in Nat /\ Homed(st) /\ t \in Ids
    BY DEF Minded, Held, Tended, Tasks
<1>2. /\ StoreOK(q) /\ q.deps = st.deps
      /\ \A u \in Ids \ {t} : q.row[u] = st.row[u] /\ q.log[u] = st.log[u]
      /\ q.row[t].due = row.due /\ q.row[t].parent = row.parent /\ q.row[t].status = row.status
      /\ q.log[t] = st.log[t] \cup {e}
    BY <1>1, EditedIs
<1>3. /\ q.row[t] = RowStamped(row, now) /\ RowOK(q.row[t]) /\ q.row[t].due # 0
      /\ t \in Ids
    BY <1>1, EditedRow
<1> HIDE DEF q
<1>4. Tasks(q) = Tasks(st)
    <2>1. t \in Tasks(q)
        BY <1>2, <1>3, TaskDue
    <2> QED
        BY <1>2, <2>1 DEF Tasks
<1>5. \A u \in Ids : st.log[u] \subseteq q.log[u] /\ q.log[u] \subseteq st.log[u] \cup {e}
    BY <1>2
<1>6. IsFiniteSet({e})
    BY FS_Singleton, Zenon
<1>7. e \notin Known(st)
    BY <1>1 DEF Minded, Tended
<1>8. \A x \in Ids : e \in q.log[x] => x = t
    BY <1>2, <1>7 DEF Known
<1>9. \A u \in Tasks(q) : GroupOK(q.row[u])
    <2>1. \A u \in Tasks(st) : u \in Ids /\ GroupOK(st.row[u])
        BY DEF Minded, Tended, Tasks
    <2>2. ASSUME NEW u \in Tasks(q) PROVE GroupOK(q.row[u])
        BY <1>2, <1>3, <1>4, <2>1
    <2> QED
        BY <2>2
<1>10. Homed(q)
    <2>1. \A u \in Ids \ Tasks(q) : q.log[u] = st.log[u]
        BY <1>2, <1>4
    <2>2. \A u \in Tasks(q) : u \in Ids
        BY DEF Tasks
    <2> QED
        BY <1>1, <1>4, <1>5, <2>1, <2>2 DEF Homed
<1>11. \E N : /\ IsFiniteSet(N) /\ \A f \in N : Timed(f) /\ f.at = now
              /\ \A u \in Ids : q.log[u] \subseteq st.log[u] \cup N
              /\ \A x, y \in Ids : \A f \in N : f \in q.log[x] /\ f \in q.log[y] => x = y
    <2> WITNESS {e}
    <2> QED
        BY <1>5, <1>6, <1>8
<1> QED
    BY <1>5, <1>9, <1>10, <1>11 DEF Filing, q

\* So does an edit that adds an edge besides.
LEMMA EdgesFile ==
    ASSUME NEW st, NEW x, Filing(st, x), NEW q, q.log = x.log, q.row = x.row
    PROVE  Filing(st, q)
<1>1. Tasks(q) = Tasks(x)
    BY DEF Tasks
<1> QED
    BY <1>1 DEF Filing, Homed

\* A store in which a task is edited and the next one made.
Spawned(st, t, row, e, due) == Put(Edited(st, t, row, e), now, NewRow(t, due, now), {AddAt(now)})

\* And one that makes a task, with the event of its add.
LEMMA SpawnFiles ==
    ASSUME NEW st, Minded(st), scene \in Scenes, now < 3 + scene.most,
           NEW t \in Tasks(st), NEW row, RowOK(row), row.due # 0, GroupOK(RowStamped(row, now)),
           NEW e, Timed(e), e.at = now, e.id = 2 * now, NEW due \in Nat, due # 0
    PROVE  LET q == Spawned(st, t, row, e, due)
           IN  Filing(st, q) /\ q.log[now] = {AddAt(now)}
<1> DEFINE x == Edited(st, t, row, e)
           a == AddAt(now)
           r == NewRow(t, due, now)
           q == Put(x, now, r, {a})
<1>1. StoreOK(st) /\ now \in Nat /\ now >= 3 /\ Held(st, now) /\ t \in Ids /\ t \in Nat
    <2>1. t \in Ids
        BY DEF Tasks
    <2> QED
        BY <2>1, IdsAre DEF Minded, Held
<1>2. /\ now \in Ids /\ now \notin Tasks(st) /\ now \notin {Series, Errand, None}
      /\ st.row[now] = NoRow /\ st.log[now] = {} /\ now # t
    BY <1>1, FreshId
<1>3. EventOK(a) /\ a.at = now /\ a.id = 2 * now + 1 /\ a.op = "add"
    BY <1>1, AddIs
<1>4. /\ StoreOK(x) /\ x.deps = st.deps
      /\ \A u \in Ids \ {t} : x.row[u] = st.row[u] /\ x.log[u] = st.log[u]
      /\ x.row[t].due = row.due /\ x.row[t].parent = row.parent /\ x.row[t].status = row.status
      /\ x.log[t] = st.log[t] \cup {e}
    BY <1>1, EditedIs
<1>5. Filing(st, x)
    BY EditFiles
<1>6. RowOK(r) /\ r # NoRow /\ r.parent = t /\ r.due = due /\ r.status = "pending"
    BY <1>1, NewRowIs
<1>7. GroupOK(r)
    <2>1. r.status = "pending" /\ r.since = 0 /\ r.completed = 0 /\ r.modified = now
        BY DEF NewRow
    <2> HIDE DEF r
    <2> QED
        BY <1>1, <2>1 DEF GroupOK
<1> HIDE DEF x, r, a
<1>8. /\ StoreOK(q) /\ q.deps = x.deps
      /\ \A u \in Ids : /\ q.row[u] = IF u = now THEN r ELSE x.row[u]
                        /\ q.log[u] = IF u = now THEN {a} ELSE x.log[u]
    BY <1>2, <1>4, <1>6, StorePut
<1> HIDE DEF q
<1>9. x.log[now] = {}
    BY <1>2, <1>4
<1>10. \A u \in Ids : st.log[u] \subseteq q.log[u]
    BY <1>5, <1>8, <1>9 DEF Filing
<1>11. \A u \in Ids : q.log[u] \subseteq st.log[u] \cup {e, a}
    BY <1>4, <1>8
<1>12. e \notin Known(st) /\ a \notin Known(st) /\ e # a
    <2>1. e.id # a.id
        BY <1>1, <1>3
    <2> QED
        BY <1>1, <1>3, <2>1 DEF Minded, Tended
<1>13. \A u \in Ids : (e \in q.log[u] => u = t) /\ (a \in q.log[u] => u = now)
    BY <1>4, <1>8, <1>12 DEF Known
<1>14. IsFiniteSet({e, a})
    <2>1. IsFiniteSet({e})
        BY FS_Singleton, Zenon
    <2>2. IsFiniteSet({e} \cup {a})
        BY <2>1, FS_AddElement, Zenon
    <2>3. {e} \cup {a} = {e, a}
        OBVIOUS
    <2> QED
        BY <2>2, <2>3
<1>15. Tasks(q) = Tasks(x) \cup {now}
    BY <1>2, <1>6, <1>8 DEF Tasks
<1>16. \A u \in Tasks(q) : u \in Ids /\ GroupOK(q.row[u])
    <2>1. \A u \in Tasks(x) : u \in Ids /\ GroupOK(x.row[u])
        BY <1>5 DEF Filing, Tasks
    <2> QED
        BY <1>2, <1>7, <1>8, <1>15, <2>1
<1>17. Homed(q)
    <2>1. Homed(x)
        BY <1>5 DEF Filing
    <2>2. \A u \in Ids \ Tasks(q) : q.log[u] = x.log[u] /\ u \notin Tasks(x)
        BY <1>8, <1>15
    <2>3. \A u \in Tasks(q) : AddAt(u) \in q.log[u]
        BY <1>8, <1>15, <1>16, <2>1 DEF Homed, a
    <2> QED
        BY <2>1, <2>2, <2>3 DEF Homed
<1>18. Timed(a)
    BY <1>3 DEF EventOK, Timed
<1>19. \E N : /\ IsFiniteSet(N) /\ \A f \in N : Timed(f) /\ f.at = now
              /\ \A u \in Ids : q.log[u] \subseteq st.log[u] \cup N
              /\ \A y, z \in Ids : \A f \in N : f \in q.log[y] /\ f \in q.log[z] => y = z
    <2> WITNESS {e, a}
    <2> QED
        BY <1>3, <1>11, <1>13, <1>14, <1>18
<1>20. q.log[now] = {a}
    BY <1>2, <1>8
<1> QED
    BY <1>10, <1>16, <1>17, <1>19, <1>20 DEF Filing, Spawned, q, x, r, a

\* And one that takes a task back.
LEMMA UnspawnFiles ==
    ASSUME NEW st, NEW x, StoreOK(x), Filing(st, x), NEW n \in Ids, x.log[n] = {AddAt(n)}
    PROVE  Filing(st, PutRow(x, n, NoRow))
<1> DEFINE q == PutRow(x, n, NoRow)
<1>1. /\ StoreOK(q) /\ q.deps = x.deps /\ q.log = x.log
      /\ \A u \in Ids : q.row[u] = IF u = n THEN NoRow ELSE x.row[u]
    BY NoRowIs, RowPut
<1> HIDE DEF q
<1>2. Tasks(q) = Tasks(x) \ {n}
    BY <1>1 DEF Tasks
<1>3. \A u \in Tasks(q) : u \in Ids /\ u # n /\ u \in Tasks(x) /\ q.row[u] = x.row[u]
    BY <1>1, <1>2 DEF Tasks
<1>4. Homed(q)
    <2>1. \A u \in Ids \ Tasks(q) : u = n \/ u \in Ids \ Tasks(x)
        BY <1>2
    <2> QED
        BY <1>1, <1>3, <2>1 DEF Filing, Homed
<1>5. \A u \in Tasks(q) : GroupOK(q.row[u])
    BY <1>3 DEF Filing
<1>6. Filing(st, q)
    BY <1>1, <1>4, <1>5 DEF Filing
<1> QED
    BY <1>6 DEF q

-----------------------------------------------------------------------------
(* What each call files *)

\* An edit, when no due is moved by it.
Files(s, st) ==
    \E after, done : Edit(s, after, done) /\ (Steady(after) => Filing(st, after) /\ Returns(done, after))

\* Nothing to take back.
LEMMA NothingReturns ==
    ASSUME NEW st
    PROVE  Returns(NoDone, st)
BY DEF Returns, NoDone

\* What a task's row is before an edit.
LEMMA MindedRow ==
    ASSUME NEW st, Minded(st), NEW t \in Tasks(st)
    PROVE  LET r == st.row[t]
           IN  /\ t \in Ids /\ RowOK(r) /\ r.due # 0 /\ r.status \in {"pending", "active", "done"}
               /\ GroupOK(r) /\ r.since \in Nat /\ r.completed \in Nat
               /\ r.status = "active" => r.completed = 0
               /\ r.status = "done" => r.since = 0
               /\ r.status = "pending" => r.since = 0 /\ r.completed = 0
<1>1. t \in Ids /\ RowOK(st.row[t]) /\ st.row[t].due # 0
    BY TaskRow DEF Minded
<1>2. GroupOK(st.row[t])
    BY DEF Minded, Tended
<1> QED
    BY <1>1, <1>2 DEF GroupOK, RowOK

\* A start.
LEMMA StartFiles ==
    ASSUME NEW s, NEW st, Minded(st), NEW t \in Tasks(st), Start(s, st, t)
    PROVE  Files(s, st)
<1> DEFINE r == st.row[t]
           row == RowStarted(r, "active", now)
           e == [Logged("start") EXCEPT !.since = now]
<1>1. Edit(s, Edited(st, t, row, e), NoDone) /\ r.status = "pending"
    BY DEF Start, RowStarted
<1>2. now \in Nat /\ now >= 3
    BY DEF Minded
<1>3. Timed(e) /\ e.at = now
    BY <1>2 DEF Logged, Event, Timed, Closing
<1>4. /\ RowOK(r) /\ r.due # 0 /\ r.completed \in Nat
      /\ r.status = "pending" => r.since = 0 /\ r.completed = 0
    BY MindedRow
<1> HIDE DEF e, r
<1>5. RowOK(row) /\ row.due = r.due /\ row.parent = r.parent /\ row.status = "active"
    BY <1>4, RowStartedIs
<1>6. row.since = now /\ row.completed = r.completed /\ row.tracked = r.tracked /\ row.adj = r.adj
    BY <1>4, StartedFields
<1> HIDE DEF row
<1>7. GroupOK(RowStamped(row, now))
    BY <1>1, <1>2, <1>4, <1>5, <1>6, GroupStamped
<1>8. Filing(st, Edited(st, t, row, e))
    BY <1>3, <1>4, <1>5, <1>7, EditFiles
<1> QED
    BY <1>1, <1>8, NothingReturns DEF Files

\* A stop.
LEMMA StopFiles ==
    ASSUME NEW s, NEW st, Minded(st), NEW t \in Tasks(st), Stop(s, st, t)
    PROVE  Files(s, st)
<1> DEFINE r == st.row[t]
           n == r.tracked + Elapsed(r)
           row == RowStopped(r, "pending", 0, n)
           i == r.since
           k == Elapsed(r)
           e == [Logged("stop") EXCEPT !.since = i, !.secs = k]
<1>1. Edit(s, Edited(st, t, row, e), NoDone) /\ r.status = "active"
    BY DEF Stop, RowStopped
<1>2. now \in Nat /\ now >= 3
    BY DEF Minded
<1>3. /\ RowOK(r) /\ r.due # 0 /\ r.completed \in Nat /\ i \in Nat
      /\ r.status = "active" => r.completed = 0
    BY MindedRow
<1> HIDE DEF i, k
<1>4. Timed(e) /\ e.at = now
    BY <1>2, <1>3 DEF Logged, Event, Timed, Closing
<1> HIDE DEF e, r, n
<1>5. RowOK(row) /\ row.due = r.due /\ row.parent = r.parent /\ row.status = "pending"
    BY <1>3, RowStoppedIs
<1>6. row.since = 0 /\ row.completed = r.completed /\ row.tracked = n /\ row.adj = r.adj
    BY <1>3, StoppedFields
<1> HIDE DEF row
<1>7. GroupOK(RowStamped(row, now))
    BY <1>1, <1>2, <1>3, <1>5, <1>6, GroupStamped
<1>8. Filing(st, Edited(st, t, row, e))
    BY <1>3, <1>4, <1>5, <1>7, EditFiles
<1> QED
    BY <1>1, <1>8, NothingReturns DEF Files

\* A reopen.
LEMMA ReopenFiles ==
    ASSUME NEW s, NEW st, Minded(st), NEW t \in Tasks(st), Reopen(s, st, t)
    PROVE  Files(s, st)
<1> DEFINE r == st.row[t]
           row == RowReopened(r, "pending", 0)
           e == Logged("reopen")
<1>1. Edit(s, Edited(st, t, row, e), NoDone) /\ r.status \notin {"pending", "active"}
    BY DEF Reopen, RowReopened, Open
<1>2. now \in Nat /\ now >= 3
    BY DEF Minded
<1>3. Timed(e) /\ e.at = now
    BY <1>2 DEF Logged, Event, Timed, Closing
<1>4. /\ RowOK(r) /\ r.due # 0 /\ r.status \in {"pending", "active", "done"}
      /\ r.status = "done" => r.since = 0
    BY MindedRow
<1> HIDE DEF e, r
<1>5. RowOK(row) /\ row.due = r.due /\ row.parent = r.parent /\ row.status = "pending"
    BY <1>4, RowReopenedIs
<1>6. row.since = r.since /\ row.completed = 0 /\ row.tracked = r.tracked /\ row.adj = r.adj
    BY <1>4, ReopenedFields
<1> HIDE DEF row
<1>7. GroupOK(RowStamped(row, now))
    BY <1>1, <1>2, <1>4, <1>5, <1>6, GroupStamped
<1>8. Filing(st, Edited(st, t, row, e))
    BY <1>3, <1>4, <1>5, <1>7, EditFiles
<1> QED
    BY <1>1, <1>8, NothingReturns DEF Files

\* A correction of the time.
LEMMA AdjustFiles ==
    ASSUME NEW s, NEW st, Minded(st), NEW t \in Tasks(st), Adjust(s, st, t)
    PROVE  Files(s, st)
<1> DEFINE r == st.row[t]
           n == r.tracked + 1
           j == r.adj + 1
           row == RowAdjusted(r, n, j)
           e == [Logged("adjust_tracked") EXCEPT !.delta = 1]
<1>1. Edit(s, Edited(st, t, row, e), NoDone)
    BY DEF Adjust, RowAdjusted
<1>2. now \in Nat /\ now >= 3
    BY DEF Minded
<1>3. Timed(e) /\ e.at = now
    BY <1>2 DEF Logged, Event, Timed, Closing
<1>4. /\ RowOK(r) /\ r.due # 0 /\ r.since \in Nat /\ r.completed \in Nat
      /\ r.status = "active" => r.completed = 0
      /\ r.status = "done" => r.since = 0
      /\ r.status = "pending" => r.since = 0 /\ r.completed = 0
    BY MindedRow
<1> HIDE DEF e, r, n, j
<1>5. RowOK(row) /\ row.due = r.due /\ row.parent = r.parent /\ row.status = r.status
    BY <1>4, RowAdjustedIs
<1>6. row.since = r.since /\ row.completed = r.completed /\ row.tracked = n /\ row.adj = j
    BY <1>4, AdjustedFields
<1> HIDE DEF row
<1>7. GroupOK(RowStamped(row, now))
    BY <1>2, <1>4, <1>5, <1>6, GroupStamped
<1>8. Filing(st, Edited(st, t, row, e))
    BY <1>3, <1>4, <1>5, <1>7, EditFiles
<1> QED
    BY <1>1, <1>8, NothingReturns DEF Files

\* An edge.
LEMMA AddEdgeFiles ==
    ASSUME NEW s, NEW st, Minded(st), NEW t \in Tasks(st), NEW d \in Tasks(st), AddEdge(s, st, t, d)
    PROVE  Files(s, st)
<1> DEFINE r == st.row[t]
           e == Logged("dependency.add")
           x == Edited(st, t, r, e)
           D == st.deps \cup {<<t, d>>}
           y == PutEdges(x, D)
<1>1. now \in Nat /\ now >= 3 /\ StoreOK(st)
    BY DEF Minded, Held
<1>2. /\ t \in Ids /\ RowOK(r) /\ r.due # 0 /\ r.since \in Nat /\ r.completed \in Nat
      /\ r.status = "active" => r.completed = 0
      /\ r.status = "done" => r.since = 0
      /\ r.status = "pending" => r.since = 0 /\ r.completed = 0
    BY MindedRow
<1>3. Timed(e) /\ e.at = now
    BY <1>1 DEF Logged, Event, Timed, Closing
<1>4. StoreOK(x) /\ x.deps = st.deps
    <2> HIDE DEF e
    <2>1. /\ StoreOK(x) /\ x.deps = st.deps
          /\ \A u \in Ids \ {t} : x.row[u] = st.row[u] /\ x.log[u] = st.log[u]
          /\ x.row[t].due = r.due /\ x.row[t].parent = r.parent /\ x.row[t].status = r.status
          /\ x.log[t] = st.log[t] \cup {e}
        BY <1>1, <1>2, EditedIs
    <2> HIDE DEF x
    <2> QED
        BY <2>1
<1>5. Edit(s, y, NoDone)
    <2>1. Edit(s, [x EXCEPT !.deps = x.deps \cup {<<t, d>>}], NoDone)
        BY DEF AddEdge
    <2> HIDE DEF x
    <2> QED
        BY <1>4, <2>1 DEF PutEdges
<1> HIDE DEF e, r
<1>6. GroupOK(RowStamped(r, now))
    BY <1>1, <1>2, GroupStamped
<1>7. Filing(st, x)
    <2> HIDE DEF x
    <2> QED
        BY <1>2, <1>3, <1>6, EditFiles DEF x, r
<1>8. y.log = x.log /\ y.row = x.row
    <2>1. Pairs(D)
        BY <1>1 DEF StoreOK, Pairs
    <2> HIDE DEF D, x
    <2>2. StoreOK(y) /\ y.deps = D /\ y.log = x.log /\ y.row = x.row
        BY <1>4, <2>1, EdgePut
    <2> QED
        BY <2>2
<1> HIDE DEF x, y
<1>9. Filing(st, y)
    BY <1>7, <1>8, EdgesFile
<1> QED
    BY <1>5, <1>9, NothingReturns DEF Files

\* A completion, and the task it may spawn.
LEMMA DoneFiles ==
    ASSUME NEW s, NEW st, Minded(st), scene \in Scenes, NEW t \in Tasks(st), Done(s, st, t)
    PROVE  Files(s, st)
<1> DEFINE r == st.row[t]
           n == r.tracked + Elapsed(r)
           i == Running(r)
           row == RowClosed(r, "done", 0, now, n)
           e == [Logged("done") EXCEPT !.since = i]
           x == Edited(st, t, row, e)
           due == r.due + 1
           y == Spawned(st, t, row, e, due)
           k == [t |-> t, spawn |-> None, before |-> r]
           l == [t |-> t, spawn |-> now, before |-> r]
<1>1. IF Spawns(st, t) THEN Edit(s, y, l) ELSE Edit(s, x, k)
    BY DEF Done, RowClosed, Put, Spawned
<1>2. now \in Nat /\ now >= 3
    BY DEF Minded
<1>3. /\ RowOK(r) /\ r.due # 0 /\ r.since \in Nat /\ GroupOK(r)
    BY MindedRow
<1>4. i \in Nat
    BY <1>3 DEF Running
<1>5. due \in Nat /\ due # 0
    BY <1>3 DEF RowOK
<1> HIDE DEF i
<1>6. Timed(e) /\ e.at = now /\ e.id = 2 * now
    BY <1>2, <1>4 DEF Logged, Event, Timed, Closing
<1> HIDE DEF e, r, n, due
<1>7. RowOK(row) /\ row.due = r.due /\ row.parent = r.parent /\ row.status = "done"
    BY <1>3, RowClosedIs
<1>8. row.since = 0 /\ row.completed = now /\ row.tracked = n /\ row.adj = r.adj
    BY <1>3, ClosedFields
<1> HIDE DEF row
<1>9. GroupOK(RowStamped(row, now))
    BY <1>2, <1>7, <1>8, GroupStamped
<1>10. CASE Spawns(st, t)
    <2>1. Edit(s, y, l)
        BY <1>1, <1>10
    <2>2. now < 3 + scene.most
        BY <2>1 DEF Edit
    <2>3. Filing(st, y) /\ y.log[now] = {AddAt(now)}
        <3>1. RowOK(row) /\ row.due # 0
            BY <1>3, <1>7
        <3> QED
            BY ONLY Minded(st), scene \in Scenes, t \in Tasks(st), <1>5, <1>6, <1>9, <2>2, <3>1, SpawnFiles
    <2>4. l.spawn = now /\ l.before = r
        OBVIOUS
    <2> HIDE DEF y, l
    <2>5. Returns(l, y)
        BY <1>3, <2>3, <2>4 DEF Returns
    <2> QED
        BY <2>1, <2>3, <2>5 DEF Files
<1>11. CASE ~Spawns(st, t)
    <2>1. Edit(s, x, k)
        BY <1>1, <1>11
    <2>2. Filing(st, x)
        BY <1>3, <1>6, <1>7, <1>9, EditFiles
    <2>3. k.spawn = None /\ k.before = r
        OBVIOUS
    <2> HIDE DEF x, k
    <2>4. Returns(k, x)
        BY <1>3, <2>3 DEF Returns
    <2> QED
        BY <2>1, <2>2, <2>4 DEF Files
<1> QED
    BY <1>10, <1>11

\* After a move there is nothing to show.
LEMMA MoveFiles ==
    ASSUME NEW s, NEW st, StoreOK(st), NEW t \in Tasks(st), Move(s, st, t)
    PROVE  Files(s, st)
<1> DEFINE e == [Logged("modify") EXCEPT !.cols = {"schedule"}]
           row == [st.row[t] EXCEPT !.due = @ + 1]
           q == Edited(st, t, row, e)
<1>1. Edit(s, q, NoDone)
    BY DEF Move
<1>2. e.op = "modify"
    BY DEF Logged, Event
<1> HIDE DEF e, row
<1>3. e \in Known(q)
    BY EditedLogs
<1> HIDE DEF q
<1>4. ~Steady(q)
    BY <1>2, <1>3 DEF Steady, Has
<1> QED
    BY <1>1, <1>4 DEF Files

\* The undo of a completion, with its spawn or without.
LEMMA UndoFiles ==
    ASSUME NEW s, NEW st, Minded(st), LastFits(last[s], st), Steady(st) => Returns(last[s], st), UndoDone(s, st)
    PROVE  Files(s, st)
<1> DEFINE t == last[s].t
           u == last[s].spawn
           before == last[s].before
           undone == {e \in st.log[t] : e.op = "done" /\ e.at = st.row[t].completed}
           row == RowClosed(st.row[t], before.status, before.since, 0, before.tracked)
           e == [Logged("undo") EXCEPT !.undone = Last(undone).id, !.of = "done",
                    !.since = Last(undone).since, !.secs = st.row[t].tracked - before.tracked]
           x == Edited(st, t, row, e)
           q == PutRow(x, u, NoRow)
<1>1. t # None /\ Edit(s, IF u = None THEN x ELSE q, NoDone)
    BY DEF UndoDone, RowClosed, PutRow
<1>2. /\ t \in Tasks(st) /\ RowOK(before) /\ Open(before) /\ StoreOK(st) /\ now \in Nat
      /\ u # None => /\ u \in Ids
                     /\ Steady(st) => u # t
    BY <1>1 DEF LastFits, Minded, Held
<1>3. RowOK(st.row[t]) /\ st.row[t].due # 0
    BY <1>2, MindedRow
<1>4. Timed(e) /\ e.at = now /\ e.op = "undo"
    <2> DEFINE i == Last(undone).id
               j == Last(undone).since
               m == st.row[t].tracked - before.tracked
    <2> HIDE DEF i, j, m
    <2> QED
        BY <1>2 DEF Logged, Event, Timed, Closing
<1>5. before.status \in {"pending", "active"}
    BY <1>2 DEF Open
<1>6. /\ RowOK(row) /\ row.due = st.row[t].due /\ row.parent = st.row[t].parent
      /\ row.status = before.status
    BY <1>3, <1>5, RowClosedIs
<1>7. row.since = before.since /\ row.completed = 0
    BY <1>3, ClosedFields
<1>8. StoreOK(x) /\ Known(st) \subseteq Known(x) /\ x.log = [v \in Ids |-> x.log[v]]
      /\ x.log[t] = st.log[t] \cup {e} /\ \A v \in Ids \ {t} : x.log[v] = st.log[v]
    <2> HIDE DEF e, row
    <2>1. /\ StoreOK(x) /\ x.deps = st.deps
          /\ \A v \in Ids \ {t} : x.row[v] = st.row[v] /\ x.log[v] = st.log[v]
          /\ x.row[t].due = row.due /\ x.row[t].parent = row.parent /\ x.row[t].status = row.status
          /\ x.log[t] = st.log[t] \cup {e}
        BY <1>2, <1>3, <1>6, EditedIs
    <2>2. t \in Ids
        BY <1>2 DEF Tasks
    <2> HIDE DEF x, t
    <2> QED
        BY <2>1, <2>2 DEF Known, StoreOK
<1> HIDE DEF e, undone, row, before
<1>9. (Steady(x) => Steady(st)) /\ (u # None => q.log = x.log)
    <2>1. Steady(x) => Steady(st)
        BY <1>8 DEF Steady, Has
    <2>2. u # None => q.log = x.log
        <3> HIDE DEF x, u
        <3>1. u # None => /\ StoreOK(q) /\ q.deps = x.deps /\ q.log = x.log
                          /\ \A v \in Ids : q.row[v] = IF v = u THEN NoRow ELSE x.row[v]
            BY <1>2, <1>8, NoRowIs, RowPut
        <3> HIDE DEF q
        <3> QED
            BY <3>1
    <2> QED
        BY <2>1, <2>2
<1>10. ASSUME Steady(st) PROVE Filing(st, x)
    <2>1. GroupOK(before)
        BY <1>1, <1>10 DEF Returns, before
    <2>2. GroupOK(RowStamped(row, now))
        BY <1>2, <1>5, <1>6, <1>7, <2>1, GroupStamped DEF GroupOK
    <2> QED
        BY <1>2, <1>3, <1>4, <1>6, <2>2, EditFiles
<1>11. CASE u = None
    <2>1. Edit(s, x, NoDone)
        BY <1>1, <1>11
    <2> HIDE DEF x
    <2> QED
        BY <1>9, <1>10, <2>1, NothingReturns DEF Files
<1>12. CASE u # None
    <2>1. Edit(s, q, NoDone)
        BY <1>1, <1>12
    <2>2. Steady(q) => Steady(st)
        <3> HIDE DEF q, x
        <3> QED
            BY <1>9, <1>12 DEF Steady, Has, Known
    <2>3. ASSUME Steady(st) PROVE Filing(st, q)
        <3>1. st.log[u] = {AddAt(u)} /\ u \in Ids /\ u # t
            BY <1>1, <1>2, <1>12, <2>3 DEF Returns
        <3>2. x.log[u] = {AddAt(u)}
            BY <1>8, <3>1
        <3> HIDE DEF x, u
        <3> QED
            BY <1>8, <1>10, <2>3, <3>1, <3>2, UnspawnFiles
    <2> HIDE DEF q
    <2> QED
        BY <2>1, <2>2, <2>3, NothingReturns DEF Files
<1> QED
    BY <1>11, <1>12

\* Every edit files its events, as long as no due is moved.
LEMMA UserEditFiles ==
    ASSUME LineInv, NEW s \in Stores, Tended(store[s], now), Steady(store[s]) => Returns(last[s], store[s]),
           UserEdit(s, store[s]), Steady(store'[s])
    PROVE  Filing(store[s], store'[s]) /\ Returns(last'[s], store'[s])
<1> DEFINE st == store[s]
<1>1. Held(st, now) /\ LastFits(last[s], st) /\ scene \in Scenes /\ now \in Nat /\ now >= 3
    BY DEF LineInv, All
<1>2. Minded(st) /\ StoreOK(st)
    BY <1>1 DEF Minded, Held
<1>3. \/ UndoDone(s, st)
      \/ \E t \in Tasks(st) :
        \/ Start(s, st, t) \/ Stop(s, st, t) \/ Done(s, st, t) \/ Reopen(s, st, t)
        \/ Move(s, st, t) \/ Adjust(s, st, t) \/ \E d \in Tasks(st) : AddEdge(s, st, t, d)
    BY DEF UserEdit
<1>4. Steady(st) => Returns(last[s], st)
    OBVIOUS
<1> HIDE DEF st
<1>5. \A t \in Tasks(st) : Start(s, st, t) => Files(s, st)
    BY <1>2, StartFiles
<1>6. \A t \in Tasks(st) : Stop(s, st, t) => Files(s, st)
    BY <1>2, StopFiles
<1>7. \A t \in Tasks(st) : Done(s, st, t) => Files(s, st)
    BY <1>1, <1>2, DoneFiles
<1>8. \A t \in Tasks(st) : Reopen(s, st, t) => Files(s, st)
    BY <1>2, ReopenFiles
<1>9. \A t \in Tasks(st) : Move(s, st, t) => Files(s, st)
    BY <1>2, MoveFiles
<1>10. \A t \in Tasks(st) : Adjust(s, st, t) => Files(s, st)
    BY <1>2, AdjustFiles
<1>11. \A t, d \in Tasks(st) : AddEdge(s, st, t, d) => Files(s, st)
    BY <1>2, AddEdgeFiles
<1>12. UndoDone(s, st) => Files(s, st)
    BY <1>1, <1>2, <1>4, UndoFiles
<1>13. Files(s, st)
    BY <1>3, <1>5, <1>6, <1>7, <1>8, <1>9, <1>10, <1>11, <1>12
<1>14. PICK after, done : Edit(s, after, done) /\ (Steady(after) => Filing(st, after) /\ Returns(done, after))
    BY <1>13 DEF Files
<1>15. store'[s] = after /\ last'[s] = done
    BY <1>14 DEF Edit, LineInv
<1> QED
    BY <1>14, <1>15 DEF st

-----------------------------------------------------------------------------
(* Imports of stores in which no due was moved *)

\* Two stores of one series, whatever was taken back in them.
Convene(mine, theirs, n) ==
    /\ \A st \in {mine, theirs} : StoreOK(st) /\ Lined(st) /\ Single(st) /\ Tended(st, n)
    /\ Agree(mine, theirs)
    /\ \A a, b \in {mine, theirs} : Together(a, b)
\* A task's events are of that piece of work in either store.
Sourced(mine, theirs, st) ==
    \A t \in Tasks(st) : \A e \in st.log[t] : \E o \in {mine, theirs} : \E z \in Tasks(o) :
        e \in o.log[z] /\ Piece(o, z) = Piece(st, t)
\* A store in the course of an import.
OnWay(mine, theirs, st) ==
    /\ StoreOK(st) /\ Lined(st) /\ Tasks(st) \subseteq Tasks(mine) \cup Tasks(theirs)
    /\ Agree(st, mine) /\ Agree(st, theirs)
    /\ Known(st) = Known(mine) \cup Known(theirs)
    /\ \A t \in Tasks(st) : GroupOK(st.row[t])
    /\ \A t \in Ids \ Tasks(st) : st.log[t] \subseteq {AddAt(t)}
    /\ Sourced(mine, theirs, st)

\* A row that takes its status from one that has what its status has.
LEMMA GroupTaken ==
    ASSUME NEW v, GroupOK(v), NEW r, r.status = v.status, r.since = v.since, r.completed = v.completed,
           r.modified \in Nat
    PROVE  GroupOK(r)
BY DEF GroupOK

\* A merged row is one.
LEMMA MergedGroup ==
    ASSUME NEW a, NEW b, RowOK(a.row), RowOK(b.row), a.row.due # 0, b.row.due # 0, HoldAdds(a, b),
           GroupOK(a.row), GroupOK(b.row)
    PROVE  GroupOK(MergedRow(a, b))
<1> DEFINE v == Winner(a, b, "status")
           p == Winner(a, b, "spawned_from").parent
           d == Winner(a, b, "schedule").due
           m == Larger(a.row.modified, b.row.modified)
           total == MergedTotal(a, b, Running(v))
           r == RowWith(p, d, v.status, v.since, v.completed, total.tracked, total.adj, m)
<1>1. MergedRow(a, b) = r
    BY MergedRowMade
<1>2. GroupOK(v)
    BY WinnerIsOne
<1>3. m \in Nat
    BY DEF GroupOK, Larger
<1> HIDE DEF v, p, d, m, total
<1>4. r.status = v.status /\ r.since = v.since /\ r.completed = v.completed /\ r.modified = m
    BY FieldsOf
<1> HIDE DEF r
<1>5. GroupOK(r)
    BY <1>2, <1>3, <1>4, GroupTaken
<1> QED
    BY <1>1, <1>5

\* So is a folded one.
LEMMA FoldedGroup ==
    ASSUME NEW a, NEW b, RowOK(a.row), RowOK(b.row), a.row.due # 0, GroupOK(a.row), GroupOK(b.row)
    PROVE  GroupOK(FoldedRow(a, b))
<1> DEFINE v == Winner(a, b, "status")
           p == a.row.parent
           d == a.row.due
           m == a.row.modified
           total == MergedTotal(a, b, Running(v))
           r == RowWith(p, d, v.status, v.since, v.completed, total.tracked, total.adj, m)
<1>1. FoldedRow(a, b) = r
    BY FoldedRowMade
<1>2. GroupOK(v)
    BY WinnerIsOne
<1>3. m \in Nat
    BY DEF GroupOK
<1> HIDE DEF v, p, d, m, total
<1>4. r.status = v.status /\ r.since = v.since /\ r.completed = v.completed /\ r.modified = m
    BY FieldsOf
<1> HIDE DEF r
<1>5. GroupOK(r)
    BY <1>2, <1>3, <1>4, GroupTaken
<1> QED
    BY <1>1, <1>5

\* The store before the folds is such a store.
LEMMA JoinedOnWay ==
    ASSUME NEW mine, NEW theirs, NEW n, Convene(mine, theirs, n)
    PROVE  OnWay(mine, theirs, Joined(mine, theirs))
<1> DEFINE u == Joined(mine, theirs)
<1>1. /\ StoreOK(mine) /\ StoreOK(theirs) /\ Lined(mine) /\ Lined(theirs)
      /\ Tended(mine, n) /\ Tended(theirs, n) /\ Agree(mine, theirs)
      /\ Homed(mine) /\ Homed(theirs)
    BY DEF Convene, Tended
<1>2. /\ StoreOK(u) /\ Tasks(u) = Tasks(mine) \cup Tasks(theirs) /\ Known(u) = Known(mine) \cup Known(theirs)
    BY <1>1, JoinedIs
<1>3. /\ Lined(u)
      /\ \A t \in Tasks(mine) : u.row[t].due = mine.row[t].due
      /\ \A t \in Tasks(theirs) : u.row[t].due = theirs.row[t].due
    BY <1>1, JoinedLined
<1>4. \A t \in Ids : u.log[t] = mine.log[t] \cup (theirs.log[t] \ Known(mine))
    BY DEF Joined, Events
<1>5. \A t \in Ids : u.row[t] = IF t \in Tasks(theirs) THEN RowFor(Copy(mine, t), Copy(theirs, t)) ELSE mine.row[t]
    BY <1>1, JoinedRows
<1> HIDE DEF u
<1>6. Agree(u, mine) /\ Agree(u, theirs)
    BY <1>3 DEF Agree
<1>7. ASSUME NEW t \in Ids \ Tasks(u) PROVE u.log[t] \subseteq {AddAt(t)}
    BY <1>1, <1>2, <1>4 DEF Homed
<1>8. ASSUME NEW t \in Tasks(u), NEW e \in u.log[t]
      PROVE  \E o \in {mine, theirs} : \E z \in Tasks(o) : e \in o.log[z] /\ Piece(o, z) = Piece(u, t)
    <2>1. t \in Ids /\ t \in Tasks(mine) \cup Tasks(theirs)
        BY <1>2 DEF Tasks
    <2>2. \A o \in {mine, theirs} : t \in Tasks(o) => Piece(o, t) = Piece(u, t)
        BY <1>3 DEF Piece
    <2>3. PICK o \in {mine, theirs} : e \in o.log[t]
        BY <1>4, <2>1
    <2>4. CASE t \in Tasks(o)
        BY <2>2, <2>3, <2>4
    <2>5. CASE t \notin Tasks(o)
        <3>1. PICK q \in {mine, theirs} : t \in Tasks(q)
            BY <2>1
        <3>2. e = AddAt(t)
            BY <1>1, <2>1, <2>3, <2>5 DEF Homed
        <3>3. e \in q.log[t]
            BY <1>1, <3>1, <3>2 DEF Homed
        <3> QED
            BY <2>2, <3>1, <3>3
    <2> QED
        BY <2>4, <2>5
<1>9. ASSUME NEW t \in Tasks(u) PROVE GroupOK(u.row[t])
    <2> DEFINE a == Copy(mine, t)
               b == Copy(theirs, t)
    <2>1. /\ t \in Ids
          /\ a.row = mine.row[t] /\ a.log = mine.log[t] /\ b.row = theirs.row[t] /\ b.log = theirs.log[t]
        BY DEF Copy, Tasks
    <2>2. t \in Tasks(theirs) => u.row[t] = RowFor(a, b)
        BY <1>5, <2>1
    <2> HIDE DEF a, b
    <2>3. CASE t \notin Tasks(theirs)
        <3>1. t \in Tasks(mine) /\ u.row[t] = mine.row[t]
            BY <1>2, <1>5, <2>1, <2>3
        <3> QED
            BY <1>1, <3>1 DEF Tended
    <2>4. CASE t \in Tasks(theirs) /\ t \notin Tasks(mine)
        <3>1. u.row[t] = theirs.row[t]
            BY <2>1, <2>2, <2>4 DEF RowFor, Tasks
        <3> QED
            BY <1>1, <2>4, <3>1 DEF Tended
    <2>5. CASE t \in Tasks(theirs) /\ t \in Tasks(mine)
        <3>1. u.row[t] = MergedRow(a, b)
            BY <2>1, <2>2, <2>5 DEF RowFor, Tasks
        <3>2. RowOK(a.row) /\ RowOK(b.row) /\ a.row.due # 0 /\ b.row.due # 0
            BY <1>1, <2>1, <2>5, TaskDue
        <3>3. AddAt(t) \in a.log /\ AddAt(t) \in b.log
            BY <1>1, <2>1, <2>5 DEF Homed
        <3>4. HoldAdds(a, b)
            <4>1. AddAt(t).op = "add"
                BY DEF AddAt, Event
            <4> QED
                BY <3>3, <4>1 DEF HoldAdds
        <3>5. GroupOK(a.row) /\ GroupOK(b.row)
            BY <1>1, <2>1, <2>5 DEF Tended
        <3> QED
            BY <3>1, <3>2, <3>4, <3>5, MergedGroup
    <2> QED
        BY <2>3, <2>4, <2>5
<1>10. OnWay(mine, theirs, u)
    BY <1>2, <1>3, <1>6, <1>7, <1>8, <1>9 DEF OnWay, Sourced
<1> QED
    BY <1>10 DEF u

\* A fold of two rows keeps it one.
LEMMA FoldOnWay ==
    ASSUME NEW mine, NEW theirs, NEW st, OnWay(mine, theirs, st), NEW p \in Twins(st)
    PROVE  OnWay(mine, theirs, Fold(st, p[1], p[2], theirs.log))
<1> DEFINE k == p[1]
           d == p[2]
           seen == theirs.log
           f == Fold(st, k, d, seen)
<1>1. /\ StoreOK(st) /\ Lined(st) /\ Tasks(st) \subseteq Tasks(mine) \cup Tasks(theirs)
      /\ Agree(st, mine) /\ Agree(st, theirs)
      /\ Known(st) = Known(mine) \cup Known(theirs)
      /\ \A t \in Tasks(st) : GroupOK(st.row[t])
      /\ \A t \in Ids \ Tasks(st) : st.log[t] \subseteq {AddAt(t)}
      /\ Sourced(mine, theirs, st)
    BY DEF OnWay
<1>2. /\ k \in Recurring(st) /\ d \in Recurring(st) /\ k # d /\ k \in Ids /\ d \in Ids
      /\ st.row[k].due = st.row[d].due /\ st.row[k].due # 0
    BY <1>1, TwinsAre
<1>3. k \in Tasks(st) /\ d \in Tasks(st) /\ k # Errand /\ d # Errand
    BY <1>2 DEF Recurring
<1>4. /\ StoreOK(f) /\ f.row[d] = NoRow
      /\ \A t \in Ids \ {d} : f.row[t].due = st.row[t].due
      /\ f.log = [st.log EXCEPT ![k] = st.log[k] \cup st.log[d], ![d] = {}]
    <2>1. Refiles(st, f, k, d)
        BY <1>1, <1>2, <1>3, FoldLog
    <2> HIDE DEF f, k, d
    <2> QED
        BY ONLY <2>1 DEF Refiles
<1>5. /\ Tasks(f) \subseteq Tasks(st) \ {d}
      /\ \A t \in Tasks(f) : f.row[t].due = st.row[t].due
      /\ Known(f) = Known(st) /\ Lined(f)
    BY <1>1, FoldOfTwins DEF Fewer
<1> DEFINE a == [row |-> st.row[k], log |-> CopyLog(st, k, seen)]
           b == [row |-> st.row[d], log |-> CopyLog(st, d, seen)]
<1>6. /\ SameWords(f.row[k], FoldedRow(a, b))
      /\ \A t \in Ids \ {k, d} : SameWords(f.row[t], st.row[t])
    BY <1>1, <1>2, <1>3, FoldMade
<1>7. a.row = st.row[k] /\ b.row = st.row[d]
    OBVIOUS
<1> HIDE DEF f, k, d, a, b
<1>8. /\ f.log[k] = st.log[k] \cup st.log[d] /\ f.log[d] = {}
      /\ \A t \in Ids \ {k, d} : f.log[t] = st.log[t]
    <2>1. st.log = [t \in Ids |-> st.log[t]]
        BY <1>1 DEF StoreOK
    <2> QED
        BY <1>2, <1>4, <2>1
<1>9. Agree(f, mine) /\ Agree(f, theirs) /\ Tasks(f) \subseteq Tasks(mine) \cup Tasks(theirs)
    BY <1>1, <1>5 DEF Agree
<1>10. \A t \in Tasks(st) \ {d} : t \in Tasks(f)
    <2> SUFFICES ASSUME NEW t \in Tasks(st), t # d PROVE t \in Tasks(f)
        OBVIOUS
    <2>1. t \in Ids
        BY DEF Tasks
    <2>2. st.row[t].due # 0 /\ f.row[t].due = st.row[t].due
        BY <1>1, <1>4, <2>1, TaskDue
    <2> QED
        BY <1>4, <2>1, <2>2, TaskDue
<1>11. \A t \in Ids \ Tasks(f) : f.log[t] \subseteq {AddAt(t)}
    <2> SUFFICES ASSUME NEW t \in Ids \ Tasks(f) PROVE f.log[t] \subseteq {AddAt(t)}
        OBVIOUS
    <2>1. CASE t = d
        BY <1>8, <2>1
    <2>2. CASE t # d
        <3>1. t \notin Tasks(st) /\ t # k
            BY <1>2, <1>3, <1>10, <2>2
        <3> QED
            BY <1>1, <1>8, <2>2, <3>1
    <2> QED
        BY <2>1, <2>2
<1>12. \A t \in Tasks(f) : GroupOK(f.row[t])
    <2> SUFFICES ASSUME NEW t \in Tasks(f) PROVE GroupOK(f.row[t])
        OBVIOUS
    <2>1. t \in Tasks(st) /\ t # d /\ t \in Ids
        BY <1>5 DEF Tasks
    <2>2. CASE t = k
        <3>1. RowOK(a.row) /\ RowOK(b.row) /\ a.row.due # 0 /\ GroupOK(a.row) /\ GroupOK(b.row)
            BY <1>1, <1>2, <1>3, <1>7, TaskDue
        <3>2. GroupOK(FoldedRow(a, b))
            BY <3>1, FoldedGroup
        <3> QED
            BY <1>6, <2>2, <3>2 DEF SameWords, GroupOK
    <2>3. CASE t # k
        BY <1>1, <1>6, <2>1, <2>3 DEF SameWords, GroupOK
    <2> QED
        BY <2>2, <2>3
<1>13. Sourced(mine, theirs, f)
    <2> SUFFICES ASSUME NEW t \in Tasks(f), NEW e \in f.log[t]
                 PROVE  \E o \in {mine, theirs} : \E z \in Tasks(o) : e \in o.log[z] /\ Piece(o, z) = Piece(f, t)
        BY DEF Sourced
    <2>1. t \in Tasks(st) /\ t # d /\ t \in Ids /\ Piece(f, t) = Piece(st, t)
        BY <1>5 DEF Tasks, Piece
    <2>2. PICK y \in Tasks(st) : e \in st.log[y] /\ Piece(st, y) = Piece(st, t)
        <3>1. CASE t # k
            BY <1>8, <2>1, <3>1
        <3>2. CASE t = k
            <4>1. Piece(st, k) = Piece(st, d)
                BY <1>2, <1>3 DEF Piece
            <4>2. e \in st.log[k] \/ e \in st.log[d]
                BY <1>8, <3>2
            <4> QED
                BY <1>3, <3>2, <4>1, <4>2
        <3> QED
            BY <3>1, <3>2
    <2> QED
        BY <1>1, <2>1, <2>2 DEF Sourced
<1>14. OnWay(mine, theirs, f)
    BY <1>1, <1>4, <1>5, <1>9, <1>11, <1>12, <1>13 DEF OnWay
<1> QED
    BY <1>14 DEF f, k, d

\* So do all of them.
LEMMA FoldedOnWay ==
    ASSUME NEW mine, NEW theirs, NEW st, OnWay(mine, theirs, st)
    PROVE  OnWay(mine, theirs, Folded(st, theirs.log))
<1> DEFINE seen == theirs.log
<1>1. PICK f : Chain(st, seen, MaxTask, f) /\ Folded(st, seen) = f[MaxTask]
    BY FoldedIs
<1>2. MaxTask \in Nat /\ MaxTask \in 0 .. MaxTask
    BY IdsAre
<1> DEFINE Bad == {m \in 0 .. MaxTask : ~OnWay(mine, theirs, f[m])}
<1>3. ASSUME NEW x, OnWay(mine, theirs, x) PROVE OnWay(mine, theirs, FoldOnce(x, seen))
    <2>1. CASE Twins(x) = {}
        BY <1>3, <2>1 DEF FoldOnce
    <2>2. CASE Twins(x) # {}
        <3>1. NextPair(x) \in Twins(x)
            BY <1>3, <2>2, NextPairIs DEF OnWay
        <3>2. PICK p \in Twins(x) : FoldOnce(x, seen) = Fold(x, p[1], p[2], seen)
            BY <2>2, <3>1 DEF FoldOnce
        <3> QED
            BY <1>3, <3>2, FoldOnWay
    <2> QED
        BY <2>1, <2>2
<1>4. Bad = {}
    <2>1. Bad \in SUBSET (0 .. MaxTask)
        OBVIOUS
    <2>2. f[0] = st => 0 \notin Bad
        OBVIOUS
    <2>3. \A m \in 0 .. MaxTask : m # 0 /\ m - 1 \notin Bad /\ f[m] = FoldOnce(f[m - 1], seen) => m \notin Bad
        <3> SUFFICES ASSUME NEW m \in 0 .. MaxTask, m # 0, m - 1 \notin Bad, f[m] = FoldOnce(f[m - 1], seen)
                     PROVE  m \notin Bad
            OBVIOUS
        <3>1. m - 1 \in 0 .. MaxTask
            BY <1>2
        <3>2. OnWay(mine, theirs, f[m - 1])
            BY <3>1
        <3>3. OnWay(mine, theirs, f[m])
            BY <1>3, <3>2
        <3> QED
            BY <3>3
    <2> HIDE DEF Bad
    <2> QED
        BY <1>1, <2>1, <2>2, <2>3, FaultlessFolds
<1> QED
    BY <1>1, <1>2, <1>4

\* An imported store is tended as both were: with one row for each occurrence,
\* a task's add is filed nowhere else.
LEMMA ImportedTended ==
    ASSUME NEW mine, NEW theirs, NEW n, Convene(mine, theirs, n)
    PROVE  LET st == Imported(mine, theirs)
           IN  Tended(st, n) /\ Sourced(mine, theirs, st) /\ Single(st) /\ OnWay(mine, theirs, st)
<1> DEFINE u == Joined(mine, theirs)
           st == Imported(mine, theirs)
<1>1. st = Folded(u, theirs.log)
    BY DEF Imported, Joined
<1>2. OnWay(mine, theirs, u)
    BY JoinedOnWay
<1> HIDE DEF u
<1>3. OnWay(mine, theirs, st)
    <2> HIDE DEF st
    <2> QED
        BY <1>1, <1>2, FoldedOnWay
<1>4. /\ StoreOK(mine) /\ StoreOK(theirs) /\ Lined(mine) /\ Lined(theirs) /\ Agree(mine, theirs)
      /\ Homed(mine) /\ Homed(theirs)
    BY DEF Convene, Tended
<1>5. Single(st)
    <2>1. /\ StoreOK(st)
          /\ Tasks(st) \subseteq Tasks(mine) \cup Tasks(theirs)
          /\ Known(st) = Known(mine) \cup Known(theirs)
          /\ \A t \in Ids : mine.row[t] = NoRow /\ theirs.row[t] = NoRow
                               /\ mine.log[t] = {} /\ theirs.log[t] = {}
                            => st.row[t] = NoRow /\ st.log[t] = {}
          /\ ~Refused(mine, theirs) => ~Cyclic(st.deps)
          /\ Lined(mine) /\ Lined(theirs) /\ Agree(mine, theirs) =>
               /\ Lined(st) /\ Single(st)
               /\ Agree(st, mine) /\ Agree(st, theirs)
        BY <1>4, ImportedIs
    <2> HIDE DEF st
    <2> QED
        BY <1>4, <2>1
<1> HIDE DEF st
<1>6. /\ StoreOK(st) /\ Tasks(st) \subseteq Tasks(mine) \cup Tasks(theirs)
      /\ Agree(st, mine) /\ Agree(st, theirs)
      /\ Known(st) = Known(mine) \cup Known(theirs)
      /\ \A t \in Tasks(st) : GroupOK(st.row[t])
      /\ \A t \in Ids \ Tasks(st) : st.log[t] \subseteq {AddAt(t)}
      /\ Sourced(mine, theirs, st)
    BY <1>3 DEF OnWay
<1>7. ASSUME NEW t \in Tasks(st) PROVE AddAt(t) \in st.log[t]
    <2>1. PICK o \in {mine, theirs} : t \in Tasks(o) /\ AddAt(t) \in o.log[t]
        BY <1>4, <1>6 DEF Homed
    <2>2. t \in Ids /\ Piece(o, t) = Piece(st, t)
        BY <1>6, <2>1 DEF Tasks, Agree, Piece
    <2>3. PICK x \in Ids : AddAt(t) \in st.log[x]
        BY <1>6, <2>1, <2>2 DEF Known
    <2>4. CASE x \notin Tasks(st)
        <3>1. AddAt(t) = AddAt(x)
            BY <1>6, <2>3, <2>4
        <3>2. t \in Nat /\ x \in Nat
            BY <2>2, <2>3, IdsAre
        <3>3. t = x
            BY <3>1, <3>2, AddIs
        <3> QED
            BY <2>3, <3>3
    <2>5. CASE x \in Tasks(st)
        <3>1. PICK q \in {mine, theirs} : \E z \in Tasks(q) : AddAt(t) \in q.log[z] /\ Piece(q, z) = Piece(st, x)
            BY <1>6, <2>3, <2>5 DEF Sourced
        <3>2. PICK z \in Tasks(q) : AddAt(t) \in q.log[z] /\ Piece(q, z) = Piece(st, x)
            BY <3>1
        <3>3. Piece(o, t) = Piece(q, z)
            <4>1. Together(o, q)
                BY DEF Convene
            <4> QED
                BY <2>1, <3>2, <4>1 DEF Together
        <3>4. Piece(st, t) = Piece(st, x)
            BY <2>2, <3>2, <3>3
        <3>5. st.row[t].due # 0 /\ st.row[x].due # 0
            BY <1>6, <2>2, <2>3, <2>5, TaskDue
        <3>6. t = x
            <4>1. CASE t = Errand \/ x = Errand
                BY <3>4, <3>5, <4>1 DEF Piece
            <4>2. CASE t # Errand /\ x # Errand
                BY <1>5, <2>5, <3>4, <4>2 DEF Single, Recurring, Piece
            <4> QED
                BY <4>1, <4>2
        <3> QED
            BY <2>3, <3>6
    <2> QED
        BY <2>4, <2>5
<1>8. IsFiniteSet(Known(st)) /\ \A e \in Known(st) : Timed(e) /\ e.at < n
    <2>1. IsFiniteSet(Known(mine)) /\ IsFiniteSet(Known(theirs))
        BY DEF Convene, Tended
    <2>2. IsFiniteSet(Known(mine) \cup Known(theirs))
        BY <2>1, FS_Union, Zenon
    <2> QED
        BY <1>6, <2>2 DEF Convene, Tended
<1>9. Tended(st, n)
    BY <1>6, <1>7, <1>8 DEF Tended, Homed
<1> QED
    BY <1>3, <1>5, <1>6, <1>9 DEF st

-----------------------------------------------------------------------------
(* Whichever of two copies is the document's *)

\* The last of finitely many events has the highest place.
LEMMA LastPlace ==
    ASSUME NEW L, IsFiniteSet(L), L # {}, \A e \in L : Timed(e)
    PROVE  Last(L) \in L /\ Place(Last(L)) \in Nat
<1> DEFINE P == {Place(e) : e \in L}
<1>1. ASSUME NEW e \in L PROVE Place(e) \in Nat
    <2>1. MaxId \in Nat /\ e.at \in Nat /\ e.id \in Nat /\ (e.op \in Closing => e.since \in Nat)
        BY LogAssumption DEF Timed
    <2> DEFINE h == IF Slow(e) THEN 2 * e.since + 1 ELSE 2 * e.at
    <2>2. h \in Nat
        BY <2>1 DEF Slow
    <2>3. Place(e) = h * MaxId + e.id
        BY DEF Place
    <2> HIDE DEF h
    <2>4. h * MaxId \in Nat
        BY <2>1, <2>2
    <2> QED
        BY <2>1, <2>3, <2>4
<1>2. P \subseteq Nat /\ P # {}
    BY <1>1
<1>3. IsFiniteSet(P)
    <2> DEFINE f == [e \in L |-> Place(e)]
    <2>1. DOMAIN f = L /\ \A e \in L : f[e] = Place(e)
        OBVIOUS
    <2> HIDE DEF f
    <2>2. IsFiniteSet({f[e] : e \in DOMAIN f})
        BY <2>1, ValuesFinite
    <2>3. P = {f[e] : e \in DOMAIN f}
        BY <2>1
    <2> QED
        BY <2>2, <2>3
<1>4. Max(P) \in P /\ \A x \in P : x <= Max(P)
    BY <1>2, <1>3, LargestIs
<1>5. \E e \in L : \A x \in L : Place(x) <= Place(e)
    BY <1>4
<1>6. Last(L) \in L
    BY <1>5 DEF Last
<1> QED
    BY <1>1, <1>6

\* Either way a group's value comes from the same row, or the two have one text
\* for it.
LEMMA WinnerEitherWay ==
    ASSUME NEW a, NEW b, NEW g, IsFiniteSet(a.log), IsFiniteSet(b.log), \A e \in a.log \cup b.log : Timed(e),
           a.row.modified \in Nat, b.row.modified \in Nat,
           NEW i \in Nat, NEW j \in Nat, NEW m \in Nat, NEW n \in Nat,
           Text(a.row, g) = <<i, m>>, Text(b.row, g) = <<j, n>>
    PROVE  Winner(a, b, g) = Winner(b, a, g) \/ Text(a.row, g) = Text(b.row, g)
<1> DEFINE A == Edits(a.log, g)
           B == Edits(b.log, g)
           tie == TieIsTheirs(a.row, b.row, g)
           eit == TieIsTheirs(b.row, a.row, g)
           told == A # {} /\ B # {} /\ Place(Last(A)) # Place(Last(B))
<1>1. Winner(a, b, g) = IF (IF told THEN Place(Last(B)) > Place(Last(A)) ELSE tie) THEN b.row ELSE a.row
    BY DEF Winner, PayloadWins
<1>2. Winner(b, a, g) = IF (IF told THEN Place(Last(A)) > Place(Last(B)) ELSE eit) THEN a.row ELSE b.row
    BY DEF Winner, PayloadWins
<1>3. ASSUME told PROVE Place(Last(A)) \in Nat /\ Place(Last(B)) \in Nat
    <2>1. A \subseteq a.log /\ B \subseteq b.log
        BY DEF Edits
    <2> HIDE DEF A, B
    <2>2. IsFiniteSet(A) /\ IsFiniteSet(B)
        BY <2>1, FS_Subset
    <2> QED
        BY <1>3, <2>1, <2>2, LastPlace
<1>4. /\ tie <=> \/ b.row.modified > a.row.modified
                 \/ b.row.modified = a.row.modified /\ (j > i \/ (j = i /\ n > m))
      /\ eit <=> \/ a.row.modified > b.row.modified
                 \/ a.row.modified = b.row.modified /\ (i > j \/ (i = j /\ m > n))
    <2>1. Higher(<<j, n>>, <<i, m>>) <=> j > i \/ (j = i /\ n > m)
        BY DEF Higher
    <2>2. Higher(<<i, m>>, <<j, n>>) <=> i > j \/ (i = j /\ m > n)
        BY DEF Higher
    <2> QED
        BY <2>1, <2>2 DEF TieIsTheirs
<1>5. CASE told
    <2> HIDE DEF A, B
    <2> QED
        BY <1>1, <1>2, <1>3, <1>5
<1>6. CASE ~told
    <2>1. Winner(a, b, g) = IF tie THEN b.row ELSE a.row
        BY <1>1, <1>6
    <2>2. Winner(b, a, g) = IF eit THEN a.row ELSE b.row
        BY <1>2, <1>6
    <2>3. CASE i = j /\ m = n
        BY <2>3
    <2>4. CASE ~(i = j /\ m = n)
        <3>1. tie <=> ~eit
            BY <1>4, <2>4
        <3> HIDE DEF tie, eit
        <3> QED
            BY <2>1, <2>2, <3>1
    <2> QED
        BY <2>3, <2>4
<1> QED
    BY <1>5, <1>6

\* A row's status is in its text.
LEMMA StatusText ==
    ASSUME NEW r, RowOK(r), GroupOK(r)
    PROVE  /\ Text(r, "status") = <<CASE r.status = "active" -> 1 [] r.status = "done" -> 2 [] OTHER -> 3,
                                    r.since + r.completed>>
           /\ (CASE r.status = "active" -> 1 [] r.status = "done" -> 2 [] OTHER -> 3) \in Nat
           /\ r.since + r.completed \in Nat
BY DEF Text, GroupOK

\* Rows whose texts are the same have the same status and instants.
LEMMA SameStatus ==
    ASSUME NEW p, RowOK(p), GroupOK(p), NEW q, RowOK(q), GroupOK(q), Text(p, "status") = Text(q, "status")
    PROVE  p.status = q.status /\ p.since = q.since /\ p.completed = q.completed
<1> DEFINE i == CASE p.status = "active" -> 1 [] p.status = "done" -> 2 [] OTHER -> 3
           j == CASE q.status = "active" -> 1 [] q.status = "done" -> 2 [] OTHER -> 3
           m == p.since + p.completed
           n == q.since + q.completed
<1>1. Text(p, "status") = <<i, m>> /\ Text(q, "status") = <<j, n>>
    BY StatusText
<1>2. i = j /\ m = n
    <2> HIDE DEF i, j, m, n
    <2> QED
        BY <1>1
<1>3. p.status \in {"pending", "active", "done"} /\ q.status \in {"pending", "active", "done"}
    BY DEF RowOK
<1>4. p.status = q.status
    BY <1>2, <1>3
<1> QED
    BY <1>2, <1>3, <1>4 DEF GroupOK

\* The total of two copies is one, whichever is the document's.
LEMMA TotalEitherWay ==
    ASSUME NEW a, NEW b, NEW run
    PROVE  MergedTotal(a, b, run) = MergedTotal(b, a, run)
<1>1. a.log \cup b.log = b.log \cup a.log
    OBVIOUS
<1>2. {a, b} = {b, a}
    OBVIOUS
<1>3. Kept(a, b) = Kept(b, a)
    BY <1>1, <1>2, Zenon DEF Kept
<1> QED
    BY <1>1, <1>3 DEF MergedTotal

\* Two copies of a task are merged into one row, whichever is the document's.
LEMMA MergedEitherWay ==
    ASSUME NEW a, NEW b, RowOK(a.row), RowOK(b.row), a.row.due # 0, b.row.due = a.row.due,
           GroupOK(a.row), GroupOK(b.row), HoldAdds(a, b),
           IsFiniteSet(a.log), IsFiniteSet(b.log), \A e \in a.log \cup b.log : Timed(e)
    PROVE  MergedRow(a, b) = MergedRow(b, a)
<1> DEFINE v == Winner(a, b, "status")
           w == Winner(b, a, "status")
           p == Winner(a, b, "spawned_from").parent
           q == Winner(b, a, "spawned_from").parent
           d == Winner(a, b, "schedule").due
           f == Winner(b, a, "schedule").due
           m == Larger(a.row.modified, b.row.modified)
           k == Larger(b.row.modified, a.row.modified)
           total == MergedTotal(a, b, Running(v))
           latot == MergedTotal(b, a, Running(w))
<1>1. MergedRow(a, b) = RowWith(p, d, v.status, v.since, v.completed, total.tracked, total.adj, m)
    BY MergedRowMade
<1>2. HoldAdds(b, a)
    BY DEF HoldAdds
<1>3. MergedRow(b, a) = RowWith(q, f, w.status, w.since, w.completed, latot.tracked, latot.adj, k)
    BY <1>2, MergedRowMade
<1>4. a.row.modified \in Nat /\ b.row.modified \in Nat /\ a.row.parent \in Nat /\ b.row.parent \in Nat
    BY DEF GroupOK, RowOK
<1>5. m = k
    BY <1>4 DEF Larger
<1>6. p = q
    <2> DEFINE g == "spawned_from"
    <2>1. \A r : Text(r, g) = <<0, r.parent>>
        BY DEF Text, Value
    <2> HIDE DEF g
    <2>2. Text(a.row, g) = <<0, a.row.parent>> /\ Text(b.row, g) = <<0, b.row.parent>> /\ 0 \in Nat
        BY <2>1
    <2>3. Winner(a, b, g) = Winner(b, a, g) \/ Text(a.row, g) = Text(b.row, g)
        BY <1>4, <2>2, WinnerEitherWay
    <2>4. Winner(a, b, g) \in {a.row, b.row} /\ Winner(b, a, g) \in {a.row, b.row}
        BY WinnerIsOne
    <2>5. Text(a.row, g) = Text(b.row, g) => a.row.parent = b.row.parent
        BY <2>2
    <2>6. Winner(a, b, g).parent = Winner(b, a, g).parent
        BY <2>3, <2>4, <2>5
    <2> QED
        BY <2>6 DEF g
<1>7. d = a.row.due /\ f = a.row.due
    <2>1. Winner(a, b, "schedule") \in {a.row, b.row} /\ Winner(b, a, "schedule") \in {a.row, b.row}
        BY WinnerIsOne
    <2> QED
        BY <2>1
<1>8. v.status = w.status /\ v.since = w.since /\ v.completed = w.completed
    <2>1. v = w \/ Text(a.row, "status") = Text(b.row, "status")
        <3> DEFINE i == CASE a.row.status = "active" -> 1 [] a.row.status = "done" -> 2 [] OTHER -> 3
                   j == CASE b.row.status = "active" -> 1 [] b.row.status = "done" -> 2 [] OTHER -> 3
                   x == a.row.since + a.row.completed
                   y == b.row.since + b.row.completed
        <3>1. /\ Text(a.row, "status") = <<i, x>> /\ Text(b.row, "status") = <<j, y>>
              /\ i \in Nat /\ j \in Nat /\ x \in Nat /\ y \in Nat
            BY StatusText
        <3> HIDE DEF i, j, x, y
        <3> QED
            BY <1>4, <3>1, WinnerEitherWay
    <2>2. v \in {a.row, b.row} /\ w \in {a.row, b.row}
        BY WinnerIsOne
    <2> HIDE DEF v, w
    <2>3. CASE v = w
        BY <2>3
    <2>4. CASE Text(a.row, "status") = Text(b.row, "status")
        <3>1. a.row.status = b.row.status /\ a.row.since = b.row.since /\ a.row.completed = b.row.completed
            BY <2>4, SameStatus
        <3> QED
            BY <2>2, <3>1
    <2> QED
        BY <2>1, <2>3, <2>4
<1>9. total = latot
    <2>1. Running(w) = Running(v)
        BY <1>8 DEF Running
    <2> HIDE DEF v, w
    <2> QED
        BY <2>1, TotalEitherWay
<1> HIDE DEF v, w, p, q, d, f, m, k, total, latot
<1> QED
    BY <1>1, <1>3, <1>5, <1>6, <1>7, <1>8, <1>9

-----------------------------------------------------------------------------
(* Which pair is folded next, by the rows alone *)

TasksOf(R) == {t \in Ids : R[t] # NoRow}
SlotOf(R, parent, due) == {t \in TasksOf(R) : R[t].parent = parent /\ R[t].due = due}
TwinsOf(R) ==
    {p \in TasksOf(R) \X TasksOf(R) :
        /\ p[1] < p[2] /\ R[p[1]].parent # None
        /\ p[2] \in SlotOf(R, R[p[1]].parent, R[p[1]].due)}
RankOf(R, p) == ((R[p[1]].parent * MaxTask + R[p[1]].due) * MaxTask + p[1]) * MaxTask + p[2]
NextOf(R) == CHOOSE p \in TwinsOf(R) : \A q \in TwinsOf(R) : RankOf(R, p) <= RankOf(R, q)

\* Stores with the same rows have the same pairs, and the same next one.
LEMMA SameRowsSamePair ==
    ASSUME NEW a, NEW b, a.row = b.row
    PROVE  Tasks(a) = Tasks(b) /\ Twins(a) = Twins(b) /\ NextPair(a) = NextPair(b)
<1>1. Tasks(a) = TasksOf(a.row) /\ Tasks(b) = TasksOf(b.row)
    BY Zenon DEF Tasks, TasksOf
<1>2. Twins(a) = TwinsOf(a.row) /\ Twins(b) = TwinsOf(b.row)
    BY Zenon DEF Twins, TwinsOf, Slot, SlotOf, Tasks, TasksOf
<1>3. NextPair(a) = NextOf(a.row) /\ NextPair(b) = NextOf(b.row)
    BY Zenon DEF NextPair, NextOf, Twins, TwinsOf, Slot, SlotOf, Tasks, TasksOf, Rank, RankOf
<1> QED
    BY <1>1, <1>2, <1>3

-----------------------------------------------------------------------------
(* The two imports, fold by fold *)

\* The rows that share their occurrence with another.
Paired(st) == {t \in Recurring(st) : \E u \in Recurring(st) : u # t /\ st.row[u].due = st.row[t].due}
\* Two stores on their way, x with y's document and y with x's: the same rows and
\* edges, and a row that a fold may read is told by the same events.
Alike(x, y, st, ot) ==
    /\ st.row = ot.row /\ st.deps = ot.deps
    /\ \A t \in Paired(st) : CopyLog(st, t, y.log) = CopyLog(ot, t, x.log)

\* They start so: each row both hold is merged into one, either way.
LEMMA JoinedAlike ==
    ASSUME NEW x, NEW y, NEW n, Convene(x, y, n)
    PROVE  Alike(x, y, Joined(x, y), Joined(y, x))
<1> DEFINE st == Joined(x, y)
           ot == Joined(y, x)
<1>1. /\ StoreOK(x) /\ StoreOK(y) /\ Lined(x) /\ Lined(y) /\ Tended(x, n) /\ Tended(y, n)
      /\ Homed(x) /\ Homed(y) /\ Agree(x, y)
    BY DEF Convene, Tended
<1>2. /\ st.row = [t \in Ids |-> st.row[t]]
      /\ \A t \in Ids : st.row[t] = IF t \in Tasks(y) THEN RowFor(Copy(x, t), Copy(y, t)) ELSE x.row[t]
    BY <1>1, JoinedRows
<1>3. /\ ot.row = [t \in Ids |-> ot.row[t]]
      /\ \A t \in Ids : ot.row[t] = IF t \in Tasks(x) THEN RowFor(Copy(y, t), Copy(x, t)) ELSE y.row[t]
    BY <1>1, JoinedRows
<1>4. \A t \in Ids : /\ st.log[t] = x.log[t] \cup (y.log[t] \ Known(x))
                     /\ ot.log[t] = y.log[t] \cup (x.log[t] \ Known(y))
    BY DEF Joined, Events
<1>5. st.deps = ot.deps
    BY DEF Joined
<1> HIDE DEF st, ot
<1>6. ASSUME NEW t \in Ids PROVE st.row[t] = ot.row[t]
    <2> DEFINE a == Copy(x, t)
               b == Copy(y, t)
    <2>1. a.row = x.row[t] /\ a.log = x.log[t] /\ b.row = y.row[t] /\ b.log = y.log[t]
        BY DEF Copy
    <2>2. /\ st.row[t] = IF t \in Tasks(y) THEN RowFor(a, b) ELSE x.row[t]
          /\ ot.row[t] = IF t \in Tasks(x) THEN RowFor(b, a) ELSE y.row[t]
        BY <1>2, <1>3
    <2>3. (t \in Tasks(x) <=> a.row # NoRow) /\ (t \in Tasks(y) <=> b.row # NoRow)
        BY <2>1 DEF Tasks
    <2> HIDE DEF a, b
    <2>4. CASE ~(t \in Tasks(x) /\ t \in Tasks(y))
        BY <2>1, <2>2, <2>3, <2>4 DEF RowFor
    <2>5. CASE t \in Tasks(x) /\ t \in Tasks(y)
        <3>1. st.row[t] = MergedRow(a, b) /\ ot.row[t] = MergedRow(b, a)
            BY <2>2, <2>3, <2>5 DEF RowFor
        <3>2. RowOK(a.row) /\ RowOK(b.row) /\ a.row.due # 0 /\ b.row.due = a.row.due
            BY <1>1, <2>1, <2>5, TaskDue DEF Agree
        <3>3. GroupOK(a.row) /\ GroupOK(b.row) /\ AddAt(t) \in a.log /\ AddAt(t) \in b.log
            BY <1>1, <2>1, <2>5 DEF Tended, Homed
        <3>4. HoldAdds(a, b)
            <4>1. AddAt(t).op = "add"
                BY DEF AddAt, Event
            <4> QED
                BY <3>3, <4>1 DEF HoldAdds
        <3>5. IsFiniteSet(a.log) /\ IsFiniteSet(b.log) /\ \A e \in a.log \cup b.log : Timed(e)
            <4>1. a.log \subseteq Known(x) /\ b.log \subseteq Known(y)
                BY <2>1 DEF Known
            <4> QED
                BY <1>1, <4>1, FS_Subset DEF Tended
        <3>6. MergedRow(a, b) = MergedRow(b, a)
            BY <3>2, <3>3, <3>4, <3>5, MergedEitherWay
        <3> QED
            BY <3>1, <3>6
    <2> QED
        BY <2>4, <2>5
<1>7. st.row = ot.row
    BY <1>2, <1>3, <1>6
<1>8. \A t \in Paired(st) : CopyLog(st, t, y.log) = CopyLog(ot, t, x.log)
    <2>1. \A t \in Paired(st) : t \in Ids
        BY DEF Paired, Recurring, Tasks
    <2> QED
        BY <1>4, <2>1 DEF CopyLog
<1> QED
    BY <1>5, <1>7, <1>8 DEF Alike, st, ot

\* The rows a fold leaves, of those before it and the two copies.
FoldedRows(R, k, d, a, b) == Adopted(k, d, [R EXCEPT ![k] = FoldedRow(a, b), ![d] = NoRow])

\* They stay so: a fold reads the rows, the edges and what tells the two rows, and
\* what is left of these is no pair any more.
LEMMA FoldAlike ==
    ASSUME NEW x, NEW y, Single(x), Single(y), NEW st, NEW ot, OnWay(x, y, st), OnWay(y, x, ot), Alike(x, y, st, ot),
           NEW p \in Twins(st)
    PROVE  Alike(x, y, Fold(st, p[1], p[2], y.log), Fold(ot, p[1], p[2], x.log))
<1> DEFINE k == p[1]
           d == p[2]
           f == Fold(st, k, d, y.log)
           g == Fold(ot, k, d, x.log)
<1>1. st.row = ot.row /\ st.deps = ot.deps /\ \A t \in Paired(st) : CopyLog(st, t, y.log) = CopyLog(ot, t, x.log)
    BY DEF Alike
<1>2. /\ StoreOK(st) /\ Lined(st) /\ StoreOK(ot)
      /\ Tasks(st) \subseteq Tasks(x) \cup Tasks(y) /\ Agree(st, x) /\ Agree(st, y)
    BY DEF OnWay
<1>3. /\ k \in Recurring(st) /\ d \in Recurring(st) /\ k # d /\ k \in Ids /\ d \in Ids
      /\ st.row[k].due = st.row[d].due
    BY <1>2, TwinsAre
<1>4. k \in Tasks(st) /\ d \in Tasks(st) /\ k \in Tasks(ot) /\ d \in Tasks(ot)
    BY <1>1, <1>3, SameRowsSamePair DEF Recurring
<1>5. CopyLog(st, k, y.log) = CopyLog(ot, k, x.log) /\ CopyLog(st, d, y.log) = CopyLog(ot, d, x.log)
    BY <1>1, <1>3 DEF Paired
<1>6. f.deps = g.deps
    BY <1>1 DEF Fold
<1>7. f.row = g.row
    <2>1. f.row = FoldedRows(st.row, k, d, [row |-> st.row[k], log |-> CopyLog(st, k, y.log)],
                             [row |-> st.row[d], log |-> CopyLog(st, d, y.log)])
        BY DEF Fold, FoldedRows
    <2>2. g.row = FoldedRows(ot.row, k, d, [row |-> ot.row[k], log |-> CopyLog(ot, k, x.log)],
                             [row |-> ot.row[d], log |-> CopyLog(ot, d, x.log)])
        BY DEF Fold, FoldedRows
    <2> HIDE DEF f, g, k, d
    <2> QED
        BY <1>1, <1>5, <2>1, <2>2
<1>8. /\ Tasks(f) \subseteq Tasks(st) \ {d}
      /\ \A t \in Tasks(f) : f.row[t].due = st.row[t].due
    BY <1>2, FoldOfTwins DEF Fewer
<1>9. /\ StoreOK(f) /\ f.row[d] = NoRow
      /\ \A t \in Ids \ {d} : f.row[t].due = st.row[t].due
      /\ f.log = [st.log EXCEPT ![k] = st.log[k] \cup st.log[d], ![d] = {}]
    <2>1. Refiles(st, f, k, d)
        BY <1>2, <1>3, <1>4, FoldLog
    <2> HIDE DEF f, k, d
    <2> QED
        BY ONLY <2>1 DEF Refiles
<1>10. /\ StoreOK(g) /\ g.row[d] = NoRow
       /\ \A t \in Ids \ {d} : g.row[t].due = ot.row[t].due
       /\ g.log = [ot.log EXCEPT ![k] = ot.log[k] \cup ot.log[d], ![d] = {}]
    <2>1. Refiles(ot, g, k, d)
        BY <1>2, <1>3, <1>4, FoldLog
    <2> HIDE DEF g, k, d
    <2> QED
        BY ONLY <2>1 DEF Refiles
<1> HIDE DEF f, g, k, d
<1>11. \A t \in Ids \ {k, d} : f.log[t] = st.log[t] /\ g.log[t] = ot.log[t]
    <2>1. st.log = [t \in Ids |-> st.log[t]] /\ ot.log = [t \in Ids |-> ot.log[t]]
        BY <1>2 DEF StoreOK
    <2> QED
        BY <1>3, <1>9, <1>10, <2>1
<1>12. ASSUME NEW t \in Paired(f) PROVE t \in Paired(st) /\ t \in Ids \ {k, d}
    <2>1. PICK u \in Recurring(f) : u # t /\ f.row[u].due = f.row[t].due
        BY DEF Paired
    <2>2. /\ t \in Recurring(st) /\ u \in Recurring(st) /\ t # d /\ u # d
          /\ st.row[u].due = st.row[t].due
        BY <1>8, <2>1 DEF Paired, Recurring
    <2>3. ASSUME t = k PROVE FALSE
        <3>1. k = d \/ d = u \/ k = u
            BY <1>2, <1>3, <2>2, <2>3, AtMostTwo
        <3> QED
            BY <1>3, <2>1, <2>2, <2>3, <3>1
    <2> QED
        BY <2>1, <2>2, <2>3 DEF Paired, Recurring, Tasks
<1>13. \A t \in Paired(f) : CopyLog(f, t, y.log) = CopyLog(g, t, x.log)
    <2> SUFFICES ASSUME NEW t \in Paired(f) PROVE CopyLog(f, t, y.log) = CopyLog(g, t, x.log)
        OBVIOUS
    <2>1. f.log[t] = st.log[t] /\ g.log[t] = ot.log[t] /\ CopyLog(st, t, y.log) = CopyLog(ot, t, x.log)
        BY <1>1, <1>11, <1>12
    <2> QED
        BY <2>1 DEF CopyLog
<1> QED
    BY <1>6, <1>7, <1>13 DEF Alike, f, g, k, d

\* So they end: each finds the same pairs, one after the other.
LEMMA FoldedAlike ==
    ASSUME NEW x, NEW y, NEW n, Convene(x, y, n), Convene(y, x, n),
           NEW st, NEW ot, OnWay(x, y, st), OnWay(y, x, ot), Alike(x, y, st, ot)
    PROVE  Folded(st, y.log).row = Folded(ot, x.log).row /\ Folded(st, y.log).deps = Folded(ot, x.log).deps
<1>1. PICK f : Chain(st, y.log, MaxTask, f) /\ Folded(st, y.log) = f[MaxTask]
    BY FoldedIs
<1>2. PICK g : Chain(ot, x.log, MaxTask, g) /\ Folded(ot, x.log) = g[MaxTask]
    BY FoldedIs
<1>3. MaxTask \in Nat /\ MaxTask \in 0 .. MaxTask /\ 0 \in 0 .. MaxTask
    BY IdsAre
<1>4. f[0] = st /\ g[0] = ot /\ \A m \in 0 .. MaxTask : m # 0 => g[m] = FoldOnce(g[m - 1], x.log)
    BY <1>1, <1>2, <1>3 DEF Chain
<1> DEFINE OnPar(u, v) == OnWay(x, y, u) /\ OnWay(y, x, v) /\ Alike(x, y, u, v)
           Bad == {m \in 0 .. MaxTask : ~OnPar(f[m], g[m])}
<1>5. ASSUME NEW u, NEW v, OnPar(u, v) PROVE OnPar(FoldOnce(u, y.log), FoldOnce(v, x.log))
    <2>1. Twins(u) = Twins(v) /\ NextPair(u) = NextPair(v)
        BY <1>5, SameRowsSamePair DEF Alike
    <2>2. CASE Twins(u) = {}
        BY <1>5, <2>1, <2>2 DEF FoldOnce
    <2>3. CASE Twins(u) # {}
        <3> DEFINE p == NextPair(u)
        <3>1. p \in Twins(u) /\ p \in Twins(v)
            BY <1>5, <2>1, <2>3, NextPairIs DEF OnWay
        <3>2. /\ FoldOnce(u, y.log) = Fold(u, p[1], p[2], y.log)
              /\ FoldOnce(v, x.log) = Fold(v, p[1], p[2], x.log)
            BY <2>1, <2>3 DEF FoldOnce
        <3> HIDE DEF p
        <3>3. OnWay(x, y, Fold(u, p[1], p[2], y.log)) /\ OnWay(y, x, Fold(v, p[1], p[2], x.log))
            BY <1>5, <3>1, FoldOnWay
        <3>4. Alike(x, y, Fold(u, p[1], p[2], y.log), Fold(v, p[1], p[2], x.log))
            <4>1. Single(x) /\ Single(y)
                BY DEF Convene
            <4>2. OnWay(x, y, u) /\ OnWay(y, x, v) /\ Alike(x, y, u, v)
                BY <1>5
            <4> HIDE DEF OnPar
            <4> QED
                BY ONLY <3>1, <4>1, <4>2, FoldAlike
        <3> QED
            BY <3>2, <3>3, <3>4
    <2> QED
        BY <2>2, <2>3
<1>6. OnPar(st, ot)
    OBVIOUS
<1> HIDE DEF OnPar
<1>7. Bad = {}
    <2>1. Bad \in SUBSET (0 .. MaxTask)
        OBVIOUS
    <2>2. f[0] = st => 0 \notin Bad
        BY <1>4, <1>6
    <2>3. \A m \in 0 .. MaxTask : m # 0 /\ m - 1 \notin Bad /\ f[m] = FoldOnce(f[m - 1], y.log) => m \notin Bad
        <3> SUFFICES ASSUME NEW m \in 0 .. MaxTask, m # 0, m - 1 \notin Bad, f[m] = FoldOnce(f[m - 1], y.log)
                     PROVE  m \notin Bad
            OBVIOUS
        <3>1. m - 1 \in 0 .. MaxTask
            BY <1>3
        <3>2. OnPar(f[m - 1], g[m - 1])
            BY <3>1
        <3>3. g[m] = FoldOnce(g[m - 1], x.log)
            BY <1>4
        <3>4. OnPar(f[m], g[m])
            BY <1>5, <3>2, <3>3
        <3> QED
            BY <3>4
    <2> HIDE DEF Bad
    <2> QED
        BY <1>1, <2>1, <2>2, <2>3, FaultlessFolds
<1>8. OnPar(f[MaxTask], g[MaxTask])
    BY <1>3, <1>7
<1> QED
    BY <1>1, <1>2, <1>8 DEF OnPar, Alike

\* Two stores that meet end with one store's rows, edges and events.
LEMMA ImportsAlike ==
    ASSUME NEW x, NEW y, NEW n, Convene(x, y, n), Convene(y, x, n)
    PROVE  Seen(Imported(x, y)) = Seen(Imported(y, x))
<1>1. /\ Imported(x, y) = Folded(Joined(x, y), y.log)
      /\ Imported(y, x) = Folded(Joined(y, x), x.log)
    BY DEF Imported, Joined
<1>2. OnWay(x, y, Joined(x, y)) /\ OnWay(y, x, Joined(y, x))
    BY JoinedOnWay
<1>3. Alike(x, y, Joined(x, y), Joined(y, x))
    BY JoinedAlike
<1>4. Imported(x, y).row = Imported(y, x).row /\ Imported(x, y).deps = Imported(y, x).deps
    BY <1>1, <1>2, <1>3, FoldedAlike
<1>5. Known(Imported(x, y)) = Known(Imported(y, x))
    <2>1. StoreOK(x) /\ StoreOK(y)
        BY DEF Convene
    <2>2. Known(Imported(x, y)) = Known(x) \cup Known(y)
        BY <2>1, ImportedIs
    <2>3. Known(Imported(y, x)) = Known(y) \cup Known(x)
        BY <2>1, ImportedIs
    <2> QED
        BY <2>2, <2>3
<1> QED
    BY <1>4, <1>5 DEF Seen

-----------------------------------------------------------------------------
(* Every step keeps the files of the steady stores *)

\* Any two steady stores can meet.
LEMMA SteadiesConvene ==
    ASSUME LineInv, FileInv, NEW a \in Steadies, NEW b \in Steadies
    PROVE  Convene(a, b, now)
<1>1. \A st \in {a, b} : StoreOK(st) /\ Lined(st) /\ Single(st) /\ Tended(st, now)
    BY DEF LineInv, FileInv, Steadies, Held
<1>2. Agree(a, b)
    BY DEF LineInv, Steadies
<1>3. \A x, y \in {a, b} : Together(x, y)
    BY DEF FileInv
<1> QED
    BY <1>1, <1>2, <1>3 DEF Convene

\* Whichever of the two tasks is meant.
LEMMA TogetherAsWell ==
    ASSUME NEW a, NEW b, Together(a, b)
    PROVE  Together(b, a)
BY DEF Together

\* Time passes.
LEMMA TendedLater ==
    ASSUME NEW st, NEW n \in Nat, Tended(st, n)
    PROVE  Tended(st, n + 1)
<1>1. \A e \in Known(st) : Timed(e) /\ e.at < n + 1
    BY DEF Tended, Timed
<1> QED
    BY <1>1 DEF Tended

\* The machines begin with the two tasks' adds.
LEMMA InitFiles ==
    Init => FileInv
<1> SUFFICES ASSUME Init PROVE FileInv
    OBVIOUS
<1> DEFINE two == [row |-> [t \in Ids |-> IF t \in {Series, Errand} THEN NewRow(None, 1, t) ELSE NoRow],
                   log |-> [t \in Ids |-> IF t \in {Series, Errand} THEN {AddAt(t)} ELSE {}],
                   deps |-> {}]
<1>1. /\ now = 3 /\ store = [s \in Stores |-> two] /\ doc = Empty
      /\ last = [s \in Stores |-> NoDone]
    BY DEF Init
<1>2. /\ two.row = [t \in Ids |-> IF t \in {Series, Errand} THEN NewRow(None, 1, t) ELSE NoRow]
      /\ two.log = [t \in Ids |-> IF t \in {Series, Errand} THEN {AddAt(t)} ELSE {}]
    OBVIOUS
<1> HIDE DEF two
<1>3. \A a \in All : a = two
    BY <1>1 DEF All
<1>4. {Series, Errand} \subseteq Ids
    <2>1. LineInv
        BY InitLine
    <2>2. scene.most \in Nat /\ scene.most + 2 <= MaxTask /\ MaxTask \in Nat
        BY <2>1, OccurrencesAssumption DEF LineInv
    <2> QED
        BY <2>2 DEF Ids, Series, Errand
<1>5. Tasks(two) = {Series, Errand}
    <2>1. NewRow(None, 1, Series) # NoRow /\ NewRow(None, 1, Errand) # NoRow
        BY NewRowIs DEF None
    <2> QED
        BY <1>2, <1>4, <2>1 DEF Tasks
<1>6. \A t \in {Series, Errand} : EventOK(AddAt(t)) /\ AddAt(t).at = t /\ AddAt(t).id = 2 * t + 1 /\ AddAt(t).op = "add"
    BY AddIs DEF Series, Errand
<1>7. Known(two) = {AddAt(Series), AddAt(Errand)}
    BY <1>2, <1>4 DEF Known
<1>8. IsFiniteSet(Known(two))
    <2>1. IsFiniteSet({AddAt(Series)})
        BY FS_Singleton, Zenon
    <2>2. IsFiniteSet({AddAt(Series)} \cup {AddAt(Errand)})
        BY <2>1, FS_AddElement, Zenon
    <2>3. {AddAt(Series)} \cup {AddAt(Errand)} = Known(two)
        BY <1>7
    <2> QED
        BY <2>2, <2>3
<1>9. \A e \in Known(two) : Timed(e) /\ e.at < now
    <2>1. \A e \in Known(two) : EventOK(e) /\ e.at < 3
        BY <1>6, <1>7 DEF Series, Errand
    <2>2. \A e \in Known(two) : e.id \in Nat /\ e.at \in Nat /\ e.since \in Nat
        BY <2>1 DEF EventOK
    <2> QED
        BY <1>1, <2>1, <2>2 DEF Timed
<1>10. \A t \in Tasks(two) : GroupOK(two.row[t])
    <2> SUFFICES ASSUME NEW t \in {Series, Errand} PROVE GroupOK(two.row[t])
        BY <1>5
    <2>1. two.row[t] = NewRow(None, 1, t) /\ t \in Nat
        BY <1>2, <1>4 DEF Series, Errand
    <2> QED
        BY <2>1 DEF NewRow, GroupOK
<1>11. Homed(two)
    BY <1>2, <1>4, <1>5 DEF Homed
<1>12. Tended(two, now)
    BY <1>8, <1>9, <1>10, <1>11 DEF Tended
<1>13. Together(two, two)
    <2> SUFFICES ASSUME NEW x \in Tasks(two), NEW y \in Tasks(two), two.log[x] \cap two.log[y] # {}
                 PROVE  Piece(two, x) = Piece(two, y)
        BY DEF Together
    <2>1. two.log[x] = {AddAt(x)} /\ two.log[y] = {AddAt(y)}
        BY <1>2, <1>4, <1>5
    <2>2. AddAt(x) = AddAt(y)
        BY <2>1
    <2>3. AddAt(x).at = x /\ AddAt(y).at = y
        BY <1>5, <1>6
    <2>4. x = y
        BY <2>2, <2>3
    <2> QED
        BY <2>4
<1>14. \A s \in Stores : last[s] = NoDone
    BY <1>1
<1>15. \A s \in Stores : Returns(last[s], store[s])
    BY <1>14, NothingReturns
<1> QED
    BY <1>3, <1>12, <1>13, <1>15 DEF FileInv, Steadies

\* An export brings no store that was not there.
LEMMA ExportKeepsFiles ==
    ASSUME FileInv, NEW s \in Stores, Export(s)
    PROVE  FileInv'
<1>1. doc' = store[s] /\ UNCHANGED <<now, scene, store, last>>
    BY DEF Export
<1>2. All' \subseteq All
    BY <1>1 DEF All
<1>3. Steadies' \subseteq Steadies
    BY <1>2 DEF Steadies
<1> QED
    BY <1>1, <1>3 DEF FileInv

\* An edit files its events where it is made, each under the task it is about.
LEMMA EditKeepsFiles ==
    ASSUME LineInv, FileInv, NEW s \in Stores, UserEdit(s, store[s])
    PROVE  FileInv'
<1>1. PICK after, done : /\ Edit(s, after, done) /\ Follows(store[s], after, done)
                         /\ ~Cyclic(store[s].deps) => ~Cyclic(after.deps)
    BY UserEditFollows
<1>2. /\ store'[s] = after /\ \A x \in Stores \ {s} : store'[x] = store[x]
      /\ now' = now + 1 /\ doc' = doc /\ scene' = scene
    BY <1>1, EditMakes
<1>3. \A x \in Stores \ {s} : last'[x] = last[x]
    BY <1>1 DEF Edit, LineInv
<1>4. \A a \in All' : a = after \/ a \in All
    BY <1>2 DEF All
<1>5. now \in Nat
    BY DEF LineInv
<1>6. \A b \in Steadies : Tended(b, now') /\ Tended(b, now)
    BY <1>2, <1>5, TendedLater DEF FileInv
<1>7. \A a \in Steadies' : (a = after /\ Steady(after)) \/ a \in Steadies
    BY <1>4 DEF Steadies
<1>8. CASE ~Steady(after)
    <2>1. Steadies' \subseteq Steadies
        BY <1>7, <1>8
    <2>2. \A z \in Stores : Steady(store'[z]) => Returns(last'[z], store'[z])
        BY <1>2, <1>3, <1>8 DEF FileInv
    <2> QED
        BY <1>6, <2>1, <2>2 DEF FileInv
<1>9. CASE Steady(after)
    <2> DEFINE st == store[s]
    <2>1. st \in Steadies
        BY <1>1, <1>9 DEF Follows, Steadies, All
    <2>2. Held(st, now) /\ Tended(st, now)
        BY <1>6, <2>1 DEF LineInv, Steadies
    <2>3. Filing(st, after) /\ Returns(last'[s], after)
        BY <1>2, <1>9, <2>1, <2>2, UserEditFiles DEF FileInv
    <2>4. \A t \in Tasks(after) : t = now \/ (t \in Tasks(st) /\ after.row[t].due = st.row[t].due)
        BY <1>1, <1>9 DEF Follows
    <2> HIDE DEF st
    <2>5. PICK N : /\ IsFiniteSet(N) /\ \A e \in N : Timed(e) /\ e.at = now
                   /\ \A t \in Ids : after.log[t] \subseteq st.log[t] \cup N
                   /\ \A x, y \in Ids : \A e \in N : e \in after.log[x] /\ e \in after.log[y] => x = y
        BY <2>3 DEF Filing
    <2>6. Known(after) \subseteq Known(st) \cup N
        BY <2>5 DEF Known
    <2>7. Tended(after, now')
        <3>1. IsFiniteSet(Known(after))
            <4>1. IsFiniteSet(Known(st) \cup N)
                BY <2>2, <2>5, FS_Union DEF Tended
            <4> QED
                BY <2>6, <4>1, FS_Subset
        <3>2. \A e \in Known(after) : Timed(e) /\ e.at < now'
            BY <1>2, <1>5, <1>6, <2>1, <2>5, <2>6 DEF Tended
        <3> QED
            BY <2>3, <3>1, <3>2 DEF Tended, Filing
    <2>8. ASSUME NEW x \in Tasks(after), NEW e \in after.log[x], e \notin N
          PROVE  x \in Tasks(st) /\ e \in st.log[x] /\ Piece(after, x) = Piece(st, x)
        <3>1. x \in Ids
            BY DEF Tasks
        <3>2. e \in st.log[x]
            BY <2>5, <2>8, <3>1
        <3>3. x # now
            BY <1>5, <2>2, <3>1, <3>2 DEF Held
        <3>4. x \in Tasks(st) /\ after.row[x].due = st.row[x].due
            BY <2>4, <3>3
        <3> QED
            BY <3>2, <3>4 DEF Piece
    <2>9. ASSUME NEW b \in Steadies PROVE Together(after, b)
        <3> SUFFICES ASSUME NEW x \in Tasks(after), NEW y \in Tasks(b), NEW e \in after.log[x] \cap b.log[y]
                     PROVE  Piece(after, x) = Piece(b, y)
            BY DEF Together
        <3>1. e \in Known(b)
            BY DEF Known, Tasks
        <3>2. e \notin N
            BY <1>5, <1>6, <2>5, <3>1 DEF Tended
        <3>3. x \in Tasks(st) /\ e \in st.log[x] /\ Piece(after, x) = Piece(st, x)
            BY <2>8, <3>2
        <3>4. Piece(st, x) = Piece(b, y)
            BY <2>1, <3>3 DEF FileInv, Together
        <3> QED
            BY <3>3, <3>4
    <2>10. Together(after, after)
        <3> SUFFICES ASSUME NEW x \in Tasks(after), NEW y \in Tasks(after), NEW e \in after.log[x] \cap after.log[y]
                     PROVE  Piece(after, x) = Piece(after, y)
            BY DEF Together
        <3>1. CASE e \in N
            <4>1. x = y
                BY <2>5, <3>1 DEF Tasks
            <4> QED
                BY <4>1
        <3>2. CASE e \notin N
            <4>1. /\ x \in Tasks(st) /\ e \in st.log[x] /\ Piece(after, x) = Piece(st, x)
                  /\ y \in Tasks(st) /\ e \in st.log[y] /\ Piece(after, y) = Piece(st, y)
                BY <2>8, <3>2
            <4>2. Piece(st, x) = Piece(st, y)
                BY <2>1, <4>1 DEF FileInv, Together
            <4> QED
                BY <4>1, <4>2
        <3> QED
            BY <3>1, <3>2
    <2>11. \A a, b \in Steadies' : Together(a, b)
        <3>1. \A b \in Steadies : Together(after, b) /\ Together(b, after)
            BY <2>9, TogetherAsWell
        <3>2. \A a, b \in Steadies : Together(a, b)
            BY DEF FileInv
        <3> QED
            BY <1>7, <2>10, <3>1, <3>2
    <2>12. \A a \in Steadies' : Tended(a, now')
        BY <1>6, <1>7, <2>7
    <2>13. \A z \in Stores : Steady(store'[z]) => Returns(last'[z], store'[z])
        BY <1>2, <1>3, <2>3 DEF FileInv
    <2> QED
        BY <2>11, <2>12, <2>13 DEF FileInv
<1> QED
    BY <1>8, <1>9

\* An import leaves no event with another piece of work than it was logged for.
LEMMA MergeKeepsFiles ==
    ASSUME LineInv, FileInv, NEW s \in Stores, Merge(s)
    PROVE  FileInv'
<1> DEFINE mine == store[s]
           after == Imported(mine, doc)
<1>1. /\ doc # Empty
      /\ store' = [store EXCEPT ![s] = after]
      /\ last' = [last EXCEPT ![s] = NoDone]
      /\ UNCHANGED <<now, scene, doc>>
    BY DEF Merge
<1>2. store'[s] = after /\ \A x \in Stores \ {s} : store'[x] = store[x]
    <2>1. store = [x \in Stores |-> store[x]]
        BY DEF LineInv
    <2> HIDE DEF after
    <2> QED
        BY <1>1, <2>1
<1>3. last'[s] = NoDone /\ \A x \in Stores \ {s} : last'[x] = last[x]
    <2>1. last = [x \in Stores |-> last[x]]
        BY DEF LineInv
    <2> QED
        BY <1>1, <2>1
<1>4. mine \in All /\ doc \in All /\ StoreOK(mine) /\ StoreOK(doc)
    BY <1>1 DEF LineInv, All, Held
<1> HIDE DEF mine
<1>5. Known(after) = Known(mine) \cup Known(doc)
    <2>1. /\ StoreOK(after)
          /\ Tasks(after) \subseteq Tasks(mine) \cup Tasks(doc)
          /\ Known(after) = Known(mine) \cup Known(doc)
          /\ \A t \in Ids : mine.row[t] = NoRow /\ doc.row[t] = NoRow /\ mine.log[t] = {} /\ doc.log[t] = {}
                                => after.row[t] = NoRow /\ after.log[t] = {}
          /\ ~Refused(mine, doc) => ~Cyclic(after.deps)
          /\ Lined(mine) /\ Lined(doc) /\ Agree(mine, doc) =>
                /\ Lined(after) /\ Single(after)
                /\ Agree(after, mine) /\ Agree(after, doc)
        BY <1>4, ImportedIs
    <2> HIDE DEF after
    <2> QED
        BY <2>1
<1>6. Steady(after) => mine \in Steadies /\ doc \in Steadies
    <2> HIDE DEF after
    <2> QED
        BY <1>4, <1>5 DEF Steadies, Steady, Has
<1>7. Steady(after) => /\ Tended(after, now) /\ Sourced(mine, doc, after)
                       /\ Single(after) /\ OnWay(mine, doc, after)
    <2> SUFFICES ASSUME Steady(after)
                 PROVE  Tended(after, now) /\ Sourced(mine, doc, after) /\ Single(after) /\ OnWay(mine, doc, after)
        OBVIOUS
    <2>1. Convene(mine, doc, now)
        BY <1>6, SteadiesConvene
    <2> QED
        BY <2>1, ImportedTended
<1> HIDE DEF after
<1>8. \A a \in All' : a = after \/ a \in All
    BY <1>1, <1>2 DEF All
<1>9. \A a \in Steadies' : (a = after /\ Steady(after)) \/ a \in Steadies
    BY <1>8 DEF Steadies
<1>10. \A a \in Steadies' : Tended(a, now')
    BY <1>1, <1>7, <1>9 DEF FileInv
<1>11. ASSUME Steady(after), NEW b, Together(mine, b), Together(doc, b) PROVE Together(after, b)
    <2> SUFFICES ASSUME NEW x \in Tasks(after), NEW y \in Tasks(b), NEW e \in after.log[x] \cap b.log[y]
                 PROVE  Piece(after, x) = Piece(b, y)
        BY DEF Together
    <2>1. PICK o \in {mine, doc} : \E z \in Tasks(o) : e \in o.log[z] /\ Piece(o, z) = Piece(after, x)
        BY <1>7, <1>11 DEF Sourced
    <2>2. PICK z \in Tasks(o) : e \in o.log[z] /\ Piece(o, z) = Piece(after, x)
        BY <2>1
    <2>3. Together(o, b)
        BY <1>11
    <2>4. Piece(o, z) = Piece(b, y)
        BY <2>2, <2>3 DEF Together
    <2> QED
        BY <2>2, <2>4
<1>12. Steady(after) => \A b \in Steadies : Together(after, b) /\ Together(b, after)
    <2>1. Steady(after) => \A b \in Steadies : Together(mine, b) /\ Together(doc, b)
        BY <1>6 DEF FileInv
    <2> QED
        BY <1>11, <2>1, TogetherAsWell
<1>13. Steady(after) => Together(after, after)
    BY <1>6, <1>11, <1>12
<1>14. \A a, b \in Steadies' : Together(a, b)
    <2>1. \A a, b \in Steadies : Together(a, b)
        BY DEF FileInv
    <2> QED
        BY <1>9, <1>12, <1>13, <2>1
<1>15. \A z \in Stores : Steady(store'[z]) => Returns(last'[z], store'[z])
    <2> SUFFICES ASSUME NEW z \in Stores, Steady(store'[z]) PROVE Returns(last'[z], store'[z])
        OBVIOUS
    <2>1. CASE z = s
        BY <1>3, <2>1, NothingReturns
    <2>2. CASE z # s
        BY <1>2, <1>3, <2>2 DEF FileInv
    <2> QED
        BY <2>1, <2>2
<1> QED
    BY <1>10, <1>14, <1>15 DEF FileInv

\* Every step keeps it.
LEMMA FileStep ==
    LineInv /\ FileInv /\ [Next]_vars => FileInv'
<1> SUFFICES ASSUME LineInv, FileInv, [Next]_vars PROVE FileInv'
    OBVIOUS
<1>1. CASE UNCHANGED vars
    <2>1. UNCHANGED <<now, scene, store, doc, last>>
        BY <1>1 DEF vars
    <2>2. Steadies' = Steadies
        BY <2>1 DEF Steadies, All
    <2> QED
        BY <2>1, <2>2 DEF FileInv
<1>2. ASSUME NEW s \in Stores, UserEdit(s, store[s]) PROVE FileInv'
    BY <1>2, EditKeepsFiles
<1>3. ASSUME NEW s \in Stores, Export(s) PROVE FileInv'
    BY <1>3, ExportKeepsFiles
<1>4. ASSUME NEW s \in Stores, Merge(s) PROVE FileInv'
    BY <1>4, MergeKeepsFiles
<1> QED
    BY <1>1, <1>2, <1>3, <1>4 DEF Next

\* Where no due is moved, an event that tasks of two stores have is about one piece
\* of work, whichever copy it was logged on and wherever that was folded; a row's
\* instants are its status's, and only the add is left of an occurrence taken back
\* (store.import, fold_duplicate_occurrences, revert_done).
THEOREM FileInvCorrect == Spec => []FileInv
<1>1. Init => LineInv /\ FileInv
    BY InitLine, InitFiles
<1>2. LineInv /\ FileInv /\ [Next]_vars => LineInv' /\ FileInv'
    BY LineStep, FileStep
<1> QED
    BY <1>1, <1>2, PTL DEF Spec

\* There are two machines.
LEMMA TwoStores ==
    ASSUME NEW a \in Stores, NEW b \in Stores, a # b, NEW c \in Stores
    PROVE  c \in {a, b}
<1>1. IsFiniteSet(Stores) /\ Cardinality(Stores) = 2
    BY OccurrencesAssumption
<1>2. IsFiniteSet({a}) /\ Cardinality({a}) = 1
    BY FS_Singleton, Zenon
<1>3. b \notin {a}
    OBVIOUS
<1>4. IsFiniteSet({a} \cup {b}) /\ Cardinality({a} \cup {b}) = Cardinality({a}) + 1
    BY <1>2, <1>3, FS_AddElement, Zenon
<1>5. Cardinality({a} \cup {b}) = Cardinality(Stores)
    BY <1>1, <1>2, <1>4
<1>6. {a} \cup {b} \subseteq Stores
    OBVIOUS
<1>7. {a} \cup {b} = Stores
    BY <1>1, <1>5, <1>6, FS_Subset, Zenon
<1> QED
    BY <1>7

\* Each machine the other's importer, they end alike.
LEMMA FilesEitherWay ==
    LineInv /\ FileInv => EitherWayOneStore
<1> SUFFICES ASSUME LineInv, FileInv, NEW p \in Apart, NEW q \in Apart
             PROVE  Seen(Imported(store[p[1]], store[p[2]])) = Seen(Imported(store[q[1]], store[q[2]]))
    BY DEF EitherWayOneStore
<1>1. /\ p \in Stores \X Stores /\ p[1] # p[2] /\ q \in Stores \X Stores /\ q[1] # q[2]
      /\ \A s \in Stores : Steady(store[s])
    BY DEF Apart, Steady
<1>2. p[1] \in Stores /\ p[2] \in Stores /\ q[1] \in Stores /\ q[2] \in Stores
    BY <1>1
<1>3. q[1] \in {p[1], p[2]} /\ q[2] \in {p[1], p[2]}
    BY <1>1, <1>2, TwoStores
<1>4. store[p[1]] \in Steadies /\ store[p[2]] \in Steadies
    BY <1>1, <1>2 DEF Steadies, All
<1>5. Convene(store[p[1]], store[p[2]], now) /\ Convene(store[p[2]], store[p[1]], now)
    BY <1>4, SteadiesConvene
<1>6. Seen(Imported(store[p[1]], store[p[2]])) = Seen(Imported(store[p[2]], store[p[1]]))
    BY <1>5, ImportsAlike
<1>7. \/ q[1] = p[1] /\ q[2] = p[2]
      \/ q[1] = p[2] /\ q[2] = p[1]
    BY <1>1, <1>3
<1> QED
    BY <1>6, <1>7

\* Whichever of two stores in which no due was moved imports the other, and however
\* often they have done so before, completions taken back between, both end with
\* the same rows, edges and history (store_import, group_winner, merged_total,
\* fold_duplicate_occurrences; D191).
THEOREM EitherWayOneStoreCorrect == Spec => []EitherWayOneStore
BY LineInvCorrect, FileInvCorrect, FilesEitherWay, PTL

=============================================================================
