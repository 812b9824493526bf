-------------------------- MODULE CentSums_proofs --------------------------
(***************************************************************************)
(* The laws of the totals of CentSums, for any finite set of documents and  *)
(* any natural amounts: the total of no document, of one document more or   *)
(* less, of a document whose amount changed, and of documents that count    *)
(* for nothing.                                                             *)
(***************************************************************************)
EXTENDS CentSums, Integers, FiniteSetTheorems, TLAPS

(* What belongs to the cents of a set of documents.                          *)
LEMMA CentsMember ==
  ASSUME NEW f, NEW S
  PROVE  \A p : p \in CentsOf(f, S) <=> \E d \in S : \E n \in 1..f[d] : p = <<d, n>>
<1> SUFFICES ASSUME NEW p
             PROVE  p \in CentsOf(f, S) <=> \E d \in S : \E n \in 1..f[d] : p = <<d, n>>
  OBVIOUS
<1>1. ASSUME p \in CentsOf(f, S) PROVE \E d \in S : \E n \in 1..f[d] : p = <<d, n>>
  <2>1. PICK d \in S : p \in {d} \X (1..f[d])
    BY <1>1 DEF CentsOf
  <2>2. p = <<p[1], p[2]>> /\ p[1] = d /\ p[2] \in 1..f[d]
    BY <2>1
  <2> QED BY <2>2
<1>2. ASSUME NEW d \in S, NEW n \in 1..f[d], p = <<d, n>> PROVE p \in CentsOf(f, S)
  <2>1. p \in {d} \X (1..f[d])
    BY <1>2
  <2> QED BY <2>1 DEF CentsOf
<1> QED BY <1>1, <1>2

(* The cents of one document are as many as its amount.                      *)
LEMMA OneDocument ==
  ASSUME NEW d, NEW n \in Nat
  PROVE  IsFiniteSet({d} \X (1..n)) /\ Cardinality({d} \X (1..n)) = n
<1>1. IsFiniteSet({d}) /\ Cardinality({d}) = 1
  BY FS_Singleton
<1>2. IsFiniteSet(1..n) /\ Cardinality(1..n) = n
  <2>1. IsFiniteSet(1..n) /\ Cardinality(1..n) = IF 1 > n THEN 0 ELSE n - 1 + 1
    BY FS_Interval
  <2> QED BY <2>1
<1>3. /\ IsFiniteSet({d} \X (1..n))
      /\ Cardinality({d} \X (1..n)) = Cardinality({d}) * Cardinality(1..n)
  BY <1>1, <1>2, FS_Product
<1>4. Cardinality({d}) * Cardinality(1..n) = n
  BY <1>1, <1>2
<1> QED BY <1>3, <1>4

LEMMA SumTyped ==
  ASSUME NEW f, NEW S, IsFiniteSet(S), \A d \in S : f[d] \in Nat
  PROVE  IsFiniteSet(CentsOf(f, S)) /\ SumCents(f, S) \in Nat
<1> DEFINE g == [d \in S |-> {d} \X (1..f[d])]
           T == {{d} \X (1..f[d]) : d \in S}
<1>1. g \in Surjection(S, T)
  BY DEF Surjection
<1>2. IsFiniteSet(T)
  <2> HIDE DEF g, T
  <2> QED BY <1>1, FS_Surjection
<1>3. ASSUME NEW U \in T PROVE IsFiniteSet(U)
  <2>1. PICK d \in S : U = {d} \X (1..f[d])
    OBVIOUS
  <2> QED BY <2>1, OneDocument
<1>4. IsFiniteSet(UNION T)
  <2> HIDE DEF T
  <2> QED BY <1>2, <1>3, FS_UNION
<1>5. IsFiniteSet(CentsOf(f, S))
  BY <1>4 DEF CentsOf
<1> QED BY <1>5, FS_CardinalityType DEF SumCents

(* No document, no cents.                                                    *)
LEMMA SumNothing == \A f : SumCents(f, {}) = 0
<1> SUFFICES ASSUME NEW f PROVE SumCents(f, {}) = 0
  OBVIOUS
<1>1. CentsOf(f, {}) = {}
  BY CentsMember
<1> QED BY <1>1, FS_EmptySet DEF SumCents

(* One document more.                                                        *)
LEMMA SumWith ==
  ASSUME NEW f, NEW S, IsFiniteSet(S), \A d \in S : f[d] \in Nat,
         NEW e, e \notin S, f[e] \in Nat
  PROVE  SumCents(f, S \cup {e}) = SumCents(f, S) + f[e]
<1> DEFINE A == CentsOf(f, S)  B == {e} \X (1..f[e])
<1>1. IsFiniteSet(A) /\ Cardinality(A) \in Nat
  BY SumTyped DEF SumCents
<1>2. IsFiniteSet(B) /\ Cardinality(B) = f[e]
  BY OneDocument
<1>3. CentsOf(f, S \cup {e}) = A \cup B
  BY DEF CentsOf
<1>4. A \cap B = {}
  <2> SUFFICES ASSUME NEW p \in A, p \in B PROVE FALSE
    OBVIOUS
  <2>1. PICK d \in S : \E n \in 1..f[d] : p = <<d, n>>
    BY CentsMember
  <2> QED BY <2>1
<1>5. Cardinality(A \cup B) = Cardinality(A) + Cardinality(B)
  <2> HIDE DEF A, B
  <2>1. Cardinality(A \cup B) = Cardinality(A) + Cardinality(B) - Cardinality(A \cap B)
    BY <1>1, <1>2, FS_Union
  <2>2. Cardinality(A \cap B) = 0 /\ Cardinality(B) \in Nat
    BY <1>2, <1>4, FS_EmptySet
  <2> QED BY <1>1, <2>1, <2>2
<1> QED BY <1>2, <1>3, <1>5 DEF SumCents

(* One document less.                                                        *)
LEMMA SumWithout ==
  ASSUME NEW f, NEW S, IsFiniteSet(S), \A d \in S : f[d] \in Nat, NEW e \in S
  PROVE  SumCents(f, S \ {e}) = SumCents(f, S) - f[e]
<1>1. IsFiniteSet(S \ {e}) /\ (S \ {e}) \cup {e} = S
  BY FS_Subset
<1>2. SumCents(f, S) = SumCents(f, S \ {e}) + f[e]
  BY <1>1, SumWith
<1>3. SumCents(f, S \ {e}) \in Nat
  BY <1>1, SumTyped
<1> QED BY <1>2, <1>3

(* The total depends on the amounts of its documents only.                   *)
LEMMA SumAgrees ==
  ASSUME NEW f, NEW g, NEW S, \A d \in S : f[d] = g[d]
  PROVE  SumCents(f, S) = SumCents(g, S)
  BY DEF CentsOf, SumCents

(* The amount of one document changes.                                       *)
LEMMA SumChanged ==
  ASSUME NEW f, NEW g, NEW S, IsFiniteSet(S), NEW e \in S,
         \A d \in S : f[d] \in Nat /\ g[d] \in Nat,
         \A d \in S : d # e => f[d] = g[d]
  PROVE  SumCents(g, S) = SumCents(f, S) + g[e] - f[e]
<1>1. IsFiniteSet(S \ {e})
  BY FS_Subset
<1>2. SumCents(f, S \ {e}) = SumCents(g, S \ {e})
  BY SumAgrees
<1>3. /\ SumCents(f, S \ {e}) = SumCents(f, S) - f[e]
      /\ SumCents(g, S \ {e}) = SumCents(g, S) - g[e]
  BY SumWithout
<1>4. SumCents(f, S) \in Nat /\ SumCents(g, S) \in Nat
  BY SumTyped
<1> QED BY <1>2, <1>3, <1>4

(* Documents that count for nothing may be left out.                         *)
LEMMA SumOfCounting ==
  ASSUME NEW f, NEW S, NEW T \in SUBSET S, \A d \in S \ T : f[d] = 0
  PROVE  SumCents(f, T) = SumCents(f, S)
<1>1. \A d \in S \ T : 1..f[d] = {}
  BY 1..0 = {}
<1>2. \A p : p \in CentsOf(f, S) <=> p \in CentsOf(f, T)
  BY <1>1, CentsMember
<1>3. CentsOf(f, S) = CentsOf(f, T)
  BY <1>2
<1> QED BY <1>3 DEF SumCents

(* More documents and larger amounts make no smaller a total.                *)
LEMMA SumGrows ==
  ASSUME NEW f, NEW g, NEW T, NEW S \in SUBSET T, IsFiniteSet(T),
         \A d \in T : f[d] \in Nat /\ g[d] \in Nat /\ f[d] <= g[d]
  PROVE  SumCents(f, S) <= SumCents(g, T)
<1>1. CentsOf(f, S) \subseteq CentsOf(g, T)
  <2> SUFFICES ASSUME NEW p \in CentsOf(f, S) PROVE p \in CentsOf(g, T)
    OBVIOUS
  <2>1. PICK d \in S : \E n \in 1..f[d] : p = <<d, n>>
    BY CentsMember
  <2>2. 1..f[d] \subseteq 1..g[d]
    BY <2>1
  <2> QED BY <2>1, <2>2, CentsMember
<1>2. IsFiniteSet(CentsOf(g, T))
  BY SumTyped
<1> QED BY <1>1, <1>2, FS_Subset DEF SumCents

=============================================================================
