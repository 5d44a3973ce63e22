----------------------------- MODULE SumsProofs -----------------------------
(* What sums over finite sets do when a member comes, goes or changes.  The   *)
(* sum is a fold, which takes the members in whatever order CHOOSE gives; the *)
(* lemmas come from the order of the finite subsets, which is well founded:   *)
(* of the subsets that break a claim there would be a smallest one.           *)
EXTENDS Sums, FiniteSetTheorems, TLAPS

-----------------------------------------------------------------------------
(* The fold is well defined.                                                  *)

\* the member a sum takes first, and a function that has the sums of the
\* subsets of S
First(s) == CHOOSE x \in s : TRUE
Adds(g, iter, S) == iter = [s \in SUBSET S |-> IF s = {} THEN 0 ELSE g[First(s)] + iter[s \ {First(s)}]]

LEMMA SumIsFold ==
    ASSUME NEW g, NEW S
    PROVE  SumOver(g, S) = (CHOOSE iter : Adds(g, iter, S))[S]
  BY DEF SumOver, MapThenSumSet, MapThenFoldSet, Adds, First

LEMMA FirstIsMember ==
    ASSUME NEW s, s # {}
    PROVE  First(s) \in s
  BY DEF First

\* Among subsets of a finite set there is one that contains no other of them.
LEMMA SmallestSubset ==
    ASSUME NEW S, IsFiniteSet(S), NEW T \in SUBSET (SUBSET S), T # {}
    PROVE  \E A \in T : \A B \in T : B \subseteq A => B = A
<1>1. IsWellFoundedOn(StrictSubsetOrdering(S), SUBSET S)
  BY FS_StrictSubsetOrderingWellFounded, FS_FiniteSubsetsOfFinite
<1>2. PICK A \in T : \A B \in T : <<B, A>> \notin StrictSubsetOrdering(S)
  BY <1>1, WFMin
<1>3. ASSUME NEW B \in T, B \subseteq A, B # A PROVE <<B, A>> \in StrictSubsetOrdering(S)
  <2>1. <<B, A>> \in (SUBSET S) \X (SUBSET S)
    OBVIOUS
  <2> QED BY <1>3, <2>1 DEF StrictSubsetOrdering
<1>4. \A B \in T : B \subseteq A => B = A
  BY <1>2, <1>3
<1> QED BY <1>4

\* Two functions that have the sums agree where both have them.
LEMMA SumsAgree ==
    ASSUME NEW S, IsFiniteSet(S), NEW g, NEW i, NEW j, Adds(g, i, S), NEW Z \in SUBSET S, Adds(g, j, Z)
    PROVE  \A A \in SUBSET Z : i[A] = j[A]
<1> DEFINE T == {A \in SUBSET Z : i[A] # j[A]}
<1> SUFFICES ASSUME T # {} PROVE FALSE
  OBVIOUS
<1>1. PICK A \in T : \A B \in T : B \subseteq A => B = A
  <2>1. T \in SUBSET (SUBSET S)
    OBVIOUS
  <2> HIDE DEF T
  <2> QED BY <2>1, SmallestSubset
<1>2. A \in SUBSET S /\ A \in SUBSET Z
  OBVIOUS
<1>3. i[A] = IF A = {} THEN 0 ELSE g[First(A)] + i[A \ {First(A)}]
  BY <1>2 DEF Adds
<1>4. j[A] = IF A = {} THEN 0 ELSE g[First(A)] + j[A \ {First(A)}]
  BY <1>2 DEF Adds
<1>5. A # {} /\ First(A) \in A
  BY <1>3, <1>4, FirstIsMember
<1>6. A \ {First(A)} \in SUBSET Z /\ A \ {First(A)} # A
  BY <1>2, <1>5
<1>7. i[A \ {First(A)}] = j[A \ {First(A)}]
  BY <1>1, <1>6
<1> QED BY <1>3, <1>4, <1>7

\* There is a function that has the sums: on a smallest set that had none, the
\* sums of its proper subsets would make one.
LEMMA SumsExist ==
    ASSUME NEW S, IsFiniteSet(S), NEW g
    PROVE  \E i : Adds(g, i, S)
<1> DEFINE T == {A \in SUBSET S : ~ \E i : Adds(g, i, A)}
<1> SUFFICES ASSUME T # {} PROVE FALSE
  OBVIOUS
<1>1. PICK A \in T : \A B \in T : B \subseteq A => B = A
  <2>1. T \in SUBSET (SUBSET S)
    OBVIOUS
  <2> HIDE DEF T
  <2> QED BY <2>1, SmallestSubset
<1>2. A \in SUBSET S /\ ~ \E i : Adds(g, i, A)
  OBVIOUS
<1> DEFINE Of(B) == CHOOSE i : Adds(g, i, B)
           first == First(A)
           new == [B \in SUBSET A |-> IF B # A THEN Of(B)[B]
                                      ELSE IF A = {} THEN 0 ELSE g[first] + Of(A \ {first})[A \ {first}]]
<1>3. \A B \in SUBSET A : B # A => Adds(g, Of(B), B)
  <2> TAKE B \in SUBSET A
  <2>1. B # A => \E i : Adds(g, i, B)
    BY <1>1
  <2> QED BY <2>1
<1>4. \A B \in SUBSET A : B # A => IsFiniteSet(B)
  BY <1>2, FS_Subset
<1>5. \A B \in SUBSET A : \A C \in SUBSET B : B # A => Of(B)[C] = Of(C)[C]
  <2> SUFFICES ASSUME NEW B \in SUBSET A, NEW C \in SUBSET B, B # A PROVE Of(B)[C] = Of(C)[C]
    OBVIOUS
  <2>1. C \in SUBSET A /\ C # A /\ C \in SUBSET C
    OBVIOUS
  <2>2. Adds(g, Of(B), B) /\ Adds(g, Of(C), C) /\ IsFiniteSet(B)
    BY <1>3, <1>4, <2>1
  <2> HIDE DEF Of
  <2> QED BY <2>1, <2>2, SumsAgree
<1> HIDE DEF Of
<1>6. ASSUME NEW B \in SUBSET A
      PROVE  new[B] = IF B = {} THEN 0 ELSE g[First(B)] + new[B \ {First(B)}]
  <2>1. B # {} => First(B) \in B
    BY FirstIsMember
  <2>2. B # {} => B \ {First(B)} \in SUBSET A /\ B \ {First(B)} # A /\ B \ {First(B)} \in SUBSET B
    BY <2>1
  <2>3. B # {} => new[B \ {First(B)}] = Of(B \ {First(B)})[B \ {First(B)}]
    BY <2>2
  <2>4. CASE B = A
    BY <2>3, <2>4
  <2>5. CASE B # A
    <3>1. Of(B)[B] = IF B = {} THEN 0 ELSE g[First(B)] + Of(B)[B \ {First(B)}]
      BY <1>3, <2>5 DEF Adds
    <3>2. B # {} => Of(B)[B \ {First(B)}] = Of(B \ {First(B)})[B \ {First(B)}]
      BY <1>5, <2>2, <2>5
    <3> QED BY <2>3, <2>5, <3>1, <3>2
  <2> QED BY <2>4, <2>5
<1>7. new = [B \in SUBSET A |-> new[B]]
  OBVIOUS
<1> HIDE DEF new
<1>8. Adds(g, new, A)
  BY <1>6, <1>7 DEF Adds
<1> QED BY <1>2, <1>8

\* So a sum is its first member's number and the sum of the rest.
LEMMA SumSteps ==
    ASSUME NEW S, IsFiniteSet(S), NEW g
    PROVE  SumOver(g, S) = IF S = {} THEN 0 ELSE g[First(S)] + SumOver(g, S \ {First(S)})
<1> DEFINE Of(B) == CHOOSE i : Adds(g, i, B)
<1>1. \A B \in SUBSET S : Adds(g, Of(B), B)
  <2> TAKE B \in SUBSET S
  <2>1. IsFiniteSet(B)
    BY FS_Subset
  <2> QED BY <2>1, SumsExist
<1>2. \A B : SumOver(g, B) = Of(B)[B]
  BY SumIsFold
<1> HIDE DEF Of
<1>3. S # {} => Of(S)[S \ {First(S)}] = Of(S \ {First(S)})[S \ {First(S)}]
  BY <1>1, SumsAgree
<1>4. Of(S)[S] = IF S = {} THEN 0 ELSE g[First(S)] + Of(S)[S \ {First(S)}]
  BY <1>1 DEF Adds
<1> QED BY <1>2, <1>3, <1>4

\* Every set of numbers has a least.
LEMMA LeastNumber ==
    ASSUME NEW T \in SUBSET Nat, T # {}
    PROVE  \E i \in T : \A j \in T : i <= j
<1>1. PICK i \in T : \A j \in T : <<j, i>> \notin OpToRel(<, Nat)
  BY WFMin, NatLessThanWellFounded
<1>2. \A j \in T : ~(j < i)
  BY <1>1, Zenon DEF OpToRel
<1> QED BY <1>2

-----------------------------------------------------------------------------
(* What a sum does.                                                           *)

LEMMA SumEmpty == \A g : SumOver(g, {}) = 0
  BY SumSteps, FS_EmptySet

LEMMA SumOfSubsets ==
    ASSUME NEW S, IsFiniteSet(S), NEW g
    PROVE  \A A \in SUBSET S : SumOver(g, A) = IF A = {} THEN 0 ELSE g[First(A)] + SumOver(g, A \ {First(A)})
<1> TAKE A \in SUBSET S
<1>1. IsFiniteSet(A)
  BY FS_Subset
<1> QED BY <1>1, SumSteps

LEMMA SumType ==
    ASSUME NEW S, IsFiniteSet(S), NEW g, \A y \in S : g[y] \in Int
    PROVE  \A A \in SUBSET S : SumOver(g, A) \in Int
<1> DEFINE T == {A \in SUBSET S : SumOver(g, A) \notin Int}
<1> SUFFICES ASSUME T # {} PROVE FALSE
  OBVIOUS
<1>1. PICK A \in T : \A B \in T : B \subseteq A => B = A
  <2>1. T \in SUBSET (SUBSET S)
    OBVIOUS
  <2> HIDE DEF T
  <2> QED BY <2>1, SmallestSubset
<1>2. A # {} /\ First(A) \in A /\ A \in SUBSET S
  <2>1. A \in SUBSET S /\ SumOver(g, A) \notin Int
    OBVIOUS
  <2>2. SumOver(g, {}) = 0 /\ 0 \in Int
    BY SumEmpty
  <2>3. A # {}
    BY <2>1, <2>2
  <2> QED BY <2>1, <2>3, FirstIsMember
<1>3. A \ {First(A)} \in SUBSET S /\ A \ {First(A)} # A /\ A \ {First(A)} \subseteq A
  BY <1>2
<1>4. SumOver(g, A \ {First(A)}) \in Int
  BY <1>1, <1>3
<1> QED BY <1>2, <1>4, SumOfSubsets

\* A sum does not depend on which member is taken first.
LEMMA SumRemoves ==
    ASSUME NEW S, IsFiniteSet(S), NEW g, \A y \in S : g[y] \in Int
    PROVE  \A x \in S : SumOver(g, S) = g[x] + SumOver(g, S \ {x})
<1> DEFINE T == {A \in SUBSET S : \E x \in A : SumOver(g, A) # g[x] + SumOver(g, A \ {x})}
<1>1. T = {} => \A x \in S : SumOver(g, S) = g[x] + SumOver(g, S \ {x})
  OBVIOUS
<1> SUFFICES ASSUME T # {} PROVE FALSE
  BY <1>1
<1>2. PICK A \in T : \A B \in T : B \subseteq A => B = A
  <2>1. T \in SUBSET (SUBSET S)
    OBVIOUS
  <2> HIDE DEF T
  <2> QED BY <2>1, SmallestSubset
<1>3. PICK x \in A : SumOver(g, A) # g[x] + SumOver(g, A \ {x})
  OBVIOUS
<1> DEFINE p == First(A)
<1>4. A \in SUBSET S /\ p \in A /\ SumOver(g, A) = g[p] + SumOver(g, A \ {p})
  BY <1>3, SumOfSubsets, FirstIsMember
<1>5. \A B \in SUBSET A : B # A => \A y \in B : SumOver(g, B) = g[y] + SumOver(g, B \ {y})
  BY <1>2, <1>4
<1> HIDE DEF p, T
<1>6. /\ p # x /\ x \in A \ {p} /\ p \in A \ {x}
      /\ (A \ {p}) \ {x} = A \ {p, x} /\ (A \ {x}) \ {p} = A \ {p, x}
  BY <1>3, <1>4
<1>7. /\ SumOver(g, A \ {p}) = g[x] + SumOver(g, A \ {p, x})
      /\ SumOver(g, A \ {x}) = g[p] + SumOver(g, A \ {p, x})
  BY <1>4, <1>5, <1>6
<1>8. SumOver(g, A \ {p, x}) \in Int /\ g[p] \in Int /\ g[x] \in Int
  BY <1>4, SumType
<1> QED BY <1>3, <1>4, <1>7, <1>8

LEMMA SumAdds ==
    ASSUME NEW S, IsFiniteSet(S), NEW g, NEW x, x \notin S, \A y \in S \cup {x} : g[y] \in Int
    PROVE  /\ SumOver(g, S) \in Int /\ SumOver(g, S \cup {x}) \in Int
           /\ SumOver(g, S \cup {x}) = SumOver(g, S) + g[x]
<1>1. IsFiniteSet(S \cup {x})
  BY FS_AddElement
<1>2. (S \cup {x}) \ {x} = S
  OBVIOUS
<1>3. SumOver(g, S \cup {x}) = g[x] + SumOver(g, S)
  BY <1>1, <1>2, SumRemoves
<1>4. SumOver(g, S) \in Int /\ SumOver(g, S \cup {x}) \in Int
  BY <1>1, SumType
<1> QED BY <1>3, <1>4

\* A sum depends on the numbers of the members alone.
LEMMA SumSame ==
    ASSUME NEW S, IsFiniteSet(S), NEW g, NEW h, \A y \in S : g[y] = h[y]
    PROVE  SumOver(g, S) = SumOver(h, S)
<1> DEFINE T == {A \in SUBSET S : SumOver(g, A) # SumOver(h, A)}
<1>1. T = {} => SumOver(g, S) = SumOver(h, S)
  OBVIOUS
<1> SUFFICES ASSUME T # {} PROVE FALSE
  BY <1>1
<1>2. PICK A \in T : \A B \in T : B \subseteq A => B = A
  <2>1. T \in SUBSET (SUBSET S)
    OBVIOUS
  <2> HIDE DEF T
  <2> QED BY <2>1, SmallestSubset
<1>3. A # {} /\ First(A) \in A /\ A \in SUBSET S
  BY SumOfSubsets, FirstIsMember
<1>4. SumOver(g, A \ {First(A)}) = SumOver(h, A \ {First(A)})
  BY <1>2, <1>3
<1> QED BY <1>3, <1>4, SumOfSubsets

\* One number changes.
LEMMA SumChanges ==
    ASSUME NEW S, IsFiniteSet(S), NEW g, NEW h, NEW x \in S, h[x] \in Int,
           \A y \in S : g[y] \in Int, \A y \in S \ {x} : h[y] = g[y]
    PROVE  /\ SumOver(g, S) \in Int /\ SumOver(h, S) \in Int
           /\ SumOver(h, S) = SumOver(g, S) - g[x] + h[x]
<1>1. \A y \in S : h[y] \in Int
  OBVIOUS
<1>2. SumOver(g, S) = g[x] + SumOver(g, S \ {x}) /\ SumOver(h, S) = h[x] + SumOver(h, S \ {x})
  BY <1>1, SumRemoves
<1>3. SumOver(g, S \ {x}) = SumOver(h, S \ {x})
  <2>1. IsFiniteSet(S \ {x})
    BY FS_RemoveElement
  <2> QED BY <2>1, SumSame
<1>4. SumOver(g, S \ {x}) \in Int /\ SumOver(g, S) \in Int /\ SumOver(h, S) \in Int
  BY <1>1, SumType
<1> QED BY <1>2, <1>3, <1>4

\* The same for sums whose numbers are given by two functions: one of the sets
\* has a member more, or one number differs.
With(S, x) == S \cup {x}

OneMore(S, g, h, x) ==
    /\ IsFiniteSet(S) /\ x \notin S /\ h[x] \in Int
    /\ \A z \in S : g[z] \in Int /\ h[z] = g[z]

LEMMA SumAddsOne ==
    ASSUME NEW S, NEW g, NEW h, NEW x, OneMore(S, g, h, x)
    PROVE  /\ SumOver(g, S) \in Int
           /\ SumOver(h, S) = SumOver(g, S)
           /\ SumOver(h, With(S, x)) = SumOver(g, S) + h[x]
<1> USE DEF OneMore
<1>1. SumOver(g, S) \in Int
  BY SumType
<1>2. SumOver(h, S) = SumOver(g, S)
  BY SumSame
<1>3. \A z \in S \cup {x} : h[z] \in Int
  OBVIOUS
<1>4. SumOver(h, S \cup {x}) = SumOver(h, S) + h[x]
  BY <1>3, SumAdds
<1> QED BY <1>1, <1>2, <1>4 DEF With

OneChanged(S, g, h, x) ==
    /\ IsFiniteSet(S) /\ x \in S /\ h[x] \in Int
    /\ \A z \in S : g[z] \in Int
    /\ \A z \in S \ {x} : h[z] = g[z]

LEMMA SumOneChanged ==
    ASSUME NEW S, NEW g, NEW h, NEW x, OneChanged(S, g, h, x)
    PROVE  SumOver(g, S) \in Int /\ SumOver(h, S) = SumOver(g, S) - g[x] + h[x]
<1> USE DEF OneChanged
<1>1. IsFiniteSet(S) /\ x \in S /\ h[x] \in Int
  OBVIOUS
<1>2. \A y \in S : g[y] \in Int
  OBVIOUS
<1>3. \A y \in S \ {x} : h[y] = g[y]
  OBVIOUS
<1>4. SumOver(g, S) \in Int
  BY <1>1, <1>2, SumType
<1>5. SumOver(h, S) = SumOver(g, S) - g[x] + h[x]
  BY <1>1, <1>2, <1>3, SumChanges
<1> QED BY <1>4, <1>5

\* What two more terms, or one of them, do to a sum.
TwoMore(S, g, h, x, y) ==
    /\ IsFiniteSet(S) /\ x \notin S /\ y \notin S /\ x # y
    /\ h[x] \in Int /\ h[y] \in Int
    /\ \A z \in S : g[z] \in Int /\ h[z] = g[z]

LEMMA SumAddsTwo ==
    ASSUME NEW S, NEW g, NEW h, NEW x, NEW y, TwoMore(S, g, h, x, y)
    PROVE  /\ SumOver(g, S) \in Int
           /\ SumOver(h, S) = SumOver(g, S)
           /\ SumOver(h, With(S, x)) = SumOver(g, S) + h[x]
           /\ SumOver(h, With(S, y)) = SumOver(g, S) + h[y]
           /\ SumOver(h, With(With(S, x), y)) = SumOver(g, S) + h[x] + h[y]
<1> USE DEF TwoMore
<1>1. SumOver(g, S) \in Int
  BY SumType
<1>2. SumOver(h, S) = SumOver(g, S)
  BY SumSame
<1>3. \A z \in S \cup {x} : h[z] \in Int
  OBVIOUS
<1>4. \A z \in S \cup {y} : h[z] \in Int
  OBVIOUS
<1>5. SumOver(h, S \cup {x}) = SumOver(h, S) + h[x]
  BY <1>3, SumAdds
<1>6. SumOver(h, S \cup {y}) = SumOver(h, S) + h[y]
  BY <1>4, SumAdds
<1> DEFINE T == S \cup {x}
<1>7. IsFiniteSet(T) /\ y \notin T /\ \A z \in T \cup {y} : h[z] \in Int
  BY FS_AddElement
<1> HIDE DEF T
<1>9. SumOver(h, T \cup {y}) = SumOver(h, T) + h[y]
  BY <1>7, SumAdds
<1> QED BY <1>1, <1>2, <1>5, <1>6, <1>9 DEF T, With
-----------------------------------------------------------------------------
(* Sums over a set of one, and over two sets together.                        *)

LEMMA SumOfOne ==
    ASSUME NEW g, NEW x, g[x] \in Int
    PROVE  SumOver(g, {x}) = g[x]
<1>1. IsFiniteSet({}) /\ x \notin {} /\ {} \cup {x} = {x} /\ \A y \in {} \cup {x} : g[y] \in Int
  BY FS_EmptySet
<1>2. SumOver(g, {} \cup {x}) = SumOver(g, {}) + g[x]
  BY <1>1, SumAdds
<1> QED BY <1>1, <1>2, SumEmpty

LEMMA SumDisjoint ==
    ASSUME NEW S, IsFiniteSet(S), NEW R, IsFiniteSet(R), S \cap R = {},
           NEW g, \A y \in S \cup R : g[y] \in Int
    PROVE  /\ SumOver(g, S) \in Int /\ SumOver(g, R) \in Int
           /\ SumOver(g, S \cup R) = SumOver(g, S) + SumOver(g, R)
<1>1. SumOver(g, S) \in Int /\ SumOver(g, R) \in Int
  BY SumType
<1> DEFINE T == {A \in SUBSET R : SumOver(g, S \cup A) # SumOver(g, S) + SumOver(g, A)}
<1>2. T = {} => SumOver(g, S \cup R) = SumOver(g, S) + SumOver(g, R)
  OBVIOUS
<1> SUFFICES ASSUME T # {} PROVE FALSE
  BY <1>1, <1>2
<1>3. PICK A \in T : \A B \in T : B \subseteq A => B = A
  <2>1. T \in SUBSET (SUBSET R)
    OBVIOUS
  <2> HIDE DEF T
  <2> QED BY <2>1, SmallestSubset
<1>4. CASE A = {}
  BY <1>1, <1>4, SumEmpty
<1>5. CASE A # {}
  <2>1. PICK x \in A : TRUE
    BY <1>5
  <2> DEFINE B == A \ {x}
  <2>2. B \subseteq A /\ B # A /\ B \in SUBSET R
    BY <2>1
  <2>3. x \notin B /\ x \notin S \cup B
    BY <2>1
  <2>4. A = B \cup {x} /\ S \cup A = (S \cup B) \cup {x}
    BY <2>1
  <2>5. IsFiniteSet(B) /\ IsFiniteSet(S \cup B)
    <3>1. IsFiniteSet(B)
      BY <2>2, FS_Subset
    <3> QED BY <3>1, FS_Union
  <2>6. SumOver(g, S \cup B) = SumOver(g, S) + SumOver(g, B)
    BY <1>3, <2>2
  <2>7. (\A y \in B \cup {x} : g[y] \in Int) /\ (\A y \in (S \cup B) \cup {x} : g[y] \in Int) /\ g[x] \in Int
    BY <2>1
  <2> HIDE DEF B, T
  <2>8. SumOver(g, B) \in Int /\ SumOver(g, B \cup {x}) = SumOver(g, B) + g[x]
    BY <2>5, <2>7, <2>3, SumAdds
  <2>9. SumOver(g, (S \cup B) \cup {x}) = SumOver(g, S \cup B) + g[x]
    BY <2>5, <2>7, <2>3, SumAdds
  <2>10. SumOver(g, S \cup A) = SumOver(g, S) + SumOver(g, A)
    <3>1. SumOver(g, S \cup A) = SumOver(g, S \cup B) + g[x]
      BY <2>9, <2>4
    <3>2. SumOver(g, A) = SumOver(g, B) + g[x]
      BY <2>8, <2>4
    <3>3. g[x] \in Int
      BY <2>7
    <3> QED BY <1>1, <2>6, <2>8, <3>1, <3>2, <3>3
  <2> QED BY <1>3, <2>10 DEF T
<1> QED BY <1>4, <1>5

LEMMA SumOfZeros ==
    ASSUME NEW S, IsFiniteSet(S), NEW g, \A x \in S : g[x] = 0
    PROVE  SumOver(g, S) = 0
<1> DEFINE T == {A \in SUBSET S : SumOver(g, A) # 0}
<1>1. T = {} => SumOver(g, S) = 0
  OBVIOUS
<1> SUFFICES ASSUME T # {} PROVE FALSE
  BY <1>1
<1>2. PICK A \in T : \A B \in T : B \subseteq A => B = A
  <2>1. T \in SUBSET (SUBSET S)
    OBVIOUS
  <2> HIDE DEF T
  <2> QED BY <2>1, SmallestSubset
<1>3. A # {} /\ First(A) \in A /\ A \in SUBSET S /\ SumOver(g, A) # 0
  BY SumEmpty, FirstIsMember
<1>4. SumOver(g, A \ {First(A)}) = 0
  BY <1>2, <1>3
<1>5. SumOver(g, A) = 0 + 0
  BY <1>3, <1>4, SumOfSubsets
<1> QED BY <1>3, <1>5

\* The difference of two sums is the sum of the differences.
LEMMA SumDifference ==
    ASSUME NEW S, IsFiniteSet(S), NEW g, NEW h, NEW d,
           \A x \in S : g[x] \in Int /\ h[x] \in Int /\ d[x] = g[x] - h[x]
    PROVE  /\ SumOver(g, S) \in Int /\ SumOver(h, S) \in Int
           /\ SumOver(d, S) = SumOver(g, S) - SumOver(h, S)
<1>1. SumOver(g, S) \in Int /\ SumOver(h, S) \in Int
  BY SumType
<1> DEFINE T == {A \in SUBSET S : SumOver(d, A) # SumOver(g, A) - SumOver(h, A)}
<1>2. T = {} => SumOver(d, S) = SumOver(g, S) - SumOver(h, S)
  OBVIOUS
<1> SUFFICES ASSUME T # {} PROVE FALSE
  BY <1>1, <1>2
<1>3. PICK A \in T : \A B \in T : B \subseteq A => B = A
  <2>1. T \in SUBSET (SUBSET S)
    OBVIOUS
  <2> HIDE DEF T
  <2> QED BY <2>1, SmallestSubset
<1>4. A \in SUBSET S /\ SumOver(d, A) # SumOver(g, A) - SumOver(h, A)
  OBVIOUS
<1>5. A # {}
  <2>1. SumOver(d, {}) = 0 /\ SumOver(g, {}) = 0 /\ SumOver(h, {}) = 0
    BY SumEmpty
  <2>2. SumOver(d, {}) = SumOver(g, {}) - SumOver(h, {})
    BY <2>1
  <2> QED BY <1>4, <2>2
<1> DEFINE x == First(A)
           B == A \ {x}
<1>6. x \in S /\ B \in SUBSET S /\ B \subseteq A /\ B # A
  BY <1>4, <1>5, FirstIsMember
<1>7. SumOver(d, B) = SumOver(g, B) - SumOver(h, B)
  BY <1>3, <1>6
<1>8. /\ SumOver(d, A) = d[x] + SumOver(d, B)
      /\ SumOver(g, A) = g[x] + SumOver(g, B)
      /\ SumOver(h, A) = h[x] + SumOver(h, B)
  BY <1>4, <1>5, SumOfSubsets
<1> HIDE DEF x, B, T
<1>9. SumOver(g, B) \in Int /\ SumOver(h, B) \in Int
  BY <1>6, SumType
<1>10. g[x] \in Int /\ h[x] \in Int /\ d[x] = g[x] - h[x]
  BY <1>6
<1> QED BY <1>4, <1>7, <1>8, <1>9, <1>10

\* The parts of a set, one for each k, add up to the sum over the whole.
LEMMA SumByParts ==
    ASSUME NEW K, IsFiniteSet(K), NEW S, IsFiniteSet(S), NEW part \in [K -> SUBSET S],
           \A j, k \in K : j # k => part[j] \cap part[k] = {},
           NEW g, \A x \in S : g[x] \in Int,
           NEW sums, \A k \in K : sums[k] = SumOver(g, part[k])
    PROVE  SumOver(sums, K) = SumOver(g, UNION {part[k] : k \in K})
<1> DEFINE All(A) == UNION {part[k] : k \in A}
           T == {A \in SUBSET K : SumOver(sums, A) # SumOver(g, All(A))}
<1>1. T = {} => SumOver(sums, K) = SumOver(g, All(K))
  OBVIOUS
<1> SUFFICES ASSUME T # {} PROVE FALSE
  BY <1>1
<1>2. PICK A \in T : \A B \in T : B \subseteq A => B = A
  <2>1. T \in SUBSET (SUBSET K)
    OBVIOUS
  <2> HIDE DEF T
  <2> QED BY <2>1, SmallestSubset
<1>3. A \in SUBSET K /\ SumOver(sums, A) # SumOver(g, All(A))
  OBVIOUS
<1>4. A # {}
  <2>1. All({}) = {}
    OBVIOUS
  <2> HIDE DEF All
  <2> QED BY <1>3, <2>1, SumEmpty
<1> DEFINE k == First(A)
           B == A \ {k}
<1>5. k \in A /\ k \in K /\ B \in SUBSET K /\ B \subseteq A /\ B # A /\ k \notin B
  BY <1>3, <1>4, FirstIsMember
<1>6. SumOver(sums, B) = SumOver(g, All(B))
  <2>1. B \notin T
    <3> HIDE DEF T, B
    <3> QED BY <1>2, <1>5
  <2> HIDE DEF All, B
  <2> QED BY <1>5, <2>1
<1>7. SumOver(sums, A) = sums[k] + SumOver(sums, B)
  BY <1>3, <1>4, SumOfSubsets
<1>8. All(A) = All(B) \cup part[k] /\ All(B) \cap part[k] = {} /\ All(B) \subseteq S /\ part[k] \subseteq S
  <2>1. part[k] \subseteq S
    BY <1>5
  <2>2. All(B) \subseteq S
    BY <1>5
  <2>3. All(B) \cap part[k] = {}
    <3>1. \A b \in B : part[b] \cap part[k] = {}
      BY <1>5
    <3> QED BY <3>1
  <2>4. All(A) = All(B) \cup part[k]
    <3>1. A = B \cup {k}
      BY <1>5
    <3> HIDE DEF B
    <3> QED BY <3>1
  <2> QED BY <2>1, <2>2, <2>3, <2>4
<1> HIDE DEF All, B, k, T
<1>9. IsFiniteSet(All(B)) /\ IsFiniteSet(part[k])
  BY <1>8, FS_Subset
<1>10. \A x \in All(B) \cup part[k] : g[x] \in Int
  BY <1>8
<1>11. /\ SumOver(g, All(B)) \in Int /\ SumOver(g, part[k]) \in Int
       /\ SumOver(g, All(B) \cup part[k]) = SumOver(g, All(B)) + SumOver(g, part[k])
  <2> DEFINE P == All(B)
             Q == part[k]
  <2>1. IsFiniteSet(P) /\ IsFiniteSet(Q) /\ P \cap Q = {} /\ \A x \in P \cup Q : g[x] \in Int
    BY <1>8, <1>9, <1>10
  <2> HIDE DEF P, Q
  <2>2. /\ SumOver(g, P) \in Int /\ SumOver(g, Q) \in Int
        /\ SumOver(g, P \cup Q) = SumOver(g, P) + SumOver(g, Q)
    BY <2>1, SumDisjoint, ZenonT(30)
  <2> QED BY <2>2 DEF P, Q
<1>12. sums[k] = SumOver(g, part[k])
  BY <1>5
<1>13. SumOver(sums, A) = SumOver(g, All(B) \cup part[k])
  BY <1>6, <1>7, <1>11, <1>12
<1> QED BY <1>3, <1>8, <1>13

\* What goes down at a place, and up at none, adds up to less: the sums that
\* bound how many steps are left.
LEMMA SumOfNats ==
    ASSUME NEW S, IsFiniteSet(S), NEW g, \A y \in S : g[y] \in Nat
    PROVE  SumOver(g, S) \in Nat
<1> DEFINE T == {A \in SUBSET S : SumOver(g, A) \notin Nat}
<1>1. T = {} => SumOver(g, S) \in Nat
  OBVIOUS
<1> SUFFICES ASSUME T # {} PROVE FALSE
  BY <1>1
<1>2. PICK A \in T : \A B \in T : B \subseteq A => B = A
  <2>1. T \in SUBSET (SUBSET S)
    OBVIOUS
  <2> HIDE DEF T
  <2> QED BY <2>1, SmallestSubset
<1>3. A # {} /\ First(A) \in A /\ A \in SUBSET S /\ SumOver(g, A) \notin Nat
  BY SumEmpty, FirstIsMember
<1>4. SumOver(g, A \ {First(A)}) \in Nat /\ g[First(A)] \in Nat
  BY <1>2, <1>3
<1>5. SumOver(g, A) = g[First(A)] + SumOver(g, A \ {First(A)})
  BY <1>3, SumOfSubsets
<1> QED BY <1>3, <1>4, <1>5

LEMMA SumFalls ==
    ASSUME NEW S, IsFiniteSet(S), NEW g, NEW h,
           \A y \in S : g[y] \in Int /\ h[y] \in Int /\ h[y] <= g[y],
           NEW x \in S, h[x] < g[x]
    PROVE  /\ SumOver(g, S) \in Int /\ SumOver(h, S) \in Int
           /\ SumOver(h, S) < SumOver(g, S)
<1> DEFINE d == [y \in S |-> g[y] - h[y]]
<1>1. /\ SumOver(g, S) \in Int /\ SumOver(h, S) \in Int
      /\ SumOver(d, S) = SumOver(g, S) - SumOver(h, S)
  <2>1. \A y \in S : g[y] \in Int /\ h[y] \in Int /\ d[y] = g[y] - h[y]
    OBVIOUS
  <2> HIDE DEF d
  <2> QED BY <2>1, SumDifference
<1>2. SumOver(d, S) = d[x] + SumOver(d, S \ {x})
  <2>1. \A y \in S : d[y] \in Int
    OBVIOUS
  <2> HIDE DEF d
  <2> QED BY <2>1, SumRemoves
<1>3. SumOver(d, S \ {x}) \in Nat
  <2>1. \A y \in S \ {x} : d[y] \in Nat
    OBVIOUS
  <2>2. IsFiniteSet(S \ {x})
    BY FS_RemoveElement
  <2> HIDE DEF d
  <2> QED BY <2>1, <2>2, SumOfNats
<1>4. d[x] \in Nat /\ d[x] > 0
  OBVIOUS
<1> HIDE DEF d
<1> QED BY <1>1, <1>2, <1>3, <1>4
=============================================================================
