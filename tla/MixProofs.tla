----------------------------- MODULE MixProofs -----------------------------
(***************************************************************************)
(* The audio that the mixer sends (audiomixer.c): sums over the pins, for  *)
(* any number of pins and any samples.                                     *)
(*                                                                         *)
(* Total is a fold over a set, which takes the elements in an order of its *)
(* own.  That an element can be taken out of it wherever the fold meets it *)
(* is shown by the smallest set for which it could fail.                   *)
(***************************************************************************)
EXTENDS DirectorProofs, WellFoundedInduction

(* The element that the fold takes first. *)
First(s) == CHOOSE x \in s : TRUE

(* g is the function by which the fold computes the sums of f. *)
Sums(g, f, S) ==
  g = [s \in SUBSET S |-> IF s = {} THEN 0 ELSE f[First(s)] + g[s \ {First(s)}]]

SumsOf(f, S) == CHOOSE g : Sums(g, f, S)

(* Total is a value of that function. *)
LEMMA TotalIsSum ==
  ASSUME NEW f, NEW S
  PROVE  Total(f, S) = SumsOf(f, S)[S]
  BY Zenon DEF Total, MapThenSumSet, MapThenFoldSet, SumsOf, Sums, First

(* Among sets of elements of a finite set there is a smallest one. *)
LEMMA SmallestSet ==
  ASSUME NEW S, IsFiniteSet(S), NEW T, T \subseteq SUBSET S, T # {}
  PROVE  \E x \in T : \A y \in T : y \subseteq x => y = x
  <1>1. FiniteSubsetsOf(S) = SUBSET S
    BY FS_FiniteSubsetsOfFinite
  <1>2. IsWellFoundedOn(StrictSubsetOrdering(S), SUBSET S)
    BY <1>1, FS_StrictSubsetOrderingWellFounded
  <1>3. \E x \in T : \A y \in T : ~ (<<y, x>> \in StrictSubsetOrdering(S))
    BY <1>2, WFMin
  <1> QED
    BY <1>3 DEF StrictSubsetOrdering

LEMMA FirstIn ==
  ASSUME NEW s, s # {}
  PROVE  First(s) \in s
  BY DEF First

(* The equations of the fold. *)
LEMMA SumsEmpty ==
  ASSUME NEW f, NEW S, NEW g, Sums(g, f, S)
  PROVE  g[{}] = 0
  BY DEF Sums

LEMMA SumsAt ==
  ASSUME NEW f, NEW S, NEW g, Sums(g, f, S), NEW s, s \subseteq S, s # {}
  PROVE  g[s] = f[First(s)] + g[s \ {First(s)}]
  BY DEF Sums

(* A sum does not depend on the set whose subsets the fold ranges over. *)
LEMMA SumsUnique ==
  ASSUME NEW f, NEW S, IsFiniteSet(S), NEW R, R \subseteq S,
         NEW g, Sums(g, f, R), NEW h, Sums(h, f, S), NEW s, s \subseteq R
  PROVE  g[s] = h[s]
  <1> SUFFICES ASSUME g[s] # h[s] PROVE FALSE
    OBVIOUS
  <1> DEFINE T == {t \in SUBSET R : g[t] # h[t]}
  <1>1. s \in T /\ T \subseteq SUBSET S
    OBVIOUS
  <1>2. \A t : t \in T <=> t \subseteq R /\ g[t] # h[t]
    OBVIOUS
  <1> HIDE DEF T
  <1>3. PICK t \in T : \A y \in T : y \subseteq t => y = t
    BY <1>1, SmallestSet
  <1>4. t \subseteq R /\ t \subseteq S /\ g[t] # h[t]
    BY <1>2
  <1>5. t # {}
    <2>1. g[{}] = 0 /\ h[{}] = 0
      BY SumsEmpty
    <2> QED
      BY <1>4, <2>1
  <1>6. First(t) \in t
    BY <1>5, FirstIn
  <1>7. g[t \ {First(t)}] = h[t \ {First(t)}]
    BY <1>2, <1>3, <1>4, <1>6
  <1>8. g[t] = f[First(t)] + g[t \ {First(t)}]
    BY <1>4, <1>5, SumsAt
  <1>9. h[t] = f[First(t)] + h[t \ {First(t)}]
    BY <1>4, <1>5, SumsAt
  <1> QED
    BY <1>4, <1>7, <1>8, <1>9

(* The fold is defined on every finite set. *)
LEMMA SumsExist ==
  ASSUME NEW f, NEW S, IsFiniteSet(S)
  PROVE  Sums(SumsOf(f, S), f, S)
  <1>0. SUFFICES ASSUME ~ \E g : Sums(g, f, S) PROVE FALSE
    BY DEF SumsOf
  <1> DEFINE T == {t \in SUBSET S : ~ \E g : Sums(g, f, t)}
  <1>1. S \in T /\ T \subseteq SUBSET S
    BY <1>0
  <1>2. \A t : t \in T <=> t \subseteq S /\ ~ \E g : Sums(g, f, t)
    OBVIOUS
  <1> HIDE DEF T
  <1>3. PICK t \in T : \A y \in T : y \subseteq t => y = t
    BY <1>1, SmallestSet
  <1>4. ASSUME NEW s, s \subseteq t, s # t PROVE Sums(SumsOf(f, s), f, s)
    <2>1. \E g : Sums(g, f, s)
      BY <1>2, <1>3, <1>4
    <2> QED
      BY <2>1 DEF SumsOf
  <1> DEFINE below(s) == IF s = {} THEN 0
                         ELSE f[First(s)] + SumsOf(f, s \ {First(s)})[s \ {First(s)}]
             g == [s \in SUBSET t |-> below(s)]
  <1>5. ASSUME NEW s, s \subseteq t, s # t PROVE SumsOf(f, s)[s] = below(s)
    <2>0. Sums(SumsOf(f, s), f, s)
      BY <1>4, <1>5
    <2>1. CASE s = {}
      BY <2>0, <2>1, SumsEmpty
    <2>2. CASE s # {}
      <3> DEFINE r == s \ {First(s)}
      <3>1. First(s) \in s
        BY <2>2, FirstIn
      <3>2. r \subseteq t /\ r # t /\ r \subseteq s
        BY <1>5, <3>1
      <3>3. Sums(SumsOf(f, r), f, r)
        BY <1>4, <3>2
      <3>4. IsFiniteSet(s)
        BY <1>2, <1>5, FS_Subset
      <3>5. SumsOf(f, s)[s] = f[First(s)] + SumsOf(f, s)[r]
        BY <2>0, <2>2, SumsAt
      <3>6. SumsOf(f, r)[r] = SumsOf(f, s)[r]
        <4> HIDE DEF r
        <4> QED
          BY <2>0, <3>2, <3>3, <3>4, SumsUnique
      <3> QED
        BY <2>2, <3>5, <3>6
    <2> QED
      BY <2>1, <2>2
  <1>6. ASSUME NEW s \in SUBSET t
        PROVE  g[s] = IF s = {} THEN 0 ELSE f[First(s)] + g[s \ {First(s)}]
    <2>1. CASE s = {}
      BY <2>1
    <2>2. CASE s # {}
      <3> DEFINE r == s \ {First(s)}
      <3>1. First(s) \in s
        BY <2>2, FirstIn
      <3>2. r \subseteq t /\ r # t
        BY <1>6, <3>1
      <3>3. SumsOf(f, r)[r] = below(r)
        BY <1>5, <3>2
      <3>4. g[r] = below(r)
        BY <3>2
      <3>5. g[s] = f[First(s)] + SumsOf(f, r)[r]
        BY <2>2
      <3> HIDE DEF g, below
      <3> QED
        BY <2>2, <3>3, <3>4, <3>5
    <2> QED
      BY <2>1, <2>2
  <1>7. Sums(g, f, t)
    <2>1. g = [s \in SUBSET t |-> g[s]]
      OBVIOUS
    <2> HIDE DEF g
    <2> QED
      BY <1>6, <2>1 DEF Sums
  <1> QED
    BY <1>2, <1>7

(* The equations of Total. *)
LEMMA TotalEmpty ==
  ASSUME NEW f
  PROVE  Total(f, {}) = 0
  BY FS_EmptySet, SumsExist, SumsEmpty, TotalIsSum

LEMMA TotalFirst ==
  ASSUME NEW f, NEW S, IsFiniteSet(S), S # {}
  PROVE  Total(f, S) = f[First(S)] + Total(f, S \ {First(S)})
  <1> DEFINE R == S \ {First(S)}
  <1>1. IsFiniteSet(R)
    BY FS_Subset
  <1>2. Sums(SumsOf(f, S), f, S) /\ Sums(SumsOf(f, R), f, R)
    BY <1>1, SumsExist
  <1>3. SumsOf(f, S)[S] = f[First(S)] + SumsOf(f, S)[R]
    BY <1>2, SumsAt
  <1>4. R \subseteq S
    OBVIOUS
  <1> HIDE DEF R
  <1>5. SumsOf(f, R)[R] = SumsOf(f, S)[R]
    BY <1>2, <1>4, SumsUnique
  <1> QED
    BY <1>3, <1>5, TotalIsSum DEF R

(* A sum of integers of at most m, up or down, is an integer of at most m  *)
(* for each of them.                                                       *)
LEMMA TotalBounded ==
  ASSUME NEW S, IsFiniteSet(S), NEW f, NEW m \in Nat, \A x \in S : f[x] \in -m .. m
  PROVE  Total(f, S) \in -(Cardinality(S) * m) .. Cardinality(S) * m
  <1> DEFINE Within(t) == Total(f, t) \in -(Cardinality(t) * m) .. Cardinality(t) * m
  <1> SUFFICES ASSUME ~Within(S) PROVE FALSE
    OBVIOUS
  <1> DEFINE T == {t \in SUBSET S : ~Within(t)}
  <1>1. S \in T /\ T \subseteq SUBSET S
    OBVIOUS
  <1>2. \A t : t \in T <=> t \subseteq S /\ ~Within(t)
    OBVIOUS
  <1> HIDE DEF T
  <1>3. PICK t \in T : \A y \in T : y \subseteq t => y = t
    BY <1>1, SmallestSet
  <1>4. IsFiniteSet(t) /\ t \subseteq S
    BY <1>2, FS_Subset
  <1>5. t # {}
    <2>1. Within({})
      BY TotalEmpty, FS_EmptySet
    <2> QED
      BY <1>2, <2>1
  <1> DEFINE r == t \ {First(t)}
  <1>6. First(t) \in t
    BY <1>5, FirstIn
  <1>7. Within(r)
    BY <1>2, <1>3, <1>4, <1>6
  <1>8. Total(f, t) = f[First(t)] + Total(f, r)
    BY <1>4, <1>5, TotalFirst
  <1>9. Cardinality(r) = Cardinality(t) - 1 /\ Cardinality(t) \in Nat /\ Cardinality(r) \in Nat
    BY <1>4, <1>6, FS_RemoveElement, FS_CardinalityType
  <1>10. f[First(t)] \in -m .. m
    BY <1>4, <1>6
  <1> HIDE DEF r
  <1>11. Cardinality(t) * m = Cardinality(r) * m + m
    BY <1>9
  <1>12. Cardinality(t) * m \in Int /\ Cardinality(r) * m \in Int
    BY <1>9
  <1>13. Within(t)
    BY <1>7, <1>8, <1>10, <1>11, <1>12
  <1> QED
    BY <1>2, <1>13

(* Any element can be taken out of a sum. *)
LEMMA TotalRemove ==
  ASSUME NEW S, IsFiniteSet(S), NEW f, NEW m \in Nat, \A x \in S : f[x] \in -m .. m,
         NEW p \in S
  PROVE  Total(f, S) = f[p] + Total(f, S \ {p})
  <1> SUFFICES ASSUME Total(f, S) # f[p] + Total(f, S \ {p}) PROVE FALSE
    OBVIOUS
  <1> DEFINE T == {t \in SUBSET S : \E x \in t : Total(f, t) # f[x] + Total(f, t \ {x})}
  <1>1. S \in T /\ T \subseteq SUBSET S
    OBVIOUS
  <1>2. \A t : t \in T <=> t \subseteq S /\ \E x \in t : Total(f, t) # f[x] + Total(f, t \ {x})
    OBVIOUS
  <1> HIDE DEF T
  <1>3. PICK t \in T : \A y \in T : y \subseteq t => y = t
    BY <1>1, SmallestSet
  <1>4. PICK x \in t : Total(f, t) # f[x] + Total(f, t \ {x})
    BY <1>2
  <1> DEFINE c == First(t)
  <1>5. c \in t /\ t \subseteq S
    BY <1>2, FirstIn
  <1>6. ASSUME NEW s, s \subseteq S PROVE IsFiniteSet(s) /\ Total(f, s) \in Int
    <2>1. IsFiniteSet(s) /\ Cardinality(s) \in Nat /\ \A y \in s : f[y] \in -m .. m
      BY <1>6, FS_Subset, FS_CardinalityType
    <2>2. Total(f, s) \in -(Cardinality(s) * m) .. Cardinality(s) * m
      BY <2>1, TotalBounded
    <2> QED
      BY <2>1, <2>2
  <1>7. Total(f, t) = f[c] + Total(f, t \ {c})
    BY <1>5, <1>6, TotalFirst
  <1> HIDE DEF c
  <1>8. c # x
    BY <1>4, <1>7
  <1>9. ASSUME NEW y \in t, NEW z \in t \ {y}
        PROVE  Total(f, t \ {y}) = f[z] + Total(f, (t \ {y}) \ {z})
    <2>1. t \ {y} \notin T
      BY <1>3
    <2> QED
      BY <1>2, <1>5, <2>1
  <1> DEFINE r == (t \ {c}) \ {x}
  <1>10. r = (t \ {x}) \ {c} /\ r \subseteq S
    BY <1>5
  <1>11. /\ Total(f, t \ {c}) = f[x] + Total(f, r)
         /\ Total(f, t \ {x}) = f[c] + Total(f, r)
    BY <1>5, <1>8, <1>9, <1>10
  <1> HIDE DEF r
  <1>12. f[c] \in Int /\ f[x] \in Int /\ Total(f, r) \in Int
    BY <1>5, <1>6, <1>10
  <1> QED
    BY <1>4, <1>7, <1>11, <1>12

-----------------------------------------------------------------------------
(* The samples of a tick, and the pins they come from. *)
LEMMA ContributionType ==
  ASSUME TypeOK, MixInv, NEW v \in [{input[q] : q \in Pins} \ {Silence} -> Samples]
  PROVE  /\ \A p \in Pins : Contribution(v)[p] \in -(MaxSample + 1) .. MaxSample + 1
         /\ \A p \in Pins \ sum : Contribution(v)[p] = 0
         /\ IsFiniteSet(sum) /\ sum \subseteq Pins /\ Cardinality(sum) \in 0 .. MAX_STREAMS
  <1>1. IsFiniteSet(Pins) /\ Cardinality(Pins) = MAX_STREAMS
    BY FS_Interval, BoundsAssumption DEF Pins
  <1>2. sum \subseteq Pins
    BY DEF TypeOK
  <1>3. IsFiniteSet(sum) /\ Cardinality(sum) \in 0 .. MAX_STREAMS
    BY <1>1, <1>2, FS_Subset, FS_CardinalityType, BoundsAssumption
  <1>4. ASSUME NEW p \in Pins
        PROVE  Contribution(v)[p] \in -(MaxSample + 1) .. MaxSample + 1
    BY BoundsAssumption DEF Contribution, Sample, Samples
  <1>5. ASSUME NEW p \in Pins \ sum PROVE Contribution(v)[p] = 0
    BY DEF Contribution, Sample, MixInv
  <1> QED
    BY <1>2, <1>3, <1>4, <1>5

(* audiomixer.c:60: what each stream hears is the clipped sum of all the   *)
(* others, for any number of pins and any samples: a pin is in the sum     *)
(* exactly when its input is not silence.                                  *)
THEOREM MixMinusHolds == Spec => []MixMinus
  <1>1. Inductive => MixMinus
    <2> SUFFICES ASSUME Inductive,
                        NEW v \in [{input[q] : q \in Pins} \ {Silence} -> Samples],
                        NEW p \in {q \in Pins : outputs[q] # Silence} \cup {Preview}
                 PROVE  channel_process_out(p, v) = saturate(Total(Contribution(v), sum \ {p}))
      BY DEF MixMinus
    <2> DEFINE f == Contribution(v)
               m == MaxSample + 1
               own == IF p = Preview THEN 0 ELSE f[p]
    <2>1. /\ \A q \in Pins : f[q] \in -m .. m
          /\ \A q \in Pins \ sum : f[q] = 0
          /\ IsFiniteSet(sum) /\ sum \subseteq Pins /\ Cardinality(sum) \in 0 .. MAX_STREAMS
      BY ContributionType DEF Inductive
    <2>2. Preview \notin Pins
      BY BoundsAssumption DEF Preview, Pins
    <2>0. m \in Nat
      BY BoundsAssumption
    <2> HIDE DEF f, m
    <2>3. \A s \in SUBSET sum : Total(f, s) \in Int
      <3> SUFFICES ASSUME NEW s \in SUBSET sum PROVE Total(f, s) \in Int
        OBVIOUS
      <3>1. IsFiniteSet(s) /\ Cardinality(s) \in Nat /\ \A x \in s : f[x] \in -m .. m
        BY <2>1, FS_Subset, FS_CardinalityType
      <3>2. Total(f, s) \in -(Cardinality(s) * m) .. Cardinality(s) * m
        BY <2>0, <3>1, TotalBounded
      <3> QED
        BY <2>0, <3>1, <3>2
    <2>4. Total(f, sum) - own = Total(f, sum \ {p})
      <3>1. CASE p \in sum
        <4>1. Total(f, sum) = f[p] + Total(f, sum \ {p})
          BY <2>0, <2>1, <3>1, TotalRemove
        <4>2. f[p] \in Int /\ Total(f, sum \ {p}) \in Int /\ own = f[p]
          BY <2>0, <2>1, <2>2, <2>3, <3>1
        <4> QED
          BY <4>1, <4>2
      <3>2. CASE p \notin sum
        <4>1. own = 0 /\ sum \ {p} = sum
          BY <2>1, <2>2, <3>2
        <4> QED
          BY <2>3, <4>1
      <3> QED
        BY <3>1, <3>2
    <2> QED
      BY <2>4 DEF channel_process_out, accumulate, f
  <1> QED
    BY <1>1, InductiveHolds, PTL

(* audiomixer.c:38: the sum before it is clipped is at most width, up or   *)
(* down, whatever the samples.                                             *)
SumFits(width) ==
  attached =>
    \A v \in [{input[q] : q \in Pins} \ {Silence} -> Samples] :
      accumulate(v, sum) \in -width .. width

(* audiomixer.c:38: the int32_t sum does not overflow as long as the       *)
(* number of pins times 2^15 fits in it: 9 pins (DirectorConference.h:15)  *)
(* are far below the 65535 that 31 bits would take.                        *)
THEOREM SumFitsHolds ==
  ASSUME NEW width \in Nat, MAX_STREAMS * (MaxSample + 1) <= width
  PROVE  Spec => []SumFits(width)
  <1>1. Inductive => SumFits(width)
    <2> SUFFICES ASSUME Inductive,
                        NEW v \in [{input[q] : q \in Pins} \ {Silence} -> Samples]
                 PROVE  accumulate(v, sum) \in -width .. width
      BY DEF SumFits
    <2> DEFINE f == Contribution(v)
               m == MaxSample + 1
               n == Cardinality(sum)
    <2>1. /\ \A q \in sum : f[q] \in -m .. m
          /\ IsFiniteSet(sum) /\ n \in 0 .. MAX_STREAMS
      BY ContributionType DEF Inductive
    <2>2. m \in Nat /\ MAX_STREAMS \in Nat /\ MAX_STREAMS * m \in Nat /\ MAX_STREAMS * m <= width
      BY BoundsAssumption
    <2> HIDE DEF f, m
    <2>3. Total(f, sum) \in -(n * m) .. n * m
      BY <2>1, <2>2, TotalBounded
    <2> HIDE DEF n
    <2>4. n * m \in Nat /\ n * m <= MAX_STREAMS * m
      BY <2>1, <2>2
    <2> QED
      BY <2>2, <2>3, <2>4 DEF accumulate, f
  <1> QED
    BY <1>1, InductiveHolds, PTL
=============================================================================
