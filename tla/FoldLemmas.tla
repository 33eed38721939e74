----------------------------- MODULE FoldLemmas -----------------------------
(***************************************************************************)
(* What the folds of the community modules compute.  A fold is a function  *)
(* on the subsets of the set it goes through, defined by recursion; the    *)
(* lemmas show that there is one, by the well-founded order of the subsets *)
(* of a finite set, for an operation that is given as a function.          *)
(***************************************************************************)
EXTENDS Integers, SequencesExt, TLAPS, SequenceTheorems, FiniteSetTheorems

(* Some set has no smaller one.                                            *)
LEMMA MinimalSubset ==
  ASSUME NEW S, IsFiniteSet(S), NEW B \in SUBSET SUBSET S, B # {}
  PROVE  \E s \in B : \A t \in B : t \subseteq s => t = s
<1>1. IsWellFoundedOn(StrictSubsetOrdering(S), SUBSET S)
  BY FS_StrictSubsetOrderingWellFounded, FS_FiniteSubsetsOfFinite
<1>2. PICK s \in B : \A t \in B : ~(<<t, s>> \in StrictSubsetOrdering(S))
  BY <1>1, WFMin
<1> QED BY <1>2 DEF StrictSubsetOrdering

(* g is the fold of F over the set T in the order ch.                      *)
IsFold(g, T, F, base, ch, Y) ==
  /\ g \in [SUBSET T -> Y]
  /\ \A s \in SUBSET T :
       g[s] = IF s = {} THEN base ELSE F[<<ch[s], g[s \ {ch[s]}]>>]

Chooses(ch, S) == \A s \in SUBSET S : s # {} => ch[s] \in s

LEMMA FoldUnique ==
  ASSUME NEW S, IsFiniteSet(S), NEW F, NEW base, NEW ch, NEW Y, Chooses(ch, S),
         NEW T \in SUBSET S, NEW U \in SUBSET S, NEW g, NEW h,
         IsFold(g, T, F, base, ch, Y), IsFold(h, U, F, base, ch, Y),
         NEW s \in SUBSET (T \cap U)
  PROVE  g[s] = h[s]
<1> DEFINE B == {t \in SUBSET S : t \subseteq T \cap U /\ g[t] # h[t]}
<1>1. SUFFICES ASSUME B # {} PROVE FALSE
  OBVIOUS
<1>2. PICK t \in B : \A u \in B : u \subseteq t => u = t
  <2>1. B \in SUBSET SUBSET S  OBVIOUS
  <2> HIDE DEF B
  <2> QED BY <1>1, <2>1, MinimalSubset
<1>3. t # {}  BY <1>2 DEF IsFold
<1>4. ch[t] \in t  BY <1>2, <1>3 DEF Chooses
<1>5. t \ {ch[t]} \notin B  BY <1>2, <1>4
<1>6. g[t \ {ch[t]}] = h[t \ {ch[t]}]  BY <1>2, <1>5
<1> QED BY <1>2, <1>3, <1>6 DEF IsFold

LEMMA FoldExists ==
  ASSUME NEW S, IsFiniteSet(S), NEW Y, NEW base \in Y, NEW F \in [S \X Y -> Y],
         NEW ch, Chooses(ch, S)
  PROVE  \E g : IsFold(g, S, F, base, ch, Y)
<1> DEFINE P(g, T) == IsFold(g, T, F, base, ch, Y)
           B == {T \in SUBSET S : ~\E g : P(g, T)}
<1>1. SUFFICES ASSUME B # {} PROVE FALSE
  OBVIOUS
<1>2. PICK T \in B : \A u \in B : u \subseteq T => u = T
  <2>1. B \in SUBSET SUBSET S  OBVIOUS
  <2> HIDE DEF B
  <2> QED BY <1>1, <2>1, MinimalSubset
<1> DEFINE G(u) == CHOOSE g : P(g, u)
           Less(u) == u \ {ch[u]}
           V(u) == IF u = {} THEN base ELSE F[<<ch[u], G(Less(u))[Less(u)]>>]
           g == [u \in SUBSET T |-> V(u)]
<1>3. \A u \in SUBSET T : u # T => P(G(u), u)
  <2> TAKE u \in SUBSET T
  <2> HAVE u # T
  <2>1. \E x : P(x, u)  BY <1>2
  <2> QED BY <2>1
<1>4. \A u \in SUBSET T : u # {} => ch[u] \in u /\ Less(u) \in SUBSET T /\ Less(u) # T
  BY <1>2 DEF Chooses
<1>5. \A u \in SUBSET T : u # {} => G(Less(u))[Less(u)] \in Y
  <2> TAKE u \in SUBSET T
  <2> HAVE u # {}
  <2>1. P(G(Less(u)), Less(u))  BY <1>3, <1>4
  <2> QED BY <2>1 DEF IsFold
<1>6. g \in [SUBSET T -> Y]
  <2> SUFFICES ASSUME NEW u \in SUBSET T PROVE V(u) \in Y
    OBVIOUS
  <2>1. CASE u = {}  BY <2>1
  <2>2. CASE u # {}
    <3>1. ch[u] \in S /\ G(Less(u))[Less(u)] \in Y  BY <1>2, <1>4, <1>5, <2>2
    <3> HIDE DEF G, Less
    <3> QED BY <2>2, <3>1
  <2> QED BY <2>1, <2>2
<1>7. \A u \in SUBSET T : u # T => V(u) = G(u)[u]
  <2> SUFFICES ASSUME NEW u \in SUBSET T, u # T PROVE V(u) = G(u)[u]
    OBVIOUS
  <2>1. P(G(u), u)  BY <1>3
  <2>2. CASE u = {}  BY <2>1, <2>2 DEF IsFold
  <2>3. CASE u # {}
    <3>1. ch[u] \in u /\ P(G(Less(u)), Less(u))  BY <1>3, <1>4, <2>3
    <3>2. G(Less(u))[Less(u)] = G(u)[Less(u)]
      <4> DEFINE p == G(Less(u))
                 q == G(u)
                 w == Less(u)
      <4>1. w \in SUBSET (w \cap u) /\ w \in SUBSET S /\ u \in SUBSET S
        BY <1>2, <3>1
      <4>2. IsFold(p, w, F, base, ch, Y) /\ IsFold(q, u, F, base, ch, Y)  BY <2>1, <3>1
      <4> HIDE DEF P, B, V, g, G, Less, p, q, w
      <4>3. p[w] = q[w]  BY ONLY <4>1, <4>2, FoldUnique, IsFiniteSet(S), Chooses(ch, S)
      <4> QED BY <4>3 DEF p, q, w
    <3>3. G(u)[u] = F[<<ch[u], G(u)[Less(u)]>>]
      BY <2>1, <2>3 DEF IsFold
    <3> QED BY <2>3, <3>2, <3>3
  <2> QED BY <2>2, <2>3
<1>8. P(g, T)
  <2> SUFFICES ASSUME NEW u \in SUBSET T, u # {}
               PROVE  g[u] = F[<<ch[u], g[Less(u)]>>]
    <3>1. g[{}] = base  OBVIOUS
    <3> HIDE DEF g
    <3> QED BY <1>6, <3>1 DEF IsFold
  <2>1. Less(u) \in SUBSET T /\ Less(u) # T  BY <1>4
  <2>2. g[Less(u)] = G(Less(u))[Less(u)]  BY <1>7, <2>1
  <2>3. g[u] = V(u)  OBVIOUS
  <2> HIDE DEF g, G, Less
  <2> QED BY <2>2, <2>3
<1> QED BY <1>2, <1>8

(* The greatest number of a finite set.                                    *)
LEMMA GreatestInSet ==
  ASSUME NEW S, IsFiniteSet(S), S # {}, NEW R,
         \A x, y \in S : <<x, y>> \in R \/ <<y, x>> \in R,
         \A x, y, z \in S : <<x, y>> \in R /\ <<y, z>> \in R => <<x, z>> \in R
  PROVE  \E m \in S : \A x \in S : <<x, m>> \in R
<1> DEFINE B == {s \in SUBSET S : s # {} /\ ~\E m \in s : \A x \in s : <<x, m>> \in R}
<1>1. SUFFICES ASSUME B # {} PROVE FALSE
  OBVIOUS
<1>2. PICK s \in B : \A t \in B : t \subseteq s => t = s
  <2>1. B \in SUBSET SUBSET S  OBVIOUS
  <2> HIDE DEF B
  <2> QED BY <1>1, <2>1, MinimalSubset
<1>3. PICK y \in s : TRUE  BY <1>2
<1>4. s \ {y} \notin B
  <2>1. s \ {y} \subseteq s /\ s \ {y} # s  BY <1>3
  <2> HIDE DEF B
  <2> QED BY <1>2, <2>1
<1>5. CASE s \ {y} = {}  BY <1>2, <1>3, <1>5
<1>6. ASSUME NEW m \in s \ {y}, \A x \in s \ {y} : <<x, m>> \in R PROVE FALSE
  <2>1. m \in S /\ y \in S /\ s \subseteq S  BY <1>2, <1>3
  <2>2. CASE <<y, m>> \in R
    <3>1. \A x \in s : <<x, m>> \in R  BY <1>6, <2>2
    <3> QED BY <1>2, <3>1
  <2>3. CASE <<m, y>> \in R
    <3>1. \A x \in s : <<x, y>> \in R  BY <1>6, <2>1, <2>3
    <3> QED BY <1>2, <1>3, <3>1
  <2> QED BY <2>1, <2>2, <2>3
<1> QED BY <1>2, <1>4, <1>5, <1>6

LEMMA MaxInSet ==
  ASSUME NEW S, S \subseteq Int, IsFiniteSet(S), S # {}
  PROVE  Max(S) \in S /\ \A x \in S : x <= Max(S)
<1> DEFINE R == {p \in S \X S : p[1] <= p[2]}
<1>1. \A x, y \in S : <<x, y>> \in R <=> x <= y  OBVIOUS
<1>2. \E m \in S : \A x \in S : <<x, m>> \in R
  <2> HIDE DEF R
  <2>1. \A x, y \in S : x <= y \/ y <= x  OBVIOUS
  <2>2. \A x, y \in S : <<x, y>> \in R \/ <<y, x>> \in R  BY <1>1, <2>1
  <2>3. \A x, y, z \in S : <<x, y>> \in R /\ <<y, z>> \in R => <<x, z>> \in R  BY <1>1, <2>1
  <2> QED BY <2>2, <2>3, GreatestInSet
<1>3. \E m \in S : \A x \in S : m >= x  BY <1>1, <1>2
<1>4. Max(S) \in S /\ \A x \in S : Max(S) >= x  BY <1>3 DEF Max
<1> QED BY <1>4

(* Induction over the subsets of a finite set, and over an interval.       *)
LEMMA SubsetInduction ==
  ASSUME NEW S, IsFiniteSet(S), NEW Q, {} \in Q,
         \A s \in SUBSET S : s # {} => \E x \in s : s \ {x} \in Q => s \in Q
  PROVE  S \in Q
<1> DEFINE B == {s \in SUBSET S : s \notin Q}
<1>1. SUFFICES ASSUME B # {} PROVE FALSE
  OBVIOUS
<1>2. PICK s \in B : \A t \in B : t \subseteq s => t = s
  <2>1. B \in SUBSET SUBSET S  OBVIOUS
  <2> HIDE DEF B
  <2> QED BY <1>1, <2>1, MinimalSubset
<1>3. PICK x \in s : s \ {x} \in Q => s \in Q  BY <1>2
<1>4. s \ {x} \subseteq s /\ s \ {x} # s /\ s \ {x} \in SUBSET S  BY <1>2, <1>3
<1> QED BY <1>2, <1>3, <1>4

LEMMA IntervalInduction ==
  ASSUME NEW n \in Nat, NEW Q, 0 \in Q, \A k \in 0 .. n - 1 : k \in Q => k + 1 \in Q
  PROVE  n \in Q
<1> DEFINE S == 0 .. n
           B == {0 .. k : k \in {l \in S : l \notin Q}}
<1>1. SUFFICES ASSUME n \notin Q PROVE FALSE
  OBVIOUS
<1>2. IsFiniteSet(S)  BY FS_Interval
<1>3. PICK s \in B : \A t \in B : t \subseteq s => t = s
  <2>1. B \in SUBSET SUBSET S  OBVIOUS
  <2>2. B # {}
    <3>1. 0 .. n \in B  BY <1>1
    <3> QED BY <3>1
  <2> HIDE DEF B, S
  <2> QED BY <1>2, <2>1, <2>2, MinimalSubset
<1>4. PICK k \in S : k \notin Q /\ s = 0 .. k  BY <1>3
<1>5. k # 0 /\ k - 1 \in 0 .. n - 1 /\ (k - 1) + 1 = k  BY <1>4
<1>6. k - 1 \notin Q  BY <1>4, <1>5
<1>7. 0 .. k - 1 \in B  BY <1>5, <1>6
<1>8. 0 .. k - 1 \subseteq s /\ 0 .. k - 1 # s
  <2>1. k \in 0 .. k /\ k \notin 0 .. k - 1  BY <1>5
  <2>2. 0 .. k - 1 \subseteq 0 .. k  BY <1>5
  <2> QED BY <1>4, <2>1, <2>2
<1> QED BY <1>3, <1>7, <1>8

(* A fold over a sequence goes through its domain from the end.            *)
Greatest(S) == [s \in SUBSET S |-> Max(s)]

LEMMA ChoosesGreatest ==
  ASSUME NEW n \in Nat, NEW S, S = 1 .. n
  PROVE  IsFiniteSet(S) /\ Chooses(Greatest(S), S)
<1>1. IsFiniteSet(S)  BY FS_Interval
<1>2. Chooses(Greatest(S), S)
  <2> SUFFICES ASSUME NEW s \in SUBSET S, s # {} PROVE Max(s) \in s
    BY DEF Chooses, Greatest
  <2>1. IsFiniteSet(s)  BY <1>1, FS_Subset
  <2>2. s \subseteq Int  OBVIOUS
  <2> QED BY <2>1, <2>2, MaxInSet
<1> QED BY <1>1, <1>2

LEMMA Prefix ==
  ASSUME NEW n \in Nat, NEW k \in 1 .. n
  PROVE  /\ 1 .. k \in SUBSET (1 .. n) /\ 1 .. k # {} /\ k \in 0 .. n /\ k - 1 \in 0 .. n
         /\ Max(1 .. k) = k /\ (1 .. k) \ {k} = 1 .. k - 1
<1>1. IsFiniteSet(1 .. k) /\ 1 .. k \subseteq Int /\ k \in 1 .. k  BY FS_Interval
<1>2. Max(1 .. k) \in 1 .. k /\ k <= Max(1 .. k)  BY <1>1, MaxInSet
<1>3. 1 .. k \in SUBSET (1 .. n) /\ 1 .. k # {}  OBVIOUS
<1>4. (1 .. k) \ {k} = 1 .. k - 1  OBVIOUS
<1> QED BY <1>2, <1>3, <1>4

(* A fold of an operation that stays within Y as long as it goes through   *)
(* values that are good: G tells which, for each set.                      *)
Within(G, F, base, ch, S, Y) ==
  /\ G \in [SUBSET S -> SUBSET Y] /\ base \in G[{}]
  /\ \A s \in SUBSET S : s # {} => \A y \in G[s \ {ch[s]}] : F[<<ch[s], y>>] \in G[s]

LEMMA FoldWithin ==
  ASSUME NEW S, IsFiniteSet(S), NEW Y, NEW base, NEW F, NEW ch, Chooses(ch, S),
         NEW G, Within(G, F, base, ch, S, Y)
  PROVE  \E g : IsFold(g, S, F, base, ch, Y)
<1>0. /\ G \in [SUBSET S -> SUBSET Y] /\ base \in G[{}]
      /\ \A s \in SUBSET S : s # {} => \A y \in G[s \ {ch[s]}] : F[<<ch[s], y>>] \in G[s]
  BY DEF Within
<1> DEFINE H == [x \in S \X Y |-> IF F[x] \in Y THEN F[x] ELSE base]
<1>1. base \in Y  BY <1>0
<1>2. H \in [S \X Y -> Y]  BY <1>1
<1>3. PICK g : IsFold(g, S, H, base, ch, Y)
  <2> HIDE DEF H
  <2> QED BY <1>1, <1>2, FoldExists
<1>4. /\ g \in [SUBSET S -> Y] /\ g[{}] = base
      /\ \A s \in SUBSET S : s # {} => g[s] = H[<<ch[s], g[s \ {ch[s]}]>>]
  BY <1>3 DEF IsFold
<1>5. ASSUME NEW s \in SUBSET S, s # {}, g[s \ {ch[s]}] \in G[s \ {ch[s]}]
      PROVE  g[s] \in G[s] /\ g[s] = F[<<ch[s], g[s \ {ch[s]}]>>]
  <2> DEFINE x == <<ch[s], g[s \ {ch[s]}]>>
  <2>1. ch[s] \in S /\ s \ {ch[s]} \in SUBSET S  BY <1>5 DEF Chooses
  <2>2. x \in S \X Y  BY <1>4, <2>1
  <2>3. F[x] \in G[s]  BY <1>0, <1>5
  <2>4. F[x] \in Y  BY <1>0, <1>5, <2>3
  <2> HIDE DEF x
  <2>5. H[x] = F[x]  BY <2>2, <2>4
  <2>6. g[s] = H[x]  BY <1>4, <1>5 DEF x
  <2> QED BY <2>3, <2>5, <2>6 DEF x
<1> DEFINE B == {s \in SUBSET S : g[s] \notin G[s]}
<1>6. B = {}
  <2>1. SUFFICES ASSUME B # {} PROVE FALSE
    OBVIOUS
  <2>2. PICK s \in B : \A t \in B : t \subseteq s => t = s
    <3>1. B \in SUBSET SUBSET S  OBVIOUS
    <3> HIDE DEF B
    <3> QED BY <2>1, <3>1, MinimalSubset
  <2>3. s # {}  BY <1>0, <1>4, <2>2
  <2>4. ch[s] \in s  BY <2>2, <2>3 DEF Chooses
  <2>5. s \ {ch[s]} \in SUBSET S /\ s \ {ch[s]} \notin B  BY <2>2, <2>4
  <2>6. g[s \ {ch[s]}] \in G[s \ {ch[s]}]  BY <2>5
  <2> QED BY <1>5, <2>2, <2>3, <2>6
<1>7. \A s \in SUBSET S : g[s] \in G[s]  BY <1>6
<1>8. \A s \in SUBSET S : s # {} => g[s] = F[<<ch[s], g[s \ {ch[s]}]>>]
  <2> TAKE s \in SUBSET S
  <2> HAVE s # {}
  <2>1. g[s \ {ch[s]}] \in G[s \ {ch[s]}]  BY <1>7
  <2> QED BY <1>5, <2>1
<1> QED BY <1>4, <1>8 DEF IsFold
=============================================================================
