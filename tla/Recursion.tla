------------------------------- MODULE Recursion -------------------------------
(* Induction and recursion over numbers, without operators as parameters:   *)
(* a property is the set of numbers that have it, a step of a recursion is a *)
(* function.  What the proofs about chains, lists and loops rest on.         *)
EXTENDS Integers, Sequences, Lists, WellFoundedInduction, TLAPS

\* A set of numbers that is not empty has a least element.
LEMMA LeastNumber ==
    ASSUME NEW T \in SUBSET Nat, T # {}
    PROVE  \E m \in T : \A k \in T : m <= k
  <1> DEFINE R == OpToRel(<, Nat)
  <1>1. IsWellFoundedOn(R, Nat)
    BY NatLessThanWellFounded
  <1>2. \A x, y \in Nat : x < y => <<x, y>> \in R
    BY DEF OpToRel
  <1> HIDE DEF R
  <1>3. PICK m \in T : \A k \in T : ~(<<k, m>> \in R)
    BY <1>1, WFMin
  <1>4. m \in Nat /\ \A k \in T : k \in Nat /\ ~(k < m)
    BY <1>2, <1>3
  <1>5. \A k \in T : m <= k
    BY <1>4
  <1> QED BY <1>5

\* What holds of 0, and of n + 1 if it holds of n, holds of every number up to N.
LEMMA UpwardInduction ==
    ASSUME NEW N \in Nat, NEW P \in SUBSET (0 .. N),
           0 \in P, \A n \in P : n < N => n + 1 \in P
    PROVE  P = 0 .. N
  <1> DEFINE T == (0 .. N) \ P
  <1> SUFFICES ASSUME T # {} PROVE FALSE
    OBVIOUS
  <1>1. PICK m \in T : \A k \in T : m <= k
    <2>1. T \in SUBSET Nat
      OBVIOUS
    <2> HIDE DEF T
    <2> QED BY <2>1, LeastNumber
  <1>2. m \in 1 .. N /\ m - 1 \in 0 .. N /\ m - 1 \notin T
    BY <1>1
  <1>3. m - 1 \in P /\ m - 1 < N
    BY <1>2
  <1> QED BY <1>1, <1>2, <1>3

\* The steps of a recursion of N rounds over values in S, and a solution.
Rounds(S, N) == [1 .. N -> [S -> S]]

SolvesRounds(g, S, N, base, F) ==
    /\ g \in [0 .. N -> S] /\ g[0] = base
    /\ \A k \in 1 .. N : g[k] = F[k][g[k - 1]]

\* A recursion has a solution.
LEMMA RecursionSolved ==
    ASSUME NEW S, NEW base, base \in S, NEW N, N \in Nat, NEW F, F \in Rounds(S, N)
    PROVE  \E g : SolvesRounds(g, S, N, base, F)
  <1> USE DEF Rounds
  <1> DEFINE Solves(g, n) == /\ g \in [0 .. n -> S] /\ g[0] = base
                             /\ \A k \in 1 .. n : g[k] = F[k][g[k - 1]]
             P == {n \in 0 .. N : \E g \in [0 .. n -> S] : Solves(g, n)}
  <1>1. 0 \in P
    <2> DEFINE g == [k \in 0 .. 0 |-> base]
    <2>1. g \in [0 .. 0 -> S] /\ Solves(g, 0)
      OBVIOUS
    <2> HIDE DEF g, Solves
    <2> QED BY <2>1
  <1>2. ASSUME NEW n \in P, n < N PROVE n + 1 \in P
    <2>1. PICK g \in [0 .. n -> S] : Solves(g, n)
      OBVIOUS
    <2> DEFINE h == [k \in 0 .. n + 1 |-> IF k <= n THEN g[k] ELSE F[k][g[k - 1]]]
    <2>2. n \in Nat /\ n + 1 \in 1 .. N
      BY <1>2
    <2>3. \A k \in 0 .. n + 1 : h[k] \in S
      <3>1. g[n] \in S /\ F[n + 1][g[n]] \in S
        BY <2>1, <2>2
      <3> QED BY <2>1, <2>2, <3>1
    <2>4. \A k \in 1 .. n + 1 : h[k] = F[k][h[k - 1]]
      BY <2>1, <2>2
    <2>5. h \in [0 .. n + 1 -> S] /\ Solves(h, n + 1)
      BY <2>1, <2>2, <2>3, <2>4
    <2> HIDE DEF h, Solves
    <2> QED BY <2>2, <2>5
  <1>3. P = 0 .. N
    <2> HIDE DEF P
    <2>1. P \in SUBSET (0 .. N)
      BY DEF P
    <2> QED BY <1>1, <1>2, <2>1, UpwardInduction
  <1>4. PICK g \in [0 .. N -> S] : Solves(g, N)
    <2> HIDE DEF Solves
    <2>1. N \in P
      BY <1>3
    <2> QED BY <2>1
  <1> QED BY <1>4 DEF SolvesRounds

\* Two solutions of the same recursion agree.
LEMMA RecursionUnique ==
    ASSUME NEW N \in Nat, NEW f, NEW g,
           f[0] = g[0],
           \A k \in 1 .. N : f[k - 1] = g[k - 1] => f[k] = g[k]
    PROVE  \A k \in 0 .. N : f[k] = g[k]
  <1> DEFINE P == {k \in 0 .. N : f[k] = g[k]}
  <1>1. 0 \in P
    OBVIOUS
  <1>2. \A n \in P : n < N => n + 1 \in P
    OBVIOUS
  <1>3. P = 0 .. N
    <2>1. P \in SUBSET (0 .. N)
      OBVIOUS
    <2> HIDE DEF P
    <2> QED BY <1>1, <1>2, <2>1, UpwardInduction
  <1> QED BY <1>3

-------------------------------------------------------------------------------
(* Parts of lists *)

\* Named, so that the provers take them as units.
Strings(S) == Seq(S)

ListsOf(S) == Seq(Strings(S))

\* One string behind another.
LEMMA StringBehind ==
    ASSUME NEW S, NEW a \in Strings(S), NEW z \in Strings(S)
    PROVE  /\ a \o z \in Strings(S) /\ Len(a) \in Nat /\ Len(z) \in Nat
           /\ Len(a \o z) = Len(a) + Len(z)
           /\ \A m \in 1 .. Len(a) : (a \o z)[m] = a[m]
           /\ \A m \in 1 .. Len(z) : (a \o z)[Len(a) + m] = z[m]
  BY DEF Strings

\* The elements of a list of parts.
LEMMA PartOfList ==
    ASSUME NEW S, NEW parts \in ListsOf(S)
    PROVE  Len(parts) \in Nat /\ \A k \in 1 .. Len(parts) : parts[k] \in Strings(S)
  BY DEF ListsOf

\* The first parts in one are the recursion they are written as.
LEMMA ListJoined ==
    ASSUME NEW S, NEW parts \in ListsOf(S)
    PROVE  /\ \A k \in 0 .. Len(parts) : Joined(parts)[k] \in Strings(S)
           /\ Joined(parts)[0] = <<>>
           /\ \A k \in 1 .. Len(parts) : Joined(parts)[k] = Joined(parts)[k - 1] \o parts[k]
  <1> DEFINE N == Len(parts)
             F == [k \in 1 .. N |-> [o \in Strings(S) |-> o \o parts[k]]]
             Solves(g) == g = [k \in 0 .. N |-> IF k = 0 THEN <<>> ELSE g[k - 1] \o parts[k]]
             f == Joined(parts)
  <1>1. f = CHOOSE g : Solves(g)
    BY DEF Joined
  <1>2. N \in Nat /\ <<>> \in Strings(S) /\ \A k \in 1 .. N : parts[k] \in Strings(S)
    BY PartOfList DEF Strings
  <1>3. \A k \in 1 .. N : \A o \in Strings(S) : o \o parts[k] \in Strings(S)
    BY <1>2 DEF Strings
  <1> HIDE DEF f, N
  <1>4. F \in Rounds(Strings(S), N)
    BY <1>3 DEF Rounds
  <1>5. PICK g : SolvesRounds(g, Strings(S), N, <<>>, F)
    <2> HIDE DEF F, Solves
    <2> QED BY <1>2, <1>4, RecursionSolved
  <1>6. \A k \in 1 .. N : k - 1 \in 0 .. N /\ g[k - 1] \in Strings(S) /\ k \in 0 .. N /\ k # 0
    BY <1>2, <1>5 DEF SolvesRounds
  <1>7. \A k \in 1 .. N : g[k] = g[k - 1] \o parts[k]
    BY <1>5, <1>6 DEF SolvesRounds
  <1>8. Solves(g)
    <2> HIDE DEF F
    <2>1. \A k \in 0 .. N : k # 0 => k \in 1 .. N
      BY <1>2
    <2> QED BY <1>5, <1>7, <2>1 DEF SolvesRounds
  <1>9. Solves(f)
    <2> HIDE DEF Solves
    <2> QED BY <1>1, <1>8
  <1>10. f[0] = <<>> /\ \A k \in 1 .. N : f[k] = f[k - 1] \o parts[k]
    <2>1. \A k \in 0 .. N : f[k] = IF k = 0 THEN <<>> ELSE f[k - 1] \o parts[k]
      BY Zenon, <1>9
    <2>2. 0 \in 0 .. N
      BY <1>2
    <2> HIDE DEF Solves, F
    <2> QED BY Zenon, <1>6, <2>1, <2>2
  <1>11. \A k \in 0 .. N : f[k] = g[k]
    <2> HIDE DEF Solves, F
    <2>1. f[0] = g[0] /\ \A k \in 1 .. N : f[k - 1] = g[k - 1] => f[k] = g[k]
      BY <1>5, <1>7, <1>10 DEF SolvesRounds
    <2> QED BY SMTT(30), <1>2, <2>1, RecursionUnique
  <1>12. \A k \in 0 .. N : f[k] \in Strings(S)
    BY <1>5, <1>11 DEF SolvesRounds
  <1> QED BY <1>10, <1>12 DEF f, N

\* Where the k-th part is in the first n of them.
Holds(parts, n) ==
    \A k \in 1 .. n :
        /\ Len(Joined(parts)[k]) = Len(Joined(parts)[k - 1]) + Len(parts[k])
        /\ Len(Joined(parts)[k]) <= Len(Joined(parts)[n])
        /\ \A m \in 1 .. Len(parts[k]) :
              Joined(parts)[n][Len(Joined(parts)[k - 1]) + m] = parts[k][m]

\* One part more leaves the others where they are.
LEMMA HoldsStep ==
    ASSUME NEW S, NEW parts \in ListsOf(S), NEW n \in Nat, n + 1 \in 1 .. Len(parts),
           Holds(parts, n)
    PROVE  Holds(parts, n + 1)
  <1> DEFINE J == Joined(parts)
             end(k) == Len(J[k])
  <1>1. n \in 0 .. Len(parts) /\ n + 1 \in 0 .. Len(parts) /\ (n + 1) - 1 = n
        /\ \A k \in 1 .. n + 1 : k \in 1 .. n \/ k = n + 1
    BY PartOfList
  <1>2. J[n] \in Strings(S) /\ J[n + 1] = J[n] \o parts[n + 1] /\ parts[n + 1] \in Strings(S)
    BY <1>1, ListJoined, PartOfList
  <1>3. \A k \in 1 .. n : k - 1 \in 0 .. Len(parts) /\ J[k - 1] \in Strings(S)
        /\ parts[k] \in Strings(S) /\ J[k] \in Strings(S)
    <2> SUFFICES ASSUME NEW k \in 1 .. n
                 PROVE  k - 1 \in 0 .. Len(parts) /\ J[k - 1] \in Strings(S)
                        /\ parts[k] \in Strings(S) /\ J[k] \in Strings(S)
      OBVIOUS
    <2>1. k \in 1 .. Len(parts) /\ k \in 0 .. Len(parts) /\ k - 1 \in 0 .. Len(parts)
      BY <1>1, PartOfList
    <2> QED BY <2>1, ListJoined, PartOfList
  <1> HIDE DEF J
  <1>4. /\ end(n) \in Nat /\ Len(parts[n + 1]) \in Nat
        /\ end(n + 1) = end(n) + Len(parts[n + 1])
        /\ \A m \in 1 .. end(n) : J[n + 1][m] = J[n][m]
        /\ \A m \in 1 .. Len(parts[n + 1]) : J[n + 1][end(n) + m] = parts[n + 1][m]
    <2> DEFINE a == J[n]
               z == parts[n + 1]
    <2>1. a \in Strings(S) /\ z \in Strings(S) /\ J[n + 1] = a \o z
      BY <1>2
    <2> HIDE DEF a, z
    <2>2. /\ Len(a) \in Nat /\ Len(z) \in Nat /\ Len(J[n + 1]) = Len(a) + Len(z)
          /\ \A m \in 1 .. Len(a) : J[n + 1][m] = a[m]
          /\ \A m \in 1 .. Len(z) : J[n + 1][Len(a) + m] = z[m]
      BY <2>1, StringBehind
    <2> QED BY <2>2 DEF a, z
  <1>5. ASSUME NEW k \in 1 .. n
        PROVE  /\ end(k) = end(k - 1) + Len(parts[k]) /\ end(k) <= end(n + 1)
               /\ \A m \in 1 .. Len(parts[k]) : J[n + 1][end(k - 1) + m] = parts[k][m]
    <2>1. /\ end(k) = end(k - 1) + Len(parts[k]) /\ end(k) <= end(n)
          /\ \A m \in 1 .. Len(parts[k]) : J[n][end(k - 1) + m] = parts[k][m]
      BY DEF Holds, J
    <2>2. end(k - 1) \in Nat /\ end(k) \in Nat /\ Len(parts[k]) \in Nat
      BY <1>3 DEF Strings
    <2> HIDE DEF end
    <2>3. \A m \in 1 .. Len(parts[k]) : end(k - 1) + m \in 1 .. end(n)
      BY SMTT(30), <1>4, <2>1, <2>2
    <2>4. end(k) <= end(n + 1)
      BY <1>4, <2>1, <2>2
    <2> QED BY <1>4, <2>1, <2>3, <2>4
  <1>6. \A k \in 1 .. n + 1 :
          /\ end(k) = end(k - 1) + Len(parts[k]) /\ end(k) <= end(n + 1)
          /\ \A m \in 1 .. Len(parts[k]) : J[n + 1][end(k - 1) + m] = parts[k][m]
    <2> HIDE DEF end
    <2>1. end(n + 1) <= end(n + 1)
      BY <1>4
    <2> QED BY <1>1, <1>4, <1>5, <2>1
  <1> QED BY <1>6 DEF Holds, J

\* Each part is where the ones before it end.
LEMMA HoldsAll ==
    ASSUME NEW S, NEW parts \in ListsOf(S)
    PROVE  \A n \in 0 .. Len(parts) : Holds(parts, n)
  <1> DEFINE N == Len(parts)
             P == {n \in 0 .. N : Holds(parts, n)}
  <1>1. N \in Nat /\ 0 \in P
    <2>1. N \in Nat /\ 1 .. 0 = {}
      BY PartOfList
    <2>2. Holds(parts, 0)
      BY <2>1 DEF Holds
    <2> QED BY <2>1, <2>2
  <1>2. \A n \in P : n < N => n + 1 \in P
    <2> SUFFICES ASSUME NEW n \in P, n < N PROVE Holds(parts, n + 1)
      OBVIOUS
    <2>1. n \in Nat /\ n + 1 \in 1 .. N
      OBVIOUS
    <2> QED BY <2>1, HoldsStep
  <1>3. P \in SUBSET (0 .. N)
    OBVIOUS
  <1>4. P = 0 .. N
    <2> HIDE DEF P, N
    <2> QED BY <1>1, <1>2, <1>3, UpwardInduction
  <1> QED BY <1>4

\* Where a part is, and that the ends of the parts rise.
LEMMA PartInList ==
    ASSUME NEW S, NEW parts \in ListsOf(S), NEW k \in 1 .. Len(parts), NEW n \in k .. Len(parts)
    PROVE  /\ Len(Joined(parts)[k - 1]) \in Nat
           /\ Len(Joined(parts)[k]) = Len(Joined(parts)[k - 1]) + Len(parts[k])
           /\ Len(Joined(parts)[k]) <= Len(Joined(parts)[n])
           /\ \A m \in 1 .. Len(parts[k]) :
                 Joined(parts)[n][Len(Joined(parts)[k - 1]) + m] = parts[k][m]
  <1>1. n \in 0 .. Len(parts) /\ k \in 1 .. n /\ k - 1 \in 0 .. Len(parts)
    BY PartOfList
  <1>2. Holds(parts, n)
    BY <1>1, HoldsAll
  <1>3. Len(Joined(parts)[k - 1]) \in Nat
    BY <1>1, ListJoined DEF Strings
  <1> QED BY <1>1, <1>2, <1>3 DEF Holds
===============================================================================
