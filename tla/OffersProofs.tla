--------------------------- MODULE OffersProofs ---------------------------
(***************************************************************************)
(* What the recursive functions of Offers compute: Only picks from a       *)
(* sequence, Sum adds up. Then what the platforms make of an offer: that   *)
(* it has the shape of the schema, what an extra ordered counts for, what  *)
(* a re-quote shows, what a contract's options change in what a customer   *)
(* pays.                                                                   *)
(***************************************************************************)
EXTENDS Journey, SequenceTheorems, WellFoundedInduction, TLAPS

-----------------------------------------------------------------------------
(***************************************************************************)
(* Induction and recursion.  The library states them for an operator; here *)
(* they are stated for a set, the set of the numbers that a formula holds  *)
(* for, and for a function on pairs.                                       *)
(***************************************************************************)
\* A set with zero in it, and with every number its successor, has them all.
LEMMA NatSetInduction ==
  ASSUME NEW S, 0 \in S, \A n \in Nat : n \in S => n + 1 \in S
  PROVE  Nat \subseteq S
<1> DEFINE T == Nat \ S
           R == OpToRel(<, Nat)
<1> SUFFICES ASSUME T # {} PROVE FALSE
  OBVIOUS
<1>1. IsWellFoundedOn(R, Nat)
  BY NatLessThanWellFounded
<1>2. PICK x \in T : \A y \in T : ~ (<<y, x>> \in R)
  <2> HIDE DEF R
  <2> QED BY <1>1, WFMin
<1>3. \A y \in Nat : y < x => y \notin T
  BY <1>2 DEF OpToRel
<1>4. x \in Nat /\ x # 0
  OBVIOUS
<1>5. x - 1 \in Nat /\ x - 1 < x /\ x - 1 + 1 = x
  BY <1>4
<1>6. x - 1 \in S
  BY <1>3, <1>5
<1> QED BY <1>5, <1>6

\* The same up to a bound.
LEMMA UpToInduction ==
  ASSUME NEW m \in Nat, NEW S, 0 \in S, \A n \in 1 .. m : n - 1 \in S => n \in S
  PROVE  \A n \in 0 .. m : n \in S
<1> DEFINE T == {n \in Nat : n <= m => n \in S}
<1>1. 0 \in T
  OBVIOUS
<1>2. ASSUME NEW n \in Nat, n \in T PROVE n + 1 \in T
  <2>1. n + 1 <= m => n + 1 \in 1 .. m /\ n + 1 - 1 = n
    OBVIOUS
  <2> QED BY <2>1, <1>2
<1> HIDE DEF T
<1>3. Nat \subseteq T
  BY <1>1, <1>2, NatSetInduction
<1> QED BY <1>3 DEF T

Steps(f, v0, G, m) == f = [n \in 0 .. m |-> IF n = 0 THEN v0 ELSE G[<<f[n - 1], n>>]]

\* There is a function with a given first value, the others each computed from
\* the one before.
LEMMA Recursion ==
  ASSUME NEW V, NEW v0 \in V, NEW G \in [V \X Nat -> V]
  PROVE  \A m \in Nat : \E f \in [0 .. m -> V] : Steps(f, v0, G, m)
<1> DEFINE S == {m \in Nat : \E f \in [0 .. m -> V] : Steps(f, v0, G, m)}
<1>1. 0 \in S
  <2> DEFINE f == [n \in 0 .. 0 |-> v0]
  <2>1. f \in [0 .. 0 -> V]
    OBVIOUS
  <2>2. Steps(f, v0, G, 0)
    BY DEF Steps
  <2> QED BY <2>1, <2>2
<1>2. ASSUME NEW m \in Nat, m \in S PROVE m + 1 \in S
  <2>1. PICK f \in [0 .. m -> V] : Steps(f, v0, G, m)
    BY <1>2
  <2> DEFINE g == [n \in 0 .. m + 1 |-> IF n = m + 1 THEN G[<<f[m], m + 1>>] ELSE f[n]]
  <2>2. \A n \in 0 .. m : f[n] = IF n = 0 THEN v0 ELSE G[<<f[n - 1], n>>]
    BY <2>1 DEF Steps
  <2>3. G[<<f[m], m + 1>>] \in V
    OBVIOUS
  <2>4. g \in [0 .. m + 1 -> V]
    BY <2>3
  <2>5. ASSUME NEW n \in 0 .. m + 1
        PROVE  g[n] = IF n = 0 THEN v0 ELSE G[<<g[n - 1], n>>]
    <3>1. CASE n = m + 1
      <4>1. n # 0 /\ g[n] = G[<<f[m], m + 1>>] /\ g[n - 1] = f[m]
        BY <3>1
      <4> QED BY <4>1, <3>1
    <3>2. CASE n # m + 1
      <4>1. n \in 0 .. m /\ g[n] = f[n]
        BY <3>2
      <4>2. n # 0 => g[n - 1] = f[n - 1]
        BY <4>1
      <4> QED BY <4>1, <4>2, <2>2
    <3> QED BY <3>1, <3>2
  <2>6. Steps(g, v0, G, m + 1)
    <3> HIDE DEF g
    <3> QED BY <2>4, <2>5 DEF Steps
  <2> QED BY <2>4, <2>6
<1> HIDE DEF S
<1>3. Nat \subseteq S
  BY <1>1, <1>2, NatSetInduction
<1> QED BY <1>3 DEF S

-----------------------------------------------------------------------------
(***************************************************************************)
(* Only: the elements of a sequence at given positions.                    *)
(***************************************************************************)
\* The recursive function of Only exists and satisfies its equation.
LEMMA OnlyDefined ==
  ASSUME NEW E, NEW s \in Seq(E), NEW I
  PROVE  \E f :
           /\ f[0] = <<>>
           /\ \A n \in 1 .. Len(s) :
                f[n] = IF n \in I THEN Append(f[n - 1], s[n]) ELSE f[n - 1]
           /\ Only(s, I) = f[Len(s)]
<1> DEFINE Eqn(f) == f = [n \in 0 .. Len(s) |-> IF n = 0 THEN <<>>
                       ELSE IF n \in I THEN Append(f[n - 1], s[n]) ELSE f[n - 1]]
           chosen == CHOOSE f : Eqn(f)
           G == [p \in Seq(E) \X Nat |->
                   IF p[2] \in I /\ p[2] \in DOMAIN s THEN Append(p[1], s[p[2]]) ELSE p[1]]
<1>1. G \in [Seq(E) \X Nat -> Seq(E)]
  OBVIOUS
<1>2. PICK f \in [0 .. Len(s) -> Seq(E)] : Steps(f, <<>>, G, Len(s))
  <2> HIDE DEF G
  <2>1. <<>> \in Seq(E) /\ Len(s) \in Nat
    OBVIOUS
  <2> QED BY <1>1, <2>1, Recursion
<1>3. ASSUME NEW n \in 0 .. Len(s)
      PROVE  f[n] = IF n = 0 THEN <<>>
                    ELSE IF n \in I THEN Append(f[n - 1], s[n]) ELSE f[n - 1]
  <2>1. f[n] = IF n = 0 THEN <<>> ELSE G[<<f[n - 1], n>>]
    BY <1>2 DEF Steps
  <2>2. n # 0 => <<f[n - 1], n>> \in Seq(E) \X Nat /\ n \in DOMAIN s
    OBVIOUS
  <2> QED BY <2>1, <2>2
<1>4. Eqn(f)
  BY <1>3
<1>5. Eqn(chosen)
  <2> HIDE DEF Eqn
  <2> QED BY <1>4
<1>6. Only(s, I) = chosen[Len(s)]
  BY DEF Only
<1>7. /\ chosen[0] = <<>>
      /\ \A n \in 1 .. Len(s) :
           chosen[n] = IF n \in I THEN Append(chosen[n - 1], s[n]) ELSE chosen[n - 1]
  <2> HIDE DEF chosen
  <2>1. Len(s) \in Nat
    OBVIOUS
  <2>2. chosen = [n \in 0 .. Len(s) |-> IF n = 0 THEN <<>>
                   ELSE IF n \in I THEN Append(chosen[n - 1], s[n]) ELSE chosen[n - 1]]
    BY <1>5
  <2> HIDE DEF Eqn
  <2>3. \A n \in 0 .. Len(s) :
          chosen[n] = IF n = 0 THEN <<>>
                      ELSE IF n \in I THEN Append(chosen[n - 1], s[n]) ELSE chosen[n - 1]
    BY <2>2
  <2> QED BY <2>1, <2>3
<1> HIDE DEF chosen
<1> QED BY <1>6, <1>7

\* Every element of Only is one of the sequence, at one of the positions.
LEMMA OnlyElements ==
  ASSUME NEW E, NEW s \in Seq(E), NEW I
  PROVE  /\ Only(s, I) \in Seq(E)
         /\ \A j \in DOMAIN Only(s, I) : \E i \in DOMAIN s \cap I : Only(s, I)[j] = s[i]
<1> DEFINE F == {s[i] : i \in DOMAIN s \cap I}
<1>1. PICK f :
        /\ f[0] = <<>>
        /\ \A n \in 1 .. Len(s) :
             f[n] = IF n \in I THEN Append(f[n - 1], s[n]) ELSE f[n - 1]
        /\ Only(s, I) = f[Len(s)]
  BY OnlyDefined
<1>2. \A i \in DOMAIN s : i \in I => s[i] \in F
  OBVIOUS
<1>3. F \subseteq E /\ \A x \in F : \E i \in DOMAIN s \cap I : x = s[i]
  OBVIOUS
<1> HIDE DEF F
<1> DEFINE S == {n \in 0 .. Len(s) : f[n] \in Seq(F)}
<1>4. Len(s) \in Nat /\ DOMAIN s = 1 .. Len(s)
  OBVIOUS
<1> HIDE DEF S
<1>5. 0 \in S
  <2>1. f[0] \in Seq(F)
    BY <1>1
  <2> QED BY <2>1, <1>4 DEF S
<1>6. ASSUME NEW n \in 1 .. Len(s), n - 1 \in S PROVE n \in S
  <2>1. f[n - 1] \in Seq(F)
    BY <1>6 DEF S
  <2>2. f[n] = IF n \in I THEN Append(f[n - 1], s[n]) ELSE f[n - 1]
    BY <1>1
  <2>3. f[n] \in Seq(F)
    BY <2>1, <2>2, <1>2, <1>4
  <2> QED BY <2>3, <1>4 DEF S
<1>7. \A n \in 0 .. Len(s) : n \in S
  BY <1>4, <1>5, <1>6, UpToInduction
<1>8. Only(s, I) \in Seq(F)
  BY <1>7, <1>4, <1>1 DEF S
<1> QED BY <1>3, <1>8

\* Elements of a kind at the positions make a sequence of that kind.
LEMMA OnlyIn ==
  ASSUME NEW E, NEW F, NEW s \in Seq(E), NEW I, \A i \in DOMAIN s \cap I : s[i] \in F
  PROVE  Only(s, I) \in Seq(F)
<1>1. Only(s, I) \in Seq(E) /\ \A j \in DOMAIN Only(s, I) : Only(s, I)[j] \in F
  BY OnlyElements
<1> QED BY <1>1

\* All positions give the sequence itself.
LEMMA OnlyAll ==
  ASSUME NEW E, NEW s \in Seq(E), NEW I, DOMAIN s \subseteq I
  PROVE  Only(s, I) = s
<1>1. PICK f :
        /\ f[0] = <<>>
        /\ \A n \in 1 .. Len(s) :
             f[n] = IF n \in I THEN Append(f[n - 1], s[n]) ELSE f[n - 1]
        /\ Only(s, I) = f[Len(s)]
  BY OnlyDefined
<1> DEFINE S == {n \in 0 .. Len(s) :
                   f[n] \in Seq(E) /\ Len(f[n]) = n /\ \A i \in 1 .. n : f[n][i] = s[i]}
<1>2. Len(s) \in Nat /\ DOMAIN s = 1 .. Len(s)
  OBVIOUS
<1> HIDE DEF S
<1>3. 0 \in S
  <2>1. f[0] \in Seq(E) /\ Len(f[0]) = 0
    BY <1>1
  <2> QED BY <2>1, <1>2 DEF S
<1>4. ASSUME NEW n \in 1 .. Len(s), n - 1 \in S PROVE n \in S
  <2>1. /\ f[n - 1] \in Seq(E) /\ Len(f[n - 1]) = n - 1
        /\ \A i \in 1 .. n - 1 : f[n - 1][i] = s[i]
    BY <1>4 DEF S
  <2>2. n \in I /\ s[n] \in E
    BY <1>2
  <2>3. f[n] = Append(f[n - 1], s[n])
    BY <2>2, <1>1
  <2>4. f[n] \in Seq(E) /\ Len(f[n]) = n /\ \A i \in 1 .. n : f[n][i] = s[i]
    BY <2>1, <2>2, <2>3
  <2> QED BY <2>4, <1>2 DEF S
<1>5. \A n \in 0 .. Len(s) : n \in S
  BY <1>2, <1>3, <1>4, UpToInduction
<1>6. /\ Only(s, I) \in Seq(E) /\ Len(Only(s, I)) = Len(s)
      /\ \A i \in 1 .. Len(s) : Only(s, I)[i] = s[i]
  BY <1>5, <1>2, <1>1 DEF S
<1> QED BY <1>6

\* One position gives at least one element.
LEMMA OnlySome ==
  ASSUME NEW E, NEW s \in Seq(E), NEW I, NEW k \in DOMAIN s, k \in I
  PROVE  Only(s, I) # <<>>
<1>1. PICK f :
        /\ f[0] = <<>>
        /\ \A n \in 1 .. Len(s) :
             f[n] = IF n \in I THEN Append(f[n - 1], s[n]) ELSE f[n - 1]
        /\ Only(s, I) = f[Len(s)]
  BY OnlyDefined
<1> DEFINE S == {n \in 0 .. Len(s) : f[n] \in Seq(E) /\ (n >= k => Len(f[n]) > 0)}
<1>2. Len(s) \in Nat /\ DOMAIN s = 1 .. Len(s)
  OBVIOUS
<1> HIDE DEF S
<1>3. 0 \in S
  <2>1. f[0] \in Seq(E)
    BY <1>1
  <2> QED BY <2>1, <1>2 DEF S
<1>4. ASSUME NEW n \in 1 .. Len(s), n - 1 \in S PROVE n \in S
  <2>1. f[n - 1] \in Seq(E) /\ (n - 1 >= k => Len(f[n - 1]) > 0)
    BY <1>4 DEF S
  <2>2. f[n] = IF n \in I THEN Append(f[n - 1], s[n]) ELSE f[n - 1]
    BY <1>1
  <2>3. s[n] \in E /\ (n \notin I => n # k)
    BY <1>2
  <2>4. f[n] \in Seq(E) /\ (n >= k => Len(f[n]) > 0)
    <3>1. CASE n \in I
      BY <3>1, <2>1, <2>2, <2>3
    <3>2. CASE n \notin I
      BY <3>2, <2>1, <2>2, <2>3, <1>2
    <3> QED BY <3>1, <3>2
  <2> QED BY <2>4, <1>2 DEF S
<1>5. \A n \in 0 .. Len(s) : n \in S
  BY <1>2, <1>3, <1>4, UpToInduction
<1>6. Len(Only(s, I)) > 0
  BY <1>5, <1>1, <1>2 DEF S
<1> QED BY <1>6

-----------------------------------------------------------------------------
(***************************************************************************)
(* Sum.                                                                    *)
(***************************************************************************)
\* The recursive function of Sum exists and satisfies its equation.
LEMMA SumDefined ==
  ASSUME NEW s \in Seq(Int)
  PROVE  \E f :
           /\ f[0] = 0
           /\ \A n \in 0 .. Len(s) : f[n] \in Int
           /\ \A n \in 1 .. Len(s) : f[n] = f[n - 1] + s[n]
           /\ Sum(s) = f[Len(s)]
<1> DEFINE Eqn(f) == f = [n \in 0 .. Len(s) |-> IF n = 0 THEN 0 ELSE f[n - 1] + s[n]]
           chosen == CHOOSE f : Eqn(f)
           G == [p \in Int \X Nat |-> IF p[2] \in DOMAIN s THEN p[1] + s[p[2]] ELSE p[1]]
<1>1. G \in [Int \X Nat -> Int]
  OBVIOUS
<1>2. PICK f \in [0 .. Len(s) -> Int] : Steps(f, 0, G, Len(s))
  <2> HIDE DEF G
  <2>1. 0 \in Int /\ Len(s) \in Nat
    OBVIOUS
  <2> QED BY <1>1, <2>1, Recursion
<1>3. ASSUME NEW n \in 0 .. Len(s)
      PROVE  f[n] = IF n = 0 THEN 0 ELSE f[n - 1] + s[n]
  <2>1. f[n] = IF n = 0 THEN 0 ELSE G[<<f[n - 1], n>>]
    BY <1>2 DEF Steps
  <2>2. n # 0 => <<f[n - 1], n>> \in Int \X Nat /\ n \in DOMAIN s
    OBVIOUS
  <2> QED BY <2>1, <2>2
<1>4. Eqn(f)
  BY <1>3
<1>5. Eqn(chosen)
  <2> HIDE DEF Eqn
  <2> QED BY <1>4
<1>6. Sum(s) = chosen[Len(s)]
  BY DEF Sum
<1>7. Len(s) \in Nat /\ DOMAIN s = 1 .. Len(s)
  OBVIOUS
<1>8. chosen = [n \in 0 .. Len(s) |-> IF n = 0 THEN 0 ELSE chosen[n - 1] + s[n]]
  BY <1>5
<1> HIDE DEF Eqn, chosen
<1>9. \A n \in 0 .. Len(s) : chosen[n] = IF n = 0 THEN 0 ELSE chosen[n - 1] + s[n]
  BY <1>8
<1> DEFINE S == {n \in 0 .. Len(s) : chosen[n] \in Int}
<1> HIDE DEF S
<1>10. 0 \in S
  BY <1>7, <1>9 DEF S
<1>11. ASSUME NEW n \in 1 .. Len(s), n - 1 \in S PROVE n \in S
  <2>1. n \in 0 .. Len(s) /\ n # 0 /\ s[n] \in Int /\ chosen[n - 1] \in Int
    BY <1>7, <1>11 DEF S
  <2>2. chosen[n] = chosen[n - 1] + s[n]
    BY <2>1, <1>9
  <2> QED BY <2>1, <2>2 DEF S
<1>12. \A n \in 0 .. Len(s) : n \in S
  BY <1>7, <1>10, <1>11, UpToInduction
<1>13. \A n \in 0 .. Len(s) : chosen[n] \in Int
  BY <1>12 DEF S
<1>14. chosen[0] = 0 /\ \A n \in 1 .. Len(s) : chosen[n] = chosen[n - 1] + s[n]
  BY <1>7, <1>9
<1> QED BY <1>6, <1>13, <1>14

\* What Sum computes: an integer, of sequences that go on alike the same as far as
\* they do.
LEMMA SumInt == \A s \in Seq(Int) : Sum(s) \in Int
<1> SUFFICES ASSUME NEW s \in Seq(Int) PROVE Sum(s) \in Int
  OBVIOUS
<1>1. \E f : (\A n \in 0 .. Len(s) : f[n] \in Int) /\ Sum(s) = f[Len(s)]
  BY SumDefined
<1>2. Len(s) \in 0 .. Len(s)
  OBVIOUS
<1> QED BY <1>1, <1>2

\* No amounts come to nothing.
LEMMA SumEmpty == Sum(<<>>) = 0
<1>1. <<>> \in Seq(Int) /\ Len(<<>>) = 0
  OBVIOUS
<1>2. \E f : f[0] = 0 /\ Sum(<<>>) = f[Len(<<>>)]
  BY <1>1, SumDefined
<1> QED BY <1>1, <1>2

\* Neither do amounts of which each is nothing.
LEMMA SumZero ==
  ASSUME NEW s \in Seq(Int), \A i \in 1 .. Len(s) : s[i] = 0
  PROVE  Sum(s) = 0
<1>1. PICK f :
        /\ f[0] = 0
        /\ \A n \in 1 .. Len(s) : f[n] = f[n - 1] + s[n]
        /\ Sum(s) = f[Len(s)]
  BY SumDefined
<1> DEFINE S == {n \in 0 .. Len(s) : f[n] = 0}
<1>2. Len(s) \in Nat
  OBVIOUS
<1> HIDE DEF S
<1>3. 0 \in S
  BY <1>1, <1>2 DEF S
<1>4. ASSUME NEW n \in 1 .. Len(s), n - 1 \in S PROVE n \in S
  <2>1. f[n - 1] = 0 /\ s[n] = 0 /\ f[n] = f[n - 1] + s[n]
    BY <1>1, <1>4 DEF S
  <2> QED BY <2>1, <1>2 DEF S
<1>5. \A n \in 0 .. Len(s) : n \in S
  BY <1>2, <1>3, <1>4, UpToInduction
<1> QED BY <1>1, <1>2, <1>5 DEF S

\* As many ones come to their number.
LEMMA SumOnes ==
  ASSUME NEW s \in Seq(Int), \A i \in 1 .. Len(s) : s[i] = 1
  PROVE  Sum(s) = Len(s)
<1>1. PICK f :
        /\ f[0] = 0
        /\ \A n \in 1 .. Len(s) : f[n] = f[n - 1] + s[n]
        /\ Sum(s) = f[Len(s)]
  BY SumDefined
<1> DEFINE S == {n \in 0 .. Len(s) : f[n] = n}
<1>2. Len(s) \in Nat
  OBVIOUS
<1> HIDE DEF S
<1>3. 0 \in S
  BY <1>1, <1>2 DEF S
<1>4. ASSUME NEW n \in 1 .. Len(s), n - 1 \in S PROVE n \in S
  <2>1. f[n - 1] = n - 1 /\ s[n] = 1 /\ f[n] = f[n - 1] + s[n]
    BY <1>1, <1>4 DEF S
  <2> QED BY <2>1, <1>2 DEF S
<1>5. \A n \in 0 .. Len(s) : n \in S
  BY <1>2, <1>3, <1>4, UpToInduction
<1> QED BY <1>1, <1>2, <1>5 DEF S

\* Adding amount by amount.
LEMMA SumAdd ==
  ASSUME NEW s \in Seq(Int), NEW t \in Seq(Int), NEW u \in Seq(Int),
         Len(t) = Len(s), Len(u) = Len(s), \A i \in 1 .. Len(s) : u[i] = s[i] + t[i]
  PROVE  Sum(u) = Sum(s) + Sum(t)
<1>1. PICK f :
        /\ f[0] = 0 /\ \A n \in 0 .. Len(s) : f[n] \in Int
        /\ \A n \in 1 .. Len(s) : f[n] = f[n - 1] + s[n]
        /\ Sum(s) = f[Len(s)]
  BY SumDefined
<1>2. PICK g :
        /\ g[0] = 0 /\ \A n \in 0 .. Len(s) : g[n] \in Int
        /\ \A n \in 1 .. Len(s) : g[n] = g[n - 1] + t[n]
        /\ Sum(t) = g[Len(s)]
  BY SumDefined
<1>3. PICK h :
        /\ h[0] = 0 /\ \A n \in 1 .. Len(s) : h[n] = h[n - 1] + u[n]
        /\ Sum(u) = h[Len(s)]
  BY SumDefined
<1> DEFINE S == {n \in 0 .. Len(s) : h[n] = f[n] + g[n]}
<1>4. Len(s) \in Nat
  OBVIOUS
<1> HIDE DEF S
<1>5. 0 \in S
  BY <1>1, <1>2, <1>3, <1>4 DEF S
<1>6. ASSUME NEW n \in 1 .. Len(s), n - 1 \in S PROVE n \in S
  <2>1. n \in 0 .. Len(s) /\ n - 1 \in 0 .. Len(s)
    BY <1>4
  <2>2. f[n - 1] \in Int /\ g[n - 1] \in Int /\ h[n - 1] = f[n - 1] + g[n - 1]
    BY <2>1, <1>1, <1>2, <1>6 DEF S
  <2>3. s[n] \in Int /\ t[n] \in Int /\ u[n] = s[n] + t[n]
    OBVIOUS
  <2>4. /\ f[n] = f[n - 1] + s[n] /\ g[n] = g[n - 1] + t[n]
        /\ h[n] = h[n - 1] + u[n]
    BY <1>1, <1>2, <1>3
  <2>5. h[n] = f[n] + g[n]
    BY <2>2, <2>3, <2>4
  <2> QED BY <2>1, <2>5 DEF S
<1>7. \A n \in 0 .. Len(s) : n \in S
  BY <1>4, <1>5, <1>6, UpToInduction
<1> QED BY <1>1, <1>2, <1>3, <1>4, <1>7 DEF S

\* Adding one sequence to the other.
LEMMA SumConcat ==
  ASSUME NEW s \in Seq(Int), NEW t \in Seq(Int)
  PROVE  Sum(s \o t) = Sum(s) + Sum(t)
<1> DEFINE u == s \o t
<1>1. PICK f :
        /\ f[0] = 0 /\ \A n \in 0 .. Len(s) : f[n] \in Int
        /\ \A n \in 1 .. Len(s) : f[n] = f[n - 1] + s[n]
        /\ Sum(s) = f[Len(s)]
  BY SumDefined
<1>2. PICK g :
        /\ g[0] = 0 /\ \A n \in 0 .. Len(t) : g[n] \in Int
        /\ \A n \in 1 .. Len(t) : g[n] = g[n - 1] + t[n]
        /\ Sum(t) = g[Len(t)]
  BY SumDefined
<1>3. /\ u \in Seq(Int) /\ Len(u) = Len(s) + Len(t)
      /\ \A i \in 1 .. Len(s) : u[i] = s[i]
      /\ \A i \in 1 .. Len(t) : u[Len(s) + i] = t[i]
  OBVIOUS
<1> HIDE DEF u
<1>4. PICK h :
        /\ h[0] = 0 /\ \A n \in 1 .. Len(u) : h[n] = h[n - 1] + u[n]
        /\ Sum(u) = h[Len(u)]
  BY <1>3, SumDefined
<1>5. Len(s) \in Nat /\ Len(t) \in Nat
  OBVIOUS
<1> DEFINE S == {n \in 0 .. Len(s) : h[n] = f[n]}
           T == {n \in 0 .. Len(t) : h[Len(s) + n] = Sum(s) + g[n]}
<1> HIDE DEF S, T
<1>6. 0 \in S
  BY <1>1, <1>4, <1>5 DEF S
<1>7. ASSUME NEW n \in 1 .. Len(s), n - 1 \in S PROVE n \in S
  <2>1. f[n] = f[n - 1] + s[n] /\ h[n] = h[n - 1] + u[n] /\ u[n] = s[n]
    BY <1>1, <1>3, <1>4, <1>5
  <2> QED BY <2>1, <1>5, <1>7 DEF S
<1>8. \A n \in 0 .. Len(s) : n \in S
  BY <1>5, <1>6, <1>7, UpToInduction
<1>9. h[Len(s)] = Sum(s) /\ Sum(s) \in Int
  BY <1>1, <1>5, <1>8 DEF S
<1>10. 0 \in T
  BY <1>2, <1>5, <1>9 DEF T
<1>11. ASSUME NEW n \in 1 .. Len(t), n - 1 \in T PROVE n \in T
  <2>1. Len(s) + n \in 1 .. Len(u) /\ Len(s) + n - 1 = Len(s) + (n - 1)
    BY <1>3, <1>5
  <2>2. h[Len(s) + n] = h[Len(s) + (n - 1)] + u[Len(s) + n]
    BY <2>1, <1>4
  <2>3. u[Len(s) + n] = t[n] /\ t[n] \in Int
    BY <1>3
  <2>4. g[n] = g[n - 1] + t[n] /\ g[n - 1] \in Int
    BY <1>2, <1>5
  <2>5. h[Len(s) + (n - 1)] = Sum(s) + g[n - 1]
    BY <1>11 DEF T
  <2>6. h[Len(s) + n] = Sum(s) + g[n]
    BY <2>2, <2>3, <2>4, <2>5, <1>9
  <2> QED BY <2>6, <1>5 DEF T
<1>12. \A n \in 0 .. Len(t) : n \in T
  BY <1>5, <1>10, <1>11, UpToInduction
<1>13. h[Len(s) + Len(t)] = Sum(s) + Sum(t)
  BY <1>12, <1>2, <1>5 DEF T
<1>14. Sum(u) = Sum(s) + Sum(t)
  BY <1>13, <1>4, <1>3
<1> QED BY <1>14 DEF u

\* What a sequence weighs: each of its elements has a weight.
Along(w, s) == [i \in DOMAIN s |-> w[s[i]]]

\* The weights along a sequence.
LEMMA AlongSeq ==
  ASSUME NEW E, NEW w \in [E -> Int], NEW s \in Seq(E)
  PROVE  /\ Along(w, s) \in Seq(Int) /\ Len(Along(w, s)) = Len(s)
         /\ \A i \in 1 .. Len(s) : Along(w, s)[i] = w[s[i]]
BY DEF Along

\* Two sequences after each other weigh what they weigh together.
LEMMA AlongConcat ==
  ASSUME NEW E, NEW w \in [E -> Int], NEW s \in Seq(E), NEW t \in Seq(E)
  PROVE  Sum(Along(w, s \o t)) = Sum(Along(w, s)) + Sum(Along(w, t))
<1> DEFINE u == s \o t
           a == Along(w, s)
           b == Along(w, t)
           c == Along(w, u)
<1>1. /\ u \in Seq(E) /\ Len(u) = Len(s) + Len(t)
      /\ \A i \in 1 .. Len(s) : u[i] = s[i]
      /\ \A i \in 1 .. Len(t) : u[Len(s) + i] = t[i]
  OBVIOUS
<1> HIDE DEF u
<1> HIDE DEF a, b, c
<1>2. a \in Seq(Int) /\ Len(a) = Len(s) /\ \A i \in 1 .. Len(s) : a[i] = w[s[i]]
  BY DEF Along, a
<1>3. b \in Seq(Int) /\ Len(b) = Len(t) /\ \A i \in 1 .. Len(t) : b[i] = w[t[i]]
  BY DEF Along, b
<1>4. c \in Seq(Int) /\ Len(c) = Len(u) /\ \A i \in 1 .. Len(u) : c[i] = w[u[i]]
  <2>1. u \in Seq(E)
    BY <1>1
  <2>2. c = [i \in DOMAIN u |-> w[u[i]]]
    BY DEF Along, c
  <2> HIDE DEF c
  <2> QED BY <2>1, <2>2
<1>5. Len(s) \in Nat /\ Len(t) \in Nat
  OBVIOUS
<1>6. /\ a \o b \in Seq(Int) /\ Len(a \o b) = Len(s) + Len(t)
      /\ \A i \in 1 .. Len(s) + Len(t) :
           (a \o b)[i] = IF i <= Len(s) THEN a[i] ELSE b[i - Len(s)]
  <2>1. a \in Seq(Int) /\ b \in Seq(Int)
    BY <1>2, <1>3
  <2>2. /\ a \o b \in Seq(Int) /\ Len(a \o b) = Len(a) + Len(b)
        /\ \A i \in 1 .. Len(a) + Len(b) :
             (a \o b)[i] = IF i <= Len(a) THEN a[i] ELSE b[i - Len(a)]
    BY <2>1, ConcatProperties
  <2>3. Len(a) = Len(s) /\ Len(b) = Len(t)
    BY <1>2, <1>3
  <2> QED BY <2>2, <2>3
<1>7. ASSUME NEW i \in 1 .. Len(s) + Len(t) PROVE c[i] = (a \o b)[i]
  <2>1. c[i] = w[u[i]]
    BY <1>1, <1>4
  <2>2. CASE i <= Len(s)
    <3>1. i \in 1 .. Len(s)
      BY <2>2, <1>5
    <3> QED BY <3>1, <2>1, <2>2, <1>1, <1>2, <1>6
  <2>3. CASE i > Len(s)
    <3>1. i - Len(s) \in 1 .. Len(t) /\ i = Len(s) + (i - Len(s)) /\ ~(i <= Len(s))
      BY <2>3, <1>5
    <3>2. (a \o b)[i] = b[i - Len(s)]
      BY <3>1, <1>6
    <3>3. u[i] = t[i - Len(s)]
      BY <3>1, <1>1
    <3> QED BY <3>1, <3>2, <3>3, <2>1, <1>3
  <2>4. i <= Len(s) \/ i > Len(s)
    BY <1>5
  <2> QED BY <2>2, <2>3, <2>4
<1>8. c = a \o b
  <2>1. c \in Seq(Int) /\ a \o b \in Seq(Int)
    BY <1>4, <1>6
  <2>2. Len(c) = Len(a \o b) /\ \A i \in 1 .. Len(c) : c[i] = (a \o b)[i]
    BY <1>1, <1>4, <1>6, <1>7
  <2> QED BY <2>1, <2>2, SeqEqual
<1>9. Sum(c) = Sum(a) + Sum(b)
  BY <1>2, <1>3, <1>8, SumConcat
<1> QED BY <1>9 DEF a, b, c, u

\* The empty sequence weighs nothing, and one of a single element what it weighs.
LEMMA AlongFew ==
  ASSUME NEW E, NEW w \in [E -> Int]
  PROVE  /\ Sum(Along(w, <<>>)) = 0
         /\ \A e \in E : Sum(Along(w, <<e>>)) = w[e]
<1>1. Along(w, <<>>) = <<>>
  BY DEF Along
<1>2. ASSUME NEW e \in E PROVE Sum(Along(w, <<e>>)) = w[e]
  <2> DEFINE s == Along(w, <<e>>)
  <2>1. s \in Seq(Int) /\ Len(s) = 1 /\ s[1] = w[e]
    BY DEF Along
  <2> HIDE DEF s
  <2>2. PICK f :
          /\ f[0] = 0 /\ \A n \in 1 .. Len(s) : f[n] = f[n - 1] + s[n]
          /\ Sum(s) = f[Len(s)]
    BY <2>1, SumDefined
  <2>3. f[1] = f[0] + s[1]
    BY <2>1, <2>2
  <2>4. Sum(s) = w[e]
    BY <2>1, <2>2, <2>3
  <2> QED BY <2>4 DEF s
<1> QED BY <1>1, <1>2, SumEmpty

\* What is picked weighs what it weighs in the sequence.
LEMMA AlongOnly ==
  ASSUME NEW E, NEW w \in [E -> Int], NEW s \in Seq(E), NEW I
  PROVE  Sum(Along(w, Only(s, I))) = Sum([i \in DOMAIN s |-> IF i \in I THEN w[s[i]] ELSE 0])
<1> DEFINE t == [i \in DOMAIN s |-> IF i \in I THEN w[s[i]] ELSE 0]
<1>1. PICK f :
        /\ f[0] = <<>>
        /\ \A n \in 1 .. Len(s) :
             f[n] = IF n \in I THEN Append(f[n - 1], s[n]) ELSE f[n - 1]
        /\ Only(s, I) = f[Len(s)]
  BY OnlyDefined
<1>2. Len(s) \in Nat /\ DOMAIN s = 1 .. Len(s)
  OBVIOUS
<1>3. /\ t \in Seq(Int) /\ Len(t) = Len(s)
      /\ \A i \in 1 .. Len(s) : t[i] = IF i \in I THEN w[s[i]] ELSE 0
  OBVIOUS
<1> HIDE DEF t
<1>4. PICK g :
        /\ g[0] = 0 /\ \A n \in 0 .. Len(s) : g[n] \in Int
        /\ \A n \in 1 .. Len(s) : g[n] = g[n - 1] + t[n]
        /\ Sum(t) = g[Len(s)]
  BY <1>3, SumDefined
<1> DEFINE S == {n \in 0 .. Len(s) : f[n] \in Seq(E) /\ Sum(Along(w, f[n])) = g[n]}
<1> HIDE DEF S
<1>5. 0 \in S
  <2>1. f[0] \in Seq(E)
    BY <1>1
  <2>2. Sum(Along(w, f[0])) = g[0]
    BY <1>1, <1>4, AlongFew
  <2> QED BY <2>1, <2>2, <1>2 DEF S
<1>6. ASSUME NEW n \in 1 .. Len(s), n - 1 \in S PROVE n \in S
  <2>1. f[n - 1] \in Seq(E) /\ Sum(Along(w, f[n - 1])) = g[n - 1]
    BY <1>6 DEF S
  <2>2. s[n] \in E /\ w[s[n]] \in Int /\ g[n - 1] \in Int /\ g[n] = g[n - 1] + t[n]
    BY <1>2, <1>4
  <2>3. CASE n \in I
    <3>0. f[n] = Append(f[n - 1], s[n])
      BY <2>3, <1>1
    <3>1. f[n] = f[n - 1] \o <<s[n]>>
      BY <3>0, <2>1, <2>2, AppendIsConcat
    <3>2. <<s[n]>> \in Seq(E) /\ Sum(Along(w, <<s[n]>>)) = w[s[n]]
      BY <2>2, AlongFew
    <3>3. Sum(Along(w, f[n - 1] \o <<s[n]>>)) = g[n - 1] + w[s[n]]
      <4> HIDE DEF Along
      <4> QED BY <3>2, <2>1, AlongConcat
    <3>4. f[n] \in Seq(E) /\ t[n] = w[s[n]]
      BY <3>1, <3>2, <2>1, <2>3, <1>3
    <3>5. Sum(Along(w, f[n])) = g[n]
      BY <3>1, <3>3, <3>4, <2>2
    <3> QED BY <3>4, <3>5, <1>2 DEF S
  <2>4. CASE n \notin I
    <3>1. f[n] = f[n - 1] /\ t[n] = 0
      BY <2>4, <1>1, <1>3
    <3>2. f[n] \in Seq(E) /\ Sum(Along(w, f[n])) = g[n]
      BY <3>1, <2>1, <2>2
    <3> QED BY <3>2, <1>2 DEF S
  <2> QED BY <2>3, <2>4
<1>7. \A n \in 0 .. Len(s) : n \in S
  BY <1>2, <1>5, <1>6, UpToInduction
<1>8. Sum(Along(w, Only(s, I))) = Sum(t)
  BY <1>7, <1>1, <1>2, <1>4 DEF S
<1> QED BY <1>8 DEF t

-----------------------------------------------------------------------------
(***************************************************************************)
(* FlattenSeq of the community modules: one sequence after the other.      *)
(***************************************************************************)
\* Its recursive function exists and satisfies its equation.
LEMMA FlattenDefined ==
  ASSUME NEW E, NEW ss \in Seq(Seq(E)), ss # <<>>
  PROVE  \E f :
           /\ f[1] = ss[1]
           /\ \A n \in 2 .. Len(ss) : f[n] = f[n - 1] \o ss[n]
           /\ FlattenSeq(ss) = f[Len(ss)]
<1> DEFINE Eqn(f) == f = [n \in 1 .. Len(ss) |-> IF n = 1 THEN ss[n] ELSE f[n - 1] \o ss[n]]
           chosen == CHOOSE f : Eqn(f)
           G == [p \in Seq(E) \X Nat |->
                   IF p[2] \in DOMAIN ss THEN p[1] \o ss[p[2]] ELSE p[1]]
<1>1. G \in [Seq(E) \X Nat -> Seq(E)]
  OBVIOUS
<1>2. PICK f \in [0 .. Len(ss) -> Seq(E)] : Steps(f, <<>>, G, Len(ss))
  <2> HIDE DEF G
  <2>1. <<>> \in Seq(E) /\ Len(ss) \in Nat
    OBVIOUS
  <2> QED BY <1>1, <2>1, Recursion
<1>3. Len(ss) \in Nat \ {0} /\ DOMAIN ss = 1 .. Len(ss)
  OBVIOUS
<1> HIDE DEF G
<1>4. ASSUME NEW n \in 1 .. Len(ss)
      PROVE  f[n] = f[n - 1] \o ss[n] /\ f[n] \in Seq(E)
  <2>1. n \in 0 .. Len(ss) /\ n # 0 /\ n - 1 \in 0 .. Len(ss) /\ n \in Nat /\ n \in DOMAIN ss
    BY <1>3
  <2>2. f[n] = G[<<f[n - 1], n>>]
    BY <2>1, <1>2 DEF Steps
  <2>3. f[n - 1] \in Seq(E) /\ f[n] \in Seq(E)
    BY <2>1
  <2>4. G[<<f[n - 1], n>>] = f[n - 1] \o ss[n]
    BY <2>1, <2>3 DEF G
  <2> QED BY <2>2, <2>3, <2>4
<1>5. f[0] = <<>>
  BY <1>2, <1>3 DEF Steps
<1> DEFINE g == [n \in 1 .. Len(ss) |-> f[n]]
<1>6. ASSUME NEW n \in 1 .. Len(ss)
      PROVE  g[n] = IF n = 1 THEN ss[n] ELSE g[n - 1] \o ss[n]
  <2>1. CASE n = 1
    <3>1. ss[1] \in Seq(E)
      BY <1>3
    <3>2. f[1] = f[0] \o ss[1]
      BY <2>1, <1>4
    <3>3. f[1] = ss[1]
      BY <3>1, <3>2, <1>5
    <3> QED BY <3>3, <2>1
  <2>2. CASE n # 1
    <3>1. n - 1 \in 1 .. Len(ss)
      BY <2>2, <1>3
    <3> QED BY <3>1, <2>2, <1>4
  <2> QED BY <2>1, <2>2
<1>7. Eqn(g)
  BY <1>6
<1>8. Eqn(chosen)
  <2> HIDE DEF Eqn, g
  <2> QED BY <1>7
<1>9. FlattenSeq(ss) = chosen[Len(ss)]
  BY <1>3 DEF FlattenSeq
<1>10. chosen = [n \in 1 .. Len(ss) |-> IF n = 1 THEN ss[n] ELSE chosen[n - 1] \o ss[n]]
  BY <1>8
<1> HIDE DEF Eqn, chosen, g
<1>11. \A n \in 1 .. Len(ss) : chosen[n] = IF n = 1 THEN ss[n] ELSE chosen[n - 1] \o ss[n]
  BY <1>10
<1>12. chosen[1] = ss[1]
  <2>1. 1 \in 1 .. Len(ss)
    BY <1>3
  <2> QED BY <2>1, <1>11
<1>13. ASSUME NEW n \in 2 .. Len(ss) PROVE chosen[n] = chosen[n - 1] \o ss[n]
  <2>1. n \in 1 .. Len(ss) /\ n # 1
    BY <1>3
  <2> QED BY <2>1, <1>11
<1> QED BY <1>9, <1>12, <1>13

\* The elements of one sequence after the other.
LEMMA ConcatSet ==
  ASSUME NEW E, NEW s \in Seq(E), NEW t \in Seq(E)
  PROVE  ToSet(s \o t) = ToSet(s) \cup ToSet(t)
<1>1. /\ s \o t \in Seq(E) /\ Len(s \o t) = Len(s) + Len(t)
      /\ \A i \in 1 .. Len(s) + Len(t) :
           (s \o t)[i] = IF i <= Len(s) THEN s[i] ELSE t[i - Len(s)]
  BY ConcatProperties
<1>2. Len(s) \in Nat /\ Len(t) \in Nat /\ DOMAIN s = 1 .. Len(s) /\ DOMAIN t = 1 .. Len(t)
  OBVIOUS
<1>3. DOMAIN (s \o t) = 1 .. Len(s) + Len(t)
  BY <1>1
<1>4. ASSUME NEW e \in ToSet(s \o t) PROVE e \in ToSet(s) \cup ToSet(t)
  <2>1. PICK i \in 1 .. Len(s) + Len(t) : e = (s \o t)[i]
    BY <1>3, <1>4 DEF ToSet
  <2>2. CASE i <= Len(s)
    <3>1. i \in DOMAIN s /\ e = s[i]
      BY <2>1, <2>2, <1>1, <1>2
    <3> QED BY <3>1 DEF ToSet
  <2>3. CASE ~(i <= Len(s))
    <3>1. i - Len(s) \in DOMAIN t /\ e = t[i - Len(s)]
      BY <2>1, <2>3, <1>1, <1>2
    <3> QED BY <3>1 DEF ToSet
  <2> QED BY <2>2, <2>3
<1>5. ASSUME NEW e \in ToSet(s) PROVE e \in ToSet(s \o t)
  <2>1. PICK i \in DOMAIN s : e = s[i]
    BY <1>5 DEF ToSet
  <2>2. i \in 1 .. Len(s) + Len(t) /\ i <= Len(s)
    BY <1>2
  <2>3. e = (s \o t)[i]
    BY <2>1, <2>2, <1>1
  <2> QED BY <2>2, <2>3, <1>3 DEF ToSet
<1>6. ASSUME NEW e \in ToSet(t) PROVE e \in ToSet(s \o t)
  <2>1. PICK i \in DOMAIN t : e = t[i]
    BY <1>6 DEF ToSet
  <2>2. /\ Len(s) + i \in 1 .. Len(s) + Len(t) /\ ~(Len(s) + i <= Len(s))
        /\ Len(s) + i - Len(s) = i
    BY <1>2
  <2>3. e = (s \o t)[Len(s) + i]
    BY <2>1, <2>2, <1>1
  <2> QED BY <2>2, <2>3, <1>3 DEF ToSet
<1> QED BY <1>4, <1>5, <1>6

\* The elements of a sequence of sequences one after the other.
LEMMA FlattenElements ==
  ASSUME NEW E, NEW ss \in Seq(Seq(E))
  PROVE  /\ FlattenSeq(ss) \in Seq(E)
         /\ ToSet(FlattenSeq(ss)) = UNION {ToSet(ss[i]) : i \in DOMAIN ss}
<1>1. CASE ss = <<>>
  <2>1. FlattenSeq(ss) = <<>>
    BY <1>1 DEF FlattenSeq
  <2> QED BY <2>1, <1>1 DEF ToSet
<1>2. CASE ss # <<>>
  <2>1. PICK f :
          /\ f[1] = ss[1]
          /\ \A n \in 2 .. Len(ss) : f[n] = f[n - 1] \o ss[n]
          /\ FlattenSeq(ss) = f[Len(ss)]
    BY <1>2, FlattenDefined
  <2>2. Len(ss) \in Nat \ {0} /\ DOMAIN ss = 1 .. Len(ss)
    BY <1>2
  <2>3. \A i \in 1 .. Len(ss) : ss[i] \in Seq(E)
    BY <2>2
  <2> DEFINE S == {n \in 0 .. Len(ss) : n = 0 \/
                     (/\ f[n] \in Seq(E)
                      /\ ToSet(f[n]) = UNION {ToSet(ss[i]) : i \in 1 .. n})}
  <2> HIDE DEF S
  <2>4. 0 \in S
    BY <2>2 DEF S
  <2>5. ASSUME NEW n \in 1 .. Len(ss), n - 1 \in S PROVE n \in S
    <3>1. CASE n = 1
      <4>1. f[1] \in Seq(E) /\ ToSet(f[1]) = ToSet(ss[1])
        BY <2>1, <2>2, <2>3
      <4>2. UNION {ToSet(ss[i]) : i \in 1 .. 1} = ToSet(ss[1])
        OBVIOUS
      <4>3. f[n] \in Seq(E) /\ ToSet(f[n]) = UNION {ToSet(ss[i]) : i \in 1 .. n}
        BY <3>1, <4>1, <4>2
      <4> QED BY <4>3, <2>2 DEF S
    <3>2. CASE n # 1
      <4>1. n \in 2 .. Len(ss) /\ n - 1 # 0
        BY <3>2, <2>2
      <4>2. /\ f[n - 1] \in Seq(E)
            /\ ToSet(f[n - 1]) = UNION {ToSet(ss[i]) : i \in 1 .. n - 1}
        BY <4>1, <2>5 DEF S
      <4>3. f[n] = f[n - 1] \o ss[n] /\ ss[n] \in Seq(E)
        BY <4>1, <2>1, <2>3
      <4>4. f[n] \in Seq(E) /\ ToSet(f[n]) = ToSet(f[n - 1]) \cup ToSet(ss[n])
        BY <4>2, <4>3, ConcatSet
      <4>5. 1 .. n = (1 .. n - 1) \cup {n}
        BY <4>1, <2>2
      <4>6. ToSet(f[n]) = UNION {ToSet(ss[i]) : i \in 1 .. n}
        BY <4>2, <4>4, <4>5
      <4> QED BY <4>4, <4>6, <2>2 DEF S
    <3> QED BY <3>1, <3>2
  <2>6. \A n \in 0 .. Len(ss) : n \in S
    BY <2>2, <2>4, <2>5, UpToInduction
  <2>7. Len(ss) \in S /\ Len(ss) # 0
    BY <2>6, <2>2
  <2> QED BY <2>7, <2>1, <2>2 DEF S
<1> QED BY <1>1, <1>2

\* They weigh together what they weigh.
LEMMA FlattenSum ==
  ASSUME NEW E, NEW w \in [E -> Int], NEW ss \in Seq(Seq(E))
  PROVE  Sum(Along(w, FlattenSeq(ss))) = Sum([i \in DOMAIN ss |-> Sum(Along(w, ss[i]))])
<1> DEFINE t == [i \in DOMAIN ss |-> Sum(Along(w, ss[i]))]
<1>1. CASE ss = <<>>
  <2>1. FlattenSeq(ss) = <<>> /\ t = <<>>
    BY <1>1 DEF FlattenSeq
  <2> HIDE DEF t
  <2>2. Sum(Along(w, FlattenSeq(ss))) = Sum(t)
    BY <2>1, AlongFew, SumEmpty
  <2> QED BY <2>2 DEF t
<1>2. CASE ss # <<>>
  <2>1. PICK f :
          /\ f[1] = ss[1]
          /\ \A n \in 2 .. Len(ss) : f[n] = f[n - 1] \o ss[n]
          /\ FlattenSeq(ss) = f[Len(ss)]
    BY <1>2, FlattenDefined
  <2>2. Len(ss) \in Nat \ {0} /\ DOMAIN ss = 1 .. Len(ss)
    BY <1>2
  <2>3. ASSUME NEW i \in 1 .. Len(ss) PROVE ss[i] \in Seq(E) /\ Sum(Along(w, ss[i])) \in Int
    <3>1. ss[i] \in Seq(E)
      BY <2>2
    <3>2. Along(w, ss[i]) \in Seq(Int)
      BY <3>1, AlongSeq
    <3> QED BY <3>1, <3>2, SumInt
  <2>4. /\ t \in Seq(Int) /\ Len(t) = Len(ss)
        /\ \A i \in 1 .. Len(ss) : t[i] = Sum(Along(w, ss[i]))
    BY <2>2, <2>3
  <2> HIDE DEF t
  <2>5. PICK g :
          /\ g[0] = 0 /\ \A n \in 0 .. Len(ss) : g[n] \in Int
          /\ \A n \in 1 .. Len(ss) : g[n] = g[n - 1] + t[n]
          /\ Sum(t) = g[Len(ss)]
    BY <2>4, SumDefined
  <2> DEFINE S == {n \in 0 .. Len(ss) : n = 0 \/
                     (f[n] \in Seq(E) /\ Sum(Along(w, f[n])) = g[n])}
  <2> HIDE DEF S
  <2>6. 0 \in S
    BY <2>2 DEF S
  <2>7. ASSUME NEW n \in 1 .. Len(ss), n - 1 \in S PROVE n \in S
    <3>0. g[n] = g[n - 1] + t[n] /\ n - 1 \in 0 .. Len(ss)
      BY <2>2, <2>5
    <3>1. g[n] = g[n - 1] + Sum(Along(w, ss[n])) /\ g[n - 1] \in Int
      BY <3>0, <2>4, <2>5
    <3>2. CASE n = 1
      <4>1. f[n] \in Seq(E) /\ f[n] = ss[n]
        BY <3>2, <2>1, <2>3
      <4>2. g[n] = Sum(Along(w, ss[n]))
        BY <3>1, <3>2, <2>3, <2>5
      <4>3. Sum(Along(w, f[n])) = g[n]
        BY <4>1, <4>2
      <4> QED BY <4>1, <4>3, <2>2 DEF S
    <3>3. CASE n # 1
      <4>1. n \in 2 .. Len(ss) /\ n - 1 # 0
        BY <3>3, <2>2
      <4>2. f[n - 1] \in Seq(E) /\ Sum(Along(w, f[n - 1])) = g[n - 1]
        BY <4>1, <2>7 DEF S
      <4>3. f[n] = f[n - 1] \o ss[n] /\ ss[n] \in Seq(E)
        BY <4>1, <2>1, <2>3
      <4>4. Sum(Along(w, f[n - 1] \o ss[n])) = g[n - 1] + Sum(Along(w, ss[n]))
        BY <4>2, <4>3, AlongConcat
      <4>5. f[n] \in Seq(E) /\ Sum(Along(w, f[n])) = g[n]
        BY <4>2, <4>3, <4>4, <3>1
      <4> QED BY <4>5, <2>2 DEF S
    <3> QED BY <3>2, <3>3
  <2>8. \A n \in 0 .. Len(ss) : n \in S
    BY <2>2, <2>6, <2>7, UpToInduction
  <2>9. Len(ss) \in S /\ Len(ss) # 0
    BY <2>8, <2>2
  <2>10. Sum(Along(w, FlattenSeq(ss))) = Sum(t)
    BY <2>9, <2>1, <2>5 DEF S
  <2> QED BY <2>10 DEF t
<1> QED BY <1>1, <1>2

-----------------------------------------------------------------------------
(***************************************************************************)
(* The platforms' modules have Only, Sum and FlattenSeq of their own, which*)
(* are the same.                                                           *)
(***************************************************************************)
LEMMA HertzOnly == \A s, I : Hertz!Only(s, I) = Only(s, I)
BY DEF Hertz!Only, Only

\* The sum of the items is that of Offers.
LEMMA HertzSum == \A s : Hertz!Sum(s) = Sum(s)
BY DEF Hertz!Sum, Sum

\* And so is a sequence of sequences made one.
LEMMA HertzFlatten == \A ss : Hertz!FlattenSeq(ss) = FlattenSeq(ss)
BY DEF Hertz!FlattenSeq, FlattenSeq

\* ProfitMax picks vehicles from an answer as Offers says.
LEMMA ProfitMaxOnly == \A s, I : ProfitMax!Only(s, I) = Only(s, I)
BY DEF ProfitMax!Only, Only

\* And so does Booking.com.
LEMMA BookingcomOnly == \A s, I : Bookingcom!Only(s, I) = Only(s, I)
BY DEF Bookingcom!Only, Only

\* And so does AnyRent.
LEMMA AnyRentOnly == \A s, I : AnyRent!Only(s, I) = Only(s, I)
BY DEF AnyRent!Only, Only

\* AnyRent's lists of codes are made one as Offers says.
LEMMA AnyRentFlatten == \A ss : AnyRent!FlattenSeq(ss) = FlattenSeq(ss)
BY DEF AnyRent!FlattenSeq, FlattenSeq

\* Rently picks the coverages that it names in the same way.
LEMMA RentlyOnly == \A s, I : Rently!Only(s, I) = Only(s, I)
BY DEF Rently!Only, Only

\* The opening hours of a week are made one as Offers says.
LEMMA PlacesFlatten == \A ss : Places!FlattenSeq(ss) = FlattenSeq(ss)
BY DEF Places!FlattenSeq, FlattenSeq

\* ProfitMax has Hertz's operators, and those have Only once more.
LEMMA ProfitMaxHertzOnly == \A s, I : ProfitMax!Hertz!Only(s, I) = Only(s, I)
BY DEF ProfitMax!Hertz!Only, Only

\* And Sum.
LEMMA ProfitMaxHertzSum == \A s : ProfitMax!Hertz!Sum(s) = Sum(s)
BY DEF ProfitMax!Hertz!Sum, Sum

\* And FlattenSeq.
LEMMA ProfitMaxHertzFlatten == \A ss : ProfitMax!Hertz!FlattenSeq(ss) = FlattenSeq(ss)
BY DEF ProfitMax!Hertz!FlattenSeq, FlattenSeq

-----------------------------------------------------------------------------
ItemIn ==
  \A type \in ExtraOrFeeType, code \in STRING, amount \in Int,
     included, payLocal, mandatory \in BOOLEAN :
    Item(type, code, amount, included, payLocal, mandatory) \in ExtraOrFee

\* An item of a known type has the shape of the schema.
LEMMA ItemType == ItemIn
BY DEF ItemIn, Item, ExtraOrFee

\* Price gives an amount, or None for a vehicle without one.
LEMMA HertzPrice ==
  ASSUME NEW total \in [amount : Int, currency : STRING], NEW params,
         NEW rules \in Seq(Hertz!PaymentRule)
  PROVE  Hertz!Price(total, params, rules) \in OrNone(Int)
<1>1. rules # <<>> => Head(rules) \in Hertz!PaymentRule
  OBVIOUS
<1>2. rules # <<>> => Head(rules).amount \in Int
  BY <1>1 DEF Hertz!PaymentRule
<1>3. total.amount \in Int
  OBVIOUS
<1> QED BY <1>2, <1>3 DEF Hertz!Price, Hertz!IsPrepay, OrNone

\* An amount with its tax is an amount.
LEMMA TaxedInt == \A amount, percent \in Int : Hertz!Taxed(amount, percent) \in Int
BY DEF Hertz!Taxed

\* The taxes of the rental fee are taxes of the charges, by that name.
LEMMA RentalTaxesOf ==
  ASSUME NEW charges \in Seq(Hertz!VehicleCharge)
  PROVE  /\ Hertz!RentalTaxes(charges) \in Seq(Hertz!TaxAmount)
         /\ \A n \in DOMAIN Hertz!RentalTaxes(charges) :
              \E j \in DOMAIN charges : \E k \in DOMAIN charges[j].taxes :
                /\ charges[j].purpose = Hertz!RentalFee
                /\ charges[j].taxes[k].description = "Tax"
                /\ Hertz!RentalTaxes(charges)[n] = charges[j].taxes[k]
<1> DEFINE named(i) == {j \in DOMAIN charges[i].taxes : charges[i].taxes[j].description = "Tax"}
           ss == [i \in DOMAIN charges |->
                    IF charges[i].purpose = Hertz!RentalFee
                    THEN Only(charges[i].taxes, named(i)) ELSE <<>>]
           taxes == FlattenSeq(ss)
<1>1. Hertz!RentalTaxes(charges) = taxes
  BY HertzOnly, HertzFlatten DEF Hertz!RentalTaxes
<1> HIDE DEF taxes
<1>2. \A i \in DOMAIN charges : charges[i].taxes \in Seq(Hertz!TaxAmount)
  <2> HIDE DEF named, ss
  <2>1. \A charge \in Hertz!VehicleCharge : charge.taxes \in Seq(Hertz!TaxAmount)
    BY DEF Hertz!VehicleCharge
  <2>2. \A i \in DOMAIN charges : charges[i] \in Hertz!VehicleCharge
    OBVIOUS
  <2> QED BY <2>1, <2>2
<1>3. ASSUME NEW i \in DOMAIN charges
      PROVE  /\ ss[i] \in Seq(Hertz!TaxAmount)
             /\ \A j \in DOMAIN ss[i] : \E k \in DOMAIN charges[i].taxes :
                  /\ charges[i].purpose = Hertz!RentalFee
                  /\ charges[i].taxes[k].description = "Tax"
                  /\ ss[i][j] = charges[i].taxes[k]
  <2>1. CASE charges[i].purpose = Hertz!RentalFee
    <3> DEFINE s == charges[i].taxes
               I == named(i)
    <3>1. s \in Seq(Hertz!TaxAmount)
      BY <1>2
    <3>2. ss[i] = Only(s, I)
      BY <2>1
    <3>3. \A k \in DOMAIN s \cap I : s[k].description = "Tax"
      OBVIOUS
    <3> HIDE DEF s, I, ss
    <3>4. /\ Only(s, I) \in Seq(Hertz!TaxAmount)
          /\ \A j \in DOMAIN Only(s, I) : \E k \in DOMAIN s \cap I : Only(s, I)[j] = s[k]
      BY <3>1, OnlyElements
    <3> QED BY <3>2, <3>3, <3>4, <2>1 DEF s
  <2>2. CASE charges[i].purpose # Hertz!RentalFee
    <3>1. ss[i] = <<>>
      BY <2>2
    <3> HIDE DEF ss
    <3> QED BY <3>1
  <2> QED BY <2>1, <2>2
<1>4. ss \in Seq(Seq(Hertz!TaxAmount)) /\ DOMAIN ss = DOMAIN charges
  <2>1. \A i \in 1 .. Len(charges) : ss[i] \in Seq(Hertz!TaxAmount)
    <3> HIDE DEF ss
    <3>1. DOMAIN charges = 1 .. Len(charges)
      OBVIOUS
    <3> QED BY <1>3, <3>1
  <2>2. ss = [i \in 1 .. Len(charges) |-> ss[i]]
    OBVIOUS
  <2> HIDE DEF ss
  <2>3. [i \in 1 .. Len(charges) |-> ss[i]] \in Seq(Seq(Hertz!TaxAmount))
    BY <2>1
  <2> QED BY <2>2, <2>3
<1> HIDE DEF ss
<1>5. taxes \in Seq(Hertz!TaxAmount) /\ ToSet(taxes) = UNION {ToSet(ss[i]) : i \in DOMAIN ss}
  BY <1>4, FlattenElements DEF taxes
<1>6. ASSUME NEW n \in DOMAIN taxes
      PROVE  \E j \in DOMAIN charges : \E k \in DOMAIN charges[j].taxes :
               /\ charges[j].purpose = Hertz!RentalFee
               /\ charges[j].taxes[k].description = "Tax"
               /\ taxes[n] = charges[j].taxes[k]
  <2>1. taxes[n] \in ToSet(taxes)
    BY DEF ToSet
  <2>2. PICK i \in DOMAIN charges : taxes[n] \in ToSet(ss[i])
    BY <2>1, <1>4, <1>5
  <2>3. PICK j \in DOMAIN ss[i] : taxes[n] = ss[i][j]
    BY <2>2 DEF ToSet
  <2> QED BY <2>3, <1>3
<1> QED BY <1>1, <1>5, <1>6

\* What TaxCharge finds: a percentage, items, a flag.
LEMMA TaxChargeType ==
  ASSUME NEW charges \in Seq(Hertz!VehicleCharge), NEW params, NEW rules,
         NEW c
  PROVE  Hertz!TaxCharge(charges, params, c, rules)
           \in [percent : Int, items : Seq(ExtraOrFee), inPrice : BOOLEAN]
<1> DEFINE taxes == Hertz!RentalTaxes(charges)
           inPrice == Hertz!TaxInPrice(params, c, rules)
           asItem == Hertz!TaxAsItem(params, c, rules)
           tax == IF inPrice \/ asItem THEN Head(taxes) ELSE Last(taxes)
           payLocal == Hertz!IsFullPrepay(params) => c.fpPayFeesLocally
           item == Hertz!Item("VCP", Hertz!Tax, tax.total, FALSE, payLocal, TRUE)
<1>1. taxes \in Seq(Hertz!TaxAmount)
  BY RentalTaxesOf
<1>2. inPrice \in BOOLEAN /\ payLocal \in BOOLEAN
  BY DEF Hertz!TaxInPrice, Hertz!FullWithoutPaymentRules, Hertz!IsFullPrepay
<1> HIDE DEF taxes, inPrice, asItem, payLocal
<1>3. taxes # <<>> => Head(taxes) \in Hertz!TaxAmount /\ Last(taxes) \in Hertz!TaxAmount
  BY <1>1 DEF Last
<1>4. taxes # <<>> => tax.percentage \in Int /\ tax.total \in Int
  BY <1>3 DEF Hertz!TaxAmount
<1> HIDE DEF tax
<1>5. taxes # <<>> => item \in ExtraOrFee
  <2> HIDE DEF item
  <2>1. item = Item("VCP", "7", tax.total, FALSE, payLocal, TRUE)
    BY DEF item, Hertz!Item, Item, Hertz!Tax
  <2>2. \A amount \in Int, local \in BOOLEAN :
          Item("VCP", "7", amount, FALSE, local, TRUE) \in ExtraOrFee
    <3>1. "VCP" \in ExtraOrFeeType /\ "7" \in STRING
      BY TextIsText DEF ExtraOrFeeType, Hertz!Tax
    <3>2. TRUE \in BOOLEAN /\ FALSE \in BOOLEAN
      OBVIOUS
    <3> QED BY <3>1, <3>2, ItemType, Zenon DEF ItemIn
  <2> QED BY <2>1, <2>2, <1>2, <1>4, Zenon
<1> HIDE DEF item
<1>6. Hertz!TaxCharge(charges, params, c, rules) =
        IF taxes = <<>>
        THEN [percent |-> 0, items |-> <<>>, inPrice |-> FALSE]
        ELSE [percent |-> tax.percentage,
              items |-> IF asItem THEN <<item>> ELSE <<>>,
              inPrice |-> inPrice]
  BY DEF Hertz!TaxCharge, Hertz!Last, Last, taxes, inPrice, asItem, tax, payLocal, item
<1>7. CASE taxes = <<>>
  BY <1>6, <1>7
<1>8. CASE taxes # <<>>
  <2>1. (IF asItem THEN <<item>> ELSE <<>>) \in Seq(ExtraOrFee)
    BY <1>5, <1>8
  <2> QED BY <2>1, <1>2, <1>4, <1>6, <1>8
<1> QED BY <1>7, <1>8

\* An item that Hertz's operators make has the shape of the schema.
LEMMA HertzItemType ==
  \A type \in ExtraOrFeeType, code \in STRING, amount \in Int,
     included, payLocal, mandatory \in BOOLEAN :
    Hertz!Item(type, code, amount, included, payLocal, mandatory) \in ExtraOrFee
BY DEF Hertz!Item, ExtraOrFee

\* The charges of a vehicle become items.
LEMMA ChargesType ==
  ASSUME NEW charges \in Seq(Hertz!VehicleCharge)
  PROVE  Hertz!Charges(charges) \in Seq(ExtraOrFee)
<1> DEFINE listed == Only(charges, {i \in DOMAIN charges : charges[i].purpose \in Hertz!Whitelist})
           included(c) == c.includedInRate /\ c.purpose # Hertz!AdditionalDistance
           item(c) == Hertz!Item("VCP", c.purpose, c.amount, included(c), ~included(c),
                                 c.purpose # Hertz!AdditionalDistance)
<1>1. listed \in Seq(Hertz!VehicleCharge)
  BY OnlyElements
<1>2. Hertz!Charges(charges) = [i \in DOMAIN listed |-> item(listed[i])]
  BY HertzOnly DEF Hertz!Charges
<1> HIDE DEF listed
<1>3. ASSUME NEW c \in Hertz!VehicleCharge
      PROVE  item(c) \in ExtraOrFee
  <2>1. c.purpose \in STRING /\ c.amount \in Int
    BY DEF Hertz!VehicleCharge
  <2>3. /\ included(c) \in BOOLEAN /\ (~included(c)) \in BOOLEAN
        /\ (c.purpose # Hertz!AdditionalDistance) \in BOOLEAN
    OBVIOUS
  <2>2. "VCP" \in ExtraOrFeeType
    BY DEF ExtraOrFeeType
  <2> HIDE DEF included
  <2> QED BY <2>1, <2>2, <2>3, HertzItemType, Zenon
<1> HIDE DEF item
<1> QED BY <1>1, <1>2, <1>3

\* And so do its fees.
LEMMA FeesType ==
  ASSUME NEW fees \in Seq(Hertz!Fee), NEW params, NEW c, NEW rules
  PROVE  Hertz!Fees(fees, params, c, rules) \in Seq(ExtraOrFee)
<1> DEFINE how(fee) == Hertz!FeeIncludedType(fee, params, c, rules)
           local(fee) == how(fee) \in {"feesNotIncludedPayLocally", "feesUnknown"}
           included(fee) == how(fee) = "feesIncluded"
           item(fee) == Hertz!Item("VCP", fee.purpose, fee.amount, included(fee), local(fee), TRUE)
<1>1. Hertz!Fees(fees, params, c, rules) = [i \in DOMAIN fees |-> item(fees[i])]
  BY DEF Hertz!Fees
<1>2. ASSUME NEW fee \in Hertz!Fee
      PROVE  item(fee) \in ExtraOrFee
  <2>1. fee.purpose \in STRING /\ fee.amount \in Int
    BY DEF Hertz!Fee
  <2>2. "VCP" \in ExtraOrFeeType
    BY DEF ExtraOrFeeType
  <2>3. included(fee) \in BOOLEAN /\ local(fee) \in BOOLEAN /\ TRUE \in BOOLEAN
    OBVIOUS
  <2> HIDE DEF how, included, local
  <2> QED BY <2>1, <2>2, <2>3, HertzItemType, Zenon
<1> HIDE DEF item
<1> QED BY <1>1, <1>2

\* And the equipment of the branch.
LEMMA ExtrasType ==
  ASSUME NEW equips \in Seq(Hertz!PricedEquip), NEW percent \in Int
  PROVE  [i \in DOMAIN equips |-> Hertz!ParseExtra(equips[i], percent)] \in Seq(ExtraOrFee)
<1>1. ASSUME NEW equip \in Hertz!PricedEquip
      PROVE  Hertz!ParseExtra(equip, percent) \in ExtraOrFee
  <2>1. /\ equip.type \in STRING /\ equip.amount \in Int
        /\ equip.includedInRate \in BOOLEAN
    BY DEF Hertz!PricedEquip
  <2>2. "EQP" \in ExtraOrFeeType /\ FALSE \in BOOLEAN
    BY DEF ExtraOrFeeType
  <2>3. Hertz!Taxed(equip.amount, percent) \in Int
    BY <2>1, TaxedInt
  <2>4. (~equip.includedInRate) \in BOOLEAN
    OBVIOUS
  <2> QED BY <2>1, <2>2, <2>3, <2>4, HertzItemType, Zenon DEF Hertz!ParseExtra
<1> QED BY <1>1

\* The first element of a sequence is an element.
LEMMA HeadIn ==
  ASSUME NEW E, NEW s \in Seq(E), s # <<>>
  PROVE  Head(s) \in E /\ 1 \in DOMAIN s /\ Head(s) = s[1]
OBVIOUS

\* A coverage has a price or None, by its charge or by its calculations.
LEMMA CoveragePriceType ==
  ASSUME NEW c \in Hertz!PricedCoverage, NEW params, params.rentalDays \in Int
  PROVE  Hertz!CoveragePrice(c, params) \in OrNone(Int)
<1> DEFINE E == [unit : STRING, charge : Int]
           applicable == Only(c.calculation, {i \in DOMAIN c.calculation :
                           c.calculation[i].unit \in {"Day", "RentalPeriod"}})
<1>1. c.calculation \in Seq(E) /\ c.amount \in OrNone(Int)
  BY DEF Hertz!PricedCoverage, Hertz!OrNone, OrNone
<1>2. applicable \in Seq(E)
  BY <1>1, OnlyElements
<1>3. Hertz!CoveragePrice(c, params) =
        IF c.amount # None THEN c.amount
        ELSE IF applicable = <<>> THEN None
        ELSE IF Head(applicable).unit = "Day"
        THEN Head(applicable).charge * params.rentalDays
        ELSE Head(applicable).charge
  BY HertzOnly DEF Hertz!CoveragePrice
<1> HIDE DEF applicable
<1>4. applicable # <<>> => Head(applicable) \in E
  <2> HIDE DEF E
  <2> QED BY <1>2, HeadIn
<1>5. applicable # <<>> =>
        /\ Head(applicable).charge \in Int
        /\ Head(applicable).charge * params.rentalDays \in Int
  BY <1>4
<1> QED BY <1>1, <1>3, <1>5 DEF OrNone

\* What VehicleCoverages makes of the coverages that have a price, one by one.
CoverageItem == [item : ExtraOrFee, added : BOOLEAN]

CoverageItems(coverages, percent, rules, params, c) ==
  LET priced == Only(coverages, {i \in DOMAIN coverages :
                                   Hertz!CoveragePrice(coverages[i], params) # None})
  IN  [i \in DOMAIN priced |-> Hertz!VehicleCoverage(priced[i], percent, rules, params, c)]

\* A coverage with a price becomes an item.
LEMMA CoverageItemType ==
  ASSUME NEW cov \in Hertz!PricedCoverage, NEW percent \in Int, NEW rules,
         NEW params, NEW c,
         Hertz!CoveragePrice(cov, params) \in Int
  PROVE  Hertz!VehicleCoverage(cov, percent, rules, params, c) \in CoverageItem
<1> DEFINE how == Hertz!WhichCoverageIncludedType(cov, rules, params, c)
           price == Hertz!CoveragePrice(cov, params)
           mandatory == cov.includedInRate \/ cov.required \/ cov.coverageRequired
           added == mandatory /\ c.includeCoveragesInRate
           amount == IF Hertz!IsTaxed(cov, params, c) THEN Hertz!Taxed(price, percent) ELSE price
           included == how = "included" \/ added
           local == how = "notIncluded"
           item == Hertz!Item("VCT", cov.type, amount, included, local, mandatory)
<1>1. Hertz!VehicleCoverage(cov, percent, rules, params, c) = [item |-> item, added |-> added]
  BY DEF Hertz!VehicleCoverage
<1>2. cov.type \in STRING
  BY DEF Hertz!PricedCoverage
<1>3. amount \in Int
  <2> HIDE DEF price
  <2>1. price \in Int
    BY DEF price
  <2> QED BY <2>1, TaxedInt
<1>4. "VCT" \in ExtraOrFeeType
  BY DEF ExtraOrFeeType
<1>5. mandatory \in BOOLEAN /\ added \in BOOLEAN /\ included \in BOOLEAN /\ local \in BOOLEAN
  OBVIOUS
<1> HIDE DEF how, price, mandatory, added, amount, included, local
<1>6. item \in ExtraOrFee
  BY <1>2, <1>3, <1>4, <1>5, HertzItemType, Zenon
<1> HIDE DEF item
<1> QED BY <1>1, <1>5, <1>6 DEF CoverageItem

\* All coverages with a price become items, some added to the price.
LEMMA CoveragesType ==
  ASSUME NEW coverages \in Seq(Hertz!PricedCoverage), NEW percent \in Int, NEW rules,
         NEW params, params.rentalDays \in Int, NEW c
  PROVE  LET done == CoverageItems(coverages, percent, rules, params, c)
             all == Hertz!VehicleCoverages(coverages, percent, rules, params, c)
         IN  /\ done \in Seq(CoverageItem)
             /\ all = [items |-> [i \in DOMAIN done |-> done[i].item],
                       added |-> Sum([i \in DOMAIN done |->
                                        IF done[i].added THEN done[i].item.amount ELSE 0])]
             /\ all.items \in Seq(ExtraOrFee) /\ all.added \in Int
<1> DEFINE done == CoverageItems(coverages, percent, rules, params, c)
           all == Hertz!VehicleCoverages(coverages, percent, rules, params, c)
           items == [i \in DOMAIN done |-> done[i].item]
           weights == [i \in DOMAIN done |-> IF done[i].added THEN done[i].item.amount ELSE 0]
           F == {cov \in Hertz!PricedCoverage : Hertz!CoveragePrice(cov, params) \in Int}
           I == {i \in DOMAIN coverages : Hertz!CoveragePrice(coverages[i], params) # None}
           priced == Only(coverages, I)
<1>1. all = [items |-> items, added |-> Sum(weights)]
  BY HertzOnly, HertzSum DEF Hertz!VehicleCoverages, CoverageItems
<1>2. \A i \in DOMAIN coverages \cap I : coverages[i] \in F
  <2> SUFFICES ASSUME NEW i \in DOMAIN coverages, i \in I PROVE coverages[i] \in F
    BY Zenon
  <2>1. coverages[i] \in Hertz!PricedCoverage
    OBVIOUS
  <2>2. Hertz!CoveragePrice(coverages[i], params) \in OrNone(Int)
    BY <2>1, CoveragePriceType
  <2> QED BY <2>1, <2>2 DEF OrNone
<1>3. done = [i \in DOMAIN priced |-> Hertz!VehicleCoverage(priced[i], percent, rules, params, c)]
  BY DEF CoverageItems
<1> HIDE DEF I, done
<1>4. priced \in Seq(F)
  <2> HIDE DEF F, priced
  <2> QED BY <1>2, OnlyIn DEF priced
<1> HIDE DEF priced
<1>5. done \in Seq(CoverageItem)
  <2>1. \A cov \in F : Hertz!VehicleCoverage(cov, percent, rules, params, c) \in CoverageItem
    BY CoverageItemType
  <2> HIDE DEF F
  <2>2. \A i \in 1 .. Len(priced) :
          Hertz!VehicleCoverage(priced[i], percent, rules, params, c) \in CoverageItem
    BY <1>4, <2>1
  <2> QED BY <1>3, <1>4, <2>2
<1>6. \A e \in CoverageItem : e.item \in ExtraOrFee /\ e.item.amount \in Int
  BY DEF CoverageItem, ExtraOrFee
<1>7. items \in Seq(ExtraOrFee)
  BY <1>5, <1>6
<1>8. weights \in Seq(Int)
  BY <1>5, <1>6
<1> HIDE DEF items, weights, all
<1>9. Sum(weights) \in Int
  BY <1>8, SumInt
<1> QED BY <1>1, <1>5, <1>7, <1>9 DEF items, weights, all, done

\* The mileage of a vehicle has the shape of the schema.
LEMMA MileageType ==
  ASSUME NEW distance \in Hertz!RateDistance
  PROVE  Hertz!MileageOf(distance) \in Mileage
BY DEF Hertz!MileageOf, Hertz!RateDistance, Hertz!OneOf, Mileage, OrNone

\* And so have its features.
LEMMA FeaturesType ==
  ASSUME NEW vehicle
  PROVE  Hertz!FeaturesOf(vehicle) \in VehicleFeatures
BY DEF Hertz!FeaturesOf, Hertz!Features, Hertz!OneOf, VehicleFeatures, OrNone

\* A vehicle made of parts of their types has its type.
LEMMA VehicleIn ==
  ASSUME NEW references, NEW class \in STRING, NEW price \in Int, NEW items \in Seq(ExtraOrFee),
         NEW reference \in references, NEW mileage \in Mileage, NEW features \in VehicleFeatures
  PROVE  VehicleOf(class, price, items, reference, mileage, features) \in VehicleType(references)
<1> HIDE DEF ExtraOrFee, Mileage, VehicleFeatures
<1> QED BY DEF VehicleOf, VehicleType

\* The price and the items of a vehicle at Hertz, as parseVehicle and parseQuote put
\* them together.
HertzTax(va, params, c) == Hertz!TaxCharge(va.charges, params, c, va.paymentRules)

HertzCoverages(va, params, c) ==
  Hertz!VehicleCoverages(va.coverages, HertzTax(va, params, c).percent, va.paymentRules, params, c)

HertzBase(va, params) == Hertz!Price(va.total, params, va.paymentRules)

HertzShown(va, params, c) ==
  LET tax == HertzTax(va, params, c)
      base == HertzBase(va, params)
  IN  (IF tax.inPrice THEN Hertz!Taxed(base, tax.percent) ELSE base)
        + HertzCoverages(va, params, c).added

HertzItems(va, equips, params, c) ==
  LET tax == HertzTax(va, params, c)
      extras == [i \in DOMAIN equips |-> Hertz!ParseExtra(equips[i], tax.percent)]
  IN  tax.items \o extras \o Hertz!Charges(va.charges)
        \o Hertz!Fees(va.fees, params, c, va.paymentRules) \o HertzCoverages(va, params, c).items

\* What parseVehicle and parseQuote make of a vehicle is the same but for the
\* reference.
LEMMA HertzVehicle ==
  ASSUME NEW va, NEW equips, NEW params, NEW c
  PROVE  /\ Hertz!ParseVehicle(va, equips, params, c) =
              IF HertzBase(va, params) = None THEN None
              ELSE VehicleOf(va.class, HertzShown(va, params, c), HertzItems(va, equips, params, c),
                             [fromRates |-> va.reference, fromQuote |-> None,
                              estimatedTotalAmount |-> va.estimatedTotal],
                             Hertz!MileageOf(va.distance), Hertz!FeaturesOf(va.vehicle))
         /\ Hertz!ParseQuote(va, equips, params, c) =
              IF HertzBase(va, params) = None THEN None
              ELSE VehicleOf(va.class, HertzShown(va, params, c), HertzItems(va, equips, params, c),
                             [fromRates |-> va.echoToken, fromQuote |-> va.echoToken,
                              estimatedTotalAmount |-> va.estimatedTotal],
                             Hertz!MileageOf(va.distance), Hertz!FeaturesOf(va.vehicle))
BY DEF Hertz!ParseVehicle, Hertz!ParseQuote, HertzBase, HertzShown, HertzItems, HertzTax,
       HertzCoverages, Hertz!VehicleOf, VehicleOf

\* Fields of an element of VehAvail.
LEMMA VehAvailFields ==
  ASSUME NEW references, NEW tokens, NEW va \in Hertz!VehAvail(references, tokens)
  PROVE  /\ va.class \in STRING /\ va.total \in [amount : Int, currency : STRING]
         /\ va.paymentRules \in Seq(Hertz!PaymentRule)
         /\ va.charges \in Seq(Hertz!VehicleCharge)
         /\ va.fees \in Seq(Hertz!Fee) /\ va.coverages \in Seq(Hertz!PricedCoverage)
         /\ va.distance \in Hertz!RateDistance /\ va.equips \in Seq(Hertz!PricedEquip)
         /\ va.estimatedTotal \in Int
         /\ va.reference \in references /\ va.echoToken \in tokens
BY DEF Hertz!VehAvail

\* The price shown is an amount, and what is listed with it are items.
LEMMA HertzPriceType ==
  ASSUME NEW references, NEW tokens, NEW va \in Hertz!VehAvail(references, tokens),
         NEW equips \in Seq(Hertz!PricedEquip), NEW params, params.rentalDays \in Int,
         NEW c, HertzBase(va, params) # None
  PROVE  /\ HertzShown(va, params, c) \in Int
         /\ HertzItems(va, equips, params, c) \in Seq(ExtraOrFee)
<1> DEFINE tax == HertzTax(va, params, c)
           base == HertzBase(va, params)
           extras == [i \in DOMAIN equips |-> Hertz!ParseExtra(equips[i], tax.percent)]
           charges == Hertz!Charges(va.charges)
           fees == Hertz!Fees(va.fees, params, c, va.paymentRules)
           coverages == HertzCoverages(va, params, c)
<1>1. tax \in [percent : Int, items : Seq(ExtraOrFee), inPrice : BOOLEAN]
  BY VehAvailFields, TaxChargeType DEF HertzTax
<1>2. base \in Int
  BY VehAvailFields, HertzPrice DEF HertzBase, OrNone
<1> HIDE DEF tax, base
<1>3. tax.percent \in Int /\ tax.items \in Seq(ExtraOrFee)
  BY <1>1
<1>4. extras \in Seq(ExtraOrFee)
  BY <1>3, ExtrasType
<1>5. charges \in Seq(ExtraOrFee) /\ fees \in Seq(ExtraOrFee)
  BY VehAvailFields, ChargesType, FeesType
<1>6. coverages.items \in Seq(ExtraOrFee) /\ coverages.added \in Int
  BY <1>3, VehAvailFields, CoveragesType DEF HertzCoverages, tax
<1> HIDE DEF extras, charges, fees, coverages
<1>7. Hertz!Taxed(base, tax.percent) \in Int
  BY <1>2, <1>3, TaxedInt
<1>8. (IF tax.inPrice THEN Hertz!Taxed(base, tax.percent) ELSE base) + coverages.added \in Int
  BY <1>2, <1>6, <1>7
<1>9. tax.items \o extras \o charges \o fees \o coverages.items \in Seq(ExtraOrFee)
  BY <1>3, <1>4, <1>5, <1>6
<1> QED BY <1>8, <1>9 DEF HertzShown, HertzItems, tax, base, extras, charges, fees, coverages

\* A vehicle of Hertz with a price has the shape of the schema.
LEMMA HertzVehicleType ==
  ASSUME NEW references, NEW tokens, NEW va \in Hertz!VehAvail(references, tokens),
         NEW equips \in Seq(Hertz!PricedEquip), NEW params, params.rentalDays \in Int,
         NEW c, HertzBase(va, params) # None,
         NEW reference, NEW all, reference \in all
  PROVE  VehicleOf(va.class, HertzShown(va, params, c), HertzItems(va, equips, params, c),
                   reference, Hertz!MileageOf(va.distance), Hertz!FeaturesOf(va.vehicle))
           \in VehicleType(all)
<1>1. va.class \in STRING /\ va.distance \in Hertz!RateDistance
  BY VehAvailFields
<1>2. /\ HertzShown(va, params, c) \in Int
      /\ HertzItems(va, equips, params, c) \in Seq(ExtraOrFee)
  BY HertzPriceType
<1>3. Hertz!MileageOf(va.distance) \in Mileage /\ Hertz!FeaturesOf(va.vehicle) \in VehicleFeatures
  BY <1>1, MileageType, FeaturesType
<1> QED BY <1>1, <1>2, <1>3, VehicleIn

\* The reference that parseVehicle makes, and the one that parseQuote makes.
HertzReferenceIn(va, references, tokens) ==
  /\ [fromRates |-> va.reference, fromQuote |-> None,
      estimatedTotalAmount |-> va.estimatedTotal] \in Hertz!RateReference(references, tokens)
  /\ va.echoToken # None =>
       [fromRates |-> va.echoToken, fromQuote |-> va.echoToken,
        estimatedTotalAmount |-> va.estimatedTotal] \in Hertz!RateReference(references, tokens)

\* The references of an offer and of a quote have their type.
LEMMA HertzReferenceType ==
  ASSUME NEW offerIds, NEW quoteIds, NEW va \in Hertz!VehAvail(offerIds, OrNone(quoteIds))
  PROVE  HertzReferenceIn(va, offerIds \cup quoteIds, OrNone(quoteIds))
<1>1. /\ va.reference \in offerIds /\ va.echoToken \in OrNone(quoteIds)
      /\ va.estimatedTotal \in Int
  BY VehAvailFields
<1> QED BY <1>1 DEF HertzReferenceIn, Hertz!RateReference, OrNone

\* What the loop over the answer leaves, if what is made of a vehicle is a vehicle or
\* nothing.
ParsedOf(available, Parse) == [i \in DOMAIN available |-> Parse[available[i]]]

Kept(parsed) == Only(parsed, {i \in DOMAIN parsed : parsed[i] # None})

LoopGives(E, T, offered, I, Parse) ==
  LET available == Only(offered, I)
      parsed == ParsedOf(available, Parse)
      found == Kept(parsed)
  IN  /\ available \in Seq(E) /\ parsed \in Seq(T \cup {None}) /\ found \in Seq(T)
      /\ \A i \in DOMAIN found :
           found[i] # None /\ \E j \in DOMAIN offered : found[i] = Parse[offered[j]]

\* What the loop over an answer keeps is a parse of something in the answer.
LEMMA LoopElements ==
  ASSUME NEW E, NEW T, NEW offered \in Seq(E), NEW I, NEW Parse \in [E -> T \cup {None}]
  PROVE  LoopGives(E, T, offered, I, Parse)
<1> DEFINE available == Only(offered, I)
           parsed == [i \in DOMAIN available |-> Parse[available[i]]]
           J == {i \in DOMAIN parsed : parsed[i] # None}
           found == Only(parsed, J)
<1>1. /\ available \in Seq(E)
      /\ \A i \in DOMAIN available : \E j \in DOMAIN offered \cap I : available[i] = offered[j]
  BY OnlyElements
<1>2. \A i \in DOMAIN parsed : \E j \in DOMAIN offered : parsed[i] = Parse[offered[j]]
  BY <1>1
<1> HIDE DEF available
<1>3. parsed \in Seq(T \cup {None})
  BY <1>1
<1> HIDE DEF parsed
<1>4. \A i \in DOMAIN parsed \cap J : parsed[i] \in T /\ parsed[i] # None
  BY <1>3
<1> HIDE DEF J
<1>5. found \in Seq(T)
  BY <1>3, <1>4, OnlyIn
<1>6. \A i \in DOMAIN found : \E j \in DOMAIN parsed \cap J : found[i] = parsed[j]
  BY <1>3, OnlyElements
<1> HIDE DEF found
<1>7. \A i \in DOMAIN found :
        found[i] # None /\ \E j \in DOMAIN offered : found[i] = Parse[offered[j]]
  BY <1>2, <1>4, <1>6
<1> QED BY <1>1, <1>3, <1>5, <1>7 DEF found, J, parsed, available, Kept, ParsedOf, LoopGives

HertzVehicles(offerIds, quoteIds) ==
  VehicleType(Hertz!RateReference(offerIds \cup quoteIds, OrNone(quoteIds)))

\* What parseVehicle and parseQuote return, and which references it carries.
LEMMA HertzParsed ==
  ASSUME NEW offerIds, NEW quoteIds, NEW va \in Hertz!VehAvail(offerIds, OrNone(quoteIds)),
         NEW equips \in Seq(Hertz!PricedEquip), NEW params, params.rentalDays \in Int,
         NEW c
  PROVE  LET v == Hertz!ParseVehicle(va, equips, params, c)
             q == Hertz!ParseQuote(va, equips, params, c)
         IN  /\ v # None =>
                  /\ v \in HertzVehicles(offerIds, quoteIds)
                  /\ v.supplierRateReference.fromRates = va.reference
                  /\ v.supplierRateReference.fromQuote = None
             /\ q # None /\ va.echoToken # None =>
                  /\ q \in HertzVehicles(offerIds, quoteIds)
                  /\ q.supplierRateReference.fromRates = va.echoToken
                  /\ q.supplierRateReference.fromQuote = va.echoToken
<1> DEFINE made(reference) ==
             VehicleOf(va.class, HertzShown(va, params, c), HertzItems(va, equips, params, c),
                       reference, Hertz!MileageOf(va.distance), Hertz!FeaturesOf(va.vehicle))
           R == Hertz!RateReference(offerIds \cup quoteIds, OrNone(quoteIds))
           asRate == [fromRates |-> va.reference, fromQuote |-> None,
                      estimatedTotalAmount |-> va.estimatedTotal]
           asQuote == [fromRates |-> va.echoToken, fromQuote |-> va.echoToken,
                       estimatedTotalAmount |-> va.estimatedTotal]
<1>1. asRate \in R /\ (va.echoToken # None => asQuote \in R)
  BY HertzReferenceType DEF HertzReferenceIn
<1>2. /\ Hertz!ParseVehicle(va, equips, params, c) =
           IF HertzBase(va, params) = None THEN None ELSE made(asRate)
      /\ Hertz!ParseQuote(va, equips, params, c) =
           IF HertzBase(va, params) = None THEN None ELSE made(asQuote)
  BY HertzVehicle
<1>4. /\ asRate.fromRates = va.reference /\ asRate.fromQuote = None
      /\ asQuote.fromRates = va.echoToken /\ asQuote.fromQuote = va.echoToken
  OBVIOUS
<1> HIDE DEF R, asRate, asQuote
<1>3. HertzBase(va, params) # None => \A reference \in R : made(reference) \in VehicleType(R)
  BY HertzVehicleType
<1>5. made(asRate).supplierRateReference = asRate /\ made(asQuote).supplierRateReference = asQuote
  BY DEF VehicleOf
<1> HIDE DEF made
<1> QED BY <1>1, <1>2, <1>3, <1>4, <1>5 DEF HertzVehicles, R

\* What the loop over an answer of Hertz gives.
LEMMA HertzMapped ==
  ASSUME NEW offerIds, NEW quoteIds, NEW offered \in Seq(Hertz!VehAvail(offerIds, OrNone(quoteIds))),
         NEW equips \in Seq(Hertz!PricedEquip), NEW params, params.rentalDays \in Int,
         NEW c
  PROVE  LET found == Hertz!MapVehicles(offered, equips, params, c).vehicles
         IN  /\ found \in Seq(HertzVehicles(offerIds, quoteIds))
             /\ \A i \in DOMAIN found : found[i] # None /\ \E j \in DOMAIN offered :
                  found[i] = Hertz!ParseVehicle(offered[j], equips, params, c)
<1> DEFINE E == Hertz!VehAvail(offerIds, OrNone(quoteIds))
           T == HertzVehicles(offerIds, quoteIds)
           Parse == [va \in E |-> Hertz!ParseVehicle(va, equips, params, c)]
           I == {i \in DOMAIN offered : offered[i].status = "Available"}
           available == Only(offered, I)
           parsed == ParsedOf(available, Parse)
           parsedAs == [i \in DOMAIN available |->
                          Hertz!ParseVehicle(available[i], equips, params, c)]
           found == Kept(parsed)
<1>1. Parse \in [E -> T \cup {None}]
  BY HertzParsed
<1> HIDE DEF Parse
<1>2. /\ available \in Seq(E) /\ found \in Seq(T)
      /\ \A i \in DOMAIN found :
           found[i] # None /\ \E j \in DOMAIN offered : found[i] = Parse[offered[j]]
  <2>1. offered \in Seq(E)
    OBVIOUS
  <2> HIDE DEF E, T, I
  <2>2. LoopGives(E, T, offered, I, Parse)
    BY <1>1, <2>1, LoopElements
  <2> QED BY <2>2 DEF LoopGives
<1>3. Hertz!MapVehicles(offered, equips, params, c).vehicles = Kept(parsedAs)
  BY HertzOnly DEF Hertz!MapVehicles, Kept
<1> HIDE DEF available
<1>4. parsedAs = parsed
  BY <1>2 DEF Parse, ParsedOf
<1> HIDE DEF parsedAs, parsed
<1>5. \A j \in DOMAIN offered :
        Parse[offered[j]] = Hertz!ParseVehicle(offered[j], equips, params, c)
  BY DEF Parse
<1> QED BY <1>2, <1>3, <1>4, <1>5

-----------------------------------------------------------------------------
\* What ProfitMax takes from HertzOffers is what Hertz takes from it.
LEMMA ProfitMaxTypes ==
  /\ \A references : ProfitMax!VehAvail(references) = Hertz!VehAvail(references, {None})
  /\ \A references : ProfitMax!RateReference(references) =
       [fromRates : references, estimatedTotalAmount : Int]
BY DEF ProfitMax!VehAvail, ProfitMax!Hertz!VehAvail, Hertz!VehAvail, ProfitMax!RateReference,
       ProfitMax!Hertz!PaymentRule, Hertz!PaymentRule, ProfitMax!Hertz!VehicleCharge,
       Hertz!VehicleCharge, ProfitMax!Hertz!TaxAmount, Hertz!TaxAmount, ProfitMax!Hertz!Fee,
       Hertz!Fee, ProfitMax!Hertz!PricedCoverage, Hertz!PricedCoverage,
       ProfitMax!Hertz!RateDistance, Hertz!RateDistance, ProfitMax!Hertz!VehicleElements,
       Hertz!VehicleElements, ProfitMax!Hertz!PricedEquip, Hertz!PricedEquip,
       ProfitMax!Hertz!OrNone, Hertz!OrNone

\* The price is Hertz's, None or an amount.
LEMMA ProfitMaxTotal ==
  \A total, params, rules : ProfitMax!Price(total, params, rules) = Hertz!Price(total, params, rules)
BY DEF ProfitMax!Price, ProfitMax!Hertz!Price, Hertz!Price, ProfitMax!Hertz!IsPartialPayment,
       Hertz!IsPartialPayment, ProfitMax!Hertz!IsFullPrepay, Hertz!IsFullPrepay,
       ProfitMax!Hertz!FullWithoutPaymentRules, Hertz!FullWithoutPaymentRules,
       ProfitMax!Hertz!IsPrepay, Hertz!IsPrepay

\* The tax is found as Hertz finds it.
LEMMA ProfitMaxTax ==
  \A charges, params, c, rules :
    ProfitMax!TaxCharge(charges, params, c, rules) = Hertz!TaxCharge(charges, params, c, rules)
BY DEF ProfitMax!TaxCharge, ProfitMax!Hertz!TaxCharge, Hertz!TaxCharge,
       ProfitMax!Hertz!RentalTaxes, Hertz!RentalTaxes, ProfitMax!Hertz!FlattenSeq, Hertz!FlattenSeq,
       ProfitMax!Hertz!Only, Hertz!Only, ProfitMax!Hertz!RentalFee, Hertz!RentalFee,
       ProfitMax!Hertz!TaxInPrice, Hertz!TaxInPrice, ProfitMax!Hertz!TaxAsItem, Hertz!TaxAsItem,
       ProfitMax!Hertz!IsPartialPayment,
       Hertz!IsPartialPayment, ProfitMax!Hertz!IsFullPrepay, Hertz!IsFullPrepay,
       ProfitMax!Hertz!FullWithoutPaymentRules, Hertz!FullWithoutPaymentRules,
       ProfitMax!Hertz!Item, Hertz!Item, ProfitMax!Hertz!Tax, Hertz!Tax,
       ProfitMax!Hertz!Last, Hertz!Last

\* And the charges are Hertz's.
LEMMA ProfitMaxCharges ==
  \A charges : ProfitMax!Charges(charges) = Hertz!Charges(charges)
BY DEF ProfitMax!Charges, ProfitMax!Hertz!Charges, Hertz!Charges, ProfitMax!Hertz!Only, Hertz!Only,
       ProfitMax!Hertz!Whitelist, Hertz!Whitelist, ProfitMax!Hertz!AdditionalDistance,
       Hertz!AdditionalDistance, ProfitMax!Hertz!Item, Hertz!Item

\* Coverages become items, the mandatory ones added to the price.
LEMMA ProfitMaxCoverages ==
  \A coverages, percent, rules, params :
    ProfitMax!VehicleCoverages(coverages, percent, rules, params) =
      Hertz!VehicleCoverages(coverages, percent, rules, params,
                             ProfitMax!CoverageRules(coverages))
<1>1. \A c, params : ProfitMax!Hertz!CoveragePrice(c, params) = Hertz!CoveragePrice(c, params)
  BY DEF ProfitMax!Hertz!CoveragePrice, Hertz!CoveragePrice, ProfitMax!Hertz!Only, Hertz!Only
<1>2. \A c, percent, rules, params, options :
        ProfitMax!Hertz!VehicleCoverage(c, percent, rules, params, options) =
          Hertz!VehicleCoverage(c, percent, rules, params, options)
  BY <1>1 DEF ProfitMax!Hertz!VehicleCoverage, Hertz!VehicleCoverage,
       ProfitMax!Hertz!WhichCoverageIncludedType, Hertz!WhichCoverageIncludedType,
       ProfitMax!Hertz!IsTaxed, Hertz!IsTaxed, ProfitMax!Hertz!Taxed, Hertz!Taxed,
       ProfitMax!Hertz!IsFullPrepay, Hertz!IsFullPrepay,
       ProfitMax!Hertz!IsPrepay, Hertz!IsPrepay, ProfitMax!Hertz!Item, Hertz!Item
<1> SUFFICES ASSUME NEW coverages, NEW percent, NEW rules, NEW params
             PROVE  ProfitMax!VehicleCoverages(coverages, percent, rules, params) =
                      Hertz!VehicleCoverages(coverages, percent, rules, params,
                                             ProfitMax!CoverageRules(coverages))
  OBVIOUS
<1> DEFINE options == ProfitMax!CoverageRules(coverages)
           I == {i \in DOMAIN coverages :
                   ProfitMax!Hertz!CoveragePrice(coverages[i], params) # None}
           J == {i \in DOMAIN coverages : Hertz!CoveragePrice(coverages[i], params) # None}
           priced == Only(coverages, J)
           f == [i \in DOMAIN priced |->
                   ProfitMax!Hertz!VehicleCoverage(priced[i], percent, rules, params, options)]
           g == [i \in DOMAIN priced |->
                   Hertz!VehicleCoverage(priced[i], percent, rules, params, options)]
           total(done) == [items |-> [i \in DOMAIN done |-> done[i].item],
                           added |-> Sum([i \in DOMAIN done |->
                                            IF done[i].added THEN done[i].item.amount ELSE 0])]
<1>3. I = J
  BY <1>1
<1>4. f = g
  <2> HIDE DEF priced, options
  <2> QED BY <1>2
<1> HIDE DEF I, options
<1>5. ProfitMax!VehicleCoverages(coverages, percent, rules, params) = total(f)
  BY <1>3, ProfitMaxHertzOnly, ProfitMaxHertzSum
  DEF ProfitMax!VehicleCoverages, ProfitMax!Hertz!VehicleCoverages, I, options
<1>6. Hertz!VehicleCoverages(coverages, percent, rules, params, options) = total(g)
  BY HertzOnly, HertzSum DEF Hertz!VehicleCoverages
<1> HIDE DEF f, g
<1> QED BY <1>4, <1>5, <1>6 DEF options

\* And so are the extras, the mileage and the features.
LEMMA ProfitMaxRest ==
  /\ \A distance : ProfitMax!MileageOf(distance) = Hertz!MileageOf(distance)
  /\ \A vehicle : ProfitMax!FeaturesOf(vehicle) = Hertz!FeaturesOf(vehicle)
  /\ \A equip, percent : ProfitMax!ParseExtra(equip, percent) = Hertz!ParseExtra(equip, percent)
  /\ \A amount, percent : ProfitMax!Hertz!Taxed(amount, percent) = Hertz!Taxed(amount, percent)
<1>1. \A distance : ProfitMax!MileageOf(distance) = Hertz!MileageOf(distance)
  BY DEF ProfitMax!MileageOf, ProfitMax!Hertz!MileageOf, Hertz!MileageOf,
         ProfitMax!Hertz!OneOf, Hertz!OneOf
<1>2. \A vehicle : ProfitMax!FeaturesOf(vehicle) = Hertz!FeaturesOf(vehicle)
  BY DEF ProfitMax!FeaturesOf, ProfitMax!Hertz!FeaturesOf, Hertz!FeaturesOf,
         ProfitMax!Hertz!OneOf, Hertz!OneOf, ProfitMax!Hertz!Features, Hertz!Features
<1>3. \A equip, percent : ProfitMax!ParseExtra(equip, percent) = Hertz!ParseExtra(equip, percent)
  BY DEF ProfitMax!ParseExtra, ProfitMax!Hertz!ParseExtra, Hertz!ParseExtra,
         ProfitMax!Hertz!Item, Hertz!Item, ProfitMax!Hertz!Taxed, Hertz!Taxed
<1>4. \A amount, percent : ProfitMax!Hertz!Taxed(amount, percent) = Hertz!Taxed(amount, percent)
  BY DEF ProfitMax!Hertz!Taxed, Hertz!Taxed
<1> QED BY <1>1, <1>2, <1>3, <1>4

\* Fees, the one part that ProfitMax has of its own.
LEMMA ProfitMaxFees ==
  ASSUME NEW fees \in Seq(Hertz!Fee), NEW params, NEW rules
  PROVE  ProfitMax!Fees(fees, params, rules) \in Seq(ExtraOrFee)
<1> DEFINE how(fee) == ProfitMax!FeeIncludedType(fee, params, rules)
           local(fee) == how(fee) \in {"feesNotIncludedPayLocally", "feesUnknown"}
           included(fee) == how(fee) = "feesIncluded"
           item(fee) == ProfitMax!Item("VCP", fee.purpose, fee.amount, included(fee), local(fee), TRUE)
<1>1. ProfitMax!Fees(fees, params, rules) = [i \in DOMAIN fees |-> item(fees[i])]
  BY DEF ProfitMax!Fees
<1>2. \A type \in ExtraOrFeeType, code \in STRING, amount \in Int,
         inRate, payLocal, mandatory \in BOOLEAN :
        ProfitMax!Item(type, code, amount, inRate, payLocal, mandatory) \in ExtraOrFee
  BY DEF ProfitMax!Item, ExtraOrFee
<1>3. ASSUME NEW fee \in Hertz!Fee
      PROVE  item(fee) \in ExtraOrFee
  <2>1. fee.purpose \in STRING /\ fee.amount \in Int
    BY DEF Hertz!Fee
  <2>2. "VCP" \in ExtraOrFeeType
    BY DEF ExtraOrFeeType
  <2>3. included(fee) \in BOOLEAN /\ local(fee) \in BOOLEAN /\ TRUE \in BOOLEAN
    OBVIOUS
  <2> HIDE DEF how, included, local
  <2> QED BY <2>1, <2>2, <2>3, <1>2, Zenon
<1> HIDE DEF item
<1> QED BY <1>1, <1>3

ProfitMaxVehicles(offerIds) == VehicleType(ProfitMax!RateReference(offerIds))

\* What parseVehicle of the copy returns, with the offer's reference.
LEMMA ProfitMaxParsed ==
  ASSUME NEW offerIds, NEW va \in ProfitMax!VehAvail(offerIds), NEW params,
         params.rentalDays \in Int, NEW c
  PROVE  LET v == ProfitMax!ParseVehicle(va, params, c)
         IN  v # None =>
               /\ v \in ProfitMaxVehicles(offerIds)
               /\ v.supplierRateReference.fromRates = va.reference
<1> DEFINE rules == va.paymentRules
           base == ProfitMax!Price(va.total, params, rules)
           tax == ProfitMax!TaxCharge(va.charges, params, c, rules)
           shown == IF tax.inPrice THEN ProfitMax!Hertz!Taxed(base, tax.percent) ELSE base
           coverages == ProfitMax!VehicleCoverages(va.coverages, tax.percent, rules, params)
           extras == [i \in DOMAIN va.equips |-> ProfitMax!ParseExtra(va.equips[i], tax.percent)]
           charges == ProfitMax!Charges(va.charges)
           fees == ProfitMax!Fees(va.fees, params, rules)
           reference == [fromRates |-> va.reference, estimatedTotalAmount |-> va.estimatedTotal]
           mileage == ProfitMax!MileageOf(va.distance)
           features == ProfitMax!FeaturesOf(va.vehicle)
           items == tax.items \o extras \o charges \o fees \o coverages.items
<1>1. ProfitMax!ParseVehicle(va, params, c) =
        IF base = None THEN None
        ELSE VehicleOf(va.class, shown + coverages.added, items, reference, mileage, features)
  BY DEF ProfitMax!ParseVehicle, ProfitMax!VehicleOf, VehicleOf
<1>2. va \in Hertz!VehAvail(offerIds, {None})
  BY ProfitMaxTypes
<1>3. /\ va.class \in STRING /\ va.total \in [amount : Int, currency : STRING]
      /\ va.paymentRules \in Seq(Hertz!PaymentRule)
      /\ va.charges \in Seq(Hertz!VehicleCharge)
      /\ va.fees \in Seq(Hertz!Fee) /\ va.coverages \in Seq(Hertz!PricedCoverage)
      /\ va.distance \in Hertz!RateDistance /\ va.equips \in Seq(Hertz!PricedEquip)
      /\ va.estimatedTotal \in Int /\ va.reference \in offerIds
  BY <1>2, VehAvailFields
<1>4. tax \in [percent : Int, items : Seq(ExtraOrFee), inPrice : BOOLEAN]
  BY <1>3, ProfitMaxTax, TaxChargeType
<1>5. base # None => base \in Int
  BY <1>3, ProfitMaxTotal, HertzPrice DEF OrNone
<1> HIDE DEF tax, base
<1>6. tax.percent \in Int /\ tax.items \in Seq(ExtraOrFee)
  BY <1>4
<1>7. extras \in Seq(ExtraOrFee)
  <2>1. [i \in DOMAIN va.equips |-> Hertz!ParseExtra(va.equips[i], tax.percent)] \in Seq(ExtraOrFee)
    BY <1>3, <1>6, ExtrasType
  <2>2. extras = [i \in DOMAIN va.equips |-> Hertz!ParseExtra(va.equips[i], tax.percent)]
    BY ProfitMaxRest
  <2> QED BY <2>1, <2>2
<1>8. charges \in Seq(ExtraOrFee) /\ fees \in Seq(ExtraOrFee)
  BY <1>3, ChargesType, ProfitMaxCharges, ProfitMaxFees
<1>9. coverages.items \in Seq(ExtraOrFee) /\ coverages.added \in Int
  BY <1>3, <1>6, CoveragesType, ProfitMaxCoverages
<1>10. base # None => shown \in Int
  <2>1. base # None => ProfitMax!Hertz!Taxed(base, tax.percent) \in Int
    BY <1>5, <1>6, TaxedInt, ProfitMaxRest
  <2> QED BY <1>5, <2>1
<1>11. mileage \in Mileage /\ features \in VehicleFeatures
  BY <1>3, MileageType, FeaturesType, ProfitMaxRest
<1>12. reference \in ProfitMax!RateReference(offerIds)
  BY <1>3 DEF ProfitMax!RateReference
<1> HIDE DEF extras, charges, fees, coverages, shown, reference, mileage, features
<1>13. items \in Seq(ExtraOrFee)
  BY <1>6, <1>7, <1>8, <1>9
<1>14. base # None => shown + coverages.added \in Int
  BY <1>9, <1>10
<1> HIDE DEF items
<1>15. base # None =>
         VehicleOf(va.class, shown + coverages.added, items, reference, mileage, features)
           \in ProfitMaxVehicles(offerIds)
  BY <1>3, <1>11, <1>12, <1>13, <1>14, VehicleIn DEF ProfitMaxVehicles
<1>16. VehicleOf(va.class, shown + coverages.added, items, reference, mileage, features).supplierRateReference
         = reference
  BY DEF VehicleOf
<1>17. reference.fromRates = va.reference
  BY DEF reference
<1> QED BY <1>1, <1>15, <1>16, <1>17

\* What the loop over an answer of ProfitMax gives.
LEMMA ProfitMaxMapped ==
  ASSUME NEW offerIds, NEW offered \in Seq(ProfitMax!VehAvail(offerIds)), NEW params,
         params.rentalDays \in Int, NEW c
  PROVE  LET found == ProfitMax!MapVehicles(offered, params, c).vehicles
         IN  /\ found \in Seq(ProfitMaxVehicles(offerIds))
             /\ \A i \in DOMAIN found : found[i] # None /\ \E j \in DOMAIN offered :
                  found[i] = ProfitMax!ParseVehicle(offered[j], params, c)
<1> DEFINE E == ProfitMax!VehAvail(offerIds)
           T == ProfitMaxVehicles(offerIds)
           Parse == [va \in E |-> ProfitMax!ParseVehicle(va, params, c)]
           I == {i \in DOMAIN offered : offered[i].status = "Available"}
           available == Only(offered, I)
           parsed == ParsedOf(available, Parse)
           parsedAs == [i \in DOMAIN available |-> ProfitMax!ParseVehicle(available[i], params, c)]
           found == Kept(parsed)
<1>1. Parse \in [E -> T \cup {None}]
  BY ProfitMaxParsed
<1> HIDE DEF Parse
<1>2. /\ available \in Seq(E) /\ found \in Seq(T)
      /\ \A i \in DOMAIN found :
           found[i] # None /\ \E j \in DOMAIN offered : found[i] = Parse[offered[j]]
  <2>1. offered \in Seq(E)
    OBVIOUS
  <2> HIDE DEF E, T, I
  <2>2. LoopGives(E, T, offered, I, Parse)
    BY <1>1, <2>1, LoopElements
  <2> QED BY <2>2 DEF LoopGives
<1>3. ProfitMax!MapVehicles(offered, params, c).vehicles = Kept(parsedAs)
  BY ProfitMaxOnly DEF ProfitMax!MapVehicles, Kept
<1> HIDE DEF available
<1>4. parsedAs = parsed
  BY <1>2 DEF Parse, ParsedOf
<1> HIDE DEF parsedAs, parsed
<1>5. \A j \in DOMAIN offered : Parse[offered[j]] = ProfitMax!ParseVehicle(offered[j], params, c)
  BY DEF Parse
<1> QED BY <1>2, <1>3, <1>4, <1>5

-----------------------------------------------------------------------------
\* An item of a platform is an item.
LEMMA BookingcomItemType ==
  \A type \in ExtraOrFeeType, code \in STRING, amount \in Int,
     included, payLocal, mandatory \in BOOLEAN :
    Bookingcom!Item(type, code, amount, included, payLocal, mandatory) \in ExtraOrFee
BY DEF Bookingcom!Item, ExtraOrFee

BookingcomVehicles(offerIds) == VehicleType(Bookingcom!RateReference(offerIds))

\* The coverages, fees and extras of a match become items.
LEMMA BookingcomItems ==
  ASSUME NEW match, match.fees \in Seq([name : STRING, amount : Int, alwaysPayable : BOOLEAN]),
         match.extras \in Seq([product : STRING, amount : Int, priceAvailable : BOOLEAN])
  PROVE  Bookingcom!Coverages \o Bookingcom!Fees(match.fees) \o Bookingcom!Extras(match.extras)
           \in Seq(ExtraOrFee)
<1>1. "VCT" \in ExtraOrFeeType /\ "VCP" \in ExtraOrFeeType /\ "EQP" \in ExtraOrFeeType
  BY DEF ExtraOrFeeType
<1>2. TRUE \in BOOLEAN /\ FALSE \in BOOLEAN /\ 0 \in Int
  OBVIOUS
<1>3. Bookingcom!Coverages \in Seq(ExtraOrFee)
  <2> DEFINE codes == <<"TheftExcess", "DamageExcess", "Deposit">>
             item(i) == Bookingcom!Item("VCT", codes[i], 0, TRUE, FALSE, TRUE)
  <2>1. \A i \in 1 .. 3 : codes[i] \in STRING
    <3>1. \A i \in 1 .. 3 : i = 1 \/ i = 2 \/ i = 3
      OBVIOUS
    <3>2. codes[1] = "TheftExcess" /\ codes[2] = "DamageExcess" /\ codes[3] = "Deposit"
      OBVIOUS
    <3> HIDE DEF codes
    <3> QED BY <3>1, <3>2, TextIsText
  <2>2. Bookingcom!Coverages = [i \in 1 .. 3 |-> item(i)]
    BY DEF Bookingcom!Coverages
  <2> HIDE DEF codes
  <2>3. \A i \in 1 .. 3 : item(i) \in ExtraOrFee
    BY <2>1, <1>1, <1>2, BookingcomItemType, Zenon
  <2> HIDE DEF item
  <2> QED BY <2>2, <2>3
<1>4. Bookingcom!Fees(match.fees) \in Seq(ExtraOrFee)
  <2> DEFINE F == [name : STRING, amount : Int, alwaysPayable : BOOLEAN]
             item(fee) == Bookingcom!Item("VCP", fee.name, fee.amount, FALSE, FALSE, fee.alwaysPayable)
  <2>1. Bookingcom!Fees(match.fees) = [i \in DOMAIN match.fees |-> item(match.fees[i])]
    BY DEF Bookingcom!Fees
  <2>2. \A fee \in F : fee.name \in STRING /\ fee.amount \in Int /\ fee.alwaysPayable \in BOOLEAN
    OBVIOUS
  <2>3. match.fees \in Seq(F)
    OBVIOUS
  <2> HIDE DEF F
  <2>4. \A fee \in F : item(fee) \in ExtraOrFee
    BY <2>2, <1>1, <1>2, BookingcomItemType, Zenon
  <2> HIDE DEF item
  <2> QED BY <2>1, <2>3, <2>4
<1>5. Bookingcom!Extras(match.extras) \in Seq(ExtraOrFee)
  <2> DEFINE F == [product : STRING, amount : Int, priceAvailable : BOOLEAN]
             I == {i \in DOMAIN match.extras : match.extras[i].priceAvailable}
             priced == Only(match.extras, I)
             item(extra) == Bookingcom!Item("EQP", extra.product, extra.amount, FALSE, FALSE, FALSE)
  <2>1. Bookingcom!Extras(match.extras) = [i \in DOMAIN priced |-> item(priced[i])]
    BY BookingcomOnly DEF Bookingcom!Extras
  <2>2. \A extra \in F : extra.product \in STRING /\ extra.amount \in Int
    OBVIOUS
  <2>3. match.extras \in Seq(F)
    OBVIOUS
  <2> HIDE DEF F, I
  <2>4. priced \in Seq(F)
    BY <2>3, OnlyElements
  <2>5. \A extra \in F : item(extra) \in ExtraOrFee
    BY <2>2, <1>1, <1>2, BookingcomItemType, Zenon
  <2> HIDE DEF item, priced
  <2> QED BY <2>1, <2>4, <2>5
<1> QED BY <1>3, <1>4, <1>5

\* What an answer of Booking.com is mapped to, match by match.
LEMMA BookingcomMapped ==
  ASSUME NEW offerIds, NEW offered \in Seq(Bookingcom!SearchRSMatch(offerIds, Route)), NEW c
  PROVE  LET found == Bookingcom!MapVehicles(offered, c).vehicles
         IN  /\ found \in Seq(BookingcomVehicles(offerIds))
             /\ \A i \in DOMAIN found : \E j \in DOMAIN offered :
                  found[i] = Bookingcom!ParseVehicle(offered[j])
<1> DEFINE E == Bookingcom!SearchRSMatch(offerIds, Route)
           T == BookingcomVehicles(offerIds)
           I == {i \in DOMAIN offered :
                   offered[i].availabilityCheck /\ offered[i].supplierName = c.supplierName}
           wanted == Only(offered, I)
           found == [i \in DOMAIN wanted |-> Bookingcom!ParseVehicle(wanted[i])]
<1>1. ASSUME NEW match \in E
      PROVE  Bookingcom!ParseVehicle(match) \in T
  <2> DEFINE items == Bookingcom!Coverages \o Bookingcom!Fees(match.fees)
                        \o Bookingcom!Extras(match.extras)
             reference == [vehicleId |-> match.vehicleId, pickUpLocationId |-> match.route.pickUp,
                           dropOffLocationId |-> match.route.dropOff, basePrice |-> match.basePrice]
             mileage == Bookingcom!MileageWithoutUnits(match.unlimitedMileage)
             features == Bookingcom!Features(Bookingcom!Transmission(match), Bookingcom!Fuel(match), None)
  <2>1. Bookingcom!ParseVehicle(match) =
          VehicleOf(match.class, match.basePrice, items, reference, mileage, features)
    BY DEF Bookingcom!ParseVehicle, Bookingcom!VehicleOf, VehicleOf
  <2>2. /\ match.class \in STRING /\ match.basePrice \in Int
        /\ match.fees \in Seq([name : STRING, amount : Int, alwaysPayable : BOOLEAN])
        /\ match.extras \in Seq([product : STRING, amount : Int, priceAvailable : BOOLEAN])
        /\ match.unlimitedMileage \in BOOLEAN /\ match.vehicleId \in offerIds
        /\ match.route \in Route
    BY DEF Bookingcom!SearchRSMatch
  <2>3. items \in Seq(ExtraOrFee)
    BY <2>2, BookingcomItems
  <2>4. reference \in Bookingcom!RateReference(offerIds)
    BY <2>2 DEF Bookingcom!RateReference, Route
  <2>5. mileage \in Mileage
    BY <2>2 DEF Bookingcom!MileageWithoutUnits, Mileage, OrNone
  <2>6. features \in VehicleFeatures
    BY DEF Bookingcom!Features, Bookingcom!Transmission, Bookingcom!Fuel, Bookingcom!OneOf,
           VehicleFeatures, OrNone
  <2> HIDE DEF items, reference, mileage, features
  <2> QED BY <2>1, <2>2, <2>3, <2>4, <2>5, <2>6, VehicleIn DEF BookingcomVehicles
<1>2. Bookingcom!MapVehicles(offered, c).vehicles = found
  BY BookingcomOnly DEF Bookingcom!MapVehicles
<1>3. offered \in Seq(E)
  OBVIOUS
<1> HIDE DEF E, T, I
<1>4. /\ wanted \in Seq(E)
      /\ \A i \in DOMAIN wanted : \E j \in DOMAIN offered : wanted[i] = offered[j]
  BY <1>3, OnlyElements
<1> HIDE DEF wanted
<1>5. found \in Seq(T)
  BY <1>1, <1>4
<1>6. \A i \in DOMAIN found : \E j \in DOMAIN offered :
        found[i] = Bookingcom!ParseVehicle(offered[j])
  BY <1>4
<1> QED BY <1>2, <1>5, <1>6 DEF T

-----------------------------------------------------------------------------
\* An item that AnyRent makes has the shape of the schema.
LEMMA AnyRentItemType ==
  \A type \in ExtraOrFeeType, code \in STRING, amount \in Int,
     included, payLocal, mandatory \in BOOLEAN :
    AnyRent!Item(type, code, amount, included, payLocal, mandatory) \in ExtraOrFee
BY DEF AnyRent!Item, ExtraOrFee

AnyRentVehicles == VehicleType(AnyRent!RateReference)

\* What a group requires becomes items.
LEMMA AnyRentRequired ==
  ASSUME NEW list \in Seq(AnyRent!ListedExtra), NEW type \in ExtraOrFeeType
  PROVE  AnyRent!Required(list, type) \in Seq(ExtraOrFee)
<1> DEFINE item(extra) == AnyRent!Item(type, extra.code, extra.total, extra.included, TRUE, extra.required)
<1>1. AnyRent!Required(list, type) = [i \in DOMAIN list |-> item(list[i])]
  BY DEF AnyRent!Required
<1>2. \A extra \in AnyRent!ListedExtra :
        /\ extra.code \in STRING /\ extra.total \in Int
        /\ extra.included \in BOOLEAN /\ extra.required \in BOOLEAN
  BY DEF AnyRent!ListedExtra
<1>3. TRUE \in BOOLEAN
  OBVIOUS
<1>4. \A extra \in AnyRent!ListedExtra : item(extra) \in ExtraOrFee
  BY <1>2, <1>3, AnyRentItemType, Zenon
<1> HIDE DEF item
<1> QED BY <1>1, <1>4

\* And so does what is optional and not yet collected.
LEMMA AnyRentOptional ==
  ASSUME NEW list \in Seq(AnyRent!ListedExtra), NEW type \in ExtraOrFeeType, NEW collected
  PROVE  AnyRent!Optional(list, type, collected) \in Seq(ExtraOrFee)
<1> DEFINE I == {i \in DOMAIN list : list[i].code \notin collected}
           others == Only(list, I)
           included(extra) == extra.included \/ extra.autoAssignable
           item(extra) == AnyRent!Item(type, extra.code, extra.total, included(extra), TRUE,
                                       extra.required)
<1>1. AnyRent!Optional(list, type, collected) = [i \in DOMAIN others |-> item(others[i])]
  BY AnyRentOnly DEF AnyRent!Optional
<1>2. \A extra \in AnyRent!ListedExtra :
        extra.code \in STRING /\ extra.total \in Int /\ extra.required \in BOOLEAN
  BY DEF AnyRent!ListedExtra
<1>3. TRUE \in BOOLEAN /\ \A extra : included(extra) \in BOOLEAN
  OBVIOUS
<1> HIDE DEF included, I
<1>4. \A extra \in AnyRent!ListedExtra : item(extra) \in ExtraOrFee
  BY <1>2, <1>3, AnyRentItemType, Zenon
<1>5. others \in Seq(AnyRent!ListedExtra)
  BY OnlyElements
<1> HIDE DEF item, others
<1> QED BY <1>1, <1>4, <1>5

\* What an answer of AnyRent is mapped to, with the trip's stations and dates.
LEMMA AnyRentMapped ==
  ASSUME NEW offered \in Seq(AnyRent!FleetGroup), NEW params,
         params.pickUp \in STRING, params.dropOff \in STRING,
         params.from \in Int, params.until \in Int
  PROVE  LET found == AnyRent!MapVehicles(offered, params).vehicles
         IN  /\ found \in Seq(AnyRentVehicles)
             /\ \A i \in DOMAIN found : \E j \in DOMAIN offered :
                  found[i] = AnyRent!ParseVehicle(offered[j], params)
<1> DEFINE E == AnyRent!FleetGroup
           T == AnyRentVehicles
           I == {i \in DOMAIN offered : offered[i].status = "AVAILABLE"}
           available == Only(offered, I)
           found == [i \in DOMAIN available |-> AnyRent!ParseVehicle(available[i], params)]
<1>1. ASSUME NEW group \in E
      PROVE  AnyRent!ParseVehicle(group, params) \in T
  <2> DEFINE insurances == AnyRent!Required(group.insurances, "VCT")
             taxes == AnyRent!Required(group.taxes, "VCP")
             extras == AnyRent!Required(group.extras, "EQP")
             required == AnyRent!CustomCoverages \o insurances \o taxes \o extras
             collected == AnyRent!CodesOf(required)
             others == AnyRent!Optional(group.optionals.insurances, "VCT", collected)
             fees == AnyRent!Optional(group.optionals.taxes, "VCP", collected)
             equips == AnyRent!Optional(group.optionals.extras, "EQP", collected)
             items == required \o others \o fees \o equips
             reference == [pickupStation |-> params.pickUp, pickupDate |-> params.from,
                           dropOffStation |-> params.dropOff, dropOffDate |-> params.until,
                           group |-> group.code]
             mileage == AnyRent!MileageWithoutUnits(group.includedMileage = 0)
             features == AnyRent!Features(AnyRent!Transmission(group), AnyRent!Fuel(group), None)
  <2>1. AnyRent!ParseVehicle(group, params) =
          VehicleOf(group.code, group.rateAfterTax, items, reference, mileage, features)
    BY DEF AnyRent!ParseVehicle, AnyRent!VehicleOf, VehicleOf
  <2>2. /\ group.code \in STRING /\ group.rateAfterTax \in Int
        /\ group.insurances \in Seq(AnyRent!ListedExtra)
        /\ group.taxes \in Seq(AnyRent!ListedExtra)
        /\ group.extras \in Seq(AnyRent!ListedExtra)
        /\ group.optionals \in AnyRent!OptionalRate
    BY DEF AnyRent!FleetGroup
  <2>3. /\ group.optionals.insurances \in Seq(AnyRent!ListedExtra)
        /\ group.optionals.taxes \in Seq(AnyRent!ListedExtra)
        /\ group.optionals.extras \in Seq(AnyRent!ListedExtra)
    BY <2>2 DEF AnyRent!OptionalRate
  <2>4. "VCT" \in ExtraOrFeeType /\ "VCP" \in ExtraOrFeeType /\ "EQP" \in ExtraOrFeeType
    BY DEF ExtraOrFeeType
  <2>5. AnyRent!CustomCoverages \in Seq(ExtraOrFee)
    <3> DEFINE item == AnyRent!Item("VCT", "CollisionDamage", 0, TRUE, TRUE, TRUE)
    <3>1. "CollisionDamage" \in STRING
      BY TextIsText, Zenon
    <3>2. item \in ExtraOrFee
      <4>1. 0 \in Int /\ TRUE \in BOOLEAN
        OBVIOUS
      <4> QED BY <2>4, <3>1, <4>1, AnyRentItemType, Zenon
    <3> HIDE DEF item
    <3>3. <<item>> \in Seq(ExtraOrFee)
      BY <3>2
    <3> QED BY <3>3 DEF AnyRent!CustomCoverages, item
  <2>6. /\ insurances \in Seq(ExtraOrFee) /\ taxes \in Seq(ExtraOrFee)
        /\ extras \in Seq(ExtraOrFee)
    BY <2>2, <2>4, AnyRentRequired
  <2> HIDE DEF insurances, taxes, extras
  <2>7. required \in Seq(ExtraOrFee)
    BY <2>5, <2>6
  <2> HIDE DEF required, collected
  <2>8. /\ others \in Seq(ExtraOrFee) /\ fees \in Seq(ExtraOrFee)
        /\ equips \in Seq(ExtraOrFee)
    BY <2>3, <2>4, AnyRentOptional
  <2> HIDE DEF others, fees, equips
  <2>9. items \in Seq(ExtraOrFee)
    BY <2>7, <2>8
  <2>10. reference \in AnyRent!RateReference
    BY <2>2 DEF AnyRent!RateReference
  <2>11. mileage \in Mileage
    BY DEF AnyRent!MileageWithoutUnits, Mileage, OrNone
  <2>12. features \in VehicleFeatures
    BY DEF AnyRent!Features, AnyRent!Transmission, AnyRent!Fuel, AnyRent!OneOf,
           VehicleFeatures, OrNone
  <2> HIDE DEF items, reference, mileage, features
  <2> QED BY <2>1, <2>2, <2>9, <2>10, <2>11, <2>12, VehicleIn DEF AnyRentVehicles
<1>2. AnyRent!MapVehicles(offered, params).vehicles = found
  BY AnyRentOnly DEF AnyRent!MapVehicles
<1>3. offered \in Seq(E)
  OBVIOUS
<1> HIDE DEF E, T, I
<1>4. /\ available \in Seq(E)
      /\ \A i \in DOMAIN available : \E j \in DOMAIN offered : available[i] = offered[j]
  BY <1>3, OnlyElements
<1> HIDE DEF available
<1>5. found \in Seq(T)
  BY <1>1, <1>4
<1>6. \A i \in DOMAIN found : \E j \in DOMAIN offered :
        found[i] = AnyRent!ParseVehicle(offered[j], params)
  BY <1>4
<1> QED BY <1>2, <1>5, <1>6 DEF T

-----------------------------------------------------------------------------
\* An item that Rently makes has the shape of the schema.
LEMMA RentlyItemType ==
  \A type \in ExtraOrFeeType, code \in STRING, amount \in Int,
     included, payLocal, mandatory \in BOOLEAN :
    Rently!Item(type, code, amount, included, payLocal, mandatory) \in ExtraOrFee
BY DEF Rently!Item, ExtraOrFee

RentlyVehicles == VehicleType(Rently!RateReference)

\* What an answer of Rently is mapped to.
LEMMA RentlyMapped ==
  ASSUME NEW offered \in Seq(Rently!RentlyVehicle)
  PROVE  Rently!MapVehicles(offered).vehicles \in Seq(RentlyVehicles)
<1> DEFINE E == Rently!RentlyVehicle
<1>1. ASSUME NEW v \in E
      PROVE  Rently!ParseVehicle(v) \in RentlyVehicles
  <2> DEFINE coverages == Rently!Coverages(v.model)
             fees == Rently!FeesAndExtras(v.additionalPrices)
             items == coverages \o fees
             reference == [model |-> v.model.id]
             mileage == Rently!MileageWithoutUnits(~v.limitedKm)
             features == Rently!Features(Rently!Transmission(v.model), None, None)
             F == [type : STRING, id : STRING, price : Int, isRequired : BOOLEAN]
  <2>1. Rently!ParseVehicle(v) =
          VehicleOf(v.model.sipp, v.price, items, reference, mileage, features)
    BY DEF Rently!ParseVehicle, Rently!VehicleOf, VehicleOf
  <2>2. v.model \in Rently!Model /\ v.price \in Int /\ v.additionalPrices \in Seq(F)
    BY DEF Rently!RentlyVehicle
  <2>3. v.model.id \in Int /\ v.model.sipp \in STRING
    BY <2>2 DEF Rently!Model
  <2>4. "VCT" \in ExtraOrFeeType /\ "VCP" \in ExtraOrFeeType /\ "EQP" \in ExtraOrFeeType
    BY DEF ExtraOrFeeType
  <2>5. TRUE \in BOOLEAN /\ FALSE \in BOOLEAN /\ 0 \in Int
    OBVIOUS
  <2>6. coverages \in Seq(ExtraOrFee)
    <3> DEFINE codes == <<"TheftExcess", "DamageExcess", "RolloverExcess">>
               I == {i \in DOMAIN codes : codes[i] \in v.model.franchises}
               named == Only(codes, I)
               item(code) == Rently!Item("VCT", code, 0, TRUE, FALSE, TRUE)
    <3>1. codes \in Seq(STRING)
      <4>1. /\ "TheftExcess" \in STRING /\ "DamageExcess" \in STRING
            /\ "RolloverExcess" \in STRING
        BY TextIsText, Zenon
      <4> QED BY <4>1
    <3>2. coverages = [i \in DOMAIN named |-> item(named[i])]
      BY RentlyOnly DEF Rently!Coverages
    <3> HIDE DEF codes, I, coverages
    <3>3. named \in Seq(STRING)
      BY <3>1, OnlyElements
    <3>4. \A code \in STRING : item(code) \in ExtraOrFee
      BY <2>4, <2>5, RentlyItemType, Zenon
    <3> HIDE DEF named, item
    <3>5. \A i \in 1 .. Len(named) : item(named[i]) \in ExtraOrFee
      <4>1. \A i \in 1 .. Len(named) : named[i] \in STRING
        BY <3>3
      <4> QED BY <3>4, <4>1
    <3>6. DOMAIN named = 1 .. Len(named) /\ Len(named) \in Nat
      BY <3>3
    <3> QED BY <3>2, <3>5, <3>6
  <2>7. fees \in Seq(ExtraOrFee)
    <3> DEFINE type(price) == IF price.type = "Additional" THEN "EQP" ELSE "VCP"
               item(price) == Rently!Item(type(price), price.id, price.price, price.isRequired,
                                          TRUE, price.isRequired)
    <3>1. fees = [i \in DOMAIN v.additionalPrices |-> item(v.additionalPrices[i])]
      BY DEF Rently!FeesAndExtras
    <3>2. \A price \in F : price.id \in STRING /\ price.price \in Int /\ price.isRequired \in BOOLEAN
      OBVIOUS
    <3>3. \A price : type(price) \in ExtraOrFeeType
      BY DEF ExtraOrFeeType
    <3> HIDE DEF F, type, fees
    <3>4. \A price \in F : item(price) \in ExtraOrFee
      BY <2>5, <3>2, <3>3, RentlyItemType, Zenon
    <3> HIDE DEF item
    <3> QED BY <2>2, <3>1, <3>4
  <2> HIDE DEF coverages, fees
  <2>8. items \in Seq(ExtraOrFee)
    BY <2>6, <2>7
  <2>9. reference \in Rently!RateReference
    BY <2>3 DEF Rently!RateReference
  <2>10. mileage \in Mileage
    BY DEF Rently!MileageWithoutUnits, Mileage, OrNone
  <2>11. features \in VehicleFeatures
    BY DEF Rently!Features, Rently!Transmission, VehicleFeatures, OrNone
  <2> HIDE DEF items, reference, mileage, features
  <2> QED BY <2>1, <2>2, <2>3, <2>8, <2>9, <2>10, <2>11, VehicleIn DEF RentlyVehicles
<1>2. Rently!MapVehicles(offered).vehicles = [i \in DOMAIN offered |-> Rently!ParseVehicle(offered[i])]
  BY DEF Rently!MapVehicles
<1>3. offered \in Seq(E)
  OBVIOUS
<1> HIDE DEF E
<1> QED BY <1>1, <1>2, <1>3

-----------------------------------------------------------------------------
(***************************************************************************)
(* The extras of an order.                                                 *)
(***************************************************************************)
\* How often an extra counts for a code.
Weight(code) ==
  [e \in BookingExtraOrFee |-> IF e.code = code THEN Unwrap(e.quantity, 1) ELSE 0]

\* And a code for itself.
Counter(code) == [c \in STRING |-> IF c = code THEN 1 ELSE 0]

\* A counter counts.
LEMMA CounterType ==
  \A code : /\ Counter(code) \in [STRING -> Int]
            /\ \A c \in STRING : Counter(code)[c] = IF c = code THEN 1 ELSE 0
BY DEF Counter

\* A function along a sequence is one.
LEMMA SeqAlong ==
  ASSUME NEW T, NEW s \in Seq(T), NEW f, NEW S,
         f = [i \in DOMAIN s |-> f[i]], \A i \in DOMAIN s : f[i] \in S
  PROVE  f \in Seq(S) /\ Len(f) = Len(s)
<1>1. DOMAIN s = 1 .. Len(s) /\ Len(s) \in Nat
  OBVIOUS
<1>2. f = [i \in 1 .. Len(s) |-> f[i]] /\ \A i \in 1 .. Len(s) : f[i] \in S
  BY <1>1
<1> QED BY <1>1, <1>2

\* What an extra weighs is a number.
LEMMA WeightType == \A code : Weight(code) \in [BookingExtraOrFee -> Int]
<1> SUFFICES ASSUME NEW code PROVE Weight(code) \in [BookingExtraOrFee -> Int]
  OBVIOUS
<1>1. ASSUME NEW e \in BookingExtraOrFee PROVE Unwrap(e.quantity, 1) \in Nat
  BY DEF BookingExtraOrFee, Unwrap, OrNone
<1> HIDE DEF BookingExtraOrFee
<1> QED BY <1>1 DEF Weight

\* Counting what is listed with quantities.
LEMMA QuantitiesCount ==
  ASSUME NEW extras \in Seq(BookingExtraOrFee), NEW list, NEW code,
         DOMAIN list = DOMAIN extras,
         \A i \in DOMAIN extras : /\ list[i].code = extras[i].code
                                  /\ list[i].quantity = Unwrap(extras[i].quantity, 1)
  PROVE  CountedIn(list, code) =
           Sum([i \in DOMAIN extras |->
                  IF extras[i].code = code THEN Unwrap(extras[i].quantity, 1) ELSE 0])
<1>1. [i \in DOMAIN list |-> IF list[i].code = code THEN list[i].quantity ELSE 0]
        = [i \in DOMAIN extras |->
             IF extras[i].code = code THEN Unwrap(extras[i].quantity, 1) ELSE 0]
  OBVIOUS
<1> QED BY <1>1 DEF CountedIn

\* What something weighs that is repeated.
LEMMA RepeatedWeight ==
  ASSUME NEW E, NEW w \in [E -> Int], NEW c \in E, w[c] \in {0, 1}, NEW n \in Nat
  PROVE  /\ [k \in 1 .. n |-> c] \in Seq(E)
         /\ Sum(Along(w, [k \in 1 .. n |-> c])) = IF w[c] = 1 THEN n ELSE 0
<1> DEFINE r == [k \in 1 .. n |-> c]
<1>1. r \in Seq(E) /\ Len(r) = n /\ \A k \in 1 .. n : r[k] = c
  OBVIOUS
<1> HIDE DEF r
<1>2. /\ Along(w, r) \in Seq(Int) /\ Len(Along(w, r)) = n
      /\ \A i \in 1 .. n : Along(w, r)[i] = w[c]
  BY <1>1, AlongSeq
<1>3. CASE w[c] = 1
  BY <1>1, <1>2, <1>3, SumOnes DEF r
<1>4. CASE w[c] = 0
  BY <1>1, <1>2, <1>4, SumZero DEF r
<1> QED BY <1>3, <1>4

\* Counting the codes that an extra is repeated as.
LEMMA RepeatedCount ==
  ASSUME NEW e \in BookingExtraOrFee, NEW code
  PROVE  /\ AnyRent!Repeated(e) \in Seq(STRING)
         /\ Sum(Along(Counter(code), AnyRent!Repeated(e))) = Weight(code)[e]
<1> DEFINE n == Unwrap(e.quantity, 1)
           w == Counter(code)
           E == STRING
<1>1. e.code \in E /\ n \in Nat
  BY DEF BookingExtraOrFee, Unwrap, OrNone
<1>2. AnyRent!Repeated(e) = [k \in 1 .. n |-> e.code]
  BY DEF AnyRent!Repeated, AnyRent!Unwrap, Unwrap
<1>3. Weight(code)[e] = IF e.code = code THEN n ELSE 0
  BY DEF Weight
<1>4. w \in [E -> Int] /\ w[e.code] = IF e.code = code THEN 1 ELSE 0
  BY <1>1, CounterType
<1> HIDE DEF n, w, E
<1>5. w[e.code] \in {0, 1}
  BY <1>4
<1>6. /\ [k \in 1 .. n |-> e.code] \in Seq(E)
      /\ Sum(Along(w, [k \in 1 .. n |-> e.code])) = IF w[e.code] = 1 THEN n ELSE 0
  BY <1>1, <1>4, <1>5, RepeatedWeight
<1>7. Sum(Along(w, [k \in 1 .. n |-> e.code])) = IF e.code = code THEN n ELSE 0
  BY <1>4, <1>6
<1> QED BY <1>2, <1>3, <1>6, <1>7 DEF w, E

\* What the extras of one kind count for a code, the others nothing.
OfKind(extras, code, proper) ==
  [i \in DOMAIN extras |->
     IF i \in {j \in DOMAIN extras : (extras[j].type = "Extra") = proper}
     THEN Weight(code)[extras[i]] ELSE 0]

\* Counting the codes of one kind.
LEMMA CodesCount ==
  ASSUME NEW extras \in Seq(BookingExtraOrFee), NEW code, NEW proper
  PROVE  /\ AnyRent!CodesOfType(extras, proper) \in Seq(STRING)
         /\ Sum(Along(Counter(code), AnyRent!CodesOfType(extras, proper))) =
              Sum(OfKind(extras, code, proper))
<1> DEFINE I == {j \in DOMAIN extras : (extras[j].type = "Extra") = proper}
           chosen == Only(extras, I)
           ss == [i \in DOMAIN chosen |-> AnyRent!Repeated(chosen[i])]
<1>1. AnyRent!CodesOfType(extras, proper) = FlattenSeq(ss)
  BY AnyRentOnly, AnyRentFlatten DEF AnyRent!CodesOfType
<1> HIDE DEF I
<1>2. chosen \in Seq(BookingExtraOrFee)
  BY OnlyElements
<1>3. Counter(code) \in [STRING -> Int]
  BY CounterType
<1>4. /\ Sum(Along(Weight(code), chosen))
           = Sum([i \in DOMAIN extras |-> IF i \in I THEN Weight(code)[extras[i]] ELSE 0])
  BY WeightType, AlongOnly
<1> HIDE DEF chosen
<1>5. \A i \in DOMAIN chosen : chosen[i] \in BookingExtraOrFee
  BY <1>2
<1>6. \A i \in DOMAIN chosen : /\ AnyRent!Repeated(chosen[i]) \in Seq(STRING)
                               /\ Sum(Along(Counter(code), AnyRent!Repeated(chosen[i]))) = Weight(code)[chosen[i]]
  BY <1>5, RepeatedCount
<1>7. /\ ss \in Seq(Seq(STRING)) /\ DOMAIN ss = DOMAIN chosen
      /\ \A i \in DOMAIN chosen : Sum(Along(Counter(code), ss[i])) = Weight(code)[chosen[i]]
  <2> DEFINE R(i) == AnyRent!Repeated(chosen[i])
  <2>1. \A i \in DOMAIN chosen : R(i) \in Seq(STRING) /\ Sum(Along(Counter(code), R(i))) = Weight(code)[chosen[i]]
    BY <1>6
  <2>2. ss = [i \in DOMAIN chosen |-> R(i)] /\ DOMAIN ss = DOMAIN chosen
    OBVIOUS
  <2>3. DOMAIN chosen = 1 .. Len(chosen) /\ Len(chosen) \in Nat
    BY <1>2
  <2>4. \A i \in DOMAIN chosen : ss[i] = R(i)
    BY <2>2
  <2> HIDE DEF R, ss
  <2>5. ss \in Seq(Seq(STRING))
    <3>1. ss = [i \in DOMAIN chosen |-> ss[i]] /\ \A i \in DOMAIN chosen : ss[i] \in Seq(STRING)
      BY <2>1, <2>2, <2>4
    <3> QED BY <1>2, <3>1, SeqAlong
  <2> QED BY <2>1, <2>2, <2>4, <2>5
<1> HIDE DEF ss
<1>8. [i \in DOMAIN ss |-> Sum(Along(Counter(code), ss[i]))] = Along(Weight(code), chosen)
  BY <1>7, Zenon DEF Along
<1>9. /\ FlattenSeq(ss) \in Seq(STRING)
      /\ Sum(Along(Counter(code), FlattenSeq(ss))) = Sum([i \in DOMAIN ss |-> Sum(Along(Counter(code), ss[i]))])
  BY <1>3, <1>7, FlattenElements, FlattenSum
<1> QED BY <1>1, <1>4, <1>8, <1>9 DEF I, OfKind

\* AnyRent's two lists together have every extra as often as it is ordered.
LEMMA AnyRentCount ==
  ASSUME NEW extras \in Seq(BookingExtraOrFee), NEW code
  PROVE  Occurrences(AnyRent!CodesOfType(extras, TRUE) \o AnyRent!CodesOfType(extras, FALSE), code)
           = Sum([i \in DOMAIN extras |->
                    IF extras[i].code = code THEN Unwrap(extras[i].quantity, 1) ELSE 0])
<1> DEFINE w == Counter(code)
           first == AnyRent!CodesOfType(extras, TRUE)
           second == AnyRent!CodesOfType(extras, FALSE)
           Part(proper) == OfKind(extras, code, proper)
           all == [i \in DOMAIN extras |-> Weight(code)[extras[i]]]
<1>1. /\ first \in Seq(STRING) /\ Sum(Along(w, first)) = Sum(Part(TRUE))
      /\ second \in Seq(STRING) /\ Sum(Along(w, second)) = Sum(Part(FALSE))
  <2>1. \A proper : /\ AnyRent!CodesOfType(extras, proper) \in Seq(STRING)
                    /\ Sum(Along(w, AnyRent!CodesOfType(extras, proper))) = Sum(Part(proper))
    BY CodesCount, Zenon
  <2> QED BY <2>1, Zenon
<1> HIDE DEF first, second
<1>2. w \in [STRING -> Int] /\ first \o second \in Seq(STRING)
  <2>1. first \o second \in Seq(STRING)
    BY <1>1
  <2> QED BY <2>1, CounterType
<1>3. Occurrences(first \o second, code) = Sum(Along(w, first \o second))
  <2> DEFINE codes == first \o second
  <2>1. \A i \in DOMAIN codes : codes[i] \in STRING
    BY <1>2
  <2> HIDE DEF codes
  <2>2. [i \in DOMAIN codes |-> IF codes[i] = code THEN 1 ELSE 0] = Along(w, codes)
    BY <2>1, CounterType DEF Along
  <2> QED BY <2>2 DEF Occurrences, codes
<1>4. Sum(Along(w, first \o second)) = Sum(Along(w, first)) + Sum(Along(w, second))
  <2>1. w \in [STRING -> Int] /\ first \in Seq(STRING) /\ second \in Seq(STRING)
    BY <1>1, <1>2
  <2> HIDE DEF w
  <2> QED BY <2>1, AlongConcat, Zenon
<1>5. \A i \in DOMAIN extras : Weight(code)[extras[i]] \in Int
  BY WeightType
<1>6. Sum(all) = Sum(Part(TRUE)) + Sum(Part(FALSE))
  <2>1. DOMAIN extras = 1 .. Len(extras) /\ Len(extras) \in Nat
    OBVIOUS
  <2> DEFINE W(i) == Weight(code)[extras[i]]
             proper == Part(TRUE)
             other == Part(FALSE)
  <2>2. /\ proper \in Seq(Int) /\ other \in Seq(Int) /\ all \in Seq(Int)
        /\ Len(proper) = Len(extras) /\ Len(other) = Len(extras) /\ Len(all) = Len(extras)
    BY <1>5, <2>1 DEF OfKind
  <2>3. \A i \in 1 .. Len(extras) : all[i] = proper[i] + other[i]
    BY <1>5, <2>1 DEF OfKind
  <2> HIDE DEF proper, other, all
  <2>4. Sum(all) = Sum(proper) + Sum(other)
    BY <2>2, <2>3, SumAdd
  <2> QED BY <2>4 DEF proper, other
<1>7. all = [i \in DOMAIN extras |->
               IF extras[i].code = code THEN Unwrap(extras[i].quantity, 1) ELSE 0]
  BY DEF Weight
<1> HIDE DEF Part, all
<1> QED BY <1>1, <1>3, <1>4, <1>6, <1>7 DEF first, second

-----------------------------------------------------------------------------
(***************************************************************************)
(* What a re-quote shows.                                                  *)
(***************************************************************************)
\* What is made of a vehicle depends on the payment, the country and the days alone.
LEMMA PaymentAlike ==
  ASSUME NEW p, NEW q, p.paymentType = q.paymentType
  PROVE  /\ Hertz!IsFullPrepay(p) <=> Hertz!IsFullPrepay(q)
         /\ Hertz!IsPartialPayment(p) <=> Hertz!IsPartialPayment(q)
         /\ \A rules : Hertz!FullWithoutPaymentRules(p, rules) <=> Hertz!FullWithoutPaymentRules(q, rules)
BY DEF Hertz!IsFullPrepay, Hertz!IsPartialPayment, Hertz!FullWithoutPaymentRules

Alike(p, q) ==
  /\ p.paymentType = q.paymentType /\ p.pickUpCountry = q.pickUpCountry
  /\ p.rentalDays = q.rentalDays

\* The tax is the same for two requests alike.
LEMMA TaxAlike ==
  ASSUME NEW p, NEW q, Alike(p, q), NEW charges, NEW c, NEW rules
  PROVE  Hertz!TaxCharge(charges, p, c, rules) = Hertz!TaxCharge(charges, q, c, rules)
<1>1. /\ Hertz!TaxInPrice(p, c, rules) <=> Hertz!TaxInPrice(q, c, rules)
      /\ Hertz!TaxAsItem(p, c, rules) <=> Hertz!TaxAsItem(q, c, rules)
      /\ Hertz!IsFullPrepay(p) <=> Hertz!IsFullPrepay(q)
  BY PaymentAlike DEF Hertz!TaxInPrice, Hertz!TaxAsItem, Alike
<1>2. /\ Hertz!TaxInPrice(p, c, rules) \in BOOLEAN /\ Hertz!TaxInPrice(q, c, rules) \in BOOLEAN
  BY DEF Hertz!TaxInPrice
<1> QED BY <1>1, <1>2 DEF Hertz!TaxCharge

\* So is the price.
LEMMA PriceAlike ==
  ASSUME NEW p, NEW q, Alike(p, q), NEW total, NEW rules
  PROVE  Hertz!Price(total, p, rules) = Hertz!Price(total, q, rules)
<1>1. /\ Hertz!IsFullPrepay(p) <=> Hertz!IsFullPrepay(q)
      /\ Hertz!IsPartialPayment(p) <=> Hertz!IsPartialPayment(q)
      /\ Hertz!FullWithoutPaymentRules(p, rules) <=> Hertz!FullWithoutPaymentRules(q, rules)
  BY PaymentAlike DEF Alike
<1>2. /\ Hertz!IsFullPrepay(p) \in BOOLEAN /\ Hertz!IsFullPrepay(q) \in BOOLEAN
      /\ Hertz!IsPartialPayment(p) \in BOOLEAN /\ Hertz!IsPartialPayment(q) \in BOOLEAN
      /\ Hertz!FullWithoutPaymentRules(p, rules) \in BOOLEAN
      /\ Hertz!FullWithoutPaymentRules(q, rules) \in BOOLEAN
  BY DEF Hertz!IsFullPrepay, Hertz!IsPartialPayment, Hertz!FullWithoutPaymentRules
<1> QED BY <1>1, <1>2 DEF Hertz!Price

\* So are the fees.
LEMMA FeesAlike ==
  ASSUME NEW p, NEW q, Alike(p, q), NEW fees, NEW c, NEW rules
  PROVE  Hertz!Fees(fees, p, c, rules) = Hertz!Fees(fees, q, c, rules)
<1>1. \A fee : Hertz!FeeIncludedType(fee, p, c, rules) = Hertz!FeeIncludedType(fee, q, c, rules)
  <2> SUFFICES ASSUME NEW fee
               PROVE  Hertz!FeeIncludedType(fee, p, c, rules) = Hertz!FeeIncludedType(fee, q, c, rules)
    OBVIOUS
  <2>1. /\ Hertz!IsFullPrepay(p) <=> Hertz!IsFullPrepay(q)
        /\ Hertz!IsPartialPayment(p) <=> Hertz!IsPartialPayment(q)
        /\ Hertz!PayableLocally(fee, p, c) <=> Hertz!PayableLocally(fee, q, c)
    BY PaymentAlike DEF Alike, Hertz!PayableLocally
  <2> QED BY <2>1 DEF Hertz!FeeIncludedType
<1> QED BY <1>1 DEF Hertz!Fees

\* So are the coverages.
LEMMA CoverageAlike ==
  ASSUME NEW p, NEW q, Alike(p, q), NEW coverages, NEW percent, NEW c, NEW rules
  PROVE  Hertz!VehicleCoverages(coverages, percent, rules, p, c) =
           Hertz!VehicleCoverages(coverages, percent, rules, q, c)
<1>1. \A cov : Hertz!CoveragePrice(cov, p) = Hertz!CoveragePrice(cov, q)
  BY DEF Hertz!CoveragePrice, Alike
<1>2. \A cov : Hertz!VehicleCoverage(cov, percent, rules, p, c) =
                 Hertz!VehicleCoverage(cov, percent, rules, q, c)
  <2> SUFFICES ASSUME NEW cov
               PROVE  Hertz!VehicleCoverage(cov, percent, rules, p, c) =
                        Hertz!VehicleCoverage(cov, percent, rules, q, c)
    OBVIOUS
  <2>1. Hertz!IsTaxed(cov, p, c) <=> Hertz!IsTaxed(cov, q, c)
    BY DEF Hertz!IsTaxed, Alike
  <2>2. Hertz!IsFullPrepay(p) <=> Hertz!IsFullPrepay(q)
    BY PaymentAlike DEF Alike
  <2>3. Hertz!WhichCoverageIncludedType(cov, rules, p, c) =
          Hertz!WhichCoverageIncludedType(cov, rules, q, c)
    BY <2>2 DEF Hertz!WhichCoverageIncludedType
  <2> QED BY <1>1, <2>1, <2>3 DEF Hertz!VehicleCoverage
<1> QED BY <1>1, <1>2 DEF Hertz!VehicleCoverages

\* What a vehicle costs, and what is listed with it.
LEMMA VehicleAlike ==
  ASSUME NEW p, NEW q, Alike(p, q), NEW va, NEW equips, NEW c
  PROVE  /\ HertzBase(va, p) = HertzBase(va, q)
         /\ HertzShown(va, p, c) = HertzShown(va, q, c)
         /\ HertzItems(va, equips, p, c) = HertzItems(va, equips, q, c)
<1>1. HertzBase(va, p) = HertzBase(va, q)
  BY PriceAlike DEF HertzBase
<1>2. HertzTax(va, p, c) = HertzTax(va, q, c)
  BY TaxAlike DEF HertzTax
<1>3. HertzCoverages(va, p, c) = HertzCoverages(va, q, c)
  BY <1>2, CoverageAlike DEF HertzCoverages
<1>4. Hertz!Fees(va.fees, p, c, va.paymentRules) = Hertz!Fees(va.fees, q, c, va.paymentRules)
  BY FeesAlike
<1> QED BY <1>1, <1>2, <1>3, <1>4 DEF HertzShown, HertzItems

\* Vehicles as they are shown, and as a search would show them.
ShownOf(found) == [i \in DOMAIN found |-> [found[i] EXCEPT !.supplierRateReference = None]]

ShownAsRates(found, offered, equips, params, c) ==
  ShownOf(found) = ShownOf(Hertz!MapVehicles(offered, equips, params, c).vehicles)

\* A vehicle that passes the loop over an answer on its own is available and has a
\* price.
LEMMA PricedAlone ==
  ASSUME NEW va \in Hertz!VehAvail({None}, {None}), NEW equips \in Seq(Hertz!PricedEquip),
         NEW params, params.rentalDays \in Int, NEW c,
         Hertz!MapVehicles(<<va>>, equips, params, c).vehicles # <<>>
  PROVE  va.status = "Available" /\ HertzBase(va, params) # None
<1> DEFINE E == Hertz!VehAvail({None}, {None})
           s == <<va>>
           I == {i \in DOMAIN s : s[i].status = "Available"}
           available == Only(s, I)
           parsed == [i \in DOMAIN available |-> Hertz!ParseVehicle(available[i], equips, params, c)]
           found == Kept(parsed)
<1>1. s \in Seq(E) /\ \A i \in DOMAIN s : s[i] = va
  OBVIOUS
<1>2. Hertz!MapVehicles(s, equips, params, c).vehicles = found
  BY HertzOnly DEF Hertz!MapVehicles, Kept
<1>3. found # <<>>
  BY <1>2
<1> HIDE DEF E, s
<1>4. /\ available \in Seq(E)
      /\ \A i \in DOMAIN available : \E j \in DOMAIN s \cap I : available[i] = s[j]
  BY <1>1, OnlyElements
<1>5. \A i \in DOMAIN available : available[i] = va /\ va.status = "Available"
  BY <1>1, <1>4
<1> HIDE DEF available
<1>6. \A i \in DOMAIN parsed : parsed[i] = Hertz!ParseVehicle(va, equips, params, c)
  BY <1>5
<1> DEFINE V == {Hertz!ParseVehicle(va, equips, params, c)}
           J == {i \in DOMAIN parsed : parsed[i] # None}
<1>7. parsed \in Seq(V)
  BY <1>4, <1>6
<1>8. \A i \in DOMAIN parsed : va.status = "Available"
  BY <1>5
<1>9. found \in Seq(V) /\ \A i \in DOMAIN found : \E j \in DOMAIN parsed \cap J : found[i] = parsed[j]
  <2>1. found = Only(parsed, J)
    BY DEF Kept
  <2> HIDE DEF parsed, V, J, found
  <2>2. /\ Only(parsed, J) \in Seq(V)
        /\ \A i \in DOMAIN Only(parsed, J) : \E j \in DOMAIN parsed \cap J : Only(parsed, J)[i] = parsed[j]
    BY <1>7, OnlyElements
  <2> QED BY <2>1, <2>2
<1> HIDE DEF parsed, V, J
<1>10. 1 \in DOMAIN found
  <2> HIDE DEF found
  <2> QED BY <1>3, <1>9
<1>11. PICK j \in DOMAIN parsed : parsed[j] # None
  BY <1>9, <1>10 DEF J
<1>12. Hertz!ParseVehicle(va, equips, params, c) # None
  BY <1>6, <1>11
<1>13. HertzBase(va, params) # None
  BY <1>12, HertzVehicle
<1> QED BY <1>8, <1>11, <1>13

\* What parseQuote makes of vehicles that have a price is what parseVehicle makes of
\* them but for the reference.
LEMMA QuotesShown ==
  ASSUME NEW offerIds, NEW quoteIds, None \notin HertzVehicles(offerIds, quoteIds),
         NEW a \in Seq(Hertz!VehAvail(offerIds, OrNone(quoteIds))),
         NEW equips \in Seq(Hertz!PricedEquip), NEW p, p.rentalDays \in Int,
         NEW q, Alike(p, q), NEW c,
         \A i \in DOMAIN a :
           a[i].status = "Available" /\ HertzBase(a[i], p) # None /\ a[i].echoToken # None
  PROVE  ShownAsRates(Kept([i \in DOMAIN a |-> Hertz!ParseQuote(a[i], equips, p, c)]),
                      a, equips, q, c)
<1> DEFINE E == Hertz!VehAvail(offerIds, OrNone(quoteIds))
           T == HertzVehicles(offerIds, quoteIds)
           R == Hertz!RateReference(offerIds \cup quoteIds, OrNone(quoteIds))
           quotes == [i \in DOMAIN a |-> Hertz!ParseQuote(a[i], equips, p, c)]
           rates == [i \in DOMAIN a |-> Hertz!ParseVehicle(a[i], equips, q, c)]
           I == {i \in DOMAIN a : a[i].status = "Available"}
<1>1. q.rentalDays \in Int
  BY DEF Alike
<1>2. ASSUME NEW i \in DOMAIN a
      PROVE  /\ quotes[i] \in T /\ rates[i] \in T
             /\ [quotes[i] EXCEPT !.supplierRateReference = None]
                  = [rates[i] EXCEPT !.supplierRateReference = None]
  <2> DEFINE va == a[i]
             made(reference) ==
               VehicleOf(va.class, HertzShown(va, p, c), HertzItems(va, equips, p, c),
                         reference, Hertz!MileageOf(va.distance), Hertz!FeaturesOf(va.vehicle))
             asRate == [fromRates |-> va.reference, fromQuote |-> None,
                        estimatedTotalAmount |-> va.estimatedTotal]
             asQuote == [fromRates |-> va.echoToken, fromQuote |-> va.echoToken,
                         estimatedTotalAmount |-> va.estimatedTotal]
  <2>1. va \in E /\ HertzBase(va, p) # None /\ va.echoToken # None
    OBVIOUS
  <2>2. quotes[i] = Hertz!ParseQuote(va, equips, p, c)
        /\ rates[i] = Hertz!ParseVehicle(va, equips, q, c)
    OBVIOUS
  <2> HIDE DEF va, quotes, rates
  <2>3. /\ HertzBase(va, q) # None /\ HertzShown(va, q, c) = HertzShown(va, p, c)
        /\ HertzItems(va, equips, q, c) = HertzItems(va, equips, p, c)
    BY <2>1, VehicleAlike
  <2>4. quotes[i] = made(asQuote) /\ rates[i] = made(asRate)
    BY <2>1, <2>2, <2>3, HertzVehicle
  <2>5. asRate \in R /\ asQuote \in R
    BY <2>1, HertzReferenceType DEF HertzReferenceIn
  <2> HIDE DEF asRate, asQuote, R
  <2>6. \A reference \in R : made(reference) \in VehicleType(R)
    BY <2>1, HertzVehicleType
  <2>7. [made(asQuote) EXCEPT !.supplierRateReference = None]
          = [made(asRate) EXCEPT !.supplierRateReference = None]
    BY DEF VehicleOf
  <2> HIDE DEF made
  <2> QED BY <2>4, <2>5, <2>6, <2>7 DEF HertzVehicles, R
<1>3. DOMAIN quotes = DOMAIN a /\ DOMAIN rates = DOMAIN a
  OBVIOUS
<1>4. quotes \in Seq(T) /\ rates \in Seq(T)
  <2>1. DOMAIN a = 1 .. Len(a) /\ Len(a) \in Nat
    OBVIOUS
  <2>2. quotes = [i \in DOMAIN a |-> quotes[i]] /\ rates = [i \in DOMAIN a |-> rates[i]]
    OBVIOUS
  <2> HIDE DEF quotes, rates, T
  <2>3. \A i \in DOMAIN a : quotes[i] \in T /\ rates[i] \in T
    BY <1>2
  <2> QED BY <2>1, <2>2, <2>3, SeqAlong
<1>5. Hertz!MapVehicles(a, equips, q, c).vehicles = Kept(rates)
  <2>1. Only(a, I) = a
    <3>1. a \in Seq(E) /\ DOMAIN a \subseteq I
      OBVIOUS
    <3> HIDE DEF E, I
    <3> QED BY <3>1, OnlyAll
  <2> HIDE DEF E
  <2> QED BY <2>1, HertzOnly DEF Hertz!MapVehicles, Kept
<1> HIDE DEF quotes, rates
<1>6. Kept(quotes) = quotes /\ Kept(rates) = rates
  <2>1. \A i \in DOMAIN a : quotes[i] # None /\ rates[i] # None
    BY <1>2
  <2>2. /\ DOMAIN quotes \subseteq {i \in DOMAIN quotes : quotes[i] # None}
        /\ DOMAIN rates \subseteq {i \in DOMAIN rates : rates[i] # None}
    BY <1>3, <2>1
  <2> HIDE DEF T
  <2> QED BY <1>4, <2>2, OnlyAll DEF Kept
<1>7. ShownOf(quotes) = ShownOf(rates)
  BY <1>2, <1>3 DEF ShownOf
<1>8. ShownAsRates(Kept(quotes), a, equips, q, c)
  BY <1>5, <1>6, <1>7 DEF ShownAsRates
<1> QED BY <1>8 DEF quotes

-----------------------------------------------------------------------------
(***************************************************************************)
(* What a customer pays.                                                   *)
(***************************************************************************)
\* What an item adds to the total, and what it has added to the price already if it is
\* a coverage.
OpenWeight ==
  [e \in ExtraOrFee |-> IF e.mandatory /\ ~e.includedInRate THEN e.amount ELSE 0]

IncludedWeight ==
  [e \in ExtraOrFee |->
     IF e.type = "VCT" /\ e.mandatory /\ e.includedInRate THEN e.amount ELSE 0]

\* What an item counts for in a sum is a number.
LEMMA WeightsType == OpenWeight \in [ExtraOrFee -> Int] /\ IncludedWeight \in [ExtraOrFee -> Int]
<1>1. \A e \in ExtraOrFee : e.amount \in Int
  BY DEF ExtraOrFee
<1> HIDE DEF ExtraOrFee
<1> QED BY <1>1 DEF OpenWeight, IncludedWeight

\* The total is the price and what is open of the items.
LEMMA TotalAlong ==
  ASSUME NEW v, v.extrasAndFees \in Seq(ExtraOrFee)
  PROVE  /\ Total(v) = v.price + Sum(Along(OpenWeight, v.extrasAndFees))
         /\ AmountsOf(v.extrasAndFees, LAMBDA e : e.type = "VCT" /\ e.mandatory /\ e.includedInRate)
              = Sum(Along(IncludedWeight, v.extrasAndFees))
<1> DEFINE items == v.extrasAndFees
<1>1. \A i \in DOMAIN items : items[i] \in ExtraOrFee
  <2>1. items \in Seq(ExtraOrFee)
    OBVIOUS
  <2> HIDE DEF ExtraOrFee, items
  <2> QED BY <2>1
<1> HIDE DEF items, ExtraOrFee
<1>2. /\ Along(OpenWeight, items) = [i \in DOMAIN items |->
             IF items[i].mandatory /\ ~items[i].includedInRate THEN items[i].amount ELSE 0]
      /\ Along(IncludedWeight, items) = [i \in DOMAIN items |->
             IF items[i].type = "VCT" /\ items[i].mandatory /\ items[i].includedInRate
             THEN items[i].amount ELSE 0]
  BY <1>1 DEF Along, OpenWeight, IncludedWeight
<1> QED BY <1>2 DEF items, Total, Extra, AmountsOf

\* Sequences that weigh the same element by element.
LEMMA AlongSame ==
  ASSUME NEW E, NEW w \in [E -> Int], NEW s \in Seq(E), NEW t \in Seq(E), Len(s) = Len(t),
         \A i \in 1 .. Len(s) : w[s[i]] = w[t[i]]
  PROVE  Sum(Along(w, s)) = Sum(Along(w, t))
<1>1. DOMAIN s = 1 .. Len(s) /\ DOMAIN t = 1 .. Len(s)
  OBVIOUS
<1>2. Along(w, s) = Along(w, t)
  BY <1>1 DEF Along
<1> QED BY <1>2

\* What weighs nothing adds up to nothing.
LEMMA AlongZero ==
  ASSUME NEW E, NEW w \in [E -> Int], NEW s \in Seq(E), \A i \in 1 .. Len(s) : w[s[i]] = 0
  PROVE  Sum(Along(w, s)) = 0
<1>1. /\ Along(w, s) \in Seq(Int) /\ Len(Along(w, s)) = Len(s)
      /\ \A i \in 1 .. Len(s) : Along(w, s)[i] = w[s[i]]
  BY AlongSeq
<1> QED BY <1>1, SumZero

\* What weighs something adds up to a number.
LEMMA AlongInt ==
  ASSUME NEW E, NEW w \in [E -> Int], NEW s \in Seq(E)
  PROVE  Sum(Along(w, s)) \in Int
BY AlongSeq, SumInt

\* Five sequences one after the other.
FiveAlong(w, s1, s2, s3, s4, s5) ==
  Sum(Along(w, s1 \o s2 \o s3 \o s4 \o s5)) =
    Sum(Along(w, s1)) + Sum(Along(w, s2)) + Sum(Along(w, s3)) + Sum(Along(w, s4))
      + Sum(Along(w, s5))

\* Five lists after each other weigh what they weigh together.
LEMMA AlongFive ==
  ASSUME NEW E, NEW w \in [E -> Int], NEW s1 \in Seq(E), NEW s2 \in Seq(E), NEW s3 \in Seq(E),
         NEW s4 \in Seq(E), NEW s5 \in Seq(E)
  PROVE  FiveAlong(w, s1, s2, s3, s4, s5)
<1>1. s1 \o s2 \in Seq(E) /\ Sum(Along(w, s1 \o s2)) = Sum(Along(w, s1)) + Sum(Along(w, s2))
  <2>1. s1 \o s2 \in Seq(E)
    OBVIOUS
  <2> QED BY <2>1, AlongConcat
<1>2. /\ s1 \o s2 \o s3 \in Seq(E)
      /\ Sum(Along(w, s1 \o s2 \o s3)) = Sum(Along(w, s1 \o s2)) + Sum(Along(w, s3))
  <2> DEFINE u == s1 \o s2
  <2> HIDE DEF u
  <2>1. u \in Seq(E) /\ u \o s3 \in Seq(E)
    BY <1>1 DEF u
  <2>2. Sum(Along(w, u \o s3)) = Sum(Along(w, u)) + Sum(Along(w, s3))
    BY <2>1, AlongConcat
  <2> QED BY <2>1, <2>2 DEF u
<1>3. /\ s1 \o s2 \o s3 \o s4 \in Seq(E)
      /\ Sum(Along(w, s1 \o s2 \o s3 \o s4)) = Sum(Along(w, s1 \o s2 \o s3)) + Sum(Along(w, s4))
  <2> DEFINE u == s1 \o s2 \o s3
  <2> HIDE DEF u
  <2>1. u \in Seq(E) /\ u \o s4 \in Seq(E)
    BY <1>2 DEF u
  <2>2. Sum(Along(w, u \o s4)) = Sum(Along(w, u)) + Sum(Along(w, s4))
    BY <2>1, AlongConcat
  <2> QED BY <2>1, <2>2 DEF u
<1>4. Sum(Along(w, s1 \o s2 \o s3 \o s4 \o s5)) = Sum(Along(w, s1 \o s2 \o s3 \o s4)) + Sum(Along(w, s5))
  <2> DEFINE u == s1 \o s2 \o s3 \o s4
  <2> HIDE DEF u
  <2>1. u \in Seq(E)
    BY <1>3 DEF u
  <2>2. Sum(Along(w, u \o s5)) = Sum(Along(w, u)) + Sum(Along(w, s5))
    BY <2>1, AlongConcat
  <2> QED BY <2>2 DEF u
<1> QED BY <1>1, <1>2, <1>3, <1>4 DEF FiveAlong

\* The parts of the items of a vehicle.
HertzExtras(va, equips, params, c) ==
  [i \in DOMAIN equips |-> Hertz!ParseExtra(equips[i], HertzTax(va, params, c).percent)]

HertzFees(va, params, c) == Hertz!Fees(va.fees, params, c, va.paymentRules)

\* The five lists that a vehicle of Hertz has, and what is added to its price.
LEMMA HertzParts ==
  ASSUME NEW references, NEW tokens, NEW va \in Hertz!VehAvail(references, tokens),
         NEW equips \in Seq(Hertz!PricedEquip), NEW params, params.rentalDays \in Int,
         NEW c
  PROVE  /\ HertzTax(va, params, c).percent \in Int
         /\ HertzTax(va, params, c).items \in Seq(ExtraOrFee)
         /\ HertzExtras(va, equips, params, c) \in Seq(ExtraOrFee)
         /\ Hertz!Charges(va.charges) \in Seq(ExtraOrFee)
         /\ HertzFees(va, params, c) \in Seq(ExtraOrFee)
         /\ HertzCoverages(va, params, c).items \in Seq(ExtraOrFee)
         /\ HertzCoverages(va, params, c).added \in Int
         /\ HertzBase(va, params) \in OrNone(Int)
<1> DEFINE tax == HertzTax(va, params, c)
<1>1. tax \in [percent : Int, items : Seq(ExtraOrFee), inPrice : BOOLEAN]
  BY VehAvailFields, TaxChargeType DEF HertzTax
<1> HIDE DEF tax
<1>2. tax.percent \in Int /\ tax.items \in Seq(ExtraOrFee)
  BY <1>1
<1>3. HertzExtras(va, equips, params, c) \in Seq(ExtraOrFee)
  BY <1>2, ExtrasType DEF HertzExtras, tax
<1>4. Hertz!Charges(va.charges) \in Seq(ExtraOrFee) /\ HertzFees(va, params, c) \in Seq(ExtraOrFee)
  BY VehAvailFields, ChargesType, FeesType DEF HertzFees
<1>5. /\ HertzCoverages(va, params, c).items \in Seq(ExtraOrFee)
      /\ HertzCoverages(va, params, c).added \in Int
  BY <1>2, VehAvailFields, CoveragesType DEF HertzCoverages, tax
<1>6. HertzBase(va, params) \in OrNone(Int)
  BY VehAvailFields, HertzPrice DEF HertzBase
<1> QED BY <1>2, <1>3, <1>4, <1>5, <1>6 DEF tax

\* They weigh what they weigh together.
LEMMA HertzItemsAlong ==
  ASSUME NEW references, NEW tokens, NEW va \in Hertz!VehAvail(references, tokens),
         NEW equips \in Seq(Hertz!PricedEquip), NEW params, params.rentalDays \in Int,
         NEW c, NEW w \in [ExtraOrFee -> Int]
  PROVE  Sum(Along(w, HertzItems(va, equips, params, c))) =
           Sum(Along(w, HertzTax(va, params, c).items))
             + Sum(Along(w, HertzExtras(va, equips, params, c)))
             + Sum(Along(w, Hertz!Charges(va.charges)))
             + Sum(Along(w, HertzFees(va, params, c)))
             + Sum(Along(w, HertzCoverages(va, params, c).items))
<1>1. HertzItems(va, equips, params, c) =
        HertzTax(va, params, c).items \o HertzExtras(va, equips, params, c)
          \o Hertz!Charges(va.charges) \o HertzFees(va, params, c)
          \o HertzCoverages(va, params, c).items
  BY DEF HertzItems, HertzExtras, HertzFees
<1> DEFINE s1 == HertzTax(va, params, c).items
           s2 == HertzExtras(va, equips, params, c)
           s3 == Hertz!Charges(va.charges)
           s4 == HertzFees(va, params, c)
           s5 == HertzCoverages(va, params, c).items
           E == ExtraOrFee
<1>2. s1 \in Seq(E) /\ s2 \in Seq(E) /\ s3 \in Seq(E) /\ s4 \in Seq(E) /\ s5 \in Seq(E)
  BY HertzParts
<1>3. w \in [E -> Int] /\ HertzItems(va, equips, params, c) = s1 \o s2 \o s3 \o s4 \o s5
  BY <1>1
<1> HIDE DEF s1, s2, s3, s4, s5, E
<1>4. FiveAlong(w, s1, s2, s3, s4, s5)
  BY <1>2, <1>3, AlongFive
<1> QED BY <1>3, <1>4 DEF FiveAlong, s1, s2, s3, s4, s5

\* What a customer pays for a vehicle of Hertz.
LEMMA HertzTotal ==
  ASSUME NEW references, NEW tokens, NEW va \in Hertz!VehAvail(references, tokens),
         NEW equips \in Seq(Hertz!PricedEquip), NEW params, params.rentalDays \in Int,
         NEW c, HertzBase(va, params) # None
  PROVE  LET v == Hertz!ParseVehicle(va, equips, params, c)
             items == HertzItems(va, equips, params, c)
         IN  /\ Total(v) = HertzShown(va, params, c) + Sum(Along(OpenWeight, items))
             /\ AmountsOf(v.extrasAndFees, LAMBDA e : e.type = "VCT" /\ e.mandatory /\ e.includedInRate)
                  = Sum(Along(IncludedWeight, items))
<1> DEFINE v == Hertz!ParseVehicle(va, equips, params, c)
           items == HertzItems(va, equips, params, c)
<1>1. items \in Seq(ExtraOrFee)
  BY HertzPriceType
<1>2. v.extrasAndFees = items /\ v.price = HertzShown(va, params, c)
  BY HertzVehicle DEF VehicleOf
<1> HIDE DEF v, items
<1>3. /\ Total(v) = v.price + Sum(Along(OpenWeight, v.extrasAndFees))
      /\ AmountsOf(v.extrasAndFees, LAMBDA e : e.type = "VCT" /\ e.mandatory /\ e.includedInRate)
           = Sum(Along(IncludedWeight, v.extrasAndFees))
  BY <1>1, <1>2, TotalAlong
<1> QED BY <1>2, <1>3 DEF v, items

\* Configurations that agree on what a coverage costs and whether it is included, and
\* on where fees and tax are paid and included.
SameCoverages(c, d) ==
  /\ c.payNowCoverages = d.payNowCoverages /\ c.addTaxToCoverages = d.addTaxToCoverages
  /\ c.taxExclCoverageCountries = d.taxExclCoverageCountries

SameCharges(c, d) ==
  /\ c.feePayableLocally = d.feePayableLocally /\ c.fpPayFeesLocally = d.fpPayFeesLocally
  /\ c.fpPaynowVehiclePriceWithTax = d.fpPaynowVehiclePriceWithTax

\* A mandatory coverage is in the price or beside it.
CoverageMoves(e, f) ==
  /\ e.item \in ExtraOrFee /\ f.item \in ExtraOrFee /\ ~f.added
  /\ OpenWeight[e.item] = 0
  /\ (IF e.added THEN e.item.amount ELSE 0) = OpenWeight[f.item] + IncludedWeight[f.item]

\* A mandatory coverage is in the price or beside it, by includeCoveragesInRate.
LEMMA CoverageMoved ==
  ASSUME NEW cov \in Hertz!PricedCoverage, NEW percent \in Int, NEW rules,
         NEW params, NEW c, NEW d, SameCoverages(c, d),
         c.includeCoveragesInRate = TRUE, d.includeCoveragesInRate = FALSE,
         Hertz!CoveragePrice(cov, params) \in Int
  PROVE  CoverageMoves(Hertz!VehicleCoverage(cov, percent, rules, params, c),
                       Hertz!VehicleCoverage(cov, percent, rules, params, d))
<1> DEFINE e == Hertz!VehicleCoverage(cov, percent, rules, params, c)
           f == Hertz!VehicleCoverage(cov, percent, rules, params, d)
           how == Hertz!WhichCoverageIncludedType(cov, rules, params, d)
           price == Hertz!CoveragePrice(cov, params)
           mandatory == cov.includedInRate \/ cov.required \/ cov.coverageRequired
           amount == IF Hertz!IsTaxed(cov, params, d) THEN Hertz!Taxed(price, percent) ELSE price
<1>1. e \in CoverageItem /\ f \in CoverageItem
  BY CoverageItemType
<1>2. /\ Hertz!WhichCoverageIncludedType(cov, rules, params, c) = how
      /\ Hertz!IsTaxed(cov, params, c) <=> Hertz!IsTaxed(cov, params, d)
  BY DEF Hertz!WhichCoverageIncludedType, Hertz!IsTaxed, SameCoverages
<1>3. /\ e.added = mandatory /\ f.added = FALSE
      /\ e.item.amount = amount /\ f.item.amount = amount
      /\ e.item.mandatory = mandatory /\ f.item.mandatory = mandatory
      /\ e.item.type = "VCT" /\ f.item.type = "VCT"
      /\ e.item.includedInRate = (how = "included" \/ mandatory)
      /\ f.item.includedInRate = (how = "included")
  <2> HIDE DEF how, price
  <2>1. /\ e = [item |-> Hertz!Item("VCT", cov.type, amount, how = "included" \/ mandatory,
                                    how = "notIncluded", mandatory),
                added |-> mandatory]
        /\ f = [item |-> Hertz!Item("VCT", cov.type, amount, how = "included",
                                    how = "notIncluded", mandatory),
                added |-> FALSE]
    BY <1>2 DEF Hertz!VehicleCoverage, how, price
  <2> HIDE DEF e, f, amount, mandatory
  <2> QED BY <2>1 DEF Hertz!Item
<1> HIDE DEF e, f, how, amount, mandatory
<1>4. e.item \in ExtraOrFee /\ f.item \in ExtraOrFee
  BY <1>1 DEF CoverageItem
<1>5. amount \in Int
  BY <1>3, <1>4 DEF ExtraOrFee
<1>6. mandatory \in BOOLEAN
  BY DEF mandatory
<1>7. /\ OpenWeight[e.item] = 0
      /\ OpenWeight[f.item] = (IF mandatory /\ how # "included" THEN amount ELSE 0)
      /\ IncludedWeight[f.item] = (IF mandatory /\ how = "included" THEN amount ELSE 0)
  <2> HIDE DEF ExtraOrFee
  <2>1. /\ OpenWeight[e.item] =
             IF e.item.mandatory /\ ~e.item.includedInRate THEN e.item.amount ELSE 0
        /\ OpenWeight[f.item] =
             IF f.item.mandatory /\ ~f.item.includedInRate THEN f.item.amount ELSE 0
        /\ IncludedWeight[f.item] =
             IF f.item.type = "VCT" /\ f.item.mandatory /\ f.item.includedInRate
             THEN f.item.amount ELSE 0
    BY <1>4 DEF OpenWeight, IncludedWeight
  <2> QED BY <1>3, <2>1
<1>8. (IF e.added THEN e.item.amount ELSE 0) = OpenWeight[f.item] + IncludedWeight[f.item]
  <2>1. (IF e.added THEN e.item.amount ELSE 0) = (IF mandatory THEN amount ELSE 0)
    BY <1>3
  <2> QED BY <1>5, <1>7, <2>1
<1>9. ~f.added
  BY <1>3
<1>10. CoverageMoves(e, f)
  BY <1>4, <1>7, <1>8, <1>9 DEF CoverageMoves
<1> QED BY <1>10 DEF e, f

\* The coverages of a vehicle: all that are mandatory in the price, or beside it those that
\* are not included.
InOrBeside(all, beside) ==
  /\ all.added = Sum(Along(OpenWeight, beside.items)) + Sum(Along(IncludedWeight, beside.items))
  /\ Sum(Along(OpenWeight, all.items)) = 0 /\ beside.added = 0

\* And so are all of them: what is moved is what was open and what had been
\* included.
LEMMA CoveragesMoved ==
  ASSUME NEW coverages \in Seq(Hertz!PricedCoverage), NEW percent \in Int, NEW rules,
         NEW params, params.rentalDays \in Int, NEW c, NEW d, SameCoverages(c, d),
         c.includeCoveragesInRate = TRUE, d.includeCoveragesInRate = FALSE
  PROVE  InOrBeside(Hertz!VehicleCoverages(coverages, percent, rules, params, c),
                    Hertz!VehicleCoverages(coverages, percent, rules, params, d))
<1> DEFINE all == Hertz!VehicleCoverages(coverages, percent, rules, params, c)
           beside == Hertz!VehicleCoverages(coverages, percent, rules, params, d)
           es == CoverageItems(coverages, percent, rules, params, c)
           fs == CoverageItems(coverages, percent, rules, params, d)
           F == {cov \in Hertz!PricedCoverage : Hertz!CoveragePrice(cov, params) \in Int}
           I == {i \in DOMAIN coverages : Hertz!CoveragePrice(coverages[i], params) # None}
           priced == Only(coverages, I)
           added == [i \in DOMAIN es |-> IF es[i].added THEN es[i].item.amount ELSE 0]
           none == [i \in DOMAIN fs |-> IF fs[i].added THEN fs[i].item.amount ELSE 0]
           eItems == [i \in DOMAIN es |-> es[i].item]
           fItems == [i \in DOMAIN fs |-> fs[i].item]
<1>1. /\ es \in Seq(CoverageItem) /\ fs \in Seq(CoverageItem)
      /\ all = [items |-> eItems, added |-> Sum(added)]
      /\ beside = [items |-> fItems, added |-> Sum(none)]
      /\ all.items \in Seq(ExtraOrFee) /\ beside.items \in Seq(ExtraOrFee)
  BY CoveragesType
<1>2. \A i \in DOMAIN coverages \cap I : coverages[i] \in F
  <2> SUFFICES ASSUME NEW i \in DOMAIN coverages, i \in I PROVE coverages[i] \in F
    BY Zenon
  <2>1. coverages[i] \in Hertz!PricedCoverage
    OBVIOUS
  <2>2. Hertz!CoveragePrice(coverages[i], params) \in OrNone(Int)
    BY <2>1, CoveragePriceType
  <2> QED BY <2>1, <2>2 DEF OrNone
<1>3. priced \in Seq(F)
  <2> HIDE DEF F, I, priced
  <2> QED BY <1>2, OnlyIn DEF priced
<1>4. /\ es = [i \in DOMAIN priced |-> Hertz!VehicleCoverage(priced[i], percent, rules, params, c)]
      /\ fs = [i \in DOMAIN priced |-> Hertz!VehicleCoverage(priced[i], percent, rules, params, d)]
  BY DEF CoverageItems
<1> HIDE DEF I, priced, es, fs, all, beside
<1>5. DOMAIN es = DOMAIN priced /\ DOMAIN fs = DOMAIN priced /\ DOMAIN priced = 1 .. Len(priced)
      /\ Len(priced) \in Nat
  <2> HIDE DEF F
  <2> QED BY <1>3, <1>4
<1>6. \A i \in DOMAIN priced : CoverageMoves(es[i], fs[i])
  <2> SUFFICES ASSUME NEW i \in DOMAIN priced PROVE CoverageMoves(es[i], fs[i])
    OBVIOUS
  <2>1. priced[i] \in F
    <3> HIDE DEF F
    <3> QED BY <1>3
  <2> QED BY <1>4, <2>1, CoverageMoved
<1>7. eItems \in Seq(ExtraOrFee) /\ fItems \in Seq(ExtraOrFee)
  BY <1>1
<1>8. /\ eItems = [i \in DOMAIN priced |-> es[i].item] /\ fItems = [i \in DOMAIN priced |-> fs[i].item]
      /\ added = [i \in DOMAIN priced |-> IF es[i].added THEN es[i].item.amount ELSE 0]
      /\ none = [i \in DOMAIN priced |-> IF fs[i].added THEN fs[i].item.amount ELSE 0]
  BY <1>5
<1> HIDE DEF added, none, eItems, fItems, F
<1> DEFINE x == Along(OpenWeight, eItems)
           y == Along(OpenWeight, fItems)
           z == Along(IncludedWeight, fItems)
<1>9. /\ Len(eItems) = Len(priced) /\ Len(fItems) = Len(priced)
      /\ DOMAIN eItems = 1 .. Len(priced) /\ DOMAIN fItems = 1 .. Len(priced)
  <2> HIDE DEF ExtraOrFee
  <2> QED BY <1>5, <1>7, <1>8
<1>10. y \in Seq(Int) /\ z \in Seq(Int) /\ Len(y) = Len(priced) /\ Len(z) = Len(priced)
  BY <1>7, <1>9, AlongSeq, WeightsType
<1>11. \A i \in 1 .. Len(priced) :
         /\ OpenWeight[eItems[i]] = 0 /\ none[i] = 0 /\ added[i] = y[i] + z[i]
         /\ added[i] \in Int
  <2> SUFFICES ASSUME NEW i \in 1 .. Len(priced)
               PROVE  /\ OpenWeight[eItems[i]] = 0 /\ none[i] = 0 /\ added[i] = y[i] + z[i]
                      /\ added[i] \in Int
    OBVIOUS
  <2>1. /\ eItems[i] = es[i].item /\ fItems[i] = fs[i].item
        /\ added[i] = (IF es[i].added THEN es[i].item.amount ELSE 0)
        /\ none[i] = (IF fs[i].added THEN fs[i].item.amount ELSE 0)
        /\ CoverageMoves(es[i], fs[i])
    BY <1>5, <1>6, <1>8
  <2>2. y[i] = OpenWeight[fItems[i]] /\ z[i] = IncludedWeight[fItems[i]]
    BY <1>9 DEF Along
  <2>3. y[i] \in Int /\ z[i] \in Int
    BY <1>10
  <2> HIDE DEF y, z
  <2> QED BY <2>1, <2>2, <2>3 DEF CoverageMoves
<1>12. /\ added \in Seq(Int) /\ none \in Seq(Int)
       /\ Len(added) = Len(priced) /\ Len(none) = Len(priced)
  <2>1. added = [i \in DOMAIN priced |-> added[i]] /\ none = [i \in DOMAIN priced |-> none[i]]
    BY <1>8
  <2>2. \A i \in DOMAIN priced : added[i] \in Int /\ none[i] \in Int
    BY <1>5, <1>11
  <2> QED BY <1>3, <2>1, <2>2, SeqAlong
<1> HIDE DEF x, y, z
<1>13. Sum(added) = Sum(y) + Sum(z)
  BY <1>10, <1>11, <1>12, SumAdd
<1>14. Sum(none) = 0
  BY <1>11, <1>12, SumZero
<1>15. Sum(x) = 0
  <2> DEFINE E == ExtraOrFee
             w == OpenWeight
  <2>1. /\ w \in [E -> Int] /\ eItems \in Seq(E) /\ \A i \in 1 .. Len(eItems) : w[eItems[i]] = 0
        /\ x = Along(w, eItems)
    BY <1>7, <1>9, <1>11, WeightsType DEF x
  <2> HIDE DEF E, w
  <2> QED BY <2>1, AlongZero
<1>16. /\ all.items = eItems /\ all.added = Sum(added)
       /\ beside.items = fItems /\ beside.added = Sum(none)
  BY <1>1
<1> QED BY <1>13, <1>14, <1>15, <1>16 DEF x, y, z, all, beside, InOrBeside

\* Tax and fees do not depend on how coverages are shown.
LEMMA ChargesSame ==
  ASSUME NEW c, NEW d, SameCharges(c, d), NEW va, NEW params
  PROVE  HertzTax(va, params, c) = HertzTax(va, params, d) /\ HertzFees(va, params, c) = HertzFees(va, params, d)
<1> DEFINE rules == va.paymentRules
<1>1. /\ Hertz!TaxInPrice(params, c, rules) <=> Hertz!TaxInPrice(params, d, rules)
      /\ Hertz!TaxAsItem(params, c, rules) <=> Hertz!TaxAsItem(params, d, rules)
  BY DEF Hertz!TaxInPrice, Hertz!TaxAsItem, SameCharges
<1>2. /\ Hertz!TaxInPrice(params, c, rules) \in BOOLEAN /\ Hertz!TaxInPrice(params, d, rules) \in BOOLEAN
  BY DEF Hertz!TaxInPrice, Hertz!FullWithoutPaymentRules, SameCharges
<1>3. HertzTax(va, params, c) = HertzTax(va, params, d)
  BY <1>1, <1>2 DEF HertzTax, Hertz!TaxCharge, SameCharges
<1>4. \A fee : Hertz!FeeIncludedType(fee, params, c, rules) = Hertz!FeeIncludedType(fee, params, d, rules)
  <2> SUFFICES ASSUME NEW fee
               PROVE  Hertz!FeeIncludedType(fee, params, c, rules) = Hertz!FeeIncludedType(fee, params, d, rules)
    OBVIOUS
  <2>1. Hertz!PayableLocally(fee, params, c) <=> Hertz!PayableLocally(fee, params, d)
    BY DEF Hertz!PayableLocally, SameCharges
  <2>2. c.fpPayFeesLocally = d.fpPayFeesLocally
    BY DEF SameCharges
  <2> QED BY <2>1, <2>2 DEF Hertz!FeeIncludedType
<1>5. HertzFees(va, params, c) = HertzFees(va, params, d)
  BY <1>4 DEF HertzFees, Hertz!Fees
<1> QED BY <1>3, <1>5

\* Of the items only the coverages are coverages.
LEMMA NotCoverages ==
  ASSUME NEW references, NEW tokens, NEW va \in Hertz!VehAvail(references, tokens),
         NEW equips \in Seq(Hertz!PricedEquip), NEW params, params.rentalDays \in Int, NEW c
  PROVE  /\ Sum(Along(IncludedWeight, HertzTax(va, params, c).items)) = 0
         /\ Sum(Along(IncludedWeight, HertzExtras(va, equips, params, c))) = 0
         /\ Sum(Along(IncludedWeight, Hertz!Charges(va.charges))) = 0
         /\ Sum(Along(IncludedWeight, HertzFees(va, params, c))) = 0
<1> DEFINE E == ExtraOrFee
<1>1. IncludedWeight \in [E -> Int] /\ \A e \in E : e.type # "VCT" => IncludedWeight[e] = 0
  <2> HIDE DEF ExtraOrFee
  <2> QED BY WeightsType DEF IncludedWeight
<1>2. /\ HertzTax(va, params, c).items \in Seq(E) /\ HertzExtras(va, equips, params, c) \in Seq(E)
      /\ Hertz!Charges(va.charges) \in Seq(E) /\ HertzFees(va, params, c) \in Seq(E)
  BY HertzParts
<1> HIDE DEF E
<1>3. ASSUME NEW s \in Seq(E), \A i \in DOMAIN s : s[i].type # "VCT"
      PROVE  Sum(Along(IncludedWeight, s)) = 0
  <2>1. \A i \in 1 .. Len(s) : s[i] \in E /\ IncludedWeight[s[i]] = 0
    BY <1>1, <1>3
  <2> QED BY <1>1, <2>1, AlongZero
<1>4. \A code, amount, included, local, mandatory :
        /\ Hertz!Item("VCP", code, amount, included, local, mandatory).type # "VCT"
        /\ Hertz!Item("EQP", code, amount, included, local, mandatory).type # "VCT"
  BY DEF Hertz!Item
<1>5. \A i \in DOMAIN HertzTax(va, params, c).items : HertzTax(va, params, c).items[i].type # "VCT"
  <2> DEFINE items == HertzTax(va, params, c).items
  <2>1. PICK item : item.type # "VCT" /\ (items = <<>> \/ items = <<item>>)
    BY <1>4 DEF HertzTax, Hertz!TaxCharge
  <2> HIDE DEF items
  <2> QED BY <2>1 DEF items
<1>6. \A i \in DOMAIN HertzExtras(va, equips, params, c) :
        HertzExtras(va, equips, params, c)[i].type # "VCT"
  BY <1>4 DEF HertzExtras, Hertz!ParseExtra
<1>7. \A i \in DOMAIN Hertz!Charges(va.charges) : Hertz!Charges(va.charges)[i].type # "VCT"
  BY <1>4 DEF Hertz!Charges
<1>8. \A i \in DOMAIN HertzFees(va, params, c) : HertzFees(va, params, c)[i].type # "VCT"
  BY DEF HertzFees, Hertz!Fees, Hertz!Item
<1> QED BY <1>2, <1>3, <1>5, <1>6, <1>7, <1>8

\* Coverages in the price or beside it, for one vehicle.
OnceFor(all, beside) ==
  Total(all) = Total(beside) + AmountsOf(beside.extrasAndFees,
                  LAMBDA e : e.type = "VCT" /\ e.mandatory /\ e.includedInRate)

\* A vehicle, its mandatory coverages listed or in the price.
LEMMA VehicleOnce ==
  ASSUME NEW references, NEW tokens, NEW va \in Hertz!VehAvail(references, tokens),
         NEW equips \in Seq(Hertz!PricedEquip), NEW params, params.rentalDays \in Int,
         NEW c, NEW d, SameCoverages(c, d), SameCharges(c, d),
         c.includeCoveragesInRate = TRUE, d.includeCoveragesInRate = FALSE,
         HertzBase(va, params) # None
  PROVE  OnceFor(Hertz!ParseVehicle(va, equips, params, c), Hertz!ParseVehicle(va, equips, params, d))
<1> DEFINE tax == HertzTax(va, params, c)
           base == IF tax.inPrice THEN Hertz!Taxed(HertzBase(va, params), tax.percent)
                   ELSE HertzBase(va, params)
           open(s) == Sum(Along(OpenWeight, s))
           included(s) == Sum(Along(IncludedWeight, s))
           extras == HertzExtras(va, equips, params, c)
           charges == Hertz!Charges(va.charges)
           fees == HertzFees(va, params, c)
           all == HertzCoverages(va, params, c)
           beside == HertzCoverages(va, params, d)
           A == Hertz!ParseVehicle(va, equips, params, c)
           B == Hertz!ParseVehicle(va, equips, params, d)
<1>1. /\ HertzTax(va, params, d) = tax /\ HertzFees(va, params, d) = fees
      /\ HertzExtras(va, equips, params, d) = extras
  BY ChargesSame DEF HertzExtras
<1>2. /\ tax.percent \in Int /\ tax.items \in Seq(ExtraOrFee) /\ extras \in Seq(ExtraOrFee)
      /\ charges \in Seq(ExtraOrFee) /\ fees \in Seq(ExtraOrFee)
      /\ all.items \in Seq(ExtraOrFee) /\ beside.items \in Seq(ExtraOrFee)
      /\ HertzBase(va, params) \in Int
  BY HertzParts DEF OrNone
<1>3. base \in Int
  <2> HIDE DEF tax
  <2> QED BY <1>2, TaxedInt
<1>4. /\ all.added = open(beside.items) + included(beside.items)
      /\ open(all.items) = 0 /\ beside.added = 0
  <2> HIDE DEF tax
  <2>1. /\ all = Hertz!VehicleCoverages(va.coverages, tax.percent, va.paymentRules, params, c)
        /\ beside = Hertz!VehicleCoverages(va.coverages, tax.percent, va.paymentRules, params, d)
    BY <1>1 DEF HertzCoverages, tax
  <2>2. va.coverages \in Seq(Hertz!PricedCoverage)
    BY VehAvailFields
  <2> HIDE DEF all, beside
  <2>3. InOrBeside(all, beside)
    BY <1>2, <2>1, <2>2, CoveragesMoved
  <2> QED BY <2>3 DEF InOrBeside
<1>5. /\ HertzShown(va, params, c) = base + all.added
      /\ HertzShown(va, params, d) = base + beside.added
  BY <1>1 DEF HertzShown
<1>6. /\ open(HertzItems(va, equips, params, c)) =
           open(tax.items) + open(extras) + open(charges) + open(fees) + open(all.items)
      /\ open(HertzItems(va, equips, params, d)) =
           open(tax.items) + open(extras) + open(charges) + open(fees) + open(beside.items)
      /\ included(HertzItems(va, equips, params, d)) =
           included(tax.items) + included(extras) + included(charges) + included(fees)
             + included(beside.items)
  BY <1>1, HertzItemsAlong, WeightsType
<1>7. /\ included(tax.items) = 0 /\ included(extras) = 0
      /\ included(charges) = 0 /\ included(fees) = 0
  BY NotCoverages
<1>8. /\ open(tax.items) \in Int /\ open(extras) \in Int /\ open(charges) \in Int
      /\ open(fees) \in Int /\ open(beside.items) \in Int /\ included(beside.items) \in Int
  <2> HIDE DEF tax, extras, charges, fees, beside
  <2> QED BY <1>2, AlongInt, WeightsType
<1>9. /\ Total(A) = HertzShown(va, params, c) + open(HertzItems(va, equips, params, c))
      /\ Total(B) = HertzShown(va, params, d) + open(HertzItems(va, equips, params, d))
      /\ AmountsOf(B.extrasAndFees, LAMBDA e : e.type = "VCT" /\ e.mandatory /\ e.includedInRate)
           = included(HertzItems(va, equips, params, d))
  BY HertzTotal
<1> HIDE DEF tax, base, open, included, extras, charges, fees, all, beside, A, B
<1>10. /\ Total(A) = (base + (open(beside.items) + included(beside.items)))
                      + (open(tax.items) + open(extras) + open(charges) + open(fees) + 0)
       /\ Total(B) = (base + 0)
                      + (open(tax.items) + open(extras) + open(charges) + open(fees)
                           + open(beside.items))
       /\ AmountsOf(B.extrasAndFees, LAMBDA e : e.type = "VCT" /\ e.mandatory /\ e.includedInRate)
            = 0 + 0 + 0 + 0 + included(beside.items)
  BY <1>4, <1>5, <1>6, <1>7, <1>9
<1>11. Total(A) = Total(B) + included(beside.items)
       /\ AmountsOf(B.extrasAndFees, LAMBDA e : e.type = "VCT" /\ e.mandatory /\ e.includedInRate)
            = included(beside.items)
  BY <1>3, <1>8, <1>10
<1>12. OnceFor(A, B)
  BY <1>11 DEF OnceFor
<1> QED BY <1>12 DEF A, B

\* What coverages cost depends on the configuration of coverages alone.
LEMMA CoveragesSame ==
  ASSUME NEW c, NEW d, SameCoverages(c, d), c.includeCoveragesInRate = d.includeCoveragesInRate,
         NEW coverages, NEW percent, NEW rules, NEW params
  PROVE  Hertz!VehicleCoverages(coverages, percent, rules, params, c) =
           Hertz!VehicleCoverages(coverages, percent, rules, params, d)
<1>1. \A cov : Hertz!VehicleCoverage(cov, percent, rules, params, c) =
                 Hertz!VehicleCoverage(cov, percent, rules, params, d)
  <2> SUFFICES ASSUME NEW cov
               PROVE  Hertz!VehicleCoverage(cov, percent, rules, params, c) =
                        Hertz!VehicleCoverage(cov, percent, rules, params, d)
    OBVIOUS
  <2>1. Hertz!IsTaxed(cov, params, c) <=> Hertz!IsTaxed(cov, params, d)
    BY DEF Hertz!IsTaxed, SameCoverages
  <2>2. Hertz!WhichCoverageIncludedType(cov, rules, params, c) =
          Hertz!WhichCoverageIncludedType(cov, rules, params, d)
    BY DEF Hertz!WhichCoverageIncludedType, SameCoverages
  <2> QED BY <2>1, <2>2 DEF Hertz!VehicleCoverage
<1> DEFINE priced == Hertz!Only(coverages, {i \in DOMAIN coverages :
                                   Hertz!CoveragePrice(coverages[i], params) # None})
           es == [i \in DOMAIN priced |-> Hertz!VehicleCoverage(priced[i], percent, rules, params, c)]
           fs == [i \in DOMAIN priced |-> Hertz!VehicleCoverage(priced[i], percent, rules, params, d)]
           all(done) ==
             [items |-> [i \in DOMAIN done |-> done[i].item],
              added |-> Hertz!Sum([i \in DOMAIN done |-> IF done[i].added THEN done[i].item.amount ELSE 0])]
<1>2. /\ Hertz!VehicleCoverages(coverages, percent, rules, params, c) = all(es)
      /\ Hertz!VehicleCoverages(coverages, percent, rules, params, d) = all(fs)
  BY DEF Hertz!VehicleCoverages
<1>3. es = fs
  <2> HIDE DEF priced
  <2> QED BY <1>1
<1> HIDE DEF es, fs, all
<1> QED BY <1>2, <1>3

\* The price before coverages, and what is open of the tax.
PriceOf(va, params, c) ==
  IF HertzTax(va, params, c).inPrice
  THEN Hertz!Taxed(HertzBase(va, params), HertzTax(va, params, c).percent)
  ELSE HertzBase(va, params)

OpenOf(items) == Sum(Along(OpenWeight, items))

SameCost(va, params, c, d) ==
  /\ SameCoverages(c, d) /\ c.includeCoveragesInRate = d.includeCoveragesInRate
  /\ HertzTax(va, params, c).percent = HertzTax(va, params, d).percent
  /\ OpenOf(HertzFees(va, params, c)) = OpenOf(HertzFees(va, params, d))
  /\ PriceOf(va, params, c) + OpenOf(HertzTax(va, params, c).items) =
       PriceOf(va, params, d) + OpenOf(HertzTax(va, params, d).items)

\* When fees and tax cost the same, so does the vehicle.
LEMMA VehicleSame ==
  ASSUME NEW references, NEW tokens, NEW va \in Hertz!VehAvail(references, tokens),
         NEW equips \in Seq(Hertz!PricedEquip), NEW params, params.rentalDays \in Int,
         NEW c, NEW d, SameCost(va, params, c, d), HertzBase(va, params) # None
  PROVE  Total(Hertz!ParseVehicle(va, equips, params, c)) = Total(Hertz!ParseVehicle(va, equips, params, d))
<1> DEFINE extras == HertzExtras(va, equips, params, c)
           charges == Hertz!Charges(va.charges)
           coverages == HertzCoverages(va, params, c)
           A == Hertz!ParseVehicle(va, equips, params, c)
           B == Hertz!ParseVehicle(va, equips, params, d)
           pC == PriceOf(va, params, c)
           pD == PriceOf(va, params, d)
           tC == OpenOf(HertzTax(va, params, c).items)
           tD == OpenOf(HertzTax(va, params, d).items)
           fees == OpenOf(HertzFees(va, params, c))
           itemsC == HertzItems(va, equips, params, c)
           itemsD == HertzItems(va, equips, params, d)
<1>1. /\ HertzExtras(va, equips, params, d) = extras /\ HertzCoverages(va, params, d) = coverages
      /\ OpenOf(HertzFees(va, params, d)) = fees /\ pC + tC = pD + tD
  BY CoveragesSame DEF SameCost, HertzExtras, HertzCoverages
<1>2. /\ HertzTax(va, params, c).percent \in Int /\ HertzTax(va, params, d).percent \in Int
      /\ HertzTax(va, params, c).items \in Seq(ExtraOrFee)
      /\ HertzTax(va, params, d).items \in Seq(ExtraOrFee)
      /\ extras \in Seq(ExtraOrFee) /\ charges \in Seq(ExtraOrFee)
      /\ HertzFees(va, params, c) \in Seq(ExtraOrFee)
      /\ coverages.items \in Seq(ExtraOrFee) /\ coverages.added \in Int
      /\ HertzBase(va, params) \in Int
  BY HertzParts DEF OrNone
<1>3. pC \in Int /\ pD \in Int
  BY <1>2, TaxedInt DEF PriceOf
<1>4. /\ tC \in Int /\ tD \in Int /\ fees \in Int /\ OpenOf(extras) \in Int
      /\ OpenOf(charges) \in Int /\ OpenOf(coverages.items) \in Int
  <2> HIDE DEF extras, charges, coverages
  <2> QED BY <1>2, AlongInt, WeightsType DEF OpenOf
<1>5. /\ HertzShown(va, params, c) = pC + coverages.added
      /\ HertzShown(va, params, d) = pD + coverages.added
  <2>1. /\ HertzShown(va, params, c) = pC + HertzCoverages(va, params, c).added
        /\ HertzShown(va, params, d) = pD + HertzCoverages(va, params, d).added
    BY DEF HertzShown, PriceOf
  <2> HIDE DEF pC, pD
  <2> QED BY <1>1, <2>1
<1>6. /\ OpenOf(itemsC) = tC + OpenOf(extras) + OpenOf(charges) + fees + OpenOf(coverages.items)
      /\ OpenOf(itemsD) = tD + OpenOf(extras) + OpenOf(charges) + fees + OpenOf(coverages.items)
  BY <1>1, HertzItemsAlong, WeightsType DEF OpenOf
<1>7. /\ Total(A) = HertzShown(va, params, c) + OpenOf(itemsC)
      /\ Total(B) = HertzShown(va, params, d) + OpenOf(itemsD)
  BY HertzTotal DEF OpenOf
<1> HIDE DEF extras, charges, coverages, A, B, pC, pD, tC, tD, fees, itemsC, itemsD
<1>8. /\ Total(A) = (pC + coverages.added)
                      + (tC + OpenOf(extras) + OpenOf(charges) + fees + OpenOf(coverages.items))
      /\ Total(B) = (pD + coverages.added)
                      + (tD + OpenOf(extras) + OpenOf(charges) + fees + OpenOf(coverages.items))
  BY <1>5, <1>6, <1>7
<1>9. Total(A) = Total(B)
  <2>1. coverages.added \in Int /\ pC + tC = pD + tD
    BY <1>1, <1>2
  <2> DEFINE added == coverages.added
             e == OpenOf(extras)
             f == OpenOf(charges)
             g == OpenOf(coverages.items)
  <2>2. /\ added \in Int /\ e \in Int /\ f \in Int /\ g \in Int
        /\ Total(A) = (pC + added) + (tC + e + f + fees + g)
        /\ Total(B) = (pD + added) + (tD + e + f + fees + g)
    BY <1>4, <1>8, <2>1
  <2> HIDE DEF added, e, f, g
  <2> QED BY <1>3, <1>4, <2>1, <2>2
<1> QED BY <1>9 DEF A, B

\* Items that differ in where they are paid alone weigh the same.
LEMMA WhereWeighs ==
  ASSUME NEW e \in ExtraOrFee, NEW f \in ExtraOrFee, e.amount = f.amount,
         e.includedInRate = f.includedInRate, e.mandatory = f.mandatory
  PROVE  OpenWeight[e] = OpenWeight[f]
<1> HIDE DEF ExtraOrFee
<1> QED BY DEF OpenWeight

\* A supplier means the same by the two ways to give a tax.
TaxesMean(va) ==
  \A j \in DOMAIN va.charges : \A k \in DOMAIN va.charges[j].taxes :
    va.charges[j].purpose = Hertz!RentalFee /\ va.charges[j].taxes[k].description = "Tax" =>
      Hertz!Taxed(va.total.amount, va.charges[j].taxes[k].percentage)
        = va.total.amount + va.charges[j].taxes[k].total

\* The tax of the rental fee and its item.
TaxLocal(params, c) == Hertz!IsFullPrepay(params) => c.fpPayFeesLocally

TaxItem(tax, params, c) == Hertz!Item("VCP", Hertz!Tax, tax.total, FALSE, TaxLocal(params, c), TRUE)

TaxOf(va, params, c) ==
  LET taxes == Hertz!RentalTaxes(va.charges)
  IN  IF Hertz!TaxInPrice(params, c, va.paymentRules) \/ Hertz!TaxAsItem(params, c, va.paymentRules)
      THEN Head(taxes) ELSE Last(taxes)

\* The tax of the rental fee, as an item and as a percentage.
LEMMA TaxParts ==
  ASSUME NEW references, NEW tokens, NEW va \in Hertz!VehAvail(references, tokens),
         NEW params, NEW c
  PROVE  LET taxes == Hertz!RentalTaxes(va.charges)
             tax == TaxOf(va, params, c)
             inPrice == Hertz!TaxInPrice(params, c, va.paymentRules)
             asItem == Hertz!TaxAsItem(params, c, va.paymentRules)
         IN  /\ taxes = <<>> => HertzTax(va, params, c) = [percent |-> 0, items |-> <<>>, inPrice |-> FALSE]
             /\ taxes # <<>> =>
                  /\ HertzTax(va, params, c) =
                       [percent |-> tax.percentage,
                        items |-> IF asItem THEN <<TaxItem(tax, params, c)>> ELSE <<>>,
                        inPrice |-> inPrice]
                  /\ tax.total \in Int /\ TaxItem(tax, params, c) \in ExtraOrFee
                  /\ TaxesMean(va) => Hertz!Taxed(va.total.amount, tax.percentage) = va.total.amount + tax.total
<1> DEFINE taxes == Hertz!RentalTaxes(va.charges)
           tax == TaxOf(va, params, c)
           inPrice == Hertz!TaxInPrice(params, c, va.paymentRules)
           asItem == Hertz!TaxAsItem(params, c, va.paymentRules)
           local == TaxLocal(params, c)
<1>1. va.charges \in Seq(Hertz!VehicleCharge)
  BY VehAvailFields
<1>2. /\ taxes \in Seq(Hertz!TaxAmount)
      /\ \A n \in DOMAIN taxes :
           \E j \in DOMAIN va.charges : \E k \in DOMAIN va.charges[j].taxes :
             /\ va.charges[j].purpose = Hertz!RentalFee
             /\ va.charges[j].taxes[k].description = "Tax"
             /\ taxes[n] = va.charges[j].taxes[k]
  BY <1>1, RentalTaxesOf
<1>3. tax = IF inPrice \/ asItem THEN Head(taxes) ELSE Last(taxes)
  BY DEF TaxOf
<1>4. local \in BOOLEAN
  BY DEF TaxLocal, Hertz!IsFullPrepay
<1>5. HertzTax(va, params, c) =
        IF taxes = <<>>
        THEN [percent |-> 0, items |-> <<>>, inPrice |-> FALSE]
        ELSE [percent |-> tax.percentage,
              items |-> IF asItem THEN <<TaxItem(tax, params, c)>> ELSE <<>>,
              inPrice |-> inPrice]
  BY DEF HertzTax, Hertz!TaxCharge, Hertz!Last, Last, TaxOf, TaxItem, TaxLocal
<1> HIDE DEF taxes, tax, inPrice, asItem, local
<1>6. taxes # <<>> => \E n \in DOMAIN taxes : tax = taxes[n]
  <2>1. taxes # <<>> => 1 \in DOMAIN taxes /\ Len(taxes) \in DOMAIN taxes
    BY <1>2
  <2>2. taxes # <<>> => Head(taxes) = taxes[1] /\ Last(taxes) = taxes[Len(taxes)]
    BY <1>2 DEF Last
  <2> QED BY <1>3, <2>1, <2>2
<1>7. taxes # <<>> => tax \in Hertz!TaxAmount
  BY <1>2, <1>6
<1>8. taxes # <<>> => tax.total \in Int
  BY <1>7 DEF Hertz!TaxAmount
<1>9. taxes # <<>> => TaxItem(tax, params, c) \in ExtraOrFee
  <2>1. "VCP" \in ExtraOrFeeType /\ Hertz!Tax \in STRING /\ TRUE \in BOOLEAN /\ FALSE \in BOOLEAN
    BY TextIsText DEF ExtraOrFeeType
  <2>2. TaxItem(tax, params, c) = Hertz!Item("VCP", Hertz!Tax, tax.total, FALSE, local, TRUE)
    BY DEF TaxItem, local
  <2> QED BY <1>4, <1>8, <2>1, <2>2, HertzItemType, Zenon
<1>10. taxes # <<>> /\ TaxesMean(va) =>
         Hertz!Taxed(va.total.amount, tax.percentage) = va.total.amount + tax.total
  BY <1>2, <1>6 DEF TaxesMean
<1> QED BY <1>5, <1>8, <1>9, <1>10 DEF taxes, tax, inPrice, asItem

\* What is open of a list of one, or of none.
LEMMA OpenFew ==
  /\ OpenOf(<<>>) = 0
  /\ \A e \in ExtraOrFee : OpenOf(<<e>>) = OpenWeight[e]
BY AlongFew, WeightsType DEF OpenOf

\* Where fees and tax are paid.
LEMMA WherePaid ==
  ASSUME NEW references, NEW tokens, NEW va \in Hertz!VehAvail(references, tokens),
         NEW params, params.rentalDays \in Int, NEW c, NEW d,
         SameCoverages(c, d), c.includeCoveragesInRate = d.includeCoveragesInRate,
         c.feePayableLocally = d.feePayableLocally,
         c.fpPaynowVehiclePriceWithTax = d.fpPaynowVehiclePriceWithTax
  PROVE  SameCost(va, params, c, d)
<1> DEFINE rules == va.paymentRules
           taxes == Hertz!RentalTaxes(va.charges)
           tax == TaxOf(va, params, c)
<1>1. /\ Hertz!TaxInPrice(params, c, rules) <=> Hertz!TaxInPrice(params, d, rules)
      /\ Hertz!TaxAsItem(params, c, rules) <=> Hertz!TaxAsItem(params, d, rules)
  BY DEF Hertz!TaxInPrice, Hertz!TaxAsItem
<1>2. TaxOf(va, params, d) = tax
  BY <1>1 DEF TaxOf
<1>3. /\ Hertz!TaxInPrice(params, c, rules) \in BOOLEAN /\ Hertz!TaxInPrice(params, d, rules) \in BOOLEAN
  BY DEF Hertz!TaxInPrice, Hertz!FullWithoutPaymentRules
<1> DEFINE inPrice == Hertz!TaxInPrice(params, c, rules)
           asItem == Hertz!TaxAsItem(params, c, rules)
           e == TaxItem(tax, params, c)
           f == TaxItem(tax, params, d)
<1>4. /\ taxes = <<>> => /\ HertzTax(va, params, c) = [percent |-> 0, items |-> <<>>, inPrice |-> FALSE]
                         /\ HertzTax(va, params, d) = [percent |-> 0, items |-> <<>>, inPrice |-> FALSE]
      /\ taxes # <<>> =>
           /\ HertzTax(va, params, c) = [percent |-> tax.percentage,
                                         items |-> IF asItem THEN <<e>> ELSE <<>>, inPrice |-> inPrice]
           /\ HertzTax(va, params, d) = [percent |-> tax.percentage,
                                         items |-> IF asItem THEN <<f>> ELSE <<>>, inPrice |-> inPrice]
           /\ e \in ExtraOrFee /\ f \in ExtraOrFee
  <2>1. Hertz!TaxInPrice(params, d, rules) = inPrice
    BY <1>1, <1>3
  <2> HIDE DEF tax, inPrice, e, f, taxes
  <2> QED BY <1>1, <1>2, <2>1, TaxParts DEF taxes, tax, asItem, inPrice, e, f
<1>5. taxes # <<>> => OpenWeight[e] = OpenWeight[f]
  <2>1. taxes # <<>> => e \in ExtraOrFee /\ f \in ExtraOrFee
    BY <1>4
  <2>2. e.amount = f.amount /\ e.includedInRate = f.includedInRate /\ e.mandatory = f.mandatory
    BY DEF TaxItem, Hertz!Item
  <2> HIDE DEF tax, taxes, e, f
  <2> QED BY <2>1, <2>2, WhereWeighs
<1> HIDE DEF taxes, tax, inPrice, asItem, e, f
<1>6. OpenOf(HertzTax(va, params, c).items) = OpenOf(HertzTax(va, params, d).items)
  BY <1>4, <1>5, OpenFew
<1>7. /\ HertzTax(va, params, c).percent = HertzTax(va, params, d).percent
      /\ PriceOf(va, params, c) = PriceOf(va, params, d)
  BY <1>4 DEF PriceOf
<1>8. OpenOf(HertzFees(va, params, c)) = OpenOf(HertzFees(va, params, d))
  <2> DEFINE hc(fee) == Hertz!FeeIncludedType(fee, params, c, rules)
             hd(fee) == Hertz!FeeIncludedType(fee, params, d, rules)
             later == {"feesNotIncludedPayLocally", "feesUnknown"}
             F == HertzFees(va, params, c)
             G == HertzFees(va, params, d)
             n == Len(va.fees)
  <2>1. \A fee : (hc(fee) = "feesIncluded") <=> (hd(fee) = "feesIncluded")
    <3> SUFFICES ASSUME NEW fee PROVE (hc(fee) = "feesIncluded") <=> (hd(fee) = "feesIncluded")
      OBVIOUS
    <3>1. Hertz!PayableLocally(fee, params, c) <=> Hertz!PayableLocally(fee, params, d)
      BY DEF Hertz!PayableLocally
    <3> QED BY <3>1 DEF Hertz!FeeIncludedType
  <2>2. va.fees \in Seq(Hertz!Fee) /\ F \in Seq(ExtraOrFee) /\ G \in Seq(ExtraOrFee)
    BY VehAvailFields, FeesType DEF HertzFees
  <2>3. /\ F = [i \in DOMAIN va.fees |->
                  Hertz!Item("VCP", va.fees[i].purpose, va.fees[i].amount,
                             hc(va.fees[i]) = "feesIncluded", hc(va.fees[i]) \in later, TRUE)]
        /\ G = [i \in DOMAIN va.fees |->
                  Hertz!Item("VCP", va.fees[i].purpose, va.fees[i].amount,
                             hd(va.fees[i]) = "feesIncluded", hd(va.fees[i]) \in later, TRUE)]
    BY DEF HertzFees, Hertz!Fees
  <2> HIDE DEF F, G, later, hc, hd
  <2>4. /\ Len(F) = n /\ Len(G) = n /\ DOMAIN va.fees = 1 .. n /\ n \in Nat
    <3> HIDE DEF ExtraOrFee
    <3> QED BY <2>2, <2>3
  <2>5. \A i \in 1 .. n : OpenWeight[F[i]] = OpenWeight[G[i]]
    <3> SUFFICES ASSUME NEW i \in 1 .. n PROVE OpenWeight[F[i]] = OpenWeight[G[i]]
      OBVIOUS
    <3> DEFINE fee == va.fees[i]
               included == hc(fee) = "feesIncluded"
               a == hc(fee) \in later
               b == hd(fee) \in later
    <3>1. /\ F[i] = Hertz!Item("VCP", fee.purpose, fee.amount, included, a, TRUE)
          /\ G[i] = Hertz!Item("VCP", fee.purpose, fee.amount, included, b, TRUE)
      <4>1. (hd(fee) = "feesIncluded") = included
        BY <2>1
      <4> QED BY <2>3, <2>4, <4>1
    <3>2. F[i] \in ExtraOrFee /\ G[i] \in ExtraOrFee
      <4> HIDE DEF ExtraOrFee
      <4> QED BY <2>2, <2>4
    <3> HIDE DEF fee, included, a, b
    <3>3. /\ F[i].amount = G[i].amount /\ F[i].includedInRate = G[i].includedInRate
          /\ F[i].mandatory = G[i].mandatory
      BY <3>1 DEF Hertz!Item
    <3> QED BY <3>2, <3>3, WhereWeighs
  <2> DEFINE E == ExtraOrFee
             w == OpenWeight
  <2>6. w \in [E -> Int] /\ F \in Seq(E) /\ G \in Seq(E) /\ Len(F) = Len(G)
        /\ \A i \in 1 .. Len(F) : w[F[i]] = w[G[i]]
    BY <2>2, <2>4, <2>5, WeightsType
  <2> HIDE DEF E, w, n
  <2>7. Sum(Along(w, F)) = Sum(Along(w, G))
    BY <2>6, AlongSame
  <2> QED BY <2>7 DEF w, OpenOf, F, G
<1> QED BY <1>6, <1>7, <1>8 DEF SameCost

\* Whether the tax is in the price or beside it.
LEMMA InPriceOrBeside ==
  ASSUME NEW references, NEW tokens, NEW va \in Hertz!VehAvail(references, tokens),
         NEW params, params.rentalDays \in Int, NEW c, NEW d,
         TaxesMean(va), HertzBase(va, params) # None,
         SameCoverages(c, d), c.includeCoveragesInRate = d.includeCoveragesInRate,
         c.feePayableLocally = d.feePayableLocally, c.fpPayFeesLocally = d.fpPayFeesLocally,
         c.fpPaynowVehiclePriceWithTax = TRUE, d.fpPaynowVehiclePriceWithTax = FALSE
  PROVE  SameCost(va, params, c, d)
<1> DEFINE rules == va.paymentRules
           taxes == Hertz!RentalTaxes(va.charges)
           tax == TaxOf(va, params, c)
           partial == Hertz!IsPartialPayment(params)
           full == Hertz!FullWithoutPaymentRules(params, rules)
           base == HertzBase(va, params)
           e == TaxItem(tax, params, c)
<1>1. /\ Hertz!TaxInPrice(params, c, rules) = full /\ Hertz!TaxInPrice(params, d, rules) = FALSE
      /\ Hertz!TaxAsItem(params, c, rules) = partial
      /\ Hertz!TaxAsItem(params, d, rules) = (partial \/ full)
      /\ full \in BOOLEAN /\ partial \in BOOLEAN
  BY DEF Hertz!TaxInPrice, Hertz!TaxAsItem, Hertz!FullWithoutPaymentRules, Hertz!IsPartialPayment
<1>2. ~(full /\ partial)
  BY DEF Hertz!FullWithoutPaymentRules, Hertz!IsPartialPayment, Hertz!IsFullPrepay
<1>3. full => base = va.total.amount
  BY DEF HertzBase, Hertz!Price, Hertz!FullWithoutPaymentRules, Hertz!IsPrepay
<1>4. base \in Int
  BY VehAvailFields, HertzPrice DEF HertzBase, OrNone
<1>5. TaxOf(va, params, d) = tax
  BY <1>1 DEF TaxOf
<1>6. TaxItem(tax, params, d) = e
  BY DEF TaxItem, TaxLocal
<1>7. /\ taxes = <<>> => /\ HertzTax(va, params, c) = [percent |-> 0, items |-> <<>>, inPrice |-> FALSE]
                         /\ HertzTax(va, params, d) = [percent |-> 0, items |-> <<>>, inPrice |-> FALSE]
      /\ taxes # <<>> =>
           /\ HertzTax(va, params, c) = [percent |-> tax.percentage,
                                         items |-> IF partial THEN <<e>> ELSE <<>>, inPrice |-> full]
           /\ HertzTax(va, params, d) = [percent |-> tax.percentage,
                                         items |-> IF partial \/ full THEN <<e>> ELSE <<>>, inPrice |-> FALSE]
           /\ e \in ExtraOrFee /\ tax.total \in Int
           /\ Hertz!Taxed(va.total.amount, tax.percentage) = va.total.amount + tax.total
  <2> HIDE DEF tax, full, partial, e, taxes
  <2> QED BY <1>1, <1>5, <1>6, TaxParts DEF taxes, tax, e
<1>8. taxes # <<>> => OpenWeight[e] = tax.total
  <2>1. e.amount = tax.total /\ e.includedInRate = FALSE /\ e.mandatory = TRUE
    BY DEF TaxItem, Hertz!Item
  <2>2. taxes # <<>> => e \in ExtraOrFee
    BY <1>7
  <2> HIDE DEF e, ExtraOrFee, tax, taxes
  <2> QED BY <2>1, <2>2 DEF OpenWeight
<1>9. HertzFees(va, params, c) = HertzFees(va, params, d)
  <2>1. \A fee : Hertz!FeeIncludedType(fee, params, c, rules) = Hertz!FeeIncludedType(fee, params, d, rules)
    <3> SUFFICES ASSUME NEW fee
                 PROVE  Hertz!FeeIncludedType(fee, params, c, rules) = Hertz!FeeIncludedType(fee, params, d, rules)
      OBVIOUS
    <3>1. Hertz!PayableLocally(fee, params, c) <=> Hertz!PayableLocally(fee, params, d)
      BY DEF Hertz!PayableLocally
    <3> QED BY <3>1 DEF Hertz!FeeIncludedType
  <2> QED BY <2>1 DEF HertzFees, Hertz!Fees
<1> HIDE DEF tax, full, partial, e, taxes, base, ExtraOrFee
<1>10. HertzTax(va, params, c).percent = HertzTax(va, params, d).percent
  BY <1>7
<1>11. /\ PriceOf(va, params, c) = IF HertzTax(va, params, c).inPrice
                                   THEN Hertz!Taxed(base, HertzTax(va, params, c).percent) ELSE base
       /\ PriceOf(va, params, d) = IF HertzTax(va, params, d).inPrice
                                   THEN Hertz!Taxed(base, HertzTax(va, params, d).percent) ELSE base
  BY DEF PriceOf, base
<1>12. PriceOf(va, params, c) + OpenOf(HertzTax(va, params, c).items) =
         PriceOf(va, params, d) + OpenOf(HertzTax(va, params, d).items)
  <2>1. CASE taxes = <<>>
    BY <1>7, <1>11, <2>1
  <2>2. CASE taxes # <<>> /\ full
    <3>1. PriceOf(va, params, c) = base + tax.total /\ PriceOf(va, params, d) = base
      BY <1>3, <1>7, <1>11, <2>2
    <3>2. HertzTax(va, params, c).items = <<>> /\ HertzTax(va, params, d).items = <<e>>
      BY <1>2, <1>7, <2>2
    <3>3. OpenOf(<<>>) = 0 /\ OpenOf(<<e>>) = tax.total
      BY <1>7, <1>8, <2>2, OpenFew
    <3> QED BY <1>4, <1>7, <2>2, <3>1, <3>2, <3>3
  <2>3. CASE taxes # <<>> /\ ~full
    <3>1. PriceOf(va, params, c) = base /\ PriceOf(va, params, d) = base
      BY <1>1, <1>7, <1>11, <2>3
    <3>2. HertzTax(va, params, c).items = HertzTax(va, params, d).items
      BY <1>7, <2>3
    <3> QED BY <3>1, <3>2
  <2> QED BY <2>1, <2>2, <2>3
<1> QED BY <1>9, <1>10, <1>12 DEF SameCost

=============================================================================
