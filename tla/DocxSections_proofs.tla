------------------------- MODULE DocxSections_proofs -------------------------
(* For every document: both readers find the sections that its headings say, *)
(* so that their numbers agree, and what the exporter writes reads back.     *)
EXTENDS DocxSections, WellFoundedInduction, TLAPS

---------------------------------------------------------------------------
(* Induction                                                                 *)

\* A non-empty set of naturals has a least element.
LEMMA LeastNat ==
    ASSUME NEW T \in SUBSET Nat, T # {}
    PROVE  \E n \in T : \A m \in T : n <= m
<1>1. OpToRel(<, Nat) = {p \in Nat \X Nat : p[1] < p[2]}
    BY Zenon DEF OpToRel
<1>2. IsWellFoundedOn({p \in Nat \X Nat : p[1] < p[2]}, Nat)
    BY <1>1, NatLessThanWellFounded
<1>3. PICK n \in T : \A m \in T : ~ (<<m, n>> \in {p \in Nat \X Nat : p[1] < p[2]})
    BY <1>2, WFMin
<1>4. ASSUME NEW m \in T PROVE n <= m
    <2>1. m \in Nat /\ n \in Nat /\ ~ (m < n)
        BY <1>3
    <2> QED BY <2>1
<1> QED BY <1>4

\* A set that holds 0 and with each natural its successor holds them all.
LEMMA Induction ==
    ASSUME NEW P, 0 \in P, \A n \in Nat : n \in P => n + 1 \in P
    PROVE  Nat \subseteq P
<1> SUFFICES ASSUME Nat \ P # {} PROVE FALSE
    OBVIOUS
<1>1. PICK n \in Nat \ P : \A m \in Nat \ P : n <= m
    BY LeastNat
<1>2. n # 0 /\ n - 1 \in Nat
    BY <1>1
<1>3. n - 1 \in P
    BY <1>1, <1>2
<1> QED BY <1>1, <1>2, <1>3

---------------------------------------------------------------------------
(* Positions in rising order                                                 *)

\* e lists the naturals of T from the least on.
Rising(e, T) ==
    /\ e \in Seq(Nat)
    /\ \A i, j \in 1..Len(e) : i < j => e[i] < e[j]
    /\ {e[i] : i \in 1..Len(e)} = T

\* The elements of s at the positions that e lists.
Picked(s, e) == [j \in 1..Len(e) |-> s[e[j]]]

\* What Rising says of single elements.
LEMMA RisingElements ==
    ASSUME NEW e, NEW T, Rising(e, T)
    PROVE  /\ Len(e) \in Nat /\ e \in Seq(Nat) /\ DOMAIN e = 1..Len(e)
           /\ \A i \in 1..Len(e) : e[i] \in T /\ e[i] \in Nat
           /\ \A t \in T : \E i \in 1..Len(e) : e[i] = t
           /\ \A i, j \in 1..Len(e) : i < j => e[i] < e[j]
<1>1. e \in Seq(Nat) /\ {e[i] : i \in 1..Len(e)} = T
    BY DEF Rising
<1>2. \A t \in T : \E i \in 1..Len(e) : e[i] = t
    BY <1>1
<1> QED BY <1>1, <1>2 DEF Rising

\* And what makes a list rising.
LEMMA RisingIs ==
    ASSUME NEW e \in Seq(Nat), NEW T,
           \A i \in 1..Len(e) : e[i] \in T,
           \A t \in T : \E i \in 1..Len(e) : e[i] = t,
           \A i, j \in 1..Len(e) : i < j => e[i] < e[j]
    PROVE  Rising(e, T)
<1>1. {e[i] : i \in 1..Len(e)} = T
    OBVIOUS
<1> QED BY <1>1 DEF Rising

\* Of two lists of the same positions one begins like the other.
LEMMA RisingBegins ==
    ASSUME NEW e, NEW f, NEW T, Rising(e, T), Rising(f, T)
    PROVE  Len(e) <= Len(f) /\ \A i \in 1..Len(e) : e[i] = f[i]
<1>1. /\ Len(e) \in Nat /\ Len(f) \in Nat
      /\ \A i \in 1..Len(e) : e[i] \in T /\ e[i] \in Nat
      /\ \A i \in 1..Len(f) : f[i] \in T /\ f[i] \in Nat
      /\ \A i, j \in 1..Len(e) : i < j => e[i] < e[j]
      /\ \A i, j \in 1..Len(f) : i < j => f[i] < f[j]
    BY RisingElements
<1>2. /\ \A t \in T : \E i \in 1..Len(e) : e[i] = t
      /\ \A t \in T : \E i \in 1..Len(f) : f[i] = t
    BY RisingElements
<1> DEFINE P == {n \in Nat : n <= Len(e) => n <= Len(f) /\ \A i \in 1..n : e[i] = f[i]}
<1>3. 0 \in P
    BY <1>1
<1>4. ASSUME NEW n \in Nat, n \in P PROVE n + 1 \in P
    <2> SUFFICES ASSUME n + 1 <= Len(e)
                 PROVE  n + 1 <= Len(f) /\ \A i \in 1..n + 1 : e[i] = f[i]
        OBVIOUS
    <2>1. n <= Len(f) /\ \A i \in 1..n : e[i] = f[i]
        BY <1>1, <1>4
    <2>2. n + 1 \in 1..Len(e)
        BY <1>1
    <2>3. PICK j \in 1..Len(f) : f[j] = e[n + 1]
        BY <1>1, <1>2, <2>2
    <2>4. j > n
        <3> SUFFICES ASSUME j <= n PROVE FALSE
            BY <2>3
        <3>1. j \in 1..Len(e) /\ f[j] = e[j] /\ e[j] < e[n + 1]
            BY <1>1, <2>1, <2>2
        <3> QED BY <1>1, <2>2, <2>3, <3>1
    <2>5. n + 1 \in 1..Len(f)
        BY <1>1, <2>4
    <2>6. PICK i \in 1..Len(e) : e[i] = f[n + 1]
        BY <1>1, <1>2, <2>5
    <2>7. i > n
        <3> SUFFICES ASSUME i <= n PROVE FALSE
            BY <2>6
        <3>1. i \in 1..Len(f) /\ f[i] = e[i] /\ f[i] < f[n + 1]
            BY <1>1, <2>1, <2>5
        <3> QED BY <1>1, <2>5, <2>6, <3>1
    <2>8. e[n + 1] <= e[i] /\ f[n + 1] <= f[j]
        <3>1. n + 1 = i \/ n + 1 < i
            BY <2>7
        <3>2. n + 1 = j \/ n + 1 < j
            BY <2>4
        <3> QED BY <1>1, <2>2, <2>5, <3>1, <3>2
    <2>9. e[n + 1] = f[n + 1]
        BY <1>1, <2>2, <2>3, <2>5, <2>6, <2>8
    <2> QED BY <1>1, <2>1, <2>5, <2>9
<1>5. Len(e) \in P
    <2> HIDE DEF P
    <2> QED BY <1>1, <1>3, <1>4, Induction
<1> QED BY <1>1, <1>5

\* There is one rising list of a set.
LEMMA RisingUnique ==
    ASSUME NEW e, NEW f, NEW T, Rising(e, T), Rising(f, T)
    PROVE  e = f
<1>1. Len(e) <= Len(f) /\ \A i \in 1..Len(e) : e[i] = f[i]
    BY RisingBegins
<1>2. Len(f) <= Len(e)
    BY RisingBegins
<1>3. Len(e) \in Nat /\ Len(f) \in Nat /\ e \in Seq(Nat) /\ f \in Seq(Nat)
    BY RisingElements
<1> QED BY <1>1, <1>2, <1>3

\* The empty list rises.
LEMMA RisingEmpty == Rising(<<>>, {})
BY DEF Rising

\* A position after all others comes last.
LEMMA RisingAppend ==
    ASSUME NEW e, NEW T, NEW n \in Nat, Rising(e, T), \A t \in T : t < n
    PROVE  Rising(Append(e, n), T \cup {n})
<1>1. /\ Len(e) \in Nat /\ e \in Seq(Nat)
      /\ \A i \in 1..Len(e) : e[i] \in T /\ e[i] \in Nat
      /\ \A t \in T : \E i \in 1..Len(e) : e[i] = t
      /\ \A i, j \in 1..Len(e) : i < j => e[i] < e[j]
    BY RisingElements
<1> DEFINE f == Append(e, n)
<1>2. /\ f \in Seq(Nat) /\ Len(f) = Len(e) + 1
      /\ \A i \in 1..Len(e) : f[i] = e[i]
      /\ f[Len(e) + 1] = n
    BY <1>1
<1> HIDE DEF f
<1>3. \A i \in 1..Len(f) : f[i] \in T \cup {n}
    <2> TAKE i \in 1..Len(f)
    <2>1. i \in 1..Len(e) \/ i = Len(e) + 1
        BY <1>1, <1>2
    <2> QED BY <1>1, <1>2, <2>1
<1>4. ASSUME NEW t \in T \cup {n} PROVE \E i \in 1..Len(f) : f[i] = t
    <2>1. CASE t \in T
        <3>1. PICK i \in 1..Len(e) : e[i] = t
            BY <1>1, <2>1
        <3>2. i \in 1..Len(f) /\ f[i] = t
            BY <1>1, <1>2, <3>1
        <3> QED BY <3>2
    <2>2. CASE t = n
        <3>1. Len(e) + 1 \in 1..Len(f)
            BY <1>1, <1>2
        <3> QED BY <1>2, <2>2, <3>1
    <2> QED BY <2>1, <2>2
<1>5. ASSUME NEW i \in 1..Len(f), NEW j \in 1..Len(f), i < j PROVE f[i] < f[j]
    <2>1. i \in 1..Len(e) /\ (j \in 1..Len(e) \/ j = Len(e) + 1)
        BY <1>1, <1>2, <1>5
    <2> QED BY <1>1, <1>2, <1>5, <2>1
<1> QED BY <1>2, <1>3, <1>4, <1>5, RisingIs DEF f

\* A rising choice of positions in a rising list rises.
LEMMA RisingPicked ==
    ASSUME NEW b, NEW B, Rising(b, B), NEW e, NEW E, Rising(e, E), E \subseteq 1..Len(b)
    PROVE  Rising(Picked(b, e), {b[i] : i \in E})
<1>1. /\ Len(e) \in Nat
      /\ \A i \in 1..Len(e) : e[i] \in E
      /\ \A t \in E : \E i \in 1..Len(e) : e[i] = t
      /\ \A i, j \in 1..Len(e) : i < j => e[i] < e[j]
    BY RisingElements
<1>2. /\ \A i \in 1..Len(b) : b[i] \in Nat
      /\ \A i, j \in 1..Len(b) : i < j => b[i] < b[j]
    BY RisingElements
<1> DEFINE f == Picked(b, e)
<1>3. f \in Seq(Nat) /\ Len(f) = Len(e) /\ \A i \in 1..Len(e) : f[i] = b[e[i]]
    <2>1. f = [j \in 1..Len(e) |-> b[e[j]]]
        BY DEF Picked
    <2>2. \A j \in 1..Len(e) : b[e[j]] \in Nat
        BY <1>1, <1>2
    <2> HIDE DEF f
    <2> QED BY <1>1, <2>1, <2>2
<1> HIDE DEF f
<1>4. \A i \in 1..Len(f) : f[i] \in {b[k] : k \in E}
    BY <1>1, <1>3
<1>5. ASSUME NEW t \in {b[k] : k \in E} PROVE \E i \in 1..Len(f) : f[i] = t
    <2>1. PICK k \in E : t = b[k]
        BY <1>5
    <2>2. PICK i \in 1..Len(e) : e[i] = k
        BY <1>1
    <2> QED BY <1>3, <2>1, <2>2
<1>6. ASSUME NEW i \in 1..Len(f), NEW j \in 1..Len(f), i < j PROVE f[i] < f[j]
    <2>1. e[i] \in 1..Len(b) /\ e[j] \in 1..Len(b) /\ e[i] < e[j]
        BY <1>1, <1>3, <1>6
    <2> QED BY <1>2, <1>3, <2>1
<1> QED BY <1>3, <1>4, <1>5, <1>6, RisingIs DEF f

---------------------------------------------------------------------------
(* Selections                                                                *)

\* What Kept recurses to exists.
LEMMA KeptSteps ==
    ASSUME NEW S, NEW s \in Seq(S), NEW at
    PROVE  \E g : /\ Kept(s, at) = g[Len(s)] /\ g[0] = <<>>
                  /\ \A i \in 1..Len(s) :
                        g[i] = IF i \in at THEN Append(g[i - 1], s[i]) ELSE g[i - 1]
<1> DEFINE n == Len(s)
           More(i, t) == IF i \in at THEN Append(t, s[i]) ELSE t
           Rec(g) == [i \in 0..n |-> IF i = 0 THEN <<>>
                         ELSE IF i \in at THEN Append(g[i - 1], s[i]) ELSE g[i - 1]]
           P == {m \in Nat : m <= n => \E g : g[0] = <<>> /\ \A i \in 1..m : g[i] = More(i, g[i - 1])}
<1>1. n \in Nat
    OBVIOUS
<1>2. 0 \in P
    <2> DEFINE g == [i \in 0..0 |-> <<>>]
    <2>1. g[0] = <<>> /\ \A i \in 1..0 : g[i] = More(i, g[i - 1])
        OBVIOUS
    <2> HIDE DEF g, More
    <2> QED BY <2>1
<1>3. ASSUME NEW m \in Nat, m \in P PROVE m + 1 \in P
    <2> HIDE DEF More
    <2> SUFFICES ASSUME m + 1 <= n
                 PROVE  \E g : g[0] = <<>> /\ \A i \in 1..m + 1 : g[i] = More(i, g[i - 1])
        OBVIOUS
    <2>1. PICK g : g[0] = <<>> /\ \A i \in 1..m : g[i] = More(i, g[i - 1])
        BY <1>1, <1>3
    <2> DEFINE h == [i \in 0..m + 1 |-> IF i = m + 1 THEN More(m + 1, g[m]) ELSE g[i]]
    <2>2. h[0] = <<>>
        BY <2>1
    <2>3. ASSUME NEW i \in 1..m + 1 PROVE h[i] = More(i, h[i - 1])
        <3>1. h[i - 1] = g[i - 1]
            OBVIOUS
        <3>2. CASE i = m + 1
            BY <3>1, <3>2
        <3>3. CASE i # m + 1
            <4>1. i \in 1..m /\ h[i] = g[i]
                BY <3>3
            <4> QED BY <2>1, <3>1, <4>1
        <3> QED BY <3>2, <3>3
    <2> HIDE DEF h
    <2> QED BY <2>2, <2>3
<1>4. n \in P
    <2> HIDE DEF P, n
    <2> QED BY <1>1, <1>2, <1>3, Induction
<1>5. PICK g : g[0] = <<>> /\ \A i \in 1..n : g[i] = More(i, g[i - 1])
    <2> HIDE DEF More, n
    <2> QED BY <1>1, <1>4
<1> DEFINE h == [i \in 0..n |-> g[i]]
<1>6. h = Rec(h)
    <2>1. ASSUME NEW i \in 0..n
          PROVE  h[i] = IF i = 0 THEN <<>>
                        ELSE IF i \in at THEN Append(h[i - 1], s[i]) ELSE h[i - 1]
        <3>1. CASE i = 0
            BY <1>5, <3>1
        <3>2. CASE i # 0
            <4>1. i \in 1..n /\ i - 1 \in 0..n
                BY <1>1, <3>2
            <4>2. h[i] = g[i] /\ h[i - 1] = g[i - 1]
                BY <4>1
            <4>3. g[i] = More(i, g[i - 1])
                BY <1>5, <4>1
            <4> HIDE DEF h
            <4> QED BY <3>2, <4>2, <4>3
        <3> QED BY <3>1, <3>2
    <2>2. h = [i \in 0..n |-> h[i]]
        OBVIOUS
    <2> HIDE DEF h, n
    <2> QED BY <2>1, <2>2
<1> DEFINE kept == CHOOSE k : k = Rec(k)
<1>7. kept = Rec(kept)
    <2> HIDE DEF Rec
    <2> QED BY <1>6
<1>8. Kept(s, at) = kept[n]
    BY DEF Kept
<1>9. \A i \in 0..n : kept[i] = IF i = 0 THEN <<>>
                         ELSE IF i \in at THEN Append(kept[i - 1], s[i]) ELSE kept[i - 1]
    <2> HIDE DEF kept, n
    <2> QED BY <1>7, Zenon
<1> HIDE DEF kept, n
<1>10. /\ kept[0] = <<>>
       /\ \A i \in 1..n : kept[i] = IF i \in at THEN Append(kept[i - 1], s[i]) ELSE kept[i - 1]
    BY <1>1, <1>9
<1> QED BY <1>8, <1>10 DEF n

\* A picked list grows with its positions.
LEMMA PickedAppend ==
    ASSUME NEW S, NEW s \in Seq(S), NEW e, NEW T, Rising(e, T), T \subseteq 1..Len(s),
           NEW n \in 1..Len(s)
    PROVE  Picked(s, Append(e, n)) = Append(Picked(s, e), s[n])
<1>1. Len(e) \in Nat /\ e \in Seq(Nat) /\ \A i \in 1..Len(e) : e[i] \in 1..Len(s)
    BY RisingElements
<1> DEFINE p == Picked(s, e)
<1>2. p \in Seq(S) /\ Len(p) = Len(e) /\ \A i \in 1..Len(e) : p[i] = s[e[i]]
    <2>1. p = [j \in 1..Len(e) |-> s[e[j]]]
        BY DEF Picked
    <2>2. \A j \in 1..Len(e) : s[e[j]] \in S
        BY <1>1
    <2> HIDE DEF p
    <2> QED BY <1>1, <2>1, <2>2
<1>3. Picked(s, Append(e, n)) = [j \in 1..Len(e) + 1 |-> s[Append(e, n)[j]]]
    BY <1>1 DEF Picked
<1> HIDE DEF p
<1>4. Append(p, s[n]) = [j \in 1..Len(e) + 1 |-> IF j = Len(e) + 1 THEN s[n] ELSE p[j]]
    BY <1>1, <1>2
<1>5. \A j \in 1..Len(e) + 1 : s[Append(e, n)[j]] = IF j = Len(e) + 1 THEN s[n] ELSE p[j]
    BY <1>1, <1>2
<1>6. Picked(s, Append(e, n)) = Append(p, s[n])
    BY <1>3, <1>4, <1>5
<1> QED BY <1>6 DEF p

\* A selection lists the elements at the selected positions in rising order.
LEMMA KeptPicked ==
    ASSUME NEW S, NEW s \in Seq(S), NEW at, NEW e, Rising(e, at \cap 1..Len(s))
    PROVE  Kept(s, at) = Picked(s, e)
<1>1. PICK g : /\ Kept(s, at) = g[Len(s)] /\ g[0] = <<>>
               /\ \A i \in 1..Len(s) :
                    g[i] = IF i \in at THEN Append(g[i - 1], s[i]) ELSE g[i - 1]
    BY KeptSteps
<1> DEFINE Told(n) == \E f : Rising(f, at \cap 1..n) /\ g[n] = Picked(s, f)
           P == {n \in Nat : n <= Len(s) => Told(n)}
<1>2. 0 \in P
    <2>1. at \cap 1..0 = {}
        OBVIOUS
    <2>2. Rising(<<>>, at \cap 1..0)
        BY <2>1, RisingEmpty
    <2>3. Picked(s, <<>>) = <<>>
        BY DEF Picked
    <2> QED BY <1>1, <2>2, <2>3
<1>3. ASSUME NEW n \in Nat, n \in P PROVE n + 1 \in P
    <2> HIDE DEF Told
    <2> SUFFICES ASSUME n + 1 <= Len(s) PROVE Told(n + 1)
        OBVIOUS
    <2>a. Told(n) /\ Len(s) \in Nat
        BY <1>3
    <2> USE DEF Told
    <2>1. PICK f : Rising(f, at \cap 1..n) /\ g[n] = Picked(s, f)
        BY <2>a
    <2>2. n + 1 \in 1..Len(s) /\ g[n + 1] = IF n + 1 \in at THEN Append(g[n], s[n + 1]) ELSE g[n]
        BY <1>1
    <2>3. CASE n + 1 \in at
        <3>1. at \cap 1..n + 1 = (at \cap 1..n) \cup {n + 1}
            BY <2>3
        <3>2. \A t \in at \cap 1..n : t < n + 1
            OBVIOUS
        <3>3. Rising(Append(f, n + 1), (at \cap 1..n) \cup {n + 1})
            BY <2>1, <3>2, RisingAppend
        <3>4. at \cap 1..n \subseteq 1..Len(s)
            BY <2>2
        <3>5. Picked(s, Append(f, n + 1)) = Append(Picked(s, f), s[n + 1])
            BY <2>1, <2>2, <3>4, PickedAppend
        <3> QED BY <2>1, <2>2, <2>3, <3>1, <3>3, <3>5
    <2>4. CASE n + 1 \notin at
        <3>1. at \cap 1..n + 1 = at \cap 1..n
            BY <2>4
        <3> QED BY <2>1, <2>2, <2>4, <3>1
    <2> QED BY <2>3, <2>4
<1>4. Len(s) \in P
    <2> HIDE DEF P
    <2>1. Len(s) \in Nat
        OBVIOUS
    <2> QED BY <2>1, <1>2, <1>3, Induction
<1>4a. Told(Len(s))
    <2> HIDE DEF Told
    <2> QED BY <1>4
<1>5. PICK f : Rising(f, at \cap 1..Len(s)) /\ g[Len(s)] = Picked(s, f)
    BY <1>4a
<1>6. f = e
    BY <1>5, RisingUnique
<1> QED BY <1>1, <1>5, <1>6

\* A bounded set of naturals has its rising list.
LEMMA RisingExists ==
    ASSUME NEW n \in Nat, NEW T \in SUBSET (0..n)
    PROVE  \E e : Rising(e, T)
<1> DEFINE P == {m \in Nat : \E e : Rising(e, T \cap 0..m)}
<1>1. 0 \in P
    <2>1. CASE 0 \in T
        <3>1. T \cap 0..0 = {} \cup {0}
            BY <2>1
        <3>2. Rising(Append(<<>>, 0), {} \cup {0})
            BY RisingEmpty, RisingAppend
        <3>3. Rising(Append(<<>>, 0), T \cap 0..0)
            BY <3>1, <3>2
        <3> QED BY <3>3
    <2>2. CASE 0 \notin T
        <3>1. T \cap 0..0 = {}
            BY <2>2
        <3>2. Rising(<<>>, T \cap 0..0)
            BY <3>1, RisingEmpty
        <3> QED BY <3>2
    <2> QED BY <2>1, <2>2
<1>2. ASSUME NEW m \in Nat, m \in P PROVE m + 1 \in P
    <2>1. PICK e : Rising(e, T \cap 0..m)
        BY <1>2
    <2>2. CASE m + 1 \in T
        <3>1. T \cap 0..m + 1 = (T \cap 0..m) \cup {m + 1}
            BY <2>2
        <3>2. Rising(Append(e, m + 1), (T \cap 0..m) \cup {m + 1})
            BY <2>1, RisingAppend
        <3>3. Rising(Append(e, m + 1), T \cap 0..m + 1)
            BY <3>1, <3>2
        <3> QED BY <3>3
    <2>3. CASE m + 1 \notin T
        <3>1. T \cap 0..m + 1 = T \cap 0..m
            BY <2>3
        <3>2. Rising(e, T \cap 0..m + 1)
            BY <2>1, <3>1
        <3> QED BY <3>2
    <2> QED BY <2>2, <2>3
<1>3. n \in P
    <2> HIDE DEF P
    <2> QED BY <1>1, <1>2, Induction
<1>4. T \cap 0..n = T
    OBVIOUS
<1> QED BY <1>3, <1>4

\* The rising list of a set.
Listed(T) == CHOOSE e : Rising(e, T)

LEMMA ListedRises ==
    ASSUME NEW n \in Nat, NEW T \in SUBSET (0..n)
    PROVE  Rising(Listed(T), T)
BY RisingExists DEF Listed

LEMMA ListedIs ==
    ASSUME NEW e, NEW T, Rising(e, T)
    PROVE  Listed(T) = e
<1>1. Rising(Listed(T), T)
    BY DEF Listed
<1> QED BY <1>1, RisingUnique

LEMMA ListedAdds ==
    ASSUME NEW n \in Nat, NEW T \in SUBSET (0..n), NEW m \in Nat, \A t \in T : t < m
    PROVE  Listed(T \cup {m}) = Append(Listed(T), m)
<1>1. Rising(Listed(T), T)
    BY ListedRises
<1>2. Rising(Append(Listed(T), m), T \cup {m})
    BY <1>1, RisingAppend
<1> QED BY <1>2, ListedIs

\* Selecting one more position, after the others, adds an element.
LEMMA KeptAdds ==
    ASSUME NEW S, NEW s \in Seq(S), NEW n \in 1..Len(s), NEW T \in SUBSET (1..n - 1)
    PROVE  Kept(s, T \cup {n}) = Append(Kept(s, T), s[n])
<1>1. PICK e : Rising(e, T)
    <2>1. n - 1 \in Nat /\ T \in SUBSET (0..n - 1)
        OBVIOUS
    <2> QED BY <2>1, RisingExists
<1>2. \A t \in T : t < n
    OBVIOUS
<1>3. n \in Nat
    OBVIOUS
<1>4. Rising(Append(e, n), T \cup {n})
    BY <1>1, <1>2, <1>3, RisingAppend
<1>5. T \subseteq 1..Len(s) /\ T \cap 1..Len(s) = T /\ (T \cup {n}) \cap 1..Len(s) = T \cup {n}
    <2>1. \A t \in T : t \in 1..Len(s)
        OBVIOUS
    <2> QED BY <2>1
<1>6. Kept(s, T) = Picked(s, e)
    BY <1>1, <1>5, KeptPicked
<1>7. Kept(s, T \cup {n}) = Picked(s, Append(e, n))
    BY <1>4, <1>5, KeptPicked
<1>8. Picked(s, Append(e, n)) = Append(Picked(s, e), s[n])
    BY <1>1, <1>5, PickedAppend
<1> QED BY <1>6, <1>7, <1>8

LEMMA KeptNone ==
    ASSUME NEW S, NEW s \in Seq(S)
    PROVE  Kept(s, {}) = <<>>
<1>1. {} \cap 1..Len(s) = {}
    OBVIOUS
<1>2. Kept(s, {}) = Picked(s, <<>>)
    BY <1>1, RisingEmpty, KeptPicked
<1> QED BY <1>2 DEF Picked

\* A selection is a list.
LEMMA KeptList ==
    ASSUME NEW S, NEW s \in Seq(S), NEW at
    PROVE  Kept(s, at) \in Seq(S)
<1> DEFINE T == at \cap 1..Len(s)
<1>1. PICK e : Rising(e, T)
    <2>1. Len(s) \in Nat /\ T \in SUBSET (0..Len(s))
        OBVIOUS
    <2> HIDE DEF T
    <2> QED BY <2>1, RisingExists
<1>2. Kept(s, at) = Picked(s, e)
    BY <1>1, KeptPicked
<1>3. Len(e) \in Nat /\ \A j \in 1..Len(e) : e[j] \in 1..Len(s)
    <2>1. Len(e) \in Nat /\ \A j \in 1..Len(e) : e[j] \in T
        BY <1>1, RisingElements
    <2> QED BY <2>1
<1>4. \A j \in 1..Len(e) : s[e[j]] \in S
    BY <1>3
<1> QED BY <1>2, <1>3, <1>4 DEF Picked

---------------------------------------------------------------------------
(* What the parser has read after each paragraph                             *)

\* A document, of texts in T.
Paragraphs(T) == Seq([id : Nat, level : 0..9, text : T])

\* The parser reads one paragraph after the other.
LEMMA ReadingSteps ==
    ASSUME NEW T, NEW paras \in Paragraphs(T)
    PROVE  /\ Reading(paras)[0] = [sections |-> <<>>, ancestors |-> <<>>, body |-> <<>>]
           /\ \A k \in 1..Len(paras) :
                 Reading(paras)[k] = ParseParagraph(Reading(paras)[k - 1], paras[k])
<1> DEFINE n == Len(paras)
           base == [sections |-> <<>>, ancestors |-> <<>>, body |-> <<>>]
           Rec(g) == [k \in 0..n |-> IF k = 0 THEN base ELSE ParseParagraph(g[k - 1], paras[k])]
           P == {m \in Nat : m <= n =>
                    \E g : g[0] = base /\ \A k \in 1..m : g[k] = ParseParagraph(g[k - 1], paras[k])}
<1>1. n \in Nat
    BY DEF Paragraphs
<1> HIDE DEF base
<1>2. 0 \in P
    <2> DEFINE g == [i \in 0..0 |-> base]
    <2>1. g[0] = base /\ \A k \in 1..0 : g[k] = ParseParagraph(g[k - 1], paras[k])
        OBVIOUS
    <2> HIDE DEF g
    <2> QED BY <2>1
<1>3. ASSUME NEW m \in Nat, m \in P PROVE m + 1 \in P
    <2> SUFFICES ASSUME m + 1 <= n
                 PROVE  \E g : g[0] = base /\ \A k \in 1..m + 1 : g[k] = ParseParagraph(g[k - 1], paras[k])
        OBVIOUS
    <2>1. PICK g : g[0] = base /\ \A k \in 1..m : g[k] = ParseParagraph(g[k - 1], paras[k])
        BY <1>1, <1>3
    <2> DEFINE h == [k \in 0..m + 1 |-> IF k = m + 1 THEN ParseParagraph(g[m], paras[m + 1]) ELSE g[k]]
    <2>2. h[0] = base
        BY <2>1
    <2>3. ASSUME NEW k \in 1..m + 1 PROVE h[k] = ParseParagraph(h[k - 1], paras[k])
        <3>1. h[k - 1] = g[k - 1]
            OBVIOUS
        <3>2. CASE k = m + 1
            BY <3>1, <3>2
        <3>3. CASE k # m + 1
            <4>1. k \in 1..m /\ h[k] = g[k]
                BY <3>3
            <4> QED BY <2>1, <3>1, <4>1
        <3> QED BY <3>2, <3>3
    <2> HIDE DEF h
    <2> QED BY <2>2, <2>3
<1>4. n \in P
    <2> HIDE DEF P, n
    <2> QED BY <1>1, <1>2, <1>3, Induction
<1>5. PICK g : g[0] = base /\ \A k \in 1..n : g[k] = ParseParagraph(g[k - 1], paras[k])
    <2> HIDE DEF n
    <2> QED BY <1>1, <1>4
<1> DEFINE h == [k \in 0..n |-> g[k]]
<1>6. h = Rec(h)
    <2>1. ASSUME NEW k \in 0..n
          PROVE  h[k] = IF k = 0 THEN base ELSE ParseParagraph(h[k - 1], paras[k])
        <3>1. CASE k = 0
            BY <1>5, <3>1
        <3>2. CASE k # 0
            <4>1. k \in 1..n /\ k - 1 \in 0..n
                BY <1>1, <3>2
            <4>2. h[k] = g[k] /\ h[k - 1] = g[k - 1]
                BY <4>1
            <4> HIDE DEF h
            <4> QED BY <1>5, <3>2, <4>1, <4>2
        <3> QED BY <3>1, <3>2
    <2>2. h = [k \in 0..n |-> h[k]]
        OBVIOUS
    <2> HIDE DEF h, n
    <2> QED BY <2>1, <2>2
<1> DEFINE after == CHOOSE f : f = Rec(f)
<1>7. after = Rec(after)
    <2> HIDE DEF Rec
    <2> QED BY <1>6
<1>8. Reading(paras) = after
    BY DEF Reading, base
<1>9. \A k \in 0..n : after[k] = IF k = 0 THEN base ELSE ParseParagraph(after[k - 1], paras[k])
    <2> HIDE DEF after, n
    <2> QED BY <1>7, Zenon
<1> HIDE DEF after, n
<1>10. after[0] = base /\ \A k \in 1..n : after[k] = ParseParagraph(after[k - 1], paras[k])
    BY <1>1, <1>9
<1> QED BY <1>8, <1>10 DEF n, base

\* The beginning of a list, and its elements.
LEMMA Beginning ==
    ASSUME NEW S, NEW s \in Seq(S), NEW m \in 0..Len(s)
    PROVE  /\ SubSeq(s, 1, m) \in Seq(S) /\ Len(SubSeq(s, 1, m)) = m
           /\ \A i \in 1..m : SubSeq(s, 1, m)[i] = s[i]
OBVIOUS

LEMMA ElementOf ==
    ASSUME NEW S, NEW s \in Seq(S), NEW i \in 1..Len(s)
    PROVE  s[i] \in S
OBVIOUS

\* The last member of a set of numbers is the one Max gives.
LEMMA MaxIs ==
    ASSUME NEW T, NEW m \in T, T \subseteq Nat, \A t \in T : t <= m
    PROVE  Max(T) = m
<1>1. \A x \in T : (\A y \in T : x >= y) => x = m
    <2> TAKE x \in T
    <2> HAVE \A y \in T : x >= y
    <2>1. x >= m /\ x <= m /\ x \in Nat /\ m \in Nat
        OBVIOUS
    <2> QED BY <2>1
<1>2. \A y \in T : m >= y
    OBVIOUS
<1> QED BY <1>1, <1>2, Zenon DEF Max

\* A non-empty bounded set of naturals has a last member.
LEMMA LastNat ==
    ASSUME NEW n \in Nat, NEW T \in SUBSET (0..n), T # {}
    PROVE  \E m \in T : \A t \in T : t <= m
<1> DEFINE above == {b \in Nat : \A t \in T : t <= b}
<1>1. above # {} /\ above \in SUBSET Nat
    <2>1. n \in above
        OBVIOUS
    <2> QED BY <2>1
<1>2. PICK b \in above : \A a \in above : b <= a
    <2> HIDE DEF above
    <2> QED BY <1>1, LeastNat
<1>3. b \in T
    <2> SUFFICES ASSUME b \notin T PROVE FALSE
        OBVIOUS
    <2>1. PICK t \in T : TRUE
        OBVIOUS
    <2>2. b \in Nat /\ \A u \in T : u <= b /\ u # b /\ u \in Nat
        BY <1>2
    <2>3. b - 1 \in above
        BY <2>1, <2>2
    <2> QED BY <1>2, <2>2, <2>3
<1> QED BY <1>2, <1>3

\* Popping leaves the ancestors up to the last one of a smaller level.
PoppedTo(ancestors, level, m) ==
    /\ m \in 0..Len(ancestors)
    /\ Popped(ancestors, level) = SubSeq(ancestors, 1, m)
    /\ m # 0 => ancestors[m].level < level
    /\ \A a \in 1..Len(ancestors) : ancestors[a].level < level => a <= m

LEMMA PoppedIs ==
    ASSUME NEW ancestors \in Seq([level : 0..9, order : Nat]), NEW level \in 0..9
    PROVE  \E m : PoppedTo(ancestors, level, m)
<1> DEFINE T == {0} \cup {a \in DOMAIN ancestors : ancestors[a].level < level}
           n == Len(ancestors)
<1>1. n \in Nat /\ DOMAIN ancestors = 1..n
    OBVIOUS
<1>2. T \in SUBSET (0..n) /\ T # {}
    BY <1>1
<1>3. PICK m \in T : \A t \in T : t <= m
    <2> HIDE DEF T, n
    <2> QED BY <1>1, <1>2, LastNat
<1>4. Max(T) = m
    <2>1. T \subseteq Nat
        BY <1>2
    <2> HIDE DEF T
    <2> QED BY <1>3, <2>1, MaxIs
<1>5. Popped(ancestors, level) = SubSeq(ancestors, 1, m)
    BY <1>4 DEF Popped
<1>6. m \in 0..n /\ (m # 0 => ancestors[m].level < level)
    BY <1>2
<1>7. ASSUME NEW a \in 1..n, ancestors[a].level < level PROVE a <= m
    <2>1. a \in T
        BY <1>1, <1>7
    <2> QED BY <1>3, <2>1
<1> QED BY <1>5, <1>6, <1>7 DEF PoppedTo

\* What the parser keeps between two paragraphs.
Sections(T) == Seq([level : 0..9, heading : T, parent : Int, lines : Seq(T)])
Ancestors == Seq([level : 0..9, order : Nat])
ReadingStates(T) == [sections : Sections(T), ancestors : Ancestors, body : Seq(T)]

\* Writing the open body into the last section.
LEMMA FlushIs ==
    ASSUME NEW T, NEW s \in ReadingStates(T)
    PROVE  /\ Flush(s) \in Sections(T) /\ Len(Flush(s)) = Len(s.sections)
           /\ \A i \in 1..Len(s.sections) :
                 /\ Flush(s)[i].level = s.sections[i].level
                 /\ Flush(s)[i].heading = s.sections[i].heading
                 /\ Flush(s)[i].parent = s.sections[i].parent
                 /\ Flush(s)[i].lines = IF i = Len(s.sections) THEN s.body ELSE s.sections[i].lines
<1> DEFINE ss == s.sections
           n == Len(ss)
           Row == [level : 0..9, heading : T, parent : Int, lines : Seq(T)]
<1>1. /\ ss \in Seq(Row) /\ n \in Nat /\ DOMAIN ss = 1..n /\ s.body \in Seq(T)
      /\ \A i \in 1..n : ss[i] \in Row
    <2>1. ss \in Sections(T) /\ s.body \in Seq(T)
        BY DEF ReadingStates
    <2>2. ss \in Seq(Row)
        BY <2>1 DEF Sections
    <2> HIDE DEF Row
    <2> QED BY <2>1, <2>2
<1>2. CASE n = 0
    <2>1. ss = <<>>
        BY <1>1, <1>2
    <2> QED BY <1>1, <1>2, <2>1 DEF Flush, Sections
<1>3. CASE n # 0
    <2> DEFINE last == [ss[n] EXCEPT !.lines = s.body]
    <2>1. Flush(s) = [i \in 1..n |-> IF i = n THEN last ELSE ss[i]]
        <3>1. ss # <<>>
            BY <1>3
        <3>2. Flush(s) = [ss EXCEPT ![n].lines = s.body]
            BY <3>1 DEF Flush
        <3> QED BY <1>1, <3>2
    <2>2. ss[n] \in Row
        BY <1>1, <1>3
    <2>3. /\ last \in Row /\ last.level = ss[n].level /\ last.heading = ss[n].heading
          /\ last.parent = ss[n].parent /\ last.lines = s.body
        BY <1>1, <2>2
    <2> HIDE DEF last, Row
    <2>4. \A i \in 1..n : Flush(s)[i] = IF i = n THEN last ELSE ss[i]
        BY <2>1
    <2>5. Flush(s) \in Seq(Row) /\ Len(Flush(s)) = n
        <3>1. \A i \in 1..n : (IF i = n THEN last ELSE ss[i]) \in Row
            BY <1>1, <2>3
        <3> QED BY <1>1, <2>1, <3>1
    <2> QED BY <1>1, <2>3, <2>4, <2>5 DEF Sections, Row
<1> QED BY <1>1, <1>2, <1>3

\* A paragraph's fields.
LEMMA ParagraphFields ==
    ASSUME NEW T, NEW paras \in Paragraphs(T), NEW k \in 1..Len(paras)
    PROVE  /\ paras[k] \in [id : Nat, level : 0..9, text : T]
           /\ paras[k].id \in Nat /\ paras[k].level \in 0..9 /\ paras[k].text \in T
<1>1. paras[k] \in [id : Nat, level : 0..9, text : T]
    <2> DEFINE Row == [id : Nat, level : 0..9, text : T]
    <2>1. paras \in Seq(Row)
        BY DEF Paragraphs
    <2> HIDE DEF Row
    <2>2. paras[k] \in Row
        BY <2>1
    <2> QED BY <2>2 DEF Row
<1> QED BY <1>1

\* A paragraph leaves the parser in such a state.
LEMMA ParseTyped ==
    ASSUME NEW T, Blank \in T, NEW s \in ReadingStates(T),
           NEW p \in [id : Nat, level : 0..9, text : T]
    PROVE  ParseParagraph(s, p) \in ReadingStates(T)
<1>1. /\ s.sections \in Sections(T) /\ s.ancestors \in Ancestors /\ s.body \in Seq(T)
      /\ s = [sections |-> s.sections, ancestors |-> s.ancestors, body |-> s.body]
      /\ p.text \in T /\ p.level \in 0..9
    BY DEF ReadingStates
<1>2. ASSUME NEW level \in 0..9, NEW heading \in T, NEW parent \in Int
      PROVE  Section(level, heading, parent) \in [level : 0..9, heading : T, parent : Int, lines : Seq(T)]
    BY DEF Section
<1>3. CASE p.level = Body
    <2>1. CASE p.text = Blank
        BY <1>3, <2>1 DEF ParseParagraph, ParseBody
    <2>2. CASE p.text # Blank /\ s.sections = <<>>
        <3>1. ParseParagraph(s, p) = [sections |-> <<Section(0, Blank, None)>>,
                                      ancestors |-> s.ancestors, body |-> <<p.text>>]
            BY <1>1, <1>3, <2>2 DEF ParseParagraph, ParseBody
        <3>2. Section(0, Blank, None) \in [level : 0..9, heading : T, parent : Int, lines : Seq(T)]
            <4>1. 0 \in 0..9 /\ None \in Int
                BY DEF None
            <4> QED BY <1>2, <4>1
        <3>3. <<Section(0, Blank, None)>> \in Sections(T)
            BY <3>2 DEF Sections
        <3> QED BY <1>1, <3>1, <3>3 DEF ReadingStates
    <2>3. CASE p.text # Blank /\ s.sections # <<>>
        <3>1. ParseParagraph(s, p) = [sections |-> s.sections, ancestors |-> s.ancestors,
                                      body |-> Append(s.body, p.text)]
            BY <1>1, <1>3, <2>3 DEF ParseParagraph, ParseBody
        <3> QED BY <1>1, <3>1 DEF ReadingStates
    <2> QED BY <2>1, <2>2, <2>3
<1>4. CASE p.level # Body
    <2>1. CASE p.text = Blank
        BY <1>4, <2>1 DEF ParseParagraph, ParseHeading
    <2>2. CASE p.text # Blank
        <3> DEFINE open == Popped(s.ancestors, p.level)
                   parent == IF open = <<>> THEN None ELSE Last(open).order
        <3>1. ParseParagraph(s, p) =
                 [sections |-> Append(Flush(s), Section(p.level, p.text, parent)),
                  ancestors |-> Append(open, [level |-> p.level, order |-> Len(s.sections)]),
                  body |-> <<>>]
            BY <1>4, <2>2 DEF ParseParagraph, ParseHeading
        <3>2. open \in Ancestors
            <4>1. PICK m : PoppedTo(s.ancestors, p.level, m)
                BY <1>1, PoppedIs DEF Ancestors
            <4>2. open = SubSeq(s.ancestors, 1, m) /\ m \in 0..Len(s.ancestors)
                BY <4>1 DEF PoppedTo
            <4> HIDE DEF open
            <4>3. SubSeq(s.ancestors, 1, m) \in Ancestors
                BY <1>1, <4>2, Beginning DEF Ancestors
            <4> QED BY <4>2, <4>3
        <3>3. parent \in Int
            <4> HIDE DEF open
            <4>1. CASE open = <<>>
                BY <4>1 DEF None
            <4>2. CASE open # <<>>
                <5>1. Len(open) \in 1..Len(open)
                    BY <3>2, <4>2 DEF Ancestors
                <5>2. open[Len(open)] \in [level : 0..9, order : Nat]
                    BY <3>2, <5>1, ElementOf DEF Ancestors
                <5> QED BY <4>2, <5>2 DEF Last
            <4> QED BY <4>1, <4>2
        <3> HIDE DEF open, parent
        <3>4. Flush(s) \in Sections(T)
            BY FlushIs
        <3>5. Append(Flush(s), Section(p.level, p.text, parent)) \in Sections(T)
            BY <1>1, <1>2, <3>3, <3>4 DEF Sections
        <3>6. Append(open, [level |-> p.level, order |-> Len(s.sections)]) \in Ancestors
            BY <1>1, <3>2 DEF Ancestors, Sections
        <3> QED BY <3>1, <3>5, <3>6 DEF ReadingStates
    <2> QED BY <2>1, <2>2
<1> QED BY <1>3, <1>4

\* The parser's state has its type after every paragraph.
LEMMA ReadingTyped ==
    ASSUME NEW T, Blank \in T, NEW paras \in Paragraphs(T)
    PROVE  \A k \in 0..Len(paras) : Reading(paras)[k] \in ReadingStates(T)
<1> DEFINE n == Len(paras)
           P == {k \in Nat : k <= n => Reading(paras)[k] \in ReadingStates(T)}
<1>1. n \in Nat
    BY DEF Paragraphs
<1>2. 0 \in P
    <2>1. [sections |-> <<>>, ancestors |-> <<>>, body |-> <<>>] \in ReadingStates(T)
        BY DEF ReadingStates, Sections, Ancestors
    <2> QED BY <2>1, ReadingSteps
<1>3. ASSUME NEW k \in Nat, k \in P PROVE k + 1 \in P
    <2> SUFFICES ASSUME k + 1 <= n PROVE Reading(paras)[k + 1] \in ReadingStates(T)
        OBVIOUS
    <2>1. k + 1 \in 1..n /\ k + 1 - 1 = k /\ Reading(paras)[k] \in ReadingStates(T)
        BY <1>1, <1>3
    <2>2. Reading(paras)[k + 1] = ParseParagraph(Reading(paras)[k], paras[k + 1])
        BY <2>1, ReadingSteps
    <2>3. paras[k + 1] \in [id : Nat, level : 0..9, text : T]
        BY <2>1, ParagraphFields
    <2> QED BY <2>1, <2>2, <2>3, ParseTyped
<1>4. ASSUME NEW k \in 0..n PROVE k \in P
    <2> HIDE DEF P
    <2> QED BY <1>1, <1>2, <1>3, <1>4, Induction
<1> QED BY <1>1, <1>4

---------------------------------------------------------------------------
(* The sections of a document, told from its headings                        *)
IsHeading(p) == p.level # Body /\ p.text # Blank
IsText(p) == p.level = Body /\ p.text # Blank

\* No heading lies between a and the paragraph at q; 0 is the document's start.
Under(paras, a, q) == a < q /\ \A h \in a + 1..q : ~ IsHeading(paras[h])

HeadingsIn(paras, k) == {h \in 1..k : IsHeading(paras[h])}
TextsUnder(paras, k, a) == {q \in 1..k : IsText(paras[q]) /\ Under(paras, a, q)}

\* Where the first k paragraphs open a section.
Opens(paras, k) == HeadingsIn(paras, k) \cup {a \in {0} : TextsUnder(paras, k, 0) # {}}

LevelAt(paras, a) == IF a = 0 THEN 0 ELSE paras[a].level
HeadingAt(paras, a) == IF a = 0 THEN Blank ELSE paras[a].text
LinesUnder(paras, k, a) == Kept(TextsOf(paras), TextsUnder(paras, k, a))

\* Bounds of these sets.
LEMMA OpensBounds ==
    ASSUME NEW paras, NEW k \in Nat
    PROVE  /\ HeadingsIn(paras, k) \in SUBSET (0..k) /\ Opens(paras, k) \in SUBSET (0..k)
           /\ \A h \in HeadingsIn(paras, k) : h \in 1..k /\ IsHeading(paras[h])
           /\ \A a \in Opens(paras, k) : a # 0 => a \in HeadingsIn(paras, k)
           /\ \A a : TextsUnder(paras, k, a) \in SUBSET (1..k)
BY DEF Opens, HeadingsIn, TextsUnder

\* The next paragraph, if no heading, lies under the last place of a section.
LEMMA UnderNext ==
    ASSUME NEW paras, NEW k \in Nat, NEW a \in {0} \cup HeadingsIn(paras, k),
           ~ IsHeading(paras[k + 1])
    PROVE  Under(paras, a, k + 1) <=> \A h \in HeadingsIn(paras, k) : h <= a
<1>1. a \in 0..k
    BY DEF HeadingsIn
<1>2. ASSUME Under(paras, a, k + 1), NEW h \in HeadingsIn(paras, k) PROVE h <= a
    <2> SUFFICES ASSUME h > a PROVE FALSE
        BY <1>1 DEF HeadingsIn
    <2>1. h \in a + 1..k + 1 /\ IsHeading(paras[h])
        BY <1>1 DEF HeadingsIn
    <2> QED BY <1>2, <2>1 DEF Under
<1>3. ASSUME \A h \in HeadingsIn(paras, k) : h <= a PROVE Under(paras, a, k + 1)
    <2>1. ASSUME NEW h \in a + 1..k + 1, IsHeading(paras[h]) PROVE FALSE
        <3>1. h # k + 1
            BY <2>1
        <3>2. h \in 1..k /\ ~ (h <= a)
            BY <1>1, <3>1
        <3>3. h \in HeadingsIn(paras, k)
            BY <2>1, <3>2 DEF HeadingsIn
        <3> QED BY <1>3, <3>2, <3>3
    <2>2. a < k + 1
        BY <1>1
    <2> QED BY <2>1, <2>2 DEF Under
<1> QED BY <1>2, <1>3

\* A blank paragraph changes nothing.
LEMMA BlankNext ==
    ASSUME NEW paras, NEW k \in Nat, paras[k + 1].text = Blank
    PROVE  /\ HeadingsIn(paras, k + 1) = HeadingsIn(paras, k)
           /\ Opens(paras, k + 1) = Opens(paras, k)
           /\ \A a : TextsUnder(paras, k + 1, a) = TextsUnder(paras, k, a)
<1>1. ~ IsHeading(paras[k + 1]) /\ ~ IsText(paras[k + 1])
    BY DEF IsHeading, IsText
<1>2. HeadingsIn(paras, k + 1) = HeadingsIn(paras, k)
    BY <1>1 DEF HeadingsIn
<1>3. \A a : TextsUnder(paras, k + 1, a) = TextsUnder(paras, k, a)
    BY <1>1 DEF TextsUnder
<1> QED BY <1>2, <1>3, Zenon DEF Opens

\* A heading opens a section and is none of another.
LEMMA HeadingNext ==
    ASSUME NEW paras, NEW k \in Nat, IsHeading(paras[k + 1])
    PROVE  /\ HeadingsIn(paras, k + 1) = HeadingsIn(paras, k) \cup {k + 1}
           /\ Opens(paras, k + 1) = Opens(paras, k) \cup {k + 1}
           /\ TextsUnder(paras, k + 1, k + 1) = {}
           /\ \A a : TextsUnder(paras, k + 1, a) = TextsUnder(paras, k, a)
<1>1. ~ IsText(paras[k + 1])
    BY DEF IsHeading, IsText
<1>2. HeadingsIn(paras, k + 1) = HeadingsIn(paras, k) \cup {k + 1}
    BY DEF HeadingsIn
<1>3. \A a : TextsUnder(paras, k + 1, a) = TextsUnder(paras, k, a)
    BY <1>1 DEF TextsUnder
<1>4. Opens(paras, k + 1) = Opens(paras, k) \cup {k + 1}
    <2>1. TextsUnder(paras, k + 1, 0) = TextsUnder(paras, k, 0)
        BY <1>3
    <2> QED BY <1>2, <2>1 DEF Opens
<1>5. TextsUnder(paras, k + 1, k + 1) = {}
    BY DEF TextsUnder, Under
<1> QED BY <1>2, <1>3, <1>4, <1>5

\* A text belongs to the section opened last, or opens the preamble.
LEMMA TextNext ==
    ASSUME NEW paras, NEW k \in Nat, IsText(paras[k + 1])
    PROVE  /\ HeadingsIn(paras, k + 1) = HeadingsIn(paras, k)
           /\ Opens(paras, k) = {} => Opens(paras, k + 1) = {0} /\ TextsUnder(paras, k + 1, 0) = {k + 1}
           /\ Opens(paras, k) # {} => Opens(paras, k + 1) = Opens(paras, k)
           /\ \A a \in Opens(paras, k) :
                 TextsUnder(paras, k + 1, a) = IF \A b \in Opens(paras, k) : b <= a
                                               THEN TextsUnder(paras, k, a) \cup {k + 1}
                                               ELSE TextsUnder(paras, k, a)
<1>1. ~ IsHeading(paras[k + 1])
    BY DEF IsHeading, IsText
<1>2. HeadingsIn(paras, k + 1) = HeadingsIn(paras, k)
    BY <1>1 DEF HeadingsIn
<1>3. \A a : TextsUnder(paras, k + 1, a) = IF Under(paras, a, k + 1)
                                           THEN TextsUnder(paras, k, a) \cup {k + 1}
                                           ELSE TextsUnder(paras, k, a)
    BY DEF TextsUnder
<1>4. \A a \in {0} \cup HeadingsIn(paras, k) :
          Under(paras, a, k + 1) <=> \A h \in HeadingsIn(paras, k) : h <= a
    BY <1>1, UnderNext
<1>5. Opens(paras, k) = HeadingsIn(paras, k) \cup (IF TextsUnder(paras, k, 0) # {} THEN {0} ELSE {})
    BY DEF Opens
<1>6. Opens(paras, k + 1) =
          HeadingsIn(paras, k) \cup (IF TextsUnder(paras, k + 1, 0) # {} THEN {0} ELSE {})
    BY <1>2 DEF Opens
<1>7. HeadingsIn(paras, k) \subseteq 1..k
    BY DEF HeadingsIn
<1>8. ASSUME Opens(paras, k) = {}
      PROVE  Opens(paras, k + 1) = {0} /\ TextsUnder(paras, k + 1, 0) = {k + 1}
    <2>1. HeadingsIn(paras, k) = {} /\ TextsUnder(paras, k, 0) = {}
        BY <1>5, <1>8
    <2>2. TextsUnder(paras, k + 1, 0) = {k + 1}
        BY <1>3, <1>4, <2>1
    <2> QED BY <1>6, <2>1, <2>2
<1>9. ASSUME Opens(paras, k) # {} PROVE Opens(paras, k + 1) = Opens(paras, k)
    <2>1. CASE TextsUnder(paras, k, 0) # {}
        <3>1. TextsUnder(paras, k + 1, 0) # {}
            BY <1>3, <2>1
        <3> QED BY <1>5, <1>6, <2>1, <3>1
    <2>2. CASE TextsUnder(paras, k, 0) = {}
        <3>1. PICK h \in HeadingsIn(paras, k) : TRUE
            BY <1>5, <1>9, <2>2
        <3>2. ~ Under(paras, 0, k + 1)
            BY <1>4, <1>7, <3>1
        <3>3. TextsUnder(paras, k + 1, 0) = {}
            BY <1>3, <2>2, <3>2
        <3> QED BY <1>5, <1>6, <2>2, <3>3
    <2> QED BY <2>1, <2>2
<1>10. ASSUME NEW a \in Opens(paras, k)
       PROVE  TextsUnder(paras, k + 1, a) = IF \A b \in Opens(paras, k) : b <= a
                                            THEN TextsUnder(paras, k, a) \cup {k + 1}
                                            ELSE TextsUnder(paras, k, a)
    <2>1. a \in {0} \cup HeadingsIn(paras, k) /\ a \in 0..k
        BY <1>5, <1>7
    <2>2. (\A b \in Opens(paras, k) : b <= a) <=> \A h \in HeadingsIn(paras, k) : h <= a
        <3>1. \A b \in Opens(paras, k) : b = 0 \/ b \in HeadingsIn(paras, k)
            BY <1>5
        <3>2. HeadingsIn(paras, k) \subseteq Opens(paras, k)
            BY <1>5
        <3>3. 0 <= a
            BY <2>1
        <3> QED BY <3>1, <3>2, <3>3, Zenon
    <2>3. Under(paras, a, k + 1) <=> \A b \in Opens(paras, k) : b <= a
        BY <1>4, <2>1, <2>2
    <2> QED BY <1>3, <2>3
<1> QED BY <1>2, <1>8, <1>9, <1>10

---------------------------------------------------------------------------
(* The parser finds these sections                                           *)

\* The section at a, as far as the first k paragraphs tell; lines are its text.
Tells(section, lines, paras, k, a) ==
    /\ section.level = LevelAt(paras, a)
    /\ section.heading = HeadingAt(paras, a)
    /\ lines = LinesUnder(paras, k, a)

\* What the parser has stored after k paragraphs; the last section's text is open.
ReadAs(paras, k) ==
    LET s == Reading(paras)[k]
        places == Listed(Opens(paras, k))
    IN  /\ Len(s.sections) = Len(places)
        /\ \A i \in 1..Len(places) :
             Tells(s.sections[i], IF i = Len(places) THEN s.body ELSE s.sections[i].lines,
                   paras, k, places[i])

\* The texts of a document are a list.
LEMMA TextsList ==
    ASSUME NEW T, NEW paras \in Paragraphs(T)
    PROVE  /\ TextsOf(paras) \in Seq(T) /\ Len(TextsOf(paras)) = Len(paras)
           /\ \A k \in 1..Len(paras) : TextsOf(paras)[k] = paras[k].text
<1>1. DOMAIN paras = 1..Len(paras) /\ Len(paras) \in Nat
    BY DEF Paragraphs
<1>2. \A k \in 1..Len(paras) : paras[k].text \in T
    BY ParagraphFields
<1> QED BY <1>1, <1>2 DEF TextsOf

\* The last element of a rising list is the one that no other exceeds.
LEMMA RisingLast ==
    ASSUME NEW e, NEW T, Rising(e, T), NEW i \in 1..Len(e)
    PROVE  (\A b \in T : b <= e[i]) <=> i = Len(e)
<1>1. /\ Len(e) \in Nat
      /\ \A j \in 1..Len(e) : e[j] \in T /\ e[j] \in Nat
      /\ \A t \in T : \E j \in 1..Len(e) : e[j] = t
      /\ \A j, l \in 1..Len(e) : j < l => e[j] < e[l]
    BY RisingElements
<1>2. ASSUME \A b \in T : b <= e[i], i # Len(e) PROVE FALSE
    <2>1. Len(e) \in 1..Len(e) /\ i < Len(e)
        BY <1>1, <1>2
    <2>2. e[i] < e[Len(e)] /\ e[Len(e)] <= e[i]
        BY <1>1, <1>2, <2>1
    <2> QED BY <1>1, <2>1, <2>2
<1>3. ASSUME i = Len(e), NEW b \in T PROVE b <= e[i]
    <2>1. PICK j \in 1..Len(e) : e[j] = b
        BY <1>1
    <2>2. j = i \/ j < i
        BY <1>1, <1>3
    <2> QED BY <1>1, <2>1, <2>2
<1> QED BY <1>2, <1>3

\* The open section takes the next text.
LEMMA LinesNext ==
    ASSUME NEW T, NEW paras \in Paragraphs(T), NEW k \in Nat, k + 1 <= Len(paras), NEW a
    PROVE  Kept(TextsOf(paras), TextsUnder(paras, k, a) \cup {k + 1})
               = Append(LinesUnder(paras, k, a), paras[k + 1].text)
<1>1. /\ TextsOf(paras) \in Seq(T) /\ k + 1 \in 1..Len(TextsOf(paras))
      /\ TextsOf(paras)[k + 1] = paras[k + 1].text
    <2>1. k + 1 \in 1..Len(paras)
        BY DEF Paragraphs
    <2> QED BY <2>1, TextsList
<1>2. TextsUnder(paras, k, a) \in SUBSET (1..k + 1 - 1)
    <2>1. k + 1 - 1 = k
        OBVIOUS
    <2> QED BY <2>1, OpensBounds
<1>3. Kept(TextsOf(paras), TextsUnder(paras, k, a) \cup {k + 1})
          = Append(Kept(TextsOf(paras), TextsUnder(paras, k, a)), TextsOf(paras)[k + 1])
    BY <1>1, <1>2, KeptAdds
<1> QED BY <1>1, <1>3 DEF LinesUnder

\* The list of places of sections.
LEMMA PlacesRise ==
    ASSUME NEW paras, NEW k \in Nat
    PROVE  /\ Rising(Listed(Opens(paras, k)), Opens(paras, k))
           /\ Len(Listed(Opens(paras, k))) \in Nat
           /\ \A i \in 1..Len(Listed(Opens(paras, k))) :
                 Listed(Opens(paras, k))[i] \in Opens(paras, k)
<1>1. Rising(Listed(Opens(paras, k)), Opens(paras, k))
    BY OpensBounds, ListedRises
<1> QED BY <1>1, RisingElements

\* Blank paragraphs are skipped.
LEMMA ReadBlank ==
    ASSUME NEW T, NEW paras \in Paragraphs(T), NEW k \in Nat, k + 1 <= Len(paras),
           ReadAs(paras, k), paras[k + 1].text = Blank
    PROVE  ReadAs(paras, k + 1)
<1>1. Reading(paras)[k + 1] = Reading(paras)[k]
    <2>1. k + 1 \in 1..Len(paras) /\ k + 1 - 1 = k
        BY DEF Paragraphs
    <2>2. Reading(paras)[k + 1] = ParseParagraph(Reading(paras)[k], paras[k + 1])
        BY <2>1, ReadingSteps
    <2> QED BY <2>2 DEF ParseParagraph, ParseBody, ParseHeading
<1>2. /\ Opens(paras, k + 1) = Opens(paras, k)
      /\ \A a : TextsUnder(paras, k + 1, a) = TextsUnder(paras, k, a)
    BY BlankNext
<1>3. \A a : LinesUnder(paras, k + 1, a) = LinesUnder(paras, k, a)
    BY <1>2 DEF LinesUnder
<1> QED BY <1>1, <1>2, <1>3 DEF ReadAs, Tells

\* The first text opens a preamble.
LEMMA ReadPreamble ==
    ASSUME NEW T, Blank \in T, NEW paras \in Paragraphs(T), NEW k \in Nat, k + 1 <= Len(paras),
           ReadAs(paras, k), IsText(paras[k + 1]), Reading(paras)[k].sections = <<>>
    PROVE  ReadAs(paras, k + 1)
<1> DEFINE s == Reading(paras)[k]
           t == Reading(paras)[k + 1]
           p == paras[k + 1]
<1>1. k + 1 \in 1..Len(paras) /\ k + 1 - 1 = k /\ k \in 0..Len(paras)
    BY DEF Paragraphs
<1>2. t = ParseParagraph(s, p)
    BY <1>1, ReadingSteps
<1>3. t.sections = <<Section(0, Blank, None)>> /\ t.body = <<p.text>>
    <2>1. s \in ReadingStates(T)
        BY <1>1, ReadingTyped
    <2>2. ParseParagraph(s, p) = [s EXCEPT !.sections = <<Section(0, Blank, None)>>, !.body = <<p.text>>]
        BY DEF ParseParagraph, ParseBody, IsText
    <2> QED BY <1>2, <2>1, <2>2 DEF ReadingStates
<1>4. Opens(paras, k) = {}
    <2>1. Len(Listed(Opens(paras, k))) = 0
        BY DEF ReadAs
    <2>2. \A a \in Opens(paras, k) : \E i \in 1..0 : TRUE
        BY <2>1, PlacesRise, RisingElements
    <2> QED BY <2>2
<1>5. Opens(paras, k + 1) = {0} /\ TextsUnder(paras, k + 1, 0) = {k + 1}
    BY <1>4, TextNext
<1>6. Listed({0}) = <<0>>
    <2>1. Rising(<<0>>, {0})
        BY DEF Rising
    <2> QED BY <2>1, ListedIs
<1>7. LinesUnder(paras, k + 1, 0) = <<p.text>>
    <2>1. /\ TextsOf(paras) \in Seq(T) /\ k + 1 \in 1..Len(TextsOf(paras))
          /\ TextsOf(paras)[k + 1] = p.text
        BY <1>1, TextsList
    <2>2. Kept(TextsOf(paras), {} \cup {k + 1}) = Append(Kept(TextsOf(paras), {}), p.text)
        <3>1. {} \in SUBSET (1..k + 1 - 1)
            OBVIOUS
        <3>2. Kept(TextsOf(paras), {} \cup {k + 1})
                 = Append(Kept(TextsOf(paras), {}), TextsOf(paras)[k + 1])
            BY <2>1, <3>1, KeptAdds
        <3> QED BY <2>1, <3>2
    <2>3. Kept(TextsOf(paras), {}) = <<>>
        BY <2>1, KeptNone
    <2>4. {} \cup {k + 1} = {k + 1} /\ Append(<<>>, p.text) = <<p.text>>
        OBVIOUS
    <2>5. Kept(TextsOf(paras), {k + 1}) = <<p.text>>
        BY <2>2, <2>3, <2>4, Zenon
    <2> QED BY <1>5, <2>5 DEF LinesUnder
<1>8. /\ Len(t.sections) = 1 /\ t.sections[1].level = 0 /\ t.sections[1].heading = Blank
    BY <1>3 DEF Section
<1> HIDE DEF s, t, p
<1>9. Tells(t.sections[1], t.body, paras, k + 1, 0)
    BY <1>3, <1>7, <1>8 DEF Tells, LevelAt, HeadingAt
<1>10. Len(<<0>>) = 1 /\ <<0>>[1] = 0
    OBVIOUS
<1>11. Listed(Opens(paras, k + 1)) = <<0>>
    BY <1>5, <1>6
<1>12. ReadAs(paras, k + 1) <=>
           /\ Len(t.sections) = Len(<<0>>)
           /\ \A i \in 1..Len(<<0>>) :
                Tells(t.sections[i], IF i = Len(<<0>>) THEN t.body ELSE t.sections[i].lines,
                      paras, k + 1, <<0>>[i])
    BY <1>11, Zenon DEF ReadAs, t
<1>13. \A i \in 1..1 : i = 1
    OBVIOUS
<1> QED BY <1>8, <1>9, <1>10, <1>12, <1>13

\* A text under an open section goes to the last one.
LEMMA ReadText ==
    ASSUME NEW T, Blank \in T, NEW paras \in Paragraphs(T), NEW k \in Nat, k + 1 <= Len(paras),
           ReadAs(paras, k), IsText(paras[k + 1]), Reading(paras)[k].sections # <<>>
    PROVE  ReadAs(paras, k + 1)
<1> DEFINE s == Reading(paras)[k]
           t == Reading(paras)[k + 1]
           p == paras[k + 1]
           places == Listed(Opens(paras, k))
<1>1. k + 1 \in 1..Len(paras) /\ k + 1 - 1 = k /\ k \in 0..Len(paras)
    BY DEF Paragraphs
<1>2. t = ParseParagraph(s, p)
    BY <1>1, ReadingSteps
<1>3. s \in ReadingStates(T)
    BY <1>1, ReadingTyped
<1>4. t.sections = s.sections /\ t.body = Append(s.body, p.text)
    <2>1. ParseParagraph(s, p) = [s EXCEPT !.body = Append(@, p.text)]
        BY DEF ParseParagraph, ParseBody, IsText
    <2> QED BY <1>2, <1>3, <2>1 DEF ReadingStates
<1>5. /\ Len(s.sections) = Len(places)
      /\ \A i \in 1..Len(places) :
           Tells(s.sections[i], IF i = Len(places) THEN s.body ELSE s.sections[i].lines,
                 paras, k, places[i])
    BY DEF ReadAs
<1>6. /\ Len(places) \in Nat /\ \A i \in 1..Len(places) : places[i] \in Opens(paras, k)
      /\ Rising(places, Opens(paras, k))
    BY PlacesRise
<1> HIDE DEF places
<1>7. Opens(paras, k) # {}
    <2>1. Len(s.sections) \in Nat /\ Len(s.sections) # 0
        BY <1>3 DEF ReadingStates, Sections
    <2>2. 1 \in 1..Len(places)
        BY <1>5, <1>6, <2>1
    <2> QED BY <1>6, <2>2
<1>8. Opens(paras, k + 1) = Opens(paras, k)
    BY <1>7, TextNext
<1>9. ASSUME NEW i \in 1..Len(places)
      PROVE  LinesUnder(paras, k + 1, places[i])
                = IF i = Len(places) THEN Append(LinesUnder(paras, k, places[i]), p.text)
                  ELSE LinesUnder(paras, k, places[i])
    <2>1. (\A b \in Opens(paras, k) : b <= places[i]) <=> i = Len(places)
        BY <1>6, RisingLast
    <2>2. TextsUnder(paras, k + 1, places[i]) = IF i = Len(places)
                                                THEN TextsUnder(paras, k, places[i]) \cup {k + 1}
                                                ELSE TextsUnder(paras, k, places[i])
        BY <1>6, <2>1, TextNext
    <2>3. Kept(TextsOf(paras), TextsUnder(paras, k, places[i]) \cup {k + 1})
              = Append(LinesUnder(paras, k, places[i]), p.text)
        BY LinesNext
    <2>4. CASE i = Len(places)
        <3>1. TextsUnder(paras, k + 1, places[i]) = TextsUnder(paras, k, places[i]) \cup {k + 1}
            BY <2>2, <2>4
        <3>2. LinesUnder(paras, k + 1, places[i]) = Append(LinesUnder(paras, k, places[i]), p.text)
            BY <2>3, <3>1, Zenon DEF LinesUnder
        <3> QED BY <2>4, <3>2
    <2>5. CASE i # Len(places)
        <3>1. TextsUnder(paras, k + 1, places[i]) = TextsUnder(paras, k, places[i])
            BY <2>2, <2>5
        <3>2. LinesUnder(paras, k + 1, places[i]) = LinesUnder(paras, k, places[i])
            BY <3>1, Zenon DEF LinesUnder
        <3> QED BY <2>5, <3>2
    <2> QED BY <2>4, <2>5
<1> HIDE DEF s, t, p
<1>10. ASSUME NEW i \in 1..Len(places)
       PROVE  Tells(t.sections[i], IF i = Len(places) THEN t.body ELSE t.sections[i].lines,
                    paras, k + 1, places[i])
    <2>1. Tells(s.sections[i], IF i = Len(places) THEN s.body ELSE s.sections[i].lines,
                paras, k, places[i])
        BY <1>5
    <2>2. CASE i = Len(places)
        BY <1>4, <1>9, <2>1, <2>2 DEF Tells
    <2>3. CASE i # Len(places)
        BY <1>4, <1>9, <2>1, <2>3 DEF Tells
    <2> QED BY <2>2, <2>3
<1>11. Listed(Opens(paras, k + 1)) = places
    BY <1>8 DEF places
<1> QED BY <1>4, <1>5, <1>10, <1>11, Zenon DEF ReadAs, t

\* A heading closes the open section and opens its own.
LEMMA ReadHeading ==
    ASSUME NEW T, Blank \in T, NEW paras \in Paragraphs(T), NEW k \in Nat, k + 1 <= Len(paras),
           ReadAs(paras, k), IsHeading(paras[k + 1])
    PROVE  ReadAs(paras, k + 1)
<1> DEFINE s == Reading(paras)[k]
           t == Reading(paras)[k + 1]
           p == paras[k + 1]
           places == Listed(Opens(paras, k))
           n == Len(places)
           open == Popped(s.ancestors, p.level)
           new == Section(p.level, p.text, IF open = <<>> THEN None ELSE Last(open).order)
<1>1. k + 1 \in 1..Len(paras) /\ k + 1 - 1 = k /\ k \in 0..Len(paras)
    BY DEF Paragraphs
<1>2. t = ParseParagraph(s, p)
    BY <1>1, ReadingSteps
<1>3. s \in ReadingStates(T)
    BY <1>1, ReadingTyped
<1>4. t.sections = Append(Flush(s), new) /\ t.body = <<>>
    BY <1>2 DEF ParseParagraph, ParseHeading, IsHeading
<1>5. new.level = p.level /\ new.heading = p.text
    BY DEF Section
<1>6. /\ Len(s.sections) = n
      /\ \A i \in 1..n :
           Tells(s.sections[i], IF i = n THEN s.body ELSE s.sections[i].lines, paras, k, places[i])
    BY DEF ReadAs
<1>7. n \in Nat /\ Rising(places, Opens(paras, k))
    BY PlacesRise
<1> HIDE DEF new, places, n, open
<1>8. /\ Opens(paras, k + 1) = Opens(paras, k) \cup {k + 1}
      /\ TextsUnder(paras, k + 1, k + 1) = {}
      /\ \A a : TextsUnder(paras, k + 1, a) = TextsUnder(paras, k, a)
    BY HeadingNext
<1>9. Listed(Opens(paras, k + 1)) = Append(places, k + 1)
    <2>1. Opens(paras, k) \in SUBSET (0..k) /\ \A a \in Opens(paras, k) : a < k + 1
        <3>1. Opens(paras, k) \in SUBSET (0..k)
            BY OpensBounds
        <3> QED BY <3>1
    <2>2. Listed(Opens(paras, k) \cup {k + 1}) = Append(Listed(Opens(paras, k)), k + 1)
        <3>1. k + 1 \in Nat
            OBVIOUS
        <3> QED BY <2>1, <3>1, ListedAdds
    <2> QED BY <1>8, <2>2 DEF places
<1> DEFINE later == Append(places, k + 1)
<1>10. Len(later) = n + 1 /\ later[n + 1] = k + 1 /\ \A i \in 1..n : later[i] = places[i]
    <2>1. places \in Seq(Nat)
        BY <1>7, RisingElements
    <2> QED BY <2>1 DEF n
<1> HIDE DEF later
<1>11. /\ Len(Flush(s)) = n /\ Flush(s) \in Sections(T)
       /\ \A i \in 1..n :
             /\ Flush(s)[i].level = s.sections[i].level
             /\ Flush(s)[i].heading = s.sections[i].heading
             /\ Flush(s)[i].lines = IF i = n THEN s.body ELSE s.sections[i].lines
    BY <1>3, <1>6, FlushIs
<1>12. /\ Len(t.sections) = n + 1 /\ t.sections[n + 1] = new
       /\ \A i \in 1..n : t.sections[i] = Flush(s)[i]
    <2> DEFINE f == Flush(s)
    <2>1. /\ Len(Append(f, new)) = n + 1 /\ Append(f, new)[n + 1] = new
          /\ \A i \in 1..n : Append(f, new)[i] = f[i]
        <3>1. Len(f) = n /\ f \in Seq([level : 0..9, heading : T, parent : Int, lines : Seq(T)])
            BY <1>11 DEF Sections
        <3> HIDE DEF f
        <3> QED BY <1>7, <3>1
    <2> QED BY <1>4, <2>1
<1>13. \A a : LinesUnder(paras, k + 1, a) = LinesUnder(paras, k, a)
    BY <1>8 DEF LinesUnder
<1>14. LinesUnder(paras, k + 1, k + 1) = <<>>
    BY <1>8, TextsList, KeptNone DEF LinesUnder
<1> HIDE DEF s, t, p
<1>15. ASSUME NEW i \in 1..n + 1
       PROVE  Tells(t.sections[i], IF i = n + 1 THEN t.body ELSE t.sections[i].lines,
                    paras, k + 1, later[i])
    <2>1. CASE i = n + 1
        <3>1. new.level = LevelAt(paras, k + 1) /\ new.heading = HeadingAt(paras, k + 1)
            BY <1>5 DEF LevelAt, HeadingAt, p
        <3> QED BY <1>4, <1>10, <1>12, <1>14, <2>1, <3>1 DEF Tells
    <2>2. CASE i # n + 1
        <3>1. i \in 1..n
            BY <1>7, <2>2
        <3>2. Tells(s.sections[i], IF i = n THEN s.body ELSE s.sections[i].lines, paras, k, places[i])
            BY <1>6, <3>1
        <3>3. later[i] = places[i] /\ t.sections[i] = Flush(s)[i]
            BY <1>10, <1>12, <3>1
        <3> QED BY <1>11, <1>13, <2>2, <3>1, <3>2, <3>3 DEF Tells
    <2> QED BY <2>1, <2>2
<1>16. Listed(Opens(paras, k + 1)) = later
    BY <1>9 DEF later
<1> QED BY <1>10, <1>12, <1>15, <1>16, Zenon DEF ReadAs, t

\* So after any number of paragraphs the parser has the sections so far.
LEMMA ReadingTells ==
    ASSUME NEW T, Blank \in T, NEW paras \in Paragraphs(T)
    PROVE  \A k \in 0..Len(paras) : ReadAs(paras, k)
<1> DEFINE n == Len(paras)
           P == {k \in Nat : k <= n => ReadAs(paras, k)}
<1>1. n \in Nat
    BY DEF Paragraphs
<1>2. 0 \in P
    <2>1. Opens(paras, 0) = {}
        BY DEF Opens, HeadingsIn, TextsUnder
    <2>2. Listed(Opens(paras, 0)) = <<>>
        BY <2>1, RisingEmpty, ListedIs
    <2>3. Reading(paras)[0].sections = <<>>
        BY ReadingSteps
    <2>4. Len(<<>>) = 0 /\ \A i \in 1..0 : FALSE
        OBVIOUS
    <2>5. ReadAs(paras, 0)
        BY <2>2, <2>3, <2>4, Zenon DEF ReadAs
    <2> QED BY <2>5
<1>3. ASSUME NEW k \in Nat, k \in P PROVE k + 1 \in P
    <2> SUFFICES ASSUME k + 1 <= n PROVE ReadAs(paras, k + 1)
        OBVIOUS
    <2>1. ReadAs(paras, k)
        BY <1>1, <1>3
    <2>2. CASE paras[k + 1].text = Blank
        BY <2>1, <2>2, ReadBlank
    <2>3. CASE IsText(paras[k + 1]) /\ Reading(paras)[k].sections = <<>>
        BY <2>1, <2>3, ReadPreamble
    <2>4. CASE IsText(paras[k + 1]) /\ Reading(paras)[k].sections # <<>>
        BY <2>1, <2>4, ReadText
    <2>5. CASE IsHeading(paras[k + 1])
        BY <2>1, <2>5, ReadHeading
    <2> QED BY <2>2, <2>3, <2>4, <2>5 DEF IsText, IsHeading
<1>4. ASSUME NEW k \in 0..n PROVE k \in P
    <2> HIDE DEF P
    <2> QED BY <1>1, <1>2, <1>3, <1>4, Induction
<1> QED BY <1>1, <1>4

\* The places of a document's sections, and what the parser makes of them.
Places(paras) == Listed(Opens(paras, Len(paras)))

LEMMA ParsedTells ==
    ASSUME NEW T, Blank \in T, NEW paras \in Paragraphs(T)
    PROVE  /\ Len(Parsed(paras)) = Len(Places(paras)) /\ Parsed(paras) \in Sections(T)
           /\ \A i \in 1..Len(Places(paras)) :
                 Tells(Parsed(paras)[i], Parsed(paras)[i].lines, paras, Len(paras), Places(paras)[i])
<1> DEFINE n == Len(paras)
           s == Reading(paras)[n]
           places == Places(paras)
<1>1. n \in 0..n
    BY DEF Paragraphs
<1>2. ReadAs(paras, n) /\ s \in ReadingStates(T)
    BY <1>1, ReadingTells, ReadingTyped
<1>3. Parsed(paras) = Flush(s)
    BY DEF Parsed
<1>4. /\ Len(s.sections) = Len(places)
      /\ \A i \in 1..Len(places) :
             Tells(s.sections[i], IF i = Len(places) THEN s.body ELSE s.sections[i].lines,
                   paras, n, places[i])
    BY <1>2 DEF ReadAs, Places
<1>5. /\ Flush(s) \in Sections(T) /\ Len(Flush(s)) = Len(s.sections)
      /\ \A i \in 1..Len(s.sections) :
            /\ Flush(s)[i].level = s.sections[i].level
            /\ Flush(s)[i].heading = s.sections[i].heading
            /\ Flush(s)[i].lines = IF i = Len(s.sections) THEN s.body ELSE s.sections[i].lines
    BY <1>2, FlushIs
<1> HIDE DEF s, n, places
<1>6. ASSUME NEW i \in 1..Len(places)
      PROVE  Tells(Flush(s)[i], Flush(s)[i].lines, paras, n, places[i])
    BY <1>4, <1>5 DEF Tells
<1> QED BY <1>3, <1>4, <1>5, <1>6 DEF n, places

---------------------------------------------------------------------------
(* The exporter finds the same sections                                      *)

\* The exporter walks one paragraph after the other.
LEMMA WalkingSteps ==
    ASSUME NEW T, NEW paras \in Paragraphs(T)
    PROVE  /\ Walking(paras)[0] = [preamble |-> <<>>, headings |-> <<>>]
           /\ \A k \in 1..Len(paras) :
                 Walking(paras)[k] = WalkParagraph(Walking(paras)[k - 1], paras[k])
<1> DEFINE n == Len(paras)
           base == [preamble |-> <<>>, headings |-> <<>>]
           Rec(g) == [k \in 0..n |-> IF k = 0 THEN base ELSE WalkParagraph(g[k - 1], paras[k])]
           P == {m \in Nat : m <= n =>
                    \E g : g[0] = base /\ \A k \in 1..m : g[k] = WalkParagraph(g[k - 1], paras[k])}
<1>1. n \in Nat
    BY DEF Paragraphs
<1> HIDE DEF base
<1>2. 0 \in P
    <2> DEFINE g == [i \in 0..0 |-> base]
    <2>1. g[0] = base /\ \A k \in 1..0 : g[k] = WalkParagraph(g[k - 1], paras[k])
        OBVIOUS
    <2> HIDE DEF g
    <2> QED BY <2>1
<1>3. ASSUME NEW m \in Nat, m \in P PROVE m + 1 \in P
    <2> SUFFICES ASSUME m + 1 <= n
                 PROVE  \E g : g[0] = base /\ \A k \in 1..m + 1 : g[k] = WalkParagraph(g[k - 1], paras[k])
        OBVIOUS
    <2>1. PICK g : g[0] = base /\ \A k \in 1..m : g[k] = WalkParagraph(g[k - 1], paras[k])
        BY <1>1, <1>3
    <2> DEFINE h == [k \in 0..m + 1 |-> IF k = m + 1 THEN WalkParagraph(g[m], paras[m + 1]) ELSE g[k]]
    <2>2. h[0] = base
        BY <2>1
    <2>3. ASSUME NEW k \in 1..m + 1 PROVE h[k] = WalkParagraph(h[k - 1], paras[k])
        <3>1. h[k - 1] = g[k - 1]
            OBVIOUS
        <3>2. CASE k = m + 1
            BY <3>1, <3>2
        <3>3. CASE k # m + 1
            <4>1. k \in 1..m /\ h[k] = g[k]
                BY <3>3
            <4> QED BY <2>1, <3>1, <4>1
        <3> QED BY <3>2, <3>3
    <2> HIDE DEF h
    <2> QED BY <2>2, <2>3
<1>4. n \in P
    <2> HIDE DEF P, n
    <2> QED BY <1>1, <1>2, <1>3, Induction
<1>5. PICK g : g[0] = base /\ \A k \in 1..n : g[k] = WalkParagraph(g[k - 1], paras[k])
    <2> HIDE DEF n
    <2> QED BY <1>1, <1>4
<1> DEFINE h == [k \in 0..n |-> g[k]]
<1>6. h = Rec(h)
    <2>1. ASSUME NEW k \in 0..n
          PROVE  h[k] = IF k = 0 THEN base ELSE WalkParagraph(h[k - 1], paras[k])
        <3>1. CASE k = 0
            BY <1>5, <3>1
        <3>2. CASE k # 0
            <4>1. k \in 1..n /\ k - 1 \in 0..n
                BY <1>1, <3>2
            <4>2. h[k] = g[k] /\ h[k - 1] = g[k - 1]
                BY <4>1
            <4> HIDE DEF h
            <4> QED BY <1>5, <3>2, <4>1, <4>2
        <3> QED BY <3>1, <3>2
    <2>2. h = [k \in 0..n |-> h[k]]
        OBVIOUS
    <2> HIDE DEF h, n
    <2> QED BY <2>1, <2>2
<1> DEFINE after == CHOOSE f : f = Rec(f)
<1>7. after = Rec(after)
    <2> HIDE DEF Rec
    <2> QED BY <1>6
<1>8. Walking(paras) = after
    BY DEF Walking, base
<1>9. \A k \in 0..n : after[k] = IF k = 0 THEN base ELSE WalkParagraph(after[k - 1], paras[k])
    <2> HIDE DEF after, n
    <2> QED BY <1>7, Zenon
<1> HIDE DEF after, n
<1>10. after[0] = base /\ \A k \in 1..n : after[k] = WalkParagraph(after[k - 1], paras[k])
    BY <1>1, <1>9
<1> QED BY <1>8, <1>10 DEF n, base

\* The body paragraphs of the section at a, and what the walk makes of it.
BodiesUnder(paras, k, a) == {q \in 1..k : paras[q].level = Body /\ Under(paras, a, q)}
Found(paras, k, a) == [anchor |-> a, body |-> Listed(BodiesUnder(paras, k, a))]
FoundAt(paras, k, places) == [i \in 1..Len(places) |-> Found(paras, k, places[i])]

WalkedAs(paras, k) ==
    Walking(paras)[k] = [preamble |-> Listed(BodiesUnder(paras, k, 0)),
                         headings |-> FoundAt(paras, k, Listed(HeadingsIn(paras, k)))]

\* The paragraphs of a document are told by their positions.
Numbered(paras) == \A k \in 1..Len(paras) : paras[k].id = k

LEMMA HeadingsRise ==
    ASSUME NEW paras, NEW k \in Nat
    PROVE  /\ Rising(Listed(HeadingsIn(paras, k)), HeadingsIn(paras, k))
           /\ Listed(HeadingsIn(paras, k)) \in Seq(Nat)
           /\ Len(Listed(HeadingsIn(paras, k))) \in Nat
           /\ \A i \in 1..Len(Listed(HeadingsIn(paras, k))) :
                 Listed(HeadingsIn(paras, k))[i] \in HeadingsIn(paras, k)
<1>1. Rising(Listed(HeadingsIn(paras, k)), HeadingsIn(paras, k))
    BY OpensBounds, ListedRises
<1> QED BY <1>1, RisingElements

LEMMA BodiesRise ==
    ASSUME NEW paras, NEW k \in Nat, NEW a
    PROVE  /\ BodiesUnder(paras, k, a) \in SUBSET (0..k)
           /\ Rising(Listed(BodiesUnder(paras, k, a)), BodiesUnder(paras, k, a))
<1>1. BodiesUnder(paras, k, a) \in SUBSET (0..k)
    BY DEF BodiesUnder
<1> QED BY <1>1, ListedRises

\* A body paragraph belongs to the last heading before it, or to the preamble.
LEMMA BodyNext ==
    ASSUME NEW paras, NEW k \in Nat, NEW a \in {0} \cup HeadingsIn(paras, k),
           paras[k + 1].level = Body
    PROVE  Listed(BodiesUnder(paras, k + 1, a)) =
               IF \A h \in HeadingsIn(paras, k) : h <= a
               THEN Append(Listed(BodiesUnder(paras, k, a)), k + 1)
               ELSE Listed(BodiesUnder(paras, k, a))
<1>1. ~ IsHeading(paras[k + 1])
    BY DEF IsHeading
<1>2. Under(paras, a, k + 1) <=> \A h \in HeadingsIn(paras, k) : h <= a
    BY <1>1, UnderNext
<1>3. BodiesUnder(paras, k + 1, a) = IF Under(paras, a, k + 1)
                                     THEN BodiesUnder(paras, k, a) \cup {k + 1}
                                     ELSE BodiesUnder(paras, k, a)
    BY DEF BodiesUnder
<1>4. Listed(BodiesUnder(paras, k, a) \cup {k + 1}) = Append(Listed(BodiesUnder(paras, k, a)), k + 1)
    <2>1. BodiesUnder(paras, k, a) \in SUBSET (0..k) /\ k + 1 \in Nat
        BY BodiesRise
    <2>2. \A t \in BodiesUnder(paras, k, a) : t < k + 1
        BY <2>1
    <2> QED BY <2>1, <2>2, ListedAdds
<1>5. CASE Under(paras, a, k + 1)
    BY <1>2, <1>3, <1>4, <1>5
<1>6. CASE ~ Under(paras, a, k + 1)
    BY <1>2, <1>3, <1>6
<1> QED BY <1>5, <1>6

\* Appending to a list of any elements.
LEMMA AppendIs ==
    ASSUME NEW n \in Nat, NEW f, f = [i \in 1..n |-> f[i]], NEW v
    PROVE  Append(f, v) = [i \in 1..n + 1 |-> IF i = n + 1 THEN v ELSE f[i]]
<1>1. f \in Seq({f[i] : i \in 1..n}) /\ Len(f) = n
    OBVIOUS
<1> QED BY <1>1

LEMMA WalkBodyNext ==
    ASSUME NEW paras, NEW k \in Nat, WalkedAs(paras, k), paras[k + 1].level = Body,
           paras[k + 1].id = k + 1,
           Walking(paras)[k + 1] = WalkParagraph(Walking(paras)[k], paras[k + 1])
    PROVE  WalkedAs(paras, k + 1)
<1> DEFINE heads == Listed(HeadingsIn(paras, k))
           n == Len(heads)
           pre == Listed(BodiesUnder(paras, k, 0))
           F(i) == Found(paras, k, heads[i])
           s == [preamble |-> pre, headings |-> FoundAt(paras, k, heads)]
           t == Walking(paras)[k + 1]
<1>1. Walking(paras)[k] = s
    BY DEF WalkedAs
<1>2. t = WalkBody(s, paras[k + 1])
    BY <1>1 DEF WalkParagraph
<1>3. n \in Nat /\ heads \in Seq(Nat) /\ Rising(heads, HeadingsIn(paras, k))
      /\ \A i \in 1..n : heads[i] \in HeadingsIn(paras, k)
    BY HeadingsRise
<1>4. HeadingsIn(paras, k + 1) = HeadingsIn(paras, k)
    BY DEF HeadingsIn, IsHeading
<1> HIDE DEF heads
<1>5. CASE n = 0
    <2>1. FoundAt(paras, k, heads) = <<>>
        BY <1>5 DEF FoundAt
    <2>2. t = [preamble |-> Append(pre, k + 1), headings |-> <<>>]
        BY <1>2, <2>1 DEF WalkBody
    <2>3. HeadingsIn(paras, k) = {}
        BY <1>3, <1>5, RisingElements
    <2>4. Listed(BodiesUnder(paras, k + 1, 0)) = Append(pre, k + 1)
        <3>1. 0 \in {0} \cup HeadingsIn(paras, k)
            OBVIOUS
        <3> QED BY <2>3, <3>1, BodyNext
    <2>5. FoundAt(paras, k + 1, heads) = <<>>
        BY <1>5 DEF FoundAt
    <2> QED BY <1>4, <2>2, <2>4, <2>5 DEF WalkedAs, heads
<1>6. CASE n # 0
    <2>1. /\ DOMAIN FoundAt(paras, k, heads) = 1..n /\ Len(FoundAt(paras, k, heads)) = n
          /\ FoundAt(paras, k, heads) # <<>>
        BY <1>3, <1>6 DEF FoundAt
    <2>2. t = [preamble |-> pre,
               headings |-> [FoundAt(paras, k, heads) EXCEPT ![n].body = Append(@, k + 1)]]
        BY <1>2, <2>1 DEF WalkBody
    <2>3. [FoundAt(paras, k, heads) EXCEPT ![n].body = Append(@, k + 1)]
              = [i \in 1..n |-> IF i = n THEN [F(n) EXCEPT !.body = Append(@, k + 1)] ELSE F(i)]
        BY <1>3, <1>6 DEF FoundAt
    <2>4. ASSUME NEW i \in 1..n
          PROVE  Found(paras, k + 1, heads[i])
                    = IF i = n THEN [F(n) EXCEPT !.body = Append(@, k + 1)] ELSE F(i)
        <3>1. (\A h \in HeadingsIn(paras, k) : h <= heads[i]) <=> i = n
            BY <1>3, RisingLast
        <3>2. Listed(BodiesUnder(paras, k + 1, heads[i])) =
                  IF i = n THEN Append(Listed(BodiesUnder(paras, k, heads[i])), k + 1)
                  ELSE Listed(BodiesUnder(paras, k, heads[i]))
            <4>1. heads[i] \in {0} \cup HeadingsIn(paras, k)
                BY <1>3
            <4> QED BY <3>1, <4>1, BodyNext
        <3>3. CASE i = n
            BY <3>2, <3>3 DEF Found
        <3>4. CASE i # n
            BY <3>2, <3>4 DEF Found
        <3> QED BY <3>3, <3>4
    <2>5. FoundAt(paras, k + 1, heads) = [FoundAt(paras, k, heads) EXCEPT ![n].body = Append(@, k + 1)]
        <3>1. FoundAt(paras, k + 1, heads) = [i \in 1..n |-> Found(paras, k + 1, heads[i])]
            BY DEF FoundAt
        <3> HIDE DEF n, F
        <3> QED BY <2>3, <2>4, <3>1
    <2>6. Listed(BodiesUnder(paras, k + 1, 0)) = pre
        <3>1. 1 \in 1..n /\ heads[1] \in HeadingsIn(paras, k)
            BY <1>3, <1>6
        <3>2. ~ (heads[1] <= 0)
            BY <3>1 DEF HeadingsIn
        <3>3. 0 \in {0} \cup HeadingsIn(paras, k)
            OBVIOUS
        <3> QED BY <3>1, <3>2, <3>3, BodyNext
    <2> QED BY <1>4, <2>2, <2>5, <2>6 DEF WalkedAs, heads
<1> QED BY <1>5, <1>6

\* A heading, blank or not.
LEMMA WalkHeadingNext ==
    ASSUME NEW paras, NEW k \in Nat, WalkedAs(paras, k), paras[k + 1].level # Body,
           paras[k + 1].id = k + 1,
           Walking(paras)[k + 1] = WalkParagraph(Walking(paras)[k], paras[k + 1])
    PROVE  WalkedAs(paras, k + 1)
<1> DEFINE heads == Listed(HeadingsIn(paras, k))
           n == Len(heads)
           s == [preamble |-> Listed(BodiesUnder(paras, k, 0)), headings |-> FoundAt(paras, k, heads)]
           t == Walking(paras)[k + 1]
<1>1. Walking(paras)[k] = s
    BY DEF WalkedAs
<1>2. t = WalkHeading(s, paras[k + 1])
    BY <1>1 DEF WalkParagraph
<1>3. n \in Nat /\ heads \in Seq(Nat)
    BY HeadingsRise
<1>4. \A a : BodiesUnder(paras, k + 1, a) = BodiesUnder(paras, k, a)
    BY DEF BodiesUnder
<1>5. \A a : Found(paras, k + 1, a) = Found(paras, k, a)
    BY <1>4 DEF Found
<1>6. CASE paras[k + 1].text = Blank
    <2>1. t = s
        BY <1>2, <1>6 DEF WalkHeading
    <2>2. HeadingsIn(paras, k + 1) = HeadingsIn(paras, k)
        BY <1>6, BlankNext
    <2>3. FoundAt(paras, k + 1, heads) = FoundAt(paras, k, heads)
        BY <1>5 DEF FoundAt
    <2> HIDE DEF heads
    <2> QED BY <1>4, <2>1, <2>2, <2>3 DEF WalkedAs, heads
<1>7. CASE paras[k + 1].text # Blank
    <2>1. t = [preamble |-> Listed(BodiesUnder(paras, k, 0)),
               headings |-> Append(FoundAt(paras, k, heads), [anchor |-> k + 1, body |-> <<>>])]
        BY <1>2, <1>7 DEF WalkHeading
    <2>2. HeadingsIn(paras, k + 1) = HeadingsIn(paras, k) \cup {k + 1}
        BY <1>7, HeadingNext DEF IsHeading
    <2>3. Listed(HeadingsIn(paras, k) \cup {k + 1}) = Append(heads, k + 1)
        <3>1. HeadingsIn(paras, k) \in SUBSET (0..k) /\ k + 1 \in Nat
            BY OpensBounds
        <3>2. \A t0 \in HeadingsIn(paras, k) : t0 < k + 1
            BY <3>1
        <3> QED BY <3>1, <3>2, ListedAdds
    <2>4. BodiesUnder(paras, k + 1, k + 1) = {}
        BY DEF BodiesUnder, Under
    <2>5. Found(paras, k + 1, k + 1) = [anchor |-> k + 1, body |-> <<>>]
        BY <2>4, RisingEmpty, ListedIs DEF Found
    <2> HIDE DEF heads
    <2> DEFINE later == Append(heads, k + 1)
    <2>6. /\ Len(later) = n + 1 /\ later[n + 1] = k + 1
          /\ \A i \in 1..n : later[i] = heads[i]
        BY <1>3
    <2> HIDE DEF later
    <2>7. FoundAt(paras, k + 1, later) =
              [i \in 1..n + 1 |-> IF i = n + 1 THEN [anchor |-> k + 1, body |-> <<>>]
                                  ELSE FoundAt(paras, k, heads)[i]]
        <3>1. FoundAt(paras, k + 1, later) = [i \in 1..n + 1 |-> Found(paras, k + 1, later[i])]
            BY <2>6 DEF FoundAt
        <3>2. ASSUME NEW i \in 1..n + 1
              PROVE  Found(paras, k + 1, later[i]) =
                        IF i = n + 1 THEN [anchor |-> k + 1, body |-> <<>>]
                        ELSE FoundAt(paras, k, heads)[i]
            <4>1. CASE i = n + 1
                BY <2>5, <2>6, <4>1
            <4>2. CASE i # n + 1
                <5>1. i \in 1..n
                    BY <1>3, <4>2
                <5>2. FoundAt(paras, k, heads)[i] = Found(paras, k, heads[i])
                    BY <5>1 DEF FoundAt
                <5> QED BY <1>5, <2>6, <4>2, <5>1, <5>2
            <4> QED BY <4>1, <4>2
        <3> QED BY <3>1, <3>2
    <2>8. Append(FoundAt(paras, k, heads), [anchor |-> k + 1, body |-> <<>>])
              = [i \in 1..n + 1 |-> IF i = n + 1 THEN [anchor |-> k + 1, body |-> <<>>]
                                    ELSE FoundAt(paras, k, heads)[i]]
        <3> DEFINE f == FoundAt(paras, k, heads)
                   v == [anchor |-> k + 1, body |-> <<>>]
        <3>1. f = [i \in 1..n |-> f[i]]
            BY DEF FoundAt
        <3> HIDE DEF f, v
        <3>2. Append(f, v) = [i \in 1..n + 1 |-> IF i = n + 1 THEN v ELSE f[i]]
            BY <1>3, <3>1, AppendIs
        <3> QED BY <3>2 DEF f, v
    <2>9. Listed(HeadingsIn(paras, k + 1)) = later
        BY <2>2, <2>3 DEF later
    <2>10. Listed(BodiesUnder(paras, k + 1, 0)) = Listed(BodiesUnder(paras, k, 0))
        BY <1>4
    <2> QED BY <2>1, <2>7, <2>8, <2>9, <2>10 DEF WalkedAs
<1> QED BY <1>6, <1>7

LEMMA WalkingTells ==
    ASSUME NEW T, NEW paras \in Paragraphs(T), Numbered(paras)
    PROVE  \A k \in 0..Len(paras) : WalkedAs(paras, k)
<1> DEFINE n == Len(paras)
           P == {k \in Nat : k <= n => WalkedAs(paras, k)}
<1>1. n \in Nat
    BY DEF Paragraphs
<1>2. 0 \in P
    <2>1. HeadingsIn(paras, 0) = {} /\ BodiesUnder(paras, 0, 0) = {}
        BY DEF HeadingsIn, BodiesUnder
    <2>2. Listed({}) = <<>>
        BY RisingEmpty, ListedIs
    <2>3. FoundAt(paras, 0, <<>>) = <<>>
        BY DEF FoundAt
    <2>4. WalkedAs(paras, 0)
        BY <2>1, <2>2, <2>3, WalkingSteps DEF WalkedAs
    <2> QED BY <2>4
<1>3. ASSUME NEW k \in Nat, k \in P PROVE k + 1 \in P
    <2> SUFFICES ASSUME k + 1 <= n PROVE WalkedAs(paras, k + 1)
        OBVIOUS
    <2>1. k + 1 \in 1..n /\ k + 1 - 1 = k /\ WalkedAs(paras, k)
        BY <1>1, <1>3
    <2>2. Walking(paras)[k + 1] = WalkParagraph(Walking(paras)[k], paras[k + 1])
        BY <2>1, WalkingSteps
    <2>3. paras[k + 1].id = k + 1
        BY <2>1 DEF Numbered
    <2>4. CASE paras[k + 1].level = Body
        BY <2>1, <2>2, <2>3, <2>4, WalkBodyNext
    <2>5. CASE paras[k + 1].level # Body
        BY <2>1, <2>2, <2>3, <2>5, WalkHeadingNext
    <2> QED BY <2>4, <2>5
<1>4. ASSUME NEW k \in 0..n PROVE k \in P
    <2> HIDE DEF P
    <2> QED BY <1>1, <1>2, <1>3, <1>4, Induction
<1> QED BY <1>1, <1>4

\* The places of sections are those of the headings, after 0 if there is a preamble.
LEMMA PreambleFirst ==
    ASSUME NEW paras, NEW k \in Nat
    PROVE  Listed(Opens(paras, k)) = IF TextsUnder(paras, k, 0) # {}
                                     THEN <<0>> \o Listed(HeadingsIn(paras, k))
                                     ELSE Listed(HeadingsIn(paras, k))
<1> DEFINE heads == Listed(HeadingsIn(paras, k))
           e == <<0>> \o heads
<1>1. CASE TextsUnder(paras, k, 0) = {}
    <2>1. Opens(paras, k) = HeadingsIn(paras, k)
        BY <1>1 DEF Opens
    <2> QED BY <1>1, <2>1
<1>2. CASE TextsUnder(paras, k, 0) # {}
    <2>1. Opens(paras, k) = HeadingsIn(paras, k) \cup {0}
        BY <1>2 DEF Opens
    <2>2. /\ heads \in Seq(Nat) /\ Len(heads) \in Nat /\ Rising(heads, HeadingsIn(paras, k))
          /\ \A i \in 1..Len(heads) : heads[i] \in HeadingsIn(paras, k)
        BY HeadingsRise
    <2>3. /\ \A t \in HeadingsIn(paras, k) : \E i \in 1..Len(heads) : heads[i] = t
          /\ \A i, j \in 1..Len(heads) : i < j => heads[i] < heads[j]
        BY <2>2, RisingElements
    <2> HIDE DEF heads
    <2>4. /\ e \in Seq(Nat) /\ Len(e) = Len(heads) + 1 /\ e[1] = 0
          /\ \A i \in 1..Len(heads) : e[i + 1] = heads[i]
        BY <2>2
    <2> HIDE DEF e
    <2>5. \A i \in 1..Len(e) : i = 1 \/ (i - 1 \in 1..Len(heads) /\ e[i] = heads[i - 1])
        <3> TAKE i \in 1..Len(e)
        <3> SUFFICES ASSUME i # 1 PROVE i - 1 \in 1..Len(heads) /\ e[i] = heads[i - 1]
            OBVIOUS
        <3>1. i - 1 \in 1..Len(heads) /\ i - 1 + 1 = i
            BY <2>2, <2>4
        <3>2. e[i - 1 + 1] = heads[i - 1]
            BY <2>4, <3>1
        <3> QED BY <3>1, <3>2
    <2>6. \A i \in 1..Len(e) : e[i] \in HeadingsIn(paras, k) \cup {0}
        BY <2>2, <2>4, <2>5
    <2>7. ASSUME NEW t \in HeadingsIn(paras, k) \cup {0} PROVE \E i \in 1..Len(e) : e[i] = t
        <3>1. CASE t = 0
            <4>1. 1 \in 1..Len(e)
                BY <2>2, <2>4
            <4> QED BY <2>4, <3>1, <4>1
        <3>2. CASE t # 0
            <4>1. PICK i \in 1..Len(heads) : heads[i] = t
                BY <2>3, <3>2
            <4>2. i + 1 \in 1..Len(e) /\ e[i + 1] = t
                BY <2>2, <2>4, <4>1
            <4> QED BY <4>2
        <3> QED BY <3>1, <3>2
    <2>8. ASSUME NEW i \in 1..Len(e), NEW j \in 1..Len(e), i < j PROVE e[i] < e[j]
        <3>1. j - 1 \in 1..Len(heads) /\ e[j] = heads[j - 1]
            BY <2>5, <2>8
        <3>2. CASE i = 1
            <4>1. e[j] \in 1..k
                BY <2>2, <3>1 DEF HeadingsIn
            <4> QED BY <2>4, <3>2, <4>1
        <3>3. CASE i # 1
            <4>1. i - 1 \in 1..Len(heads) /\ e[i] = heads[i - 1] /\ i - 1 < j - 1
                BY <2>5, <2>8, <3>3
            <4> QED BY <2>3, <3>1, <4>1
        <3> QED BY <3>2, <3>3
    <2>9. Listed(HeadingsIn(paras, k) \cup {0}) = e
        <3>1. Rising(e, HeadingsIn(paras, k) \cup {0})
            BY <2>4, <2>6, <2>7, <2>8, RisingIs
        <3> QED BY <3>1, ListedIs
    <2> QED BY <1>2, <2>1, <2>9 DEF e, heads
<1> QED BY <1>1, <1>2

\* The exporter sees a preamble where the parser does.
LEMMA PreambleSeen ==
    ASSUME NEW paras, NEW k \in Nat
    PROVE  LET pre == Listed(BodiesUnder(paras, k, 0))
           IN  (\E i \in DOMAIN pre : paras[pre[i]].text # Blank) <=> TextsUnder(paras, k, 0) # {}
<1> DEFINE pre == Listed(BodiesUnder(paras, k, 0))
<1>1. /\ DOMAIN pre = 1..Len(pre)
      /\ \A i \in 1..Len(pre) : pre[i] \in BodiesUnder(paras, k, 0)
      /\ \A q \in BodiesUnder(paras, k, 0) : \E i \in 1..Len(pre) : pre[i] = q
    BY BodiesRise, RisingElements
<1> HIDE DEF pre
<1>2. TextsUnder(paras, k, 0) = {q \in BodiesUnder(paras, k, 0) : paras[q].text # Blank}
    BY DEF TextsUnder, BodiesUnder, IsText
<1>3. (\E i \in DOMAIN pre : paras[pre[i]].text # Blank) <=> TextsUnder(paras, k, 0) # {}
    BY <1>1, <1>2
<1> QED BY <1>3 DEF pre

\* The exporter's sections are those of the parser.
LEMMA WalkedTells ==
    ASSUME NEW T, NEW paras \in Paragraphs(T), Numbered(paras)
    PROVE  /\ Walked(paras) = FoundAt(paras, Len(paras), Places(paras))
           /\ Len(Walked(paras)) = Len(Places(paras)) /\ Len(Places(paras)) \in Nat
           /\ \A i \in 1..Len(Places(paras)) :
                 /\ Walked(paras)[i] = Found(paras, Len(paras), Places(paras)[i])
                 /\ Walked(paras)[i].anchor = Places(paras)[i]
                 /\ Walked(paras)[i].body = Listed(BodiesUnder(paras, Len(paras), Places(paras)[i]))
<1> DEFINE n == Len(paras)
           heads == Listed(HeadingsIn(paras, n))
           pre == Listed(BodiesUnder(paras, n, 0))
           found == FoundAt(paras, n, heads)
<1>1. n \in Nat /\ n \in 0..n
    BY DEF Paragraphs
<1>2. Walking(paras)[n] = [preamble |-> pre, headings |-> found]
    BY <1>1, WalkingTells DEF WalkedAs
<1>3. Walked(paras) = IF \E i \in DOMAIN pre : paras[pre[i]].text # Blank
                      THEN <<[anchor |-> 0, body |-> pre]>> \o found ELSE found
    BY <1>2 DEF Walked
<1>4. (\E i \in DOMAIN pre : paras[pre[i]].text # Blank) <=> TextsUnder(paras, n, 0) # {}
    BY <1>1, PreambleSeen
<1>5. Len(heads) \in Nat /\ heads \in Seq(Nat)
    BY <1>1, HeadingsRise
<1>6. Len(Places(paras)) \in Nat
    BY <1>1, PlacesRise DEF Places
<1>7. Walked(paras) = FoundAt(paras, n, Places(paras))
    <2>1. CASE TextsUnder(paras, n, 0) = {}
        <3>1. Places(paras) = heads
            BY <1>1, <2>1, PreambleFirst DEF Places
        <3> QED BY <1>3, <1>4, <2>1, <3>1
    <2>2. CASE TextsUnder(paras, n, 0) # {}
        <3>1. Places(paras) = <<0>> \o heads
            BY <1>1, <2>2, PreambleFirst DEF Places
        <3>2. Walked(paras) = <<Found(paras, n, 0)>> \o found
            BY <1>3, <1>4, <2>2 DEF Found
        <3> HIDE DEF heads
        <3>3. /\ Len(<<0>> \o heads) = Len(heads) + 1
              /\ \A i \in 1..Len(heads) + 1 :
                   (<<0>> \o heads)[i] = IF i = 1 THEN 0 ELSE heads[i - 1]
            BY <1>5
        <3> DEFINE F(i) == Found(paras, n, heads[i])
        <3>4. found = [i \in 1..Len(heads) |-> F(i)]
            BY DEF FoundAt
        <3> HIDE DEF F, found
        <3>5. <<Found(paras, n, 0)>> \o found =
                 [i \in 1..Len(heads) + 1 |-> IF i = 1 THEN Found(paras, n, 0) ELSE F(i - 1)]
            <4> DEFINE S == {F(i) : i \in 1..Len(heads)} \cup {Found(paras, n, 0)}
            <4>1. found \in Seq(S) /\ Len(found) = Len(heads)
                BY <1>5, <3>4
            <4>2. Found(paras, n, 0) \in S
                OBVIOUS
            <4>3. \A i \in 1..Len(heads) : found[i] = F(i)
                BY <3>4
            <4> HIDE DEF S
            <4> QED BY <1>5, <4>1, <4>2, <4>3
        <3>6. FoundAt(paras, n, <<0>> \o heads) =
                 [i \in 1..Len(heads) + 1 |-> Found(paras, n, (<<0>> \o heads)[i])]
            BY <3>3 DEF FoundAt
        <3>7. \A i \in 1..Len(heads) + 1 : Found(paras, n, (<<0>> \o heads)[i])
                    = IF i = 1 THEN Found(paras, n, 0) ELSE F(i - 1)
            BY <3>3 DEF F
        <3> QED BY <3>1, <3>2, <3>5, <3>6, <3>7
    <2> QED BY <2>1, <2>2
<1>8. /\ Len(Walked(paras)) = Len(Places(paras))
      /\ \A i \in 1..Len(Places(paras)) : Walked(paras)[i] = Found(paras, n, Places(paras)[i])
    BY <1>6, <1>7 DEF FoundAt
<1> QED BY <1>6, <1>7, <1>8 DEF Found

---------------------------------------------------------------------------
(* Parser and exporter agree on every document                               *)

\* A selection of the elements at listed positions that are not blank.
LEMMA NonBlankPicked ==
    ASSUME NEW T, NEW s \in Seq(T), NEW b, NEW B, Rising(b, B), B \subseteq 1..Len(s)
    PROVE  NonBlank([j \in DOMAIN b |-> s[b[j]]]) = Kept(s, {q \in B : s[q] # Blank})
<1> DEFINE texts == [j \in DOMAIN b |-> s[b[j]]]
           E == {j \in 1..Len(b) : s[b[j]] # Blank}
<1>1. /\ Len(b) \in Nat /\ DOMAIN b = 1..Len(b) /\ \A j \in 1..Len(b) : b[j] \in B
      /\ \A q \in B : \E j \in 1..Len(b) : b[j] = q
    BY RisingElements
<1>2. /\ texts \in Seq(T) /\ Len(texts) = Len(b) /\ DOMAIN texts = 1..Len(b)
      /\ \A j \in 1..Len(b) : texts[j] = s[b[j]]
    <2>1. texts = [j \in 1..Len(b) |-> s[b[j]]]
        BY <1>1
    <2>2. \A j \in 1..Len(b) : s[b[j]] \in T
        <3>1. \A j \in 1..Len(b) : b[j] \in 1..Len(s)
            BY <1>1
        <3> QED BY <3>1
    <2> HIDE DEF texts
    <2> QED BY <1>1, <2>1, <2>2
<1> HIDE DEF texts
<1>3. NonBlank(texts) = Kept(texts, E)
    <2>1. {i \in DOMAIN texts : texts[i] # Blank} = E
        BY <1>2
    <2> HIDE DEF E
    <2> QED BY <2>1 DEF NonBlank, Select
<1>4. PICK e : Rising(e, E)
    <2>1. E \in SUBSET (0..Len(b))
        BY <1>1
    <2> HIDE DEF E
    <2> QED BY <1>1, <2>1, RisingExists
<1>5. Kept(texts, E) = Picked(texts, e)
    <2>1. E \cap 1..Len(texts) = E
        BY <1>2
    <2> HIDE DEF E
    <2> QED BY <1>2, <1>4, <2>1, KeptPicked
<1>6. Rising(Picked(b, e), {b[i] : i \in E})
    <2>1. E \subseteq 1..Len(b)
        OBVIOUS
    <2> HIDE DEF E
    <2> QED BY <1>4, <2>1, RisingPicked
<1>7. {b[i] : i \in E} = {q \in B : s[q] # Blank}
    BY <1>1
<1> DEFINE at == {q \in B : s[q] # Blank}
<1>8. Kept(s, at) = Picked(s, Picked(b, e))
    <2>1. at \cap 1..Len(s) = at
        OBVIOUS
    <2>2. Rising(Picked(b, e), at)
        BY <1>6, <1>7
    <2> HIDE DEF at
    <2> QED BY <2>1, <2>2, KeptPicked
<1>9. Picked(s, Picked(b, e)) = Picked(texts, e)
    <2>1. Len(e) \in Nat /\ \A j \in 1..Len(e) : e[j] \in E
        BY <1>4, RisingElements
    <2>2. Picked(b, e) = [j \in 1..Len(e) |-> b[e[j]]]
        BY DEF Picked
    <2>3. Len(Picked(b, e)) = Len(e) /\ \A j \in 1..Len(e) : Picked(b, e)[j] = b[e[j]]
        BY <2>1, <2>2
    <2>4. \A j \in 1..Len(e) : s[Picked(b, e)[j]] = texts[e[j]]
        BY <1>2, <2>1, <2>3
    <2>5. /\ Picked(s, Picked(b, e)) = [j \in 1..Len(e) |-> s[Picked(b, e)[j]]]
          /\ Picked(texts, e) = [j \in 1..Len(e) |-> texts[e[j]]]
        BY <2>3 DEF Picked
    <2> QED BY <2>4, <2>5
<1> QED BY <1>3, <1>5, <1>8, <1>9 DEF texts

\* The text of a section is that of its body paragraphs, but for the blank ones.
LEMMA LinesOfBody ==
    ASSUME NEW T, NEW paras \in Paragraphs(T), NEW a
    PROVE  LET b == Listed(BodiesUnder(paras, Len(paras), a))
           IN  LinesUnder(paras, Len(paras), a) = NonBlank([j \in DOMAIN b |-> paras[b[j]].text])
<1> DEFINE n == Len(paras)
           B == BodiesUnder(paras, n, a)
           b == Listed(B)
           s == TextsOf(paras)
<1>1. n \in Nat
    BY DEF Paragraphs
<1>2. s \in Seq(T) /\ Len(s) = n /\ \A k \in 1..n : s[k] = paras[k].text
    BY TextsList
<1>3. Rising(b, B) /\ B \subseteq 1..n
    BY <1>1, BodiesRise DEF BodiesUnder
<1>4. /\ DOMAIN b = 1..Len(b)
      /\ \A j \in 1..Len(b) : b[j] \in B
    BY <1>3, RisingElements
<1>5. TextsUnder(paras, n, a) = {q \in B : s[q] # Blank}
    BY <1>2 DEF TextsUnder, BodiesUnder, IsText
<1>6. [j \in DOMAIN b |-> s[b[j]]] = [j \in DOMAIN b |-> paras[b[j]].text]
    BY <1>2, <1>3, <1>4
<1> HIDE DEF b, B, n, s
<1>7. NonBlank([j \in DOMAIN b |-> s[b[j]]]) = Kept(s, {q \in B : s[q] # Blank})
    BY <1>2, <1>3, NonBlankPicked
<1>8. LinesUnder(paras, n, a) = Kept(s, {q \in B : s[q] # Blank})
    BY <1>5 DEF LinesUnder, s
<1> QED BY <1>6, <1>7, <1>8 DEF b, B, n

\* Both readers number the sections of a document alike.
LEMMA ReadersAgree ==
    ASSUME NEW T, Blank \in T, NEW paras \in Paragraphs(T), Numbered(paras)
    PROVE  LET p == Parsed(paras)
               w == Walked(paras)
           IN  /\ Len(w) = Len(p)
               /\ \A i \in DOMAIN p :
                    /\ p[i].heading = IF w[i].anchor = 0 THEN Blank ELSE paras[w[i].anchor].text
                    /\ p[i].lines = NonBlank([j \in DOMAIN w[i].body |-> paras[w[i].body[j]].text])
<1> DEFINE p == Parsed(paras)
           w == Walked(paras)
           n == Len(paras)
<1>1. /\ Len(p) = Len(Places(paras)) /\ p \in Sections(T)
      /\ \A i \in 1..Len(Places(paras)) : Tells(p[i], p[i].lines, paras, n, Places(paras)[i])
    BY ParsedTells
<1>2. /\ Len(w) = Len(Places(paras))
      /\ \A i \in 1..Len(Places(paras)) :
            /\ w[i].anchor = Places(paras)[i]
            /\ w[i].body = Listed(BodiesUnder(paras, n, Places(paras)[i]))
    BY WalkedTells
<1>3. DOMAIN p = 1..Len(Places(paras))
    BY <1>1 DEF Sections
<1> HIDE DEF p, w
<1>4. ASSUME NEW i \in DOMAIN p
      PROVE  /\ p[i].heading = IF w[i].anchor = 0 THEN Blank ELSE paras[w[i].anchor].text
             /\ p[i].lines = NonBlank([j \in DOMAIN w[i].body |-> paras[w[i].body[j]].text])
    <2>1. LinesUnder(paras, n, Places(paras)[i])
              = NonBlank([j \in DOMAIN w[i].body |-> paras[w[i].body[j]].text])
        BY <1>2, <1>3, LinesOfBody
    <2> QED BY <1>1, <1>2, <1>3, <2>1 DEF Tells, HeadingAt
<1> QED BY <1>1, <1>2, <1>4 DEF p, w

\* The texts of documents and drafts.
Wording == {Blank} \cup ({"p", "d"} \X Nat \X Nat)

\* The document is one, told by its positions.
DocInv == doc \in Paragraphs(Wording) /\ Numbered(doc)

LEMMA DocKept == Spec => []DocInv
<1>1. Init => DocInv
    BY DEF Init, DocInv, Paragraphs, Numbered
<1>2. DocInv /\ [Next]_vars => DocInv'
    <2> SUFFICES ASSUME DocInv, [Next]_vars PROVE DocInv'
        OBVIOUS
    <2>1. ASSUME NEW kind \in Kinds, Author(kind[1], kind[2]) PROVE DocInv'
        <3> DEFINE k == Len(doc) + 1
                   p == Paragraph(k, kind[1], Written(k, kind[2]))
                   Row == [id : Nat, level : 0..9, text : Wording]
        <3>1. doc \in Seq(Row) /\ \A i \in 1..Len(doc) : doc[i].id = i
            BY DEF DocInv, Paragraphs, Numbered
        <3>2. kind[1] \in 0..9 /\ kind[2] \in BOOLEAN
            BY DocxBounds
        <3>3. Len(doc) \in Nat /\ k \in Nat
            BY <3>1
        <3>4. Written(k, kind[2]) \in Wording
            BY <3>3 DEF Written, Wording
        <3>5. p \in Row /\ p.id = k
            BY <3>2, <3>3, <3>4 DEF Paragraph
        <3>6. doc' = Append(doc, p)
            BY <2>1 DEF Author
        <3> HIDE DEF p, Row
        <3>7. doc' \in Seq(Row) /\ Len(doc') = k /\ doc'[k] = p /\ \A i \in 1..Len(doc) : doc'[i] = doc[i]
            BY <3>1, <3>5, <3>6
        <3>8. \A i \in 1..Len(doc') : doc'[i].id = i
            <4> TAKE i \in 1..Len(doc')
            <4>1. i = k \/ i \in 1..Len(doc)
                BY <3>3, <3>7
            <4> QED BY <3>1, <3>5, <3>7, <4>1
        <3> QED BY <3>7, <3>8 DEF DocInv, Paragraphs, Numbered, Row
    <2>2. CASE doc' = doc
        BY <2>2 DEF DocInv, Paragraphs, Numbered
    <2> QED BY <2>1, <2>2 DEF Next, Parse, Review, ReplaceNext, Save, vars
<1> QED BY <1>1, <1>2, PTL DEF Spec

\* The parser and the exporter number the sections alike and see the same heading and
\* text in each, whatever the document (parser.py 56-124, export_docx.py 41-78).
THEOREM OrdersLineUpHolds == Spec => []OrdersLineUp
<1>1. DocInv => OrdersLineUp
    <2>1. Blank \in Wording
        BY DEF Wording
    <2> QED BY <2>1, ReadersAgree DEF DocInv, OrdersLineUp
<1> QED BY <1>1, DocKept, PTL

---------------------------------------------------------------------------
(* The ancestors that the parser keeps open                                  *)

\* The section i stands under the nearest heading before it of a smaller level.
Enclosed(ss, i) ==
    LET above == {j \in 1..i - 1 : ss[j].level \in 1..ss[i].level - 1}
    IN  ss[i].parent = IF above = {} THEN None ELSE Max(above) - 1

\* The open ancestors are headings of rising level and order; of two headings of
\* which the later has no larger level only the later may be among them, and every
\* heading is followed by an open one, or is one, of no larger level.
Nested(ss, open) ==
    /\ \A a \in 1..Len(open) :
          /\ open[a].order + 1 \in 1..Len(ss) /\ open[a].level >= 1
          /\ ss[open[a].order + 1].level = open[a].level
    /\ \A a, b \in 1..Len(open) :
          a < b => open[a].level < open[b].level /\ open[a].order < open[b].order
    /\ \A j \in 1..Len(ss) : ss[j].level >= 1 =>
          \E a \in 1..Len(open) : j <= open[a].order + 1 /\ open[a].level <= ss[j].level
    /\ \A i \in 1..Len(ss) : Enclosed(ss, i)

\* Only levels and parents matter to this.
LEMMA EnclosedSame ==
    ASSUME NEW ss, NEW tt, NEW i \in Nat, i >= 1,
           \A j \in 1..i : ss[j].level = tt[j].level, ss[i].parent = tt[i].parent,
           Enclosed(ss, i)
    PROVE  Enclosed(tt, i)
<1>1. i \in 1..i /\ \A j \in 1..i - 1 : j \in 1..i
    OBVIOUS
<1>2. {j \in 1..i - 1 : ss[j].level \in 1..ss[i].level - 1}
          = {j \in 1..i - 1 : tt[j].level \in 1..tt[i].level - 1}
    BY <1>1
<1> QED BY <1>2, Zenon DEF Enclosed

LEMMA NestedSame ==
    ASSUME NEW ss, NEW tt, NEW open, Len(ss) \in Nat, Len(tt) = Len(ss),
           \A j \in 1..Len(ss) : ss[j].level = tt[j].level /\ ss[j].parent = tt[j].parent,
           Nested(ss, open)
    PROVE  Nested(tt, open)
<1>1. ASSUME NEW i \in 1..Len(tt) PROVE Enclosed(tt, i)
    <2>1. i \in Nat /\ i >= 1 /\ \A j \in 1..i : j \in 1..Len(ss)
        OBVIOUS
    <2>2. Enclosed(ss, i)
        BY DEF Nested
    <2> QED BY <2>1, <2>2, EnclosedSame
<1> QED BY <1>1 DEF Nested

\* What popping leaves encloses the new heading.
LEMMA NestedHeading ==
    ASSUME NEW T, NEW ss \in Sections(T), NEW open \in Ancestors, Nested(ss, open),
           NEW level \in 1..9, NEW new,
           new.level = level,
           new.parent = IF Popped(open, level) = <<>> THEN None ELSE Last(Popped(open, level)).order,
           new \in [level : 0..9, heading : T, parent : Int, lines : Seq(T)]
    PROVE  Nested(Append(ss, new), Append(Popped(open, level), [level |-> level, order |-> Len(ss)]))
<1> DEFINE n == Len(ss)
           left == Popped(open, level)
           tt == Append(ss, new)
           row == [level |-> level, order |-> n]
           after == Append(left, row)
<1>1. PICK m : PoppedTo(open, level, m)
    BY PoppedIs DEF Ancestors
<1>2. /\ m \in 0..Len(open) /\ left = SubSeq(open, 1, m) /\ Len(open) \in Nat /\ m \in Nat
      /\ m # 0 => open[m].level < level
      /\ \A a \in 1..Len(open) : open[a].level < level => a <= m
    <2> DEFINE Row == [level : 0..9, order : Nat]
    <2>1. open \in Seq(Row)
        BY DEF Ancestors
    <2> HIDE DEF Row
    <2>2. Len(open) \in Nat
        BY <2>1
    <2>3. /\ m \in 0..Len(open) /\ left = SubSeq(open, 1, m)
          /\ m # 0 => open[m].level < level
          /\ \A a \in 1..Len(open) : open[a].level < level => a <= m
        BY <1>1, Zenon DEF PoppedTo
    <2>4. m \in Nat
        BY <2>2, <2>3
    <2> QED BY <2>2, <2>3, <2>4, Zenon
<1>3. left \in Ancestors /\ Len(left) = m /\ \A a \in 1..m : left[a] = open[a]
    <2>1. /\ SubSeq(open, 1, m) \in Ancestors /\ Len(SubSeq(open, 1, m)) = m
          /\ \A a \in 1..m : SubSeq(open, 1, m)[a] = open[a]
        BY <1>2, Beginning DEF Ancestors
    <2> HIDE DEF left
    <2> QED BY <1>2, <2>1
<1> HIDE DEF left
<1>4. n \in Nat /\ Len(tt) = n + 1 /\ tt[n + 1] = new /\ \A j \in 1..n : tt[j] = ss[j]
    <2> DEFINE Row == [level : 0..9, heading : T, parent : Int, lines : Seq(T)]
    <2>1. ss \in Seq(Row) /\ new \in Row
        BY DEF Sections
    <2> HIDE DEF Row
    <2> QED BY <2>1
<1>5. Len(after) = m + 1 /\ after[m + 1] = row /\ \A a \in 1..m : after[a] = open[a]
    <2> DEFINE Row == [level : 0..9, order : Nat]
    <2>1. left \in Seq(Row) /\ row \in Row
        BY <1>3, <1>4 DEF Ancestors
    <2> HIDE DEF Row, row
    <2> QED BY <1>2, <1>3, <2>1
<1>6. /\ row.level = level /\ row.order = n /\ level \in Int /\ level >= 1
      /\ \A a \in 1..Len(open) : open[a].level \in Int /\ open[a].order \in Int
      /\ \A j \in 1..n : ss[j].level \in Int
    <2>1. \A a \in 1..Len(open) : open[a] \in [level : 0..9, order : Nat]
        BY ElementOf DEF Ancestors
    <2>2. \A j \in 1..n : ss[j] \in [level : 0..9, heading : T, parent : Int, lines : Seq(T)]
        BY ElementOf DEF Sections, n
    <2>3. row.level = level /\ row.order = n /\ level \in Int /\ level >= 1
        OBVIOUS
    <2>4. \A a \in 1..Len(open) : open[a].level \in Int /\ open[a].order \in Int
        BY <2>1
    <2>5. ASSUME NEW j \in 1..n PROVE ss[j].level \in Int
        <3>1. ss[j] \in [level : 0..9, heading : T, parent : Int, lines : Seq(T)]
            BY <2>2
        <3>2. ss[j].level \in 0..9
            BY <3>1
        <3> QED BY <3>2
    <2> QED BY <2>3, <2>4, <2>5
<1> HIDE DEF row, after, tt, n
<1>7. /\ \A a \in 1..Len(open) :
            /\ open[a].order + 1 \in 1..n /\ open[a].level >= 1
            /\ ss[open[a].order + 1].level = open[a].level
      /\ \A a, b \in 1..Len(open) :
            a < b => open[a].level < open[b].level /\ open[a].order < open[b].order
      /\ \A j \in 1..n : ss[j].level >= 1 =>
            \E a \in 1..Len(open) : j <= open[a].order + 1 /\ open[a].level <= ss[j].level
      /\ \A i \in 1..n : Enclosed(ss, i)
    BY DEF Nested, n
<1>8. \A a \in 1..m : a \in 1..Len(open)
    BY <1>2
<1>9. ASSUME NEW a \in 1..Len(after)
      PROVE  /\ after[a].order + 1 \in 1..Len(tt) /\ after[a].level >= 1
             /\ tt[after[a].order + 1].level = after[a].level
    <2>1. CASE a = m + 1
        BY <1>4, <1>5, <1>6, <2>1
    <2>2. CASE a # m + 1
        <3>1. a \in 1..m /\ after[a] = open[a] /\ a \in 1..Len(open)
            BY <1>2, <1>5, <1>8, <2>2
        <3>2. open[a].order + 1 \in 1..n
            BY <1>7, <3>1
        <3> QED BY <1>4, <1>7, <3>1, <3>2
    <2> QED BY <2>1, <2>2
<1>10. ASSUME NEW a \in 1..Len(after), NEW b \in 1..Len(after), a < b
       PROVE  after[a].level < after[b].level /\ after[a].order < after[b].order
    <2>1. a \in 1..m /\ after[a] = open[a] /\ a \in 1..Len(open)
        BY <1>2, <1>5, <1>8, <1>10
    <2>2. CASE b = m + 1
        <3>1. m \in 1..Len(open) /\ open[m].level < level
            BY <1>2, <2>1
        <3>2. open[a].level <= open[m].level
            <4>1. a = m \/ a < m
                BY <1>2, <2>1
            <4>2. CASE a = m
                BY <1>6, <2>1, <4>2
            <4>3. CASE a < m
                BY <1>6, <1>7, <2>1, <3>1, <4>3
            <4> QED BY <4>1, <4>2, <4>3
        <3>3. open[a].level < level
            BY <1>6, <2>1, <3>1, <3>2
        <3>4. open[a].order < n
            BY <1>4, <1>6, <1>7, <2>1
        <3> QED BY <1>5, <1>6, <2>1, <2>2, <3>3, <3>4
    <2>3. CASE b # m + 1
        <3>1. b \in 1..m /\ after[b] = open[b] /\ b \in 1..Len(open)
            BY <1>2, <1>5, <1>8, <2>3
        <3> QED BY <1>7, <1>10, <2>1, <3>1
    <2> QED BY <2>2, <2>3
<1>11. ASSUME NEW j \in 1..Len(tt), tt[j].level >= 1
       PROVE  \E a \in 1..Len(after) : j <= after[a].order + 1 /\ after[a].level <= tt[j].level
    <2>0. m + 1 \in 1..Len(after) /\ after[m + 1] = row
        BY <1>2, <1>5
    <2>1. CASE j = n + 1
        <3>1. j <= row.order + 1 /\ row.level <= tt[j].level
            BY <1>4, <1>6, <2>1
        <3> QED BY <2>0, <3>1
    <2>2. CASE j # n + 1
        <3>1. j \in 1..n /\ tt[j] = ss[j]
            BY <1>4, <2>2
        <3>2. PICK a \in 1..Len(open) : j <= open[a].order + 1 /\ open[a].level <= ss[j].level
            BY <1>7, <1>11, <3>1
        <3>3. CASE a <= m
            <4>1. a \in 1..Len(after) /\ after[a] = open[a]
                BY <1>2, <1>5, <3>3
            <4> QED BY <3>1, <3>2, <4>1
        <3>4. CASE ~ (a <= m)
            <4>1. ~ (open[a].level < level)
                BY <1>2, <3>4
            <4>2. level <= ss[j].level
                BY <1>6, <3>1, <3>2, <4>1
            <4>3. j <= row.order + 1 /\ row.level <= tt[j].level
                BY <1>4, <1>6, <3>1, <4>2
            <4> QED BY <2>0, <4>3
        <3> QED BY <3>3, <3>4
    <2> QED BY <2>1, <2>2
<1>12. Enclosed(tt, n + 1)
    <2> DEFINE above == {j \in 1..n + 1 - 1 : tt[j].level \in 1..tt[n + 1].level - 1}
    <2>1. above = {j \in 1..n : ss[j].level \in 1..level - 1}
        BY <1>4
    <2>2. CASE m = 0
        <3>1. ASSUME NEW j \in above PROVE FALSE
            <4>1. j \in 1..n /\ ss[j].level >= 1 /\ ss[j].level < level
                BY <1>6, <2>1
            <4>2. PICK a \in 1..Len(open) : open[a].level <= ss[j].level
                BY <1>7, <4>1
            <4>3. open[a].level < level
                BY <1>6, <4>1, <4>2
            <4> QED BY <1>2, <2>2, <4>3
        <3>2. left = <<>>
            BY <1>3, <2>2 DEF Ancestors
        <3>3. new.parent = None
            BY <3>2 DEF left
        <3> QED BY <1>4, <3>1, <3>3 DEF Enclosed
    <2>3. CASE m # 0
        <3> DEFINE top == open[m].order + 1
        <3>1. m \in 1..Len(open) /\ m \in 1..m /\ open[m].level < level
            BY <1>2, <2>3
        <3>2. top \in 1..n /\ ss[top].level = open[m].level /\ open[m].level >= 1
            BY <1>7, <3>1
        <3>3. top \in above
            BY <1>6, <2>1, <3>1, <3>2
        <3>4. ASSUME NEW j \in above PROVE j <= top
            <4>1. j \in 1..n /\ ss[j].level >= 1 /\ ss[j].level < level
                BY <1>6, <2>1
            <4>2. PICK a \in 1..Len(open) : j <= open[a].order + 1 /\ open[a].level <= ss[j].level
                BY <1>7, <4>1
            <4>3. open[a].level < level
                BY <1>6, <4>1, <4>2
            <4>4. a = m \/ a < m
                BY <1>2, <4>3
            <4>5. open[a].order <= open[m].order
                BY <1>6, <1>7, <3>1, <4>4
            <4> QED BY <1>6, <3>1, <4>2, <4>5
        <3>5. Max(above) = top
            <4>1. above \subseteq Nat
                BY <2>1
            <4> HIDE DEF above, top
            <4> QED BY <3>3, <3>4, <4>1, MaxIs
        <3>6. left # <<>> /\ Last(left) = open[m]
            BY <1>3, <2>3, <3>1 DEF Last
        <3>7. new.parent = open[m].order
            BY <3>6 DEF left
        <3>8. top - 1 = open[m].order
            BY <1>6, <3>1
        <3> HIDE DEF above, top
        <3>9. above # {} /\ Max(above) - 1 = new.parent
            BY <3>3, <3>5, <3>7, <3>8
        <3> QED BY <1>4, <3>9 DEF Enclosed, above
    <2> QED BY <2>2, <2>3
<1>13. ASSUME NEW i \in 1..Len(tt) PROVE Enclosed(tt, i)
    <2>1. CASE i = n + 1
        BY <1>12, <2>1
    <2>2. CASE i # n + 1
        <3>1. i \in 1..n /\ i \in Nat /\ i >= 1 /\ i \in 1..i /\ \A j \in 1..i : j \in 1..n
            BY <1>4, <2>2
        <3>2. \A j \in 1..i : ss[j].level = tt[j].level
            BY <1>4, <3>1
        <3>3. ss[i].parent = tt[i].parent /\ Enclosed(ss, i)
            BY <1>4, <1>7, <3>1
        <3> QED BY <3>1, <3>2, <3>3, EnclosedSame
    <2> QED BY <2>1, <2>2
<1>14. Nested(tt, after)
    BY <1>9, <1>10, <1>11, <1>13 DEF Nested
<1> QED BY <1>14 DEF tt, after, left, row, n

\* So it is after every paragraph.
LEMMA ReadingNested ==
    ASSUME NEW T, Blank \in T, NEW paras \in Paragraphs(T)
    PROVE  \A k \in 0..Len(paras) :
               Nested(Reading(paras)[k].sections, Reading(paras)[k].ancestors)
<1> DEFINE n == Len(paras)
           N(k) == Nested(Reading(paras)[k].sections, Reading(paras)[k].ancestors)
           P == {k \in Nat : k <= n => N(k)}
<1>1. n \in Nat
    BY DEF Paragraphs
<1>2. 0 \in P
    <2>1. Nested(<<>>, <<>>)
        BY DEF Nested
    <2> QED BY <2>1, ReadingSteps
<1>3. ASSUME NEW k \in Nat, k \in P PROVE k + 1 \in P
    <2> SUFFICES ASSUME k + 1 <= n PROVE N(k + 1)
        OBVIOUS
    <2> DEFINE s == Reading(paras)[k]
               t == Reading(paras)[k + 1]
               p == paras[k + 1]
    <2>1. k + 1 \in 1..n /\ k + 1 - 1 = k /\ k \in 0..n
        BY <1>1
    <2>1a. Nested(s.sections, s.ancestors)
        BY <1>1, <1>3
    <2>2. t = ParseParagraph(s, p)
        BY <2>1, ReadingSteps
    <2>3. s \in ReadingStates(T)
        BY <2>1, ReadingTyped
    <2>4. p.level \in 0..9 /\ p.text \in T
        BY <2>1, ParagraphFields
    <2> HIDE DEF s, t, p, N
    <2>5. s.sections \in Sections(T) /\ s.ancestors \in Ancestors
        BY <2>3 DEF ReadingStates
    <2>6. CASE p.text = Blank
        <3>1. t = s
            BY <2>2, <2>6 DEF ParseParagraph, ParseBody, ParseHeading
        <3> QED BY <2>1a, <3>1 DEF N, s, t
    <2>7. CASE p.text # Blank /\ p.level = Body /\ s.sections = <<>>
        <3>1. t.sections = <<Section(0, Blank, None)>> /\ t.ancestors = s.ancestors
            <4>1. t = [s EXCEPT !.sections = <<Section(0, Blank, None)>>, !.body = <<p.text>>]
                BY <2>2, <2>7 DEF ParseParagraph, ParseBody
            <4> QED BY <2>3, <4>1 DEF ReadingStates
        <3>2. Len(s.ancestors) = 0
            <4>1. Len(s.ancestors) \in Nat
                <5> DEFINE Row == [level : 0..9, order : Nat]
                <5>1. s.ancestors \in Seq(Row)
                    BY <2>5 DEF Ancestors
                <5> HIDE DEF Row
                <5> QED BY <5>1
            <4>2. \A a \in 1..Len(s.ancestors) : s.ancestors[a].order + 1 \in 1..0
                BY <2>1a, <2>7 DEF Nested
            <4>3. 1..0 = {}
                OBVIOUS
            <4>4. \A a \in 1..Len(s.ancestors) : FALSE
                BY <4>2, <4>3
            <4> QED BY <4>1, <4>4
        <3> DEFINE one == <<Section(0, Blank, None)>>
        <3>3. Len(one) = 1 /\ one[1].level = 0 /\ one[1].parent = None
            BY DEF Section
        <3> HIDE DEF one
        <3>4. \A i \in 1..Len(one) : i = 1 /\ one[i].level = 0
            BY <3>3
        <3>5. Enclosed(one, 1)
            <4>1. {j \in 1..1 - 1 : one[j].level \in 1..one[1].level - 1} = {}
                OBVIOUS
            <4> QED BY <3>3, <4>1 DEF Enclosed
        <3>6. \A a \in 1..Len(s.ancestors) : FALSE
            BY <3>2
        <3>7. \A j \in 1..Len(one) : ~ (one[j].level >= 1)
            BY <3>4
        <3>8. Nested(one, s.ancestors)
            BY <3>4, <3>5, <3>6, <3>7 DEF Nested
        <3> QED BY <3>1, <3>8 DEF N, t, one
    <2>8. CASE p.text # Blank /\ p.level = Body /\ s.sections # <<>>
        <3>1. t.sections = s.sections /\ t.ancestors = s.ancestors
            <4>1. t = [s EXCEPT !.body = Append(@, p.text)]
                BY <2>2, <2>8 DEF ParseParagraph, ParseBody
            <4> QED BY <2>3, <4>1 DEF ReadingStates
        <3> QED BY <2>1a, <3>1 DEF N, t
    <2>9. CASE p.text # Blank /\ p.level # Body
        <3> DEFINE open == Popped(s.ancestors, p.level)
                   new == Section(p.level, p.text, IF open = <<>> THEN None ELSE Last(open).order)
                   f == Flush(s)
        <3>1. /\ t.sections = Append(f, new)
              /\ t.ancestors = Append(open, [level |-> p.level, order |-> Len(s.sections)])
            BY <2>2, <2>9 DEF ParseParagraph, ParseHeading
        <3>2. /\ f \in Sections(T) /\ Len(f) = Len(s.sections)
              /\ \A i \in 1..Len(s.sections) :
                    f[i].level = s.sections[i].level /\ f[i].parent = s.sections[i].parent
            BY <2>3, FlushIs
        <3>3. Len(s.sections) \in Nat
            <4> DEFINE Row == [level : 0..9, heading : T, parent : Int, lines : Seq(T)]
            <4>1. s.sections \in Seq(Row)
                BY <2>5 DEF Sections
            <4> HIDE DEF Row
            <4> QED BY <4>1
        <3> HIDE DEF f
        <3>4. Nested(f, s.ancestors)
            BY <2>1a, <3>2, <3>3, NestedSame
        <3>5. p.level \in 1..9
            BY <2>4, <2>9 DEF Body
        <3>6. /\ new.level = p.level
              /\ new.parent = IF open = <<>> THEN None ELSE Last(open).order
            BY DEF Section
        <3>7. new \in [level : 0..9, heading : T, parent : Int, lines : Seq(T)]
            <4>1. t.sections \in Sections(T)
                <5>1. t \in ReadingStates(T)
                    BY <2>1, ReadingTyped DEF t
                <5> QED BY <5>1 DEF ReadingStates
            <4> DEFINE Row == [level : 0..9, heading : T, parent : Int, lines : Seq(T)]
            <4>2. Append(f, new) \in Seq(Row) /\ f \in Seq(Row)
                BY <3>1, <3>2, <4>1 DEF Sections
            <4> HIDE DEF Row, new
            <4>3. Append(f, new)[Len(f) + 1] = new /\ Len(f) + 1 \in 1..Len(Append(f, new))
                BY <4>2
            <4>4. new \in Row
                BY <4>2, <4>3, ElementOf
            <4> QED BY <4>4 DEF Row
        <3> HIDE DEF new
        <3>8. Nested(Append(f, new), Append(open, [level |-> p.level, order |-> Len(f)]))
            BY <2>5, <3>2, <3>4, <3>5, <3>6, <3>7, NestedHeading
        <3> QED BY <3>1, <3>2, <3>8 DEF N, t
    <2> QED BY <2>6, <2>7, <2>8, <2>9
<1>4. ASSUME NEW k \in 0..n PROVE k \in P
    <2> HIDE DEF P
    <2> QED BY <1>1, <1>2, <1>3, <1>4, Induction
<1> QED BY <1>1, <1>4

\* Every section of a document is enclosed as its levels say.
LEMMA ParsedEncloses ==
    ASSUME NEW T, Blank \in T, NEW paras \in Paragraphs(T)
    PROVE  \A i \in DOMAIN Parsed(paras) : Enclosed(Parsed(paras), i)
<1> DEFINE s == Reading(paras)[Len(paras)]
<1>1. Len(paras) \in 0..Len(paras)
    BY DEF Paragraphs
<1>2. Nested(s.sections, s.ancestors) /\ s \in ReadingStates(T)
    BY <1>1, ReadingNested, ReadingTyped
<1>3. Parsed(paras) = Flush(s)
    BY DEF Parsed
<1> HIDE DEF s
<1>4. /\ Flush(s) \in Sections(T) /\ Len(Flush(s)) = Len(s.sections)
      /\ \A i \in 1..Len(s.sections) :
            s.sections[i].level = Flush(s)[i].level /\ s.sections[i].parent = Flush(s)[i].parent
    BY <1>2, FlushIs
<1>5. Len(s.sections) \in Nat /\ DOMAIN Flush(s) = 1..Len(Flush(s))
    <2> DEFINE Row == [level : 0..9, heading : T, parent : Int, lines : Seq(T)]
    <2>1. Flush(s) \in Seq(Row)
        BY <1>4 DEF Sections
    <2> HIDE DEF Row
    <2> QED BY <1>4, <2>1
<1>6. Nested(Flush(s), s.ancestors)
    BY <1>2, <1>4, <1>5, NestedSame
<1> QED BY <1>3, <1>5, <1>6 DEF Nested

---------------------------------------------------------------------------
(* The surgery, paragraph by paragraph                                       *)

\* F is D with other texts in its body paragraphs and body paragraphs added.
Laid(D, F) ==
    /\ F \in Paragraphs(Wording)
    /\ \A q \in 1..Len(F) : F[q].id \in 0..Len(D)
    /\ \A k \in 1..Len(D) : \E q \in 1..Len(F) : F[q].id = k
    /\ \A q, r \in 1..Len(F) : q < r /\ F[q].id # 0 /\ F[r].id # 0 => F[q].id < F[r].id
    /\ \A q \in 1..Len(F) : F[q].id = 0 => F[q].level = Body
    /\ \A q \in 1..Len(F) : F[q].id # 0 =>
          /\ F[q].level = D[F[q].id].level
          /\ F[q].level # Body => F[q] = D[F[q].id]

\* Where the paragraph k of D, or its start 0, is in F.
At(F, k) == IF k = 0 THEN 0 ELSE Position(F, k)

LEMMA ParagraphsList ==
    ASSUME NEW T, NEW paras \in Paragraphs(T)
    PROVE  Len(paras) \in Nat /\ DOMAIN paras = 1..Len(paras)
<1> DEFINE Row == [id : Nat, level : 0..9, text : T]
<1>1. paras \in Seq(Row)
    BY DEF Paragraphs
<1> HIDE DEF Row
<1> QED BY <1>1

LEMMA LaidPosition ==
    ASSUME NEW D \in Paragraphs(Wording), NEW F, Laid(D, F), NEW k \in 1..Len(D)
    PROVE  /\ Position(F, k) \in 1..Len(F) /\ F[Position(F, k)].id = k
           /\ \A q \in 1..Len(F) : F[q].id = k => q = Position(F, k)
<1>1. DOMAIN F = 1..Len(F)
    BY ParagraphsList DEF Laid
<1>2. \E q \in 1..Len(F) : F[q].id = k
    BY DEF Laid
<1>3. Position(F, k) \in 1..Len(F) /\ F[Position(F, k)].id = k
    BY <1>1, <1>2 DEF Position
<1>4. ASSUME NEW q \in 1..Len(F), F[q].id = k, q # Position(F, k) PROVE FALSE
    <2>1. q < Position(F, k) \/ Position(F, k) < q
        BY <1>3, <1>4
    <2>2. k # 0 /\ ~ (k < k)
        BY ParagraphsList
    <2> QED BY <1>3, <1>4, <2>1, <2>2 DEF Laid
<1> QED BY <1>3, <1>4

LEMMA AtIs ==
    ASSUME NEW D \in Paragraphs(Wording), NEW F, Laid(D, F), NEW a \in 0..Len(D)
    PROVE  /\ At(F, a) \in 0..Len(F)
           /\ a = 0 => At(F, a) = 0
           /\ a # 0 => At(F, a) \in 1..Len(F) /\ F[At(F, a)].id = a
<1>1. CASE a = 0
    <2>1. Len(F) \in Nat
        BY ParagraphsList DEF Laid
    <2> QED BY <1>1, <2>1 DEF At
<1>2. CASE a # 0
    <2>1. a \in 1..Len(D)
        BY <1>2, ParagraphsList
    <2>2. At(F, a) \in 1..Len(F) /\ F[At(F, a)].id = a
        BY <1>2, <2>1, LaidPosition DEF At
    <2> QED BY <1>2, <2>2
<1> QED BY <1>1, <1>2

\* Its headings are those of D.
LEMMA LaidHeading ==
    ASSUME NEW D \in Paragraphs(Wording), NEW F, Laid(D, F), NEW q \in 1..Len(F)
    PROVE  IsHeading(F[q]) <=> F[q].id # 0 /\ IsHeading(D[F[q].id])
BY DEF Laid, IsHeading

\* What is under a heading of D is under it in F.
LEMMA LaidUnder ==
    ASSUME NEW D \in Paragraphs(Wording), NEW F, Laid(D, F), NEW a \in 0..Len(D),
           NEW q \in 1..Len(F), F[q].id # 0
    PROVE  Under(F, At(F, a), q) <=> Under(D, a, F[q].id)
<1> DEFINE p == At(F, a)
           k == F[q].id
<1>1. /\ p \in 0..Len(F) /\ (a = 0 => p = 0) /\ (a # 0 => p \in 1..Len(F) /\ F[p].id = a)
    BY AtIs
<1>2. k \in 1..Len(D) /\ Len(D) \in Nat /\ Len(F) \in Nat
    BY ParagraphsList DEF Laid
<1>3. /\ \A i, j \in 1..Len(F) : i < j /\ F[i].id # 0 /\ F[j].id # 0 => F[i].id < F[j].id
      /\ \A i \in 1..Len(F) : F[i].id \in 0..Len(D)
      /\ \A i \in 1..Len(D) : \E j \in 1..Len(F) : F[j].id = i
    BY DEF Laid
<1>3a. ASSUME NEW i \in 1..Len(F), NEW j \in 1..Len(F), F[i].id # 0, F[j].id # 0, F[i].id < F[j].id
       PROVE  i < j
    <2>1. i # j
        BY <1>2, <1>3a, <1>3
    <2>2. ~ (j < i)
        <3>1. ~ (F[j].id < F[i].id)
            BY <1>2, <1>3, <1>3a
        <3> QED BY <1>3, <1>3a, <3>1
    <2> QED BY <2>1, <2>2
<1>4. p < q <=> a < k
    <2>1. CASE a = 0
        BY <1>1, <1>2, <2>1
    <2>2. CASE a # 0
        <3>1. p < q => a < k
            BY <1>1, <1>2, <1>3, <2>2
        <3>2. a < k => p < q
            BY <1>1, <1>2, <1>3a, <2>2
        <3> QED BY <3>1, <3>2
    <2> QED BY <2>1, <2>2
<1>5. ASSUME Under(D, a, k), p < q, NEW r \in p + 1..q, IsHeading(F[r]) PROVE FALSE
    <2>1. r \in 1..Len(F) /\ p < r /\ (r = q \/ r < q)
        BY <1>1, <1>2, <1>5
    <2>2. F[r].id # 0 /\ IsHeading(D[F[r].id])
        BY <1>5, <2>1, LaidHeading
    <2>3. F[r].id \in 1..Len(D)
        BY <1>2, <1>3, <2>1, <2>2
    <2>4. F[r].id <= k
        BY <1>2, <1>3, <2>1, <2>2, <2>3
    <2>5. a < F[r].id
        <3>1. CASE a = 0
            BY <2>3, <3>1
        <3>2. CASE a # 0
            BY <1>1, <1>3, <2>1, <2>2, <3>2
        <3> QED BY <3>1, <3>2
    <2>6. F[r].id \in a + 1..k
        BY <1>2, <2>3, <2>4, <2>5
    <2> QED BY <1>5, <2>2, <2>6 DEF Under
<1>6. ASSUME Under(F, p, q), a < k, NEW h \in a + 1..k, IsHeading(D[h]) PROVE FALSE
    <2>1. h \in 1..Len(D) /\ a < h /\ h <= k
        BY <1>2, <1>6
    <2>2. PICK r \in 1..Len(F) : F[r].id = h
        BY <1>3, <2>1
    <2>3. IsHeading(F[r])
        BY <1>6, <2>1, <2>2, LaidHeading
    <2>4. r = q \/ r < q
        <3>1. h = k \/ h < k
            BY <1>2, <2>1
        <3>2. CASE h < k
            BY <1>2, <1>3a, <2>1, <2>2, <3>2
        <3>3. CASE h = k
            <4>1. ~ (r < q) /\ ~ (q < r)
                <5>1. ~ (F[r].id < F[q].id) /\ ~ (F[q].id < F[r].id)
                    BY <1>2, <2>2, <3>3
                <5> QED BY <1>2, <1>3, <2>1, <2>2, <5>1
            <4> QED BY <4>1
        <3> QED BY <3>1, <3>2, <3>3
    <2>5. p < r
        <3>1. CASE a = 0
            BY <1>1, <2>2, <3>1
        <3>2. CASE a # 0
            BY <1>1, <1>3a, <2>1, <2>2, <3>2
        <3> QED BY <3>1, <3>2
    <2>6. r \in p + 1..q
        BY <1>1, <2>2, <2>4, <2>5
    <2> QED BY <1>6, <2>3, <2>6 DEF Under
<1> HIDE DEF p, k
<1>7. Under(F, p, q) <=> Under(D, a, k)
    BY <1>4, <1>5, <1>6 DEF Under
<1> QED BY <1>7 DEF p, k

\* No paragraph is under two places.
LEMMA UnderOne ==
    ASSUME NEW paras, NEW n \in Nat, NEW a \in {0} \cup HeadingsIn(paras, n),
           NEW b \in {0} \cup HeadingsIn(paras, n), NEW q \in Nat,
           Under(paras, a, q), Under(paras, b, q)
    PROVE  a = b
<1>1. a \in Nat /\ b \in Nat /\ (a # 0 => IsHeading(paras[a])) /\ (b # 0 => IsHeading(paras[b]))
    BY DEF HeadingsIn
<1>2. ~ (a < b)
    <2> SUFFICES ASSUME a < b PROVE FALSE
        OBVIOUS
    <2>1. b \in a + 1..q /\ b # 0
        BY <1>1 DEF Under
    <2> QED BY <1>1, <2>1 DEF Under
<1>3. ~ (b < a)
    <2> SUFFICES ASSUME b < a PROVE FALSE
        OBVIOUS
    <2>1. a \in b + 1..q /\ a # 0
        BY <1>1 DEF Under
    <2> QED BY <1>1, <2>1 DEF Under
<1> QED BY <1>1, <1>2, <1>3

\* Two lists put together, and three.
Joins(S, v, c, u) ==
    /\ u \in Seq(S) /\ Len(u) = Len(v) + Len(c)
    /\ \A i \in 1..Len(v) : u[i] = v[i]
    /\ \A i \in 1..Len(c) : u[Len(v) + i] = c[i]

LEMMA TwoParts ==
    ASSUME NEW S, NEW v \in Seq(S), NEW c \in Seq(S)
    PROVE  Joins(S, v, c, v \o c)
BY DEF Joins

Parts(S, s, k, t, u) ==
    /\ u \in Seq(S) /\ Len(u) = Len(s) + Len(t)
    /\ \A q \in 1..k : u[q] = s[q]
    /\ \A i \in 1..Len(t) : u[k + i] = t[i]
    /\ \A q \in k + 1..Len(s) : u[q + Len(t)] = s[q]

LEMMA ThreeParts ==
    ASSUME NEW S, NEW s \in Seq(S), NEW k \in 0..Len(s), NEW t \in Seq(S)
    PROVE  Parts(S, s, k, t, SubSeq(s, 1, k) \o t \o SubSeq(s, k + 1, Len(s)))
<1> DEFINE b == SubSeq(s, 1, k)
           c == SubSeq(s, k + 1, Len(s))
           u == (b \o t) \o c
<1>1. /\ b \in Seq(S) /\ Len(b) = k /\ \A i \in 1..k : b[i] = s[i]
      /\ Len(s) \in Nat /\ Len(t) \in Nat /\ k \in Nat
    OBVIOUS
<1>2. /\ c \in Seq(S) /\ Len(c) = Len(s) - k
      /\ \A i \in 1..Len(s) - k : c[i] = s[k + i]
    OBVIOUS
<1> HIDE DEF b, c
<1>3. /\ b \o t \in Seq(S) /\ Len(b \o t) = k + Len(t)
      /\ \A i \in 1..k : (b \o t)[i] = s[i]
      /\ \A i \in 1..Len(t) : (b \o t)[k + i] = t[i]
    BY <1>1
<1> DEFINE v == b \o t
<1> HIDE DEF v
<1>4. /\ v \o c \in Seq(S) /\ Len(v \o c) = Len(s) + Len(t)
      /\ \A i \in 1..k + Len(t) : (v \o c)[i] = v[i]
      /\ \A i \in 1..Len(s) - k : (v \o c)[k + Len(t) + i] = c[i]
    <2>1. v \in Seq(S) /\ Len(v) = k + Len(t) /\ k + Len(t) \in Nat
        BY <1>1, <1>3 DEF v
    <2>2. Len(v) + Len(c) = Len(s) + Len(t)
        BY <1>1, <1>2, <2>1
    <2>3. Joins(S, v, c, v \o c)
        BY <1>2, <2>1, TwoParts
    <2> QED BY <1>2, <2>1, <2>2, <2>3 DEF Joins
<1>5. u = v \o c
    BY DEF v
<1> HIDE DEF u
<1>6. \A q \in 1..k : u[q] = s[q]
    <2> TAKE q \in 1..k
    <2>1. q \in 1..k + Len(t)
        BY <1>1
    <2> QED BY <1>3, <1>4, <1>5, <2>1 DEF v
<1>7. \A i \in 1..Len(t) : u[k + i] = t[i]
    <2> TAKE i \in 1..Len(t)
    <2>1. k + i \in 1..k + Len(t)
        BY <1>1
    <2> QED BY <1>3, <1>4, <1>5, <2>1 DEF v
<1>8. \A q \in k + 1..Len(s) : u[q + Len(t)] = s[q]
    <2> TAKE q \in k + 1..Len(s)
    <2>1. q - k \in 1..Len(s) - k /\ k + Len(t) + (q - k) = q + Len(t) /\ k + (q - k) = q
        BY <1>1
    <2>2. (v \o c)[k + Len(t) + (q - k)] = c[q - k] /\ c[q - k] = s[k + (q - k)]
        BY <1>2, <1>4, <2>1
    <2> QED BY <1>5, <2>1, <2>2
<1>9. u \in Seq(S) /\ Len(u) = Len(s) + Len(t)
    BY <1>4, <1>5
<1>10. Parts(S, s, k, t, u)
    BY <1>6, <1>7, <1>8, <1>9 DEF Parts
<1> QED BY <1>10 DEF u, b, c

\* New body paragraphs, of the lines new, after the one at k.
Spliced(F, k, new, H) ==
    /\ H \in Paragraphs(Wording) /\ Len(H) = Len(F) + Len(new)
    /\ \A q \in 1..k : H[q] = F[q]
    /\ \A i \in 1..Len(new) : H[k + i] = Paragraph(0, Body, new[i])
    /\ \A q \in k + 1..Len(F) : H[q + Len(new)] = F[q]

LEMMA InsertedIs ==
    ASSUME NEW F \in Paragraphs(Wording), NEW x, Position(F, x) \in 1..Len(F),
           NEW new \in Seq(Wording)
    PROVE  Spliced(F, Position(F, x), new, Inserted(F, x, new))
<1> DEFINE Row == [id : Nat, level : 0..9, text : Wording]
           k == Position(F, x)
           t == [i \in DOMAIN new |-> Paragraph(0, Body, new[i])]
<1>1. F \in Seq(Row) /\ k \in 0..Len(F)
    <2>1. Len(F) \in Nat
        BY ParagraphsList
    <2> QED BY <2>1 DEF Paragraphs
<1>2. t \in Seq(Row) /\ Len(t) = Len(new) /\ \A i \in 1..Len(new) : t[i] = Paragraph(0, Body, new[i])
    <2>1. DOMAIN new = 1..Len(new) /\ Len(new) \in Nat
        OBVIOUS
    <2>2. ASSUME NEW i \in 1..Len(new) PROVE Paragraph(0, Body, new[i]) \in Row
        <3>1. new[i] \in Wording
            OBVIOUS
        <3> QED BY <3>1 DEF Paragraph, Body
    <2> HIDE DEF Row
    <2> QED BY <2>1, <2>2
<1>3. Inserted(F, x, new) = SubSeq(F, 1, k) \o t \o SubSeq(F, k + 1, Len(F))
    BY DEF Inserted
<1> HIDE DEF Row, k, t
<1> DEFINE H == Inserted(F, x, new)
<1> HIDE DEF H
<1>4. /\ H \in Seq(Row) /\ Len(H) = Len(F) + Len(t)
      /\ \A q \in 1..k : H[q] = F[q]
      /\ \A i \in 1..Len(t) : H[k + i] = t[i]
      /\ \A q \in k + 1..Len(F) : H[q + Len(t)] = F[q]
    <2> DEFINE u == SubSeq(F, 1, k) \o t \o SubSeq(F, k + 1, Len(F))
    <2>1. Parts(Row, F, k, t, u)
        BY <1>1, <1>2, ThreeParts
    <2>2. H = u
        BY <1>3 DEF H
    <2> HIDE DEF u
    <2> QED BY <2>1, <2>2 DEF Parts
<1>5. Spliced(F, k, new, H)
    BY <1>2, <1>4 DEF Spliced, Paragraphs, Row
<1> QED BY <1>5 DEF H, k

\* The paragraphs that b lists have the lines, as far as they go, or are blank.
Recast(F, b, lines, G) ==
    /\ G \in Paragraphs(Wording) /\ Len(G) = Len(F)
    /\ \A q \in 1..Len(F) : G[q].id = F[q].id /\ G[q].level = F[q].level
    /\ \A q \in 1..Len(F) : (\A i \in 1..Len(b) : F[q].id # b[i]) => G[q] = F[q]
    /\ \A q \in 1..Len(F) : \A i \in 1..Len(b) :
          F[q].id = b[i] => G[q].text = IF i <= Len(lines) THEN lines[i] ELSE Blank

LEMMA ReusedIs ==
    ASSUME NEW F \in Paragraphs(Wording), NEW b, NEW B, Rising(b, B), NEW lines \in Seq(Wording)
    PROVE  Recast(F, b, lines, Reused(F, b, lines))
<1> DEFINE Row == [id : Nat, level : 0..9, text : Wording]
           n == Len(F)
           Nth(q) == CHOOSE i \in DOMAIN b : b[i] = F[q].id
           new(q) == [F[q] EXCEPT !.text = IF Nth(q) <= Len(lines) THEN lines[Nth(q)] ELSE Blank]
           G == Reused(F, b, lines)
<1>1. F \in Seq(Row) /\ n \in Nat /\ DOMAIN F = 1..n
    BY ParagraphsList DEF Paragraphs
<1>2. G = [q \in 1..n |-> IF F[q].id \in Range(b) THEN new(q) ELSE F[q]]
    BY <1>1 DEF Reused
<1>3. DOMAIN b = 1..Len(b) /\ \A i, j \in 1..Len(b) : b[i] = b[j] => i = j
    <2>1. /\ DOMAIN b = 1..Len(b) /\ \A i \in 1..Len(b) : b[i] \in Nat
          /\ \A i, j \in 1..Len(b) : i < j => b[i] < b[j]
        BY RisingElements
    <2>2. ASSUME NEW i \in 1..Len(b), NEW j \in 1..Len(b), b[i] = b[j], i # j PROVE FALSE
        <3>1. i < j \/ j < i
            BY <2>2
        <3> QED BY <2>1, <2>2, <3>1
    <2> QED BY <2>1, <2>2
<1>4. ASSUME NEW q \in 1..n, NEW i \in 1..Len(b), F[q].id = b[i]
      PROVE  Nth(q) = i /\ F[q].id \in Range(b)
    BY <1>3, <1>4 DEF Range
<1>5. ASSUME NEW q \in 1..n, \A i \in 1..Len(b) : F[q].id # b[i] PROVE F[q].id \notin Range(b)
    BY <1>3, <1>5 DEF Range
<1>6. \A w \in Wording : w \in Wording
    OBVIOUS
<1>7. ASSUME NEW q \in 1..n, NEW i \in 1..Len(b), F[q].id = b[i]
      PROVE  /\ G[q].id = F[q].id /\ G[q].level = F[q].level /\ G[q] \in Row
             /\ G[q].text = IF i <= Len(lines) THEN lines[i] ELSE Blank
    <2> DEFINE w == IF i <= Len(lines) THEN lines[i] ELSE Blank
    <2>1. G[q] = new(q) /\ Nth(q) = i
        <3>1. Nth(q) = i /\ F[q].id \in Range(b)
            BY <1>4, <1>7
        <3> HIDE DEF Nth, G, new
        <3> QED BY <1>2, <3>1
    <2>2. w \in Wording
        <3>1. CASE i <= Len(lines)
            <4>1. i \in 1..Len(lines) /\ DOMAIN lines = 1..Len(lines)
                BY <1>3, <3>1
            <4>2. lines[i] \in Wording
                BY <4>1, ElementOf
            <4> QED BY <3>1, <4>2
        <3>2. CASE ~ (i <= Len(lines))
            BY <3>2 DEF Wording
        <3> QED BY <3>1, <3>2
    <2>3. new(q) = [F[q] EXCEPT !.text = w]
        <3> HIDE DEF Nth
        <3> QED BY <2>1
    <2>4. F[q] \in Row
        BY <1>1, ElementOf
    <2> HIDE DEF w, new, G, Nth
    <2> QED BY <2>1, <2>2, <2>3, <2>4 DEF w
<1>8. ASSUME NEW q \in 1..n, \A i \in 1..Len(b) : F[q].id # b[i] PROVE G[q] = F[q] /\ G[q] \in Row
    <2>1. F[q].id \notin Range(b)
        BY <1>5, <1>8
    <2>2. F[q] \in Row
        BY <1>1, ElementOf
    <2> HIDE DEF new, G, Row
    <2> QED BY <1>2, <2>1, <2>2
<1> HIDE DEF G, new, Nth
<1>9. \A q \in 1..n : G[q].id = F[q].id /\ G[q].level = F[q].level /\ G[q] \in Row
    BY <1>7, <1>8
<1>10. G \in Seq(Row) /\ Len(G) = n
    <2> HIDE DEF Row, n
    <2> QED BY <1>1, <1>2, <1>9
<1>11. Recast(F, b, lines, G)
    BY <1>7, <1>8, <1>9, <1>10 DEF Recast, Paragraphs
<1> QED BY <1>11 DEF G

\* Where the paragraph at q is once m have been added after k.
Shift(k, m, q) == IF q <= k THEN q ELSE q + m

\* H is F with the lines in the body b and those in new after the paragraph at k.
Operated(F, H, k, new, b, lines) ==
    /\ H \in Paragraphs(Wording) /\ Len(H) = Len(F) + Len(new) /\ k \in 1..Len(F)
    /\ \A q \in 1..Len(F) : /\ H[Shift(k, Len(new), q)].id = F[q].id
                            /\ H[Shift(k, Len(new), q)].level = F[q].level
    /\ \A q \in 1..Len(F) :
          (\A i \in 1..Len(b) : F[q].id # b[i]) => H[Shift(k, Len(new), q)] = F[q]
    /\ \A q \in 1..Len(F) : \A i \in 1..Len(b) :
          F[q].id = b[i] => H[Shift(k, Len(new), q)].text = IF i <= Len(lines) THEN lines[i] ELSE Blank
    /\ \A i \in 1..Len(new) : H[k + i] = Paragraph(0, Body, new[i])

\* The paragraphs keep their order, and every other one is new.
Shifting(n, m, k) ==
    /\ \A q \in 1..n : Shift(k, m, q) \in 1..n + m
    /\ \A q, r \in 0..n : q < r <=> Shift(k, m, q) < Shift(k, m, r)
    /\ \A r \in 1..n + m : (\E q \in 1..n : r = Shift(k, m, q)) \/ (\E i \in 1..m : r = k + i)
    /\ \A r \in 1..n + m : r <= k => r = Shift(k, m, r)

LEMMA Shifts ==
    ASSUME NEW n \in Nat, NEW m \in Nat, NEW k \in 0..n
    PROVE  Shifting(n, m, k)
<1>1. \A q \in 1..n : Shift(k, m, q) \in 1..n + m
    BY DEF Shift
<1>2. \A q, r \in 0..n : q < r <=> Shift(k, m, q) < Shift(k, m, r)
    BY DEF Shift
<1>3. ASSUME NEW r \in 1..n + m
      PROVE  (\E q \in 1..n : r = Shift(k, m, q)) \/ (\E i \in 1..m : r = k + i)
    <2>1. CASE r <= k
        <3>1. r \in 1..n /\ r = Shift(k, m, r)
            BY <2>1 DEF Shift
        <3> QED BY <3>1
    <2>2. CASE k < r /\ r <= k + m
        <3>1. r - k \in 1..m /\ r = k + (r - k)
            BY <2>2
        <3> QED BY <3>1
    <2>3. CASE k + m < r
        <3>1. r - m \in 1..n /\ r = Shift(k, m, r - m)
            BY <2>3 DEF Shift
        <3> QED BY <3>1
    <2> QED BY <2>1, <2>2, <2>3
<1>4. \A r \in 1..n + m : r <= k => r = Shift(k, m, r)
    BY DEF Shift
<1> QED BY <1>1, <1>2, <1>3, <1>4 DEF Shifting

\* Reusing the body's paragraphs and adding the rest is such an operation.
LEMMA Operates ==
    ASSUME NEW F \in Paragraphs(Wording), NEW G, NEW H, NEW k \in 1..Len(F),
           NEW new \in Seq(Wording), NEW b, NEW lines,
           Recast(F, b, lines, G), Spliced(G, k, new, H)
    PROVE  Operated(F, H, k, new, b, lines)
<1> DEFINE m == Len(new)
           n == Len(F)
<1>1. n \in Nat /\ m \in Nat /\ Len(G) = n
    BY ParagraphsList DEF Recast
<1>2. ASSUME NEW q \in 1..n PROVE H[Shift(k, m, q)] = G[q]
    <2>1. CASE q <= k
        <3>1. q \in 1..k /\ Shift(k, m, q) = q
            BY <1>1, <2>1 DEF Shift
        <3> QED BY <3>1 DEF Spliced
    <2>2. CASE ~ (q <= k)
        <3>1. q \in k + 1..Len(G) /\ Shift(k, m, q) = q + Len(new)
            BY <1>1, <2>2 DEF Shift
        <3> QED BY <3>1 DEF Spliced
    <2> QED BY <2>1, <2>2
<1>3. /\ H \in Paragraphs(Wording) /\ Len(H) = n + m
      /\ \A i \in 1..m : H[k + i] = Paragraph(0, Body, new[i])
    BY <1>1 DEF Spliced
<1>4. /\ \A q \in 1..n : G[q].id = F[q].id /\ G[q].level = F[q].level
      /\ \A q \in 1..n : (\A i \in 1..Len(b) : F[q].id # b[i]) => G[q] = F[q]
      /\ \A q \in 1..n : \A i \in 1..Len(b) :
            F[q].id = b[i] => G[q].text = IF i <= Len(lines) THEN lines[i] ELSE Blank
    BY DEF Recast
<1> HIDE DEF n, m
<1>5. /\ \A q \in 1..n : H[Shift(k, m, q)].id = F[q].id /\ H[Shift(k, m, q)].level = F[q].level
      /\ \A q \in 1..n : (\A i \in 1..Len(b) : F[q].id # b[i]) => H[Shift(k, m, q)] = F[q]
      /\ \A q \in 1..n : \A i \in 1..Len(b) :
            F[q].id = b[i] => H[Shift(k, m, q)].text = IF i <= Len(lines) THEN lines[i] ELSE Blank
    BY <1>2, <1>4
<1> QED BY <1>3, <1>5 DEF Operated, n, m

\* It leaves the document laid out as it was.
LEMMA LaidOperated ==
    ASSUME NEW D \in Paragraphs(Wording), NEW F, Laid(D, F), NEW H, NEW k, NEW new \in Seq(Wording),
           NEW b, NEW lines, Operated(F, H, k, new, b, lines),
           \A i \in 1..Len(b) : D[b[i]].level = Body
    PROVE  Laid(D, H)
<1> DEFINE n == Len(F)
           m == Len(new)
           S(q) == Shift(k, m, q)
<1>1. n \in Nat /\ m \in Nat /\ k \in 1..n /\ Len(H) = n + m /\ H \in Paragraphs(Wording)
    BY ParagraphsList DEF Laid, Operated
<1>2. /\ \A q \in 1..n : S(q) \in 1..n + m
      /\ \A q, r \in 1..n : S(q) < S(r) => q < r
      /\ \A r \in 1..n + m : (\E q \in 1..n : r = S(q)) \/ (\E i \in 1..m : r = k + i)
    <2>1. k \in 0..n
        BY <1>1
    <2> HIDE DEF n, m
    <2>2. Shifting(n, m, k)
        BY <1>1, <2>1, Shifts
    <2>3. \A q \in 1..n : S(q) \in 1..n + m
        BY <2>2 DEF Shifting
    <2>4. ASSUME NEW q \in 1..n, NEW r \in 1..n, S(q) < S(r) PROVE q < r
        <3>1. q \in 0..n /\ r \in 0..n
            BY <1>1
        <3> QED BY <2>2, <2>4, <3>1 DEF Shifting
    <2>5. \A r \in 1..n + m : (\E q \in 1..n : r = S(q)) \/ (\E i \in 1..m : r = k + i)
        BY <2>2, Zenon DEF Shifting
    <2> QED BY <2>3, <2>4, <2>5
<1>3. /\ \A q \in 1..n : H[S(q)].id = F[q].id /\ H[S(q)].level = F[q].level
      /\ \A q \in 1..n : (\A i \in 1..Len(b) : F[q].id # b[i]) => H[S(q)] = F[q]
    BY DEF Operated
<1>4. \A i \in 1..m : H[k + i].id = 0 /\ H[k + i].level = Body
    <2>1. \A i \in 1..m : H[k + i] = Paragraph(0, Body, new[i])
        BY DEF Operated
    <2>2. ASSUME NEW w PROVE Paragraph(0, Body, w).id = 0 /\ Paragraph(0, Body, w).level = Body
        BY DEF Paragraph
    <2> QED BY <2>1, <2>2
<1>5. /\ \A q \in 1..n : F[q].id \in 0..Len(D)
      /\ \A i \in 1..Len(D) : \E q \in 1..n : F[q].id = i
      /\ \A q, r \in 1..n : q < r /\ F[q].id # 0 /\ F[r].id # 0 => F[q].id < F[r].id
      /\ \A q \in 1..n : F[q].id = 0 => F[q].level = Body
      /\ \A q \in 1..n : F[q].id # 0 =>
            /\ F[q].level = D[F[q].id].level
            /\ F[q].level # Body => F[q] = D[F[q].id]
    BY DEF Laid
<1>6. Len(D) \in Nat
    BY ParagraphsList
<1> HIDE DEF S, m, n
<1>7. \A q \in 1..n + m : H[q].id \in 0..Len(D)
    <2> TAKE q \in 1..n + m
    <2>1. CASE \E u \in 1..n : q = S(u)
        BY <1>3, <1>5, <2>1
    <2>2. CASE \E i \in 1..m : q = k + i
        BY <1>4, <1>6, <2>2
    <2> QED BY <1>2, <2>1, <2>2
<1>8. \A i \in 1..Len(D) : \E q \in 1..n + m : H[q].id = i
    <2> TAKE i \in 1..Len(D)
    <2>1. PICK q \in 1..n : F[q].id = i
        BY <1>5
    <2>2. S(q) \in 1..n + m /\ H[S(q)].id = i
        BY <1>2, <1>3, <2>1
    <2> QED BY <2>2
<1>9. \A q, r \in 1..n + m : q < r /\ H[q].id # 0 /\ H[r].id # 0 => H[q].id < H[r].id
    <2> SUFFICES ASSUME NEW q \in 1..n + m, NEW r \in 1..n + m, q < r, H[q].id # 0, H[r].id # 0
                 PROVE  H[q].id < H[r].id
        OBVIOUS
    <2>1. (\E u \in 1..n : q = S(u)) /\ (\E v \in 1..n : r = S(v))
        BY <1>2, <1>4
    <2>2. PICK u \in 1..n : q = S(u)
        BY <2>1
    <2>3. PICK v \in 1..n : r = S(v)
        BY <2>1
    <2>4. u < v /\ H[q].id = F[u].id /\ H[r].id = F[v].id
        BY <1>2, <1>3, <2>2, <2>3
    <2> QED BY <1>5, <2>4
<1>10. \A q \in 1..n + m : H[q].id = 0 => H[q].level = Body
    BY <1>2, <1>3, <1>4, <1>5
<1>11. ASSUME NEW q \in 1..n + m, H[q].id # 0
       PROVE  H[q].level = D[H[q].id].level /\ (H[q].level # Body => H[q] = D[H[q].id])
    <2>1. PICK u \in 1..n : q = S(u)
        BY <1>2, <1>4, <1>11
    <2>2. H[q].id = F[u].id /\ H[q].level = F[u].level
        BY <1>3, <2>1
    <2>3. H[q].level = D[H[q].id].level
        BY <1>5, <1>11, <2>2
    <2>4. ASSUME H[q].level # Body PROVE H[q] = D[H[q].id]
        <3>1. \A i \in 1..Len(b) : F[u].id # b[i]
            BY <2>2, <2>3, <2>4
        <3>2. H[q] = F[u]
            BY <1>3, <2>1, <3>1
        <3> QED BY <1>5, <1>11, <2>2, <2>4, <3>2
    <2> QED BY <2>3, <2>4
<1> QED BY <1>1, <1>7, <1>8, <1>9, <1>10, <1>11 DEF Laid

\* Selections of which one is the other, moved, are the same.
Moves(f, s, T, t, U) ==
    /\ \A q \in T : f[q] \in U /\ t[f[q]] = s[q]
    /\ \A u \in U : \E q \in T : f[q] = u
    /\ \A q, r \in T : q < r => f[q] < f[r]

LEMMA MovedKept ==
    ASSUME NEW S, NEW s \in Seq(S), NEW t \in Seq(S), NEW T \in SUBSET (1..Len(s)),
           NEW U \in SUBSET (1..Len(t)), NEW f, Moves(f, s, T, t, U)
    PROVE  Kept(t, U) = Kept(s, T)
<1> DEFINE e == Listed(T)
           g == [i \in 1..Len(e) |-> f[e[i]]]
<1>1. Len(s) \in Nat /\ Len(t) \in Nat /\ T \in SUBSET (0..Len(s))
    OBVIOUS
<1>2. Rising(e, T)
    BY <1>1, ListedRises
<1> HIDE DEF e
<1>3. /\ Len(e) \in Nat /\ \A i \in 1..Len(e) : e[i] \in T
      /\ \A q \in T : \E i \in 1..Len(e) : e[i] = q
      /\ \A i, j \in 1..Len(e) : i < j => e[i] < e[j]
    BY <1>2, RisingElements
<1>4. /\ g \in Seq(Nat) /\ Len(g) = Len(e) /\ \A i \in 1..Len(e) : g[i] = f[e[i]]
    <2>1. ASSUME NEW i \in 1..Len(e) PROVE f[e[i]] \in Nat
        <3>1. e[i] \in T
            BY <1>3
        <3>2. f[e[i]] \in U
            BY <3>1 DEF Moves
        <3>3. U \subseteq Nat
            BY <1>1
        <3> QED BY <3>2, <3>3
    <2> QED BY <1>3, <2>1
<1> HIDE DEF g
<1>5. Rising(g, U)
    <2>1. \A i \in 1..Len(g) : g[i] \in U
        BY <1>3, <1>4 DEF Moves
    <2>2. ASSUME NEW u \in U PROVE \E i \in 1..Len(g) : g[i] = u
        <3>1. PICK q \in T : f[q] = u
            BY DEF Moves
        <3>2. PICK i \in 1..Len(e) : e[i] = q
            BY <1>3
        <3>3. g[i] = u
            BY <1>4, <3>1, <3>2
        <3> QED BY <1>4, <3>3
    <2>3. ASSUME NEW i \in 1..Len(g), NEW j \in 1..Len(g), i < j PROVE g[i] < g[j]
        <3>1. e[i] \in T /\ e[j] \in T /\ e[i] < e[j]
            BY <1>3, <1>4, <2>3
        <3>2. f[e[i]] < f[e[j]]
            BY <3>1 DEF Moves
        <3> QED BY <1>4, <2>3, <3>2
    <2> QED BY <1>4, <2>1, <2>2, <2>3, RisingIs
<1>6. Kept(s, T) = Picked(s, e) /\ Kept(t, U) = Picked(t, g)
    <2>1. T \cap 1..Len(s) = T /\ U \cap 1..Len(t) = U
        OBVIOUS
    <2> QED BY <1>2, <1>5, <2>1, KeptPicked
<1>7. \A i \in 1..Len(e) : t[g[i]] = s[e[i]]
    BY <1>3, <1>4 DEF Moves
<1> QED BY <1>4, <1>6, <1>7 DEF Picked

\* The body of a section, the paragraph that new ones follow and the draft's lines.
BodyOf(D, a) == Listed(BodiesUnder(D, Len(D), a))
AfterOf(D, a) == IF BodyOf(D, a) = <<>> THEN a ELSE Last(BodyOf(D, a))
Rest(D, a, lines) == SubSeq(lines, Len(BodyOf(D, a)) + 1, Len(lines))

LEMMA BodyOfIs ==
    ASSUME NEW D \in Paragraphs(Wording), NEW a \in Opens(D, Len(D))
    PROVE  /\ a \in 0..Len(D) /\ a \in {0} \cup HeadingsIn(D, Len(D))
           /\ Rising(BodyOf(D, a), BodiesUnder(D, Len(D), a))
           /\ Len(BodyOf(D, a)) \in Nat /\ DOMAIN BodyOf(D, a) = 1..Len(BodyOf(D, a))
           /\ \A i \in 1..Len(BodyOf(D, a)) :
                 /\ BodyOf(D, a)[i] \in 1..Len(D) /\ D[BodyOf(D, a)[i]].level = Body
                 /\ Under(D, a, BodyOf(D, a)[i])
           /\ AfterOf(D, a) \in 1..Len(D)
<1>1. Len(D) \in Nat
    BY ParagraphsList
<1>2. a \in 0..Len(D) /\ a \in {0} \cup HeadingsIn(D, Len(D))
    BY <1>1, OpensBounds
<1>3. Rising(BodyOf(D, a), BodiesUnder(D, Len(D), a))
    BY <1>1, BodiesRise DEF BodyOf
<1> DEFINE b == BodyOf(D, a)
<1> HIDE DEF b
<1>4. /\ Len(b) \in Nat /\ DOMAIN b = 1..Len(b) /\ b \in Seq(Nat)
      /\ \A i \in 1..Len(b) : b[i] \in BodiesUnder(D, Len(D), a)
      /\ \A q \in BodiesUnder(D, Len(D), a) : \E i \in 1..Len(b) : b[i] = q
    BY <1>3, RisingElements DEF b
<1>5. \A i \in 1..Len(b) : b[i] \in 1..Len(D) /\ D[b[i]].level = Body /\ Under(D, a, b[i])
    BY <1>4 DEF BodiesUnder
<1>6. AfterOf(D, a) \in 1..Len(D)
    <2>1. CASE b = <<>>
        <3>1. a # 0
            <4>1. SUFFICES ASSUME a = 0 PROVE FALSE
                OBVIOUS
            <4>2. TextsUnder(D, Len(D), 0) # {}
                BY <4>1 DEF Opens, HeadingsIn
            <4>3. PICK q \in TextsUnder(D, Len(D), 0) : TRUE
                BY <4>2
            <4>4. q \in BodiesUnder(D, Len(D), a)
                BY <4>1, <4>3 DEF TextsUnder, BodiesUnder, IsText
            <4>5. \E i \in 1..Len(b) : b[i] = q
                BY <1>4, <4>4
            <4> QED BY <2>1, <4>5
        <3> QED BY <1>1, <1>2, <2>1, <3>1 DEF AfterOf, b
    <2>2. CASE b # <<>>
        <3>1. Len(b) \in 1..Len(b) /\ Last(b) = b[Len(b)]
            BY <1>4, <2>2 DEF Last
        <3> QED BY <1>5, <2>2, <3>1 DEF AfterOf, b
    <2> QED BY <2>1, <2>2
<1> QED BY <1>2, <1>3, <1>4, <1>5, <1>6 DEF b

\* What is left of a list after its first k elements.
LEMMA Ending ==
    ASSUME NEW S, NEW s \in Seq(S), NEW k \in Nat
    PROVE  /\ SubSeq(s, k + 1, Len(s)) \in Seq(S)
           /\ Len(SubSeq(s, k + 1, Len(s))) = IF k <= Len(s) THEN Len(s) - k ELSE 0
           /\ \A i \in 1..Len(s) - k : SubSeq(s, k + 1, Len(s))[i] = s[k + i]
OBVIOUS

LEMMA EndingWhole ==
    ASSUME NEW S, NEW s \in Seq(S)
    PROVE  SubSeq(s, 0 + 1, Len(s)) = s
OBVIOUS

\* Replacing a section's text is the operation above.
LEMMA ReplacedOperates ==
    ASSUME NEW D \in Paragraphs(Wording), NEW F, Laid(D, F), NEW a \in Opens(D, Len(D)),
           NEW draft \in Seq(Wording)
    PROVE  /\ NonBlank(draft) \in Seq(Wording) /\ Rest(D, a, NonBlank(draft)) \in Seq(Wording)
           /\ Operated(F, Replaced(F, Found(D, Len(D), a), draft), Position(F, AfterOf(D, a)),
                       Rest(D, a, NonBlank(draft)), BodyOf(D, a), NonBlank(draft))
<1> DEFINE lines == NonBlank(draft)
           b == BodyOf(D, a)
           x == AfterOf(D, a)
           new == Rest(D, a, lines)
           k == Position(F, x)
           H == Replaced(F, Found(D, Len(D), a), draft)
           G == IF b = <<>> THEN F ELSE Reused(F, b, lines)
<1>1. lines \in Seq(Wording) /\ lines = Select(draft, LAMBDA t : t # Blank)
    <2>1. lines = Select(draft, LAMBDA t : t # Blank)
        BY DEF NonBlank
    <2> QED BY <2>1, KeptList DEF Select
<1>2. /\ Rising(b, BodiesUnder(D, Len(D), a)) /\ Len(b) \in Nat /\ x \in 1..Len(D)
    BY BodyOfIs
<1>3. F \in Paragraphs(Wording) /\ k \in 1..Len(F) /\ F[k].id = x
      /\ \A q \in 1..Len(F) : F[q].id = x => q = k
    BY <1>2, LaidPosition DEF Laid
<1> HIDE DEF lines, b
<1>4. H = Inserted(G, x, new) /\ new \in Seq(Wording)
    <2>1. Found(D, Len(D), a).body = b /\ Found(D, Len(D), a).anchor = a
        BY DEF Found, BodyOf, b
    <2>2. new = SubSeq(lines, Len(b) + 1, Len(lines))
        BY DEF Rest, b
    <2>3. new \in Seq(Wording)
        BY <1>1, <1>2, <2>2, Ending
    <2>4. CASE b = <<>>
        <3>1. new = lines
            <4>1. Len(b) = 0
                BY <2>4
            <4> QED BY <1>1, <2>2, <4>1, EndingWhole
        <3>2. x = a
            BY <2>4 DEF AfterOf, b
        <3>3. H = Inserted(F, a, lines)
            BY <1>1, <2>1, <2>4 DEF Replaced
        <3> QED BY <2>3, <2>4, <3>1, <3>2, <3>3
    <2>5. CASE b # <<>>
        <3>2. x = Last(b)
            BY <2>5 DEF AfterOf, b
        <3>3. H = Inserted(Reused(F, b, lines), Last(b), SubSeq(lines, Len(b) + 1, Len(lines)))
            BY <1>1, <2>1, <2>5 DEF Replaced
        <3> QED BY <2>2, <2>3, <2>5, <3>2, <3>3
    <2> QED BY <2>4, <2>5
<1>5. Recast(F, b, lines, G)
    <2>1. CASE b = <<>>
        <3>1. Len(b) = 0
            BY <2>1
        <3> QED BY <1>3, <2>1, <3>1 DEF Recast
    <2>2. CASE b # <<>>
        BY <1>1, <1>2, <1>3, <2>2, ReusedIs
    <2> QED BY <2>1, <2>2
<1> HIDE DEF x, new, H, G
<1>6. Position(G, x) = k
    <2>1. /\ G \in Paragraphs(Wording) /\ Len(G) = Len(F) /\ \A q \in 1..Len(F) : G[q].id = F[q].id
        BY <1>5 DEF Recast
    <2>2. DOMAIN G = 1..Len(F)
        BY <2>1, ParagraphsList
    <2>3. k \in DOMAIN G /\ G[k].id = x
        BY <1>3, <2>1, <2>2
    <2>4. Position(G, x) \in DOMAIN G /\ G[Position(G, x)].id = x
        <3> HIDE DEF k
        <3> QED BY <2>3 DEF Position
    <2> HIDE DEF k
    <2> QED BY <1>3, <2>1, <2>2, <2>4
<1>7. Spliced(G, k, new, H)
    <2>1. G \in Paragraphs(Wording) /\ Position(G, x) \in 1..Len(G)
        BY <1>3, <1>5, <1>6 DEF Recast
    <2> HIDE DEF k
    <2> QED BY <1>4, <1>6, <2>1, InsertedIs
<1>8. Operated(F, H, k, new, b, lines)
    <2> HIDE DEF k
    <2> QED BY <1>3, <1>4, <1>5, <1>7, Operates
<1> QED BY <1>1, <1>4, <1>8 DEF k, H, new, b, lines, x

---------------------------------------------------------------------------
(* The program                                                               *)

Rejecting == phase \in {"author", "rejected"} => sections = <<>>
Waiting == phase \in {"author", "parsed", "rejected"} => drafts = <<>> /\ file = <<>> /\ next = 0
Stored == phase \in {"parsed", "export", "exported"} =>
              sections = Parsed(doc) /\ Len(sections) <= MaxSections
Reviewed == phase \in {"export", "exported"} =>
    /\ DOMAIN drafts = 0..Len(sections) - 1 /\ \A o \in DOMAIN drafts : drafts[o] \in Seq(Wording)
    /\ Laid(doc, file)
    /\ next \in 0..Len(sections)
    /\ phase = "exported" => next = Len(sections)

DocxInv ==
    /\ phase \in {"author", "parsed", "rejected", "export", "exported"}
    /\ Rejecting /\ Waiting /\ Stored /\ Reviewed

LEMMA WordingHas == Blank \in Wording
BY DEF Wording

\* A draft is a list of texts.
LEMMA DraftedTyped ==
    ASSUME NEW shape \in Shapes, NEW o \in Nat
    PROVE  Drafted(o, shape) \in Seq(Wording)
<1> DEFINE n == Len(shape)
<1>1. n \in Nat /\ shape \in Seq({0, 1}) /\ DOMAIN shape = 1..n
    BY DocxBounds
<1> HIDE DEF n
<1> DEFINE F(i) == IF shape[i] = 0 THEN Blank ELSE <<"d", o, i>>
<1>2. Drafted(o, shape) = [i \in 1..n |-> F(i)]
    BY <1>1 DEF Drafted
<1>3. ASSUME NEW i \in 1..n PROVE F(i) \in Wording
    <2>1. i \in Nat
        BY <1>1
    <2>2. <<"d", o, i>> \in {"p", "d"} \X Nat \X Nat
        BY <2>1
    <2> QED BY <2>2 DEF Wording
<1> HIDE DEF F
<1>4. [i \in 1..n |-> F(i)] \in Seq(Wording)
    BY <1>1, <1>3
<1> QED BY <1>2, <1>4

\* The copy that the export opens.
LEMMA LaidCopy ==
    ASSUME NEW D \in Paragraphs(Wording), Numbered(D)
    PROVE  Laid(D, D)
<1>1. Len(D) \in Nat
    BY ParagraphsList
<1>2. \A q \in 1..Len(D) : D[q].id = q
    BY DEF Numbered
<1>3. \A q \in 1..Len(D) : D[q].id \in 0..Len(D) /\ D[q].id # 0
    BY <1>1, <1>2
<1>4. \A k \in 1..Len(D) : \E q \in 1..Len(D) : D[q].id = k
    BY <1>2
<1>5. \A q, r \in 1..Len(D) : q < r /\ D[q].id # 0 /\ D[r].id # 0 => D[q].id < D[r].id
    BY <1>2
<1>6. \A q \in 1..Len(D) : D[q].id # 0 =>
          /\ D[q].level = D[D[q].id].level
          /\ D[q].level # Body => D[q] = D[D[q].id]
    BY <1>2
<1> QED BY <1>3, <1>4, <1>5, <1>6 DEF Laid

\* How many sections there are.
LEMMA SectionsCounted ==
    ASSUME DocInv
    PROVE  /\ Len(Parsed(doc)) = Len(Places(doc)) /\ Len(Walked(doc)) = Len(Places(doc))
           /\ Len(Places(doc)) \in Nat /\ Parsed(doc) \in Sections(Wording)
           /\ \A i \in 1..Len(Places(doc)) :
                 /\ Walked(doc)[i] = Found(doc, Len(doc), Places(doc)[i])
                 /\ Places(doc)[i] \in Opens(doc, Len(doc))
<1>1. doc \in Paragraphs(Wording) /\ Numbered(doc) /\ Blank \in Wording
    BY WordingHas DEF DocInv
<1>2. Len(doc) \in Nat
    BY <1>1, ParagraphsList
<1>3. \A i \in 1..Len(Places(doc)) : Places(doc)[i] \in Opens(doc, Len(doc))
    BY <1>2, PlacesRise DEF Places
<1>4. Len(Parsed(doc)) = Len(Places(doc)) /\ Parsed(doc) \in Sections(Wording)
    BY <1>1, ParsedTells
<1>5. /\ Len(Walked(doc)) = Len(Places(doc)) /\ Len(Places(doc)) \in Nat
      /\ \A i \in 1..Len(Places(doc)) : Walked(doc)[i] = Found(doc, Len(doc), Places(doc)[i])
    BY <1>1, WalkedTells
<1> QED BY <1>3, <1>4, <1>5

LEMMA DocxInvInit == Init => DocxInv
BY DEF Init, DocxInv, Rejecting, Waiting, Stored, Reviewed

LEMMA DocxInvAuthor ==
    ASSUME DocInv, DocxInv, NEW kind \in Kinds, Author(kind[1], kind[2])
    PROVE  DocxInv'
<1>1. phase = "author" /\ phase' = "author"
    BY DEF Author
<1> QED BY <1>1 DEF Author, DocxInv, Rejecting, Waiting, Stored, Reviewed

LEMMA DocxInvParse ==
    ASSUME DocInv, DocxInv, Parse
    PROVE  DocxInv'
<1>1. UNCHANGED <<doc, drafts, file, next>> /\ phase = "author" /\ sections = <<>>
    BY DEF Parse, DocxInv, Rejecting
<1>2. CASE Len(Parsed(doc)) <= MaxSections
    <2>1. phase' = "parsed" /\ sections' = Parsed(doc) /\ Parsed(doc)' = Parsed(doc)
        BY <1>1, <1>2 DEF Parse
    <2> QED BY <1>1, <1>2, <2>1 DEF DocxInv, Rejecting, Waiting, Stored, Reviewed
<1>3. CASE ~ (Len(Parsed(doc)) <= MaxSections)
    <2>1. phase' = "rejected" /\ sections' = sections
        BY <1>3 DEF Parse
    <2> QED BY <1>1, <2>1 DEF DocxInv, Rejecting, Waiting, Stored, Reviewed
<1> QED BY <1>2, <1>3

LEMMA DocxInvReview ==
    ASSUME DocInv, DocxInv, Review
    PROVE  DocxInv'
<1>1. /\ phase = "parsed" /\ phase' = "export" /\ file' = doc /\ next' = 0
      /\ doc' = doc /\ sections' = sections
    BY DEF Review
<1>2. sections = Parsed(doc) /\ Len(sections) <= MaxSections
    BY <1>1 DEF DocxInv, Stored
<1>3. Len(sections) \in Nat
    BY <1>2, SectionsCounted
<1>4. PICK shape \in [0..Len(sections) - 1 -> Shapes] :
          drafts' = [o \in DOMAIN shape |-> Drafted(o, shape[o])]
    BY DEF Review
<1>5. DOMAIN drafts' = 0..Len(sections) - 1 /\ \A o \in DOMAIN drafts' : drafts'[o] \in Seq(Wording)
    <2>1. DOMAIN shape = 0..Len(sections) - 1
        OBVIOUS
    <2>2. \A o \in 0..Len(sections) - 1 : o \in Nat /\ shape[o] \in Shapes
        BY <1>3
    <2> QED BY <1>4, <2>1, <2>2, DraftedTyped
<1>6. Laid(doc, doc)
    BY LaidCopy DEF DocInv
<1>7. Reviewed'
    BY <1>1, <1>3, <1>5, <1>6 DEF Reviewed
<1>8. Stored'
    BY <1>1, <1>2 DEF Stored
<1> QED BY <1>1, <1>7, <1>8 DEF DocxInv, Rejecting, Waiting

LEMMA DocxInvReplace ==
    ASSUME DocInv, DocxInv, ReplaceNext
    PROVE  DocxInv'
<1>1. /\ phase = "export" /\ UNCHANGED <<phase, doc, sections, drafts>> /\ next' = next + 1
      /\ next < Len(Walked(doc))
      /\ file' = IF next \in Exported
                 THEN Replaced(file, Walked(doc)[next + 1], drafts[next]) ELSE file
    BY DEF ReplaceNext
<1>2. /\ sections = Parsed(doc) /\ Len(sections) <= MaxSections
      /\ DOMAIN drafts = 0..Len(sections) - 1 /\ \A o \in DOMAIN drafts : drafts[o] \in Seq(Wording)
      /\ Laid(doc, file) /\ next \in 0..Len(sections)
    BY <1>1 DEF DocxInv, Stored, Reviewed
<1>3. /\ Len(sections) = Len(Places(doc)) /\ Len(Walked(doc)) = Len(Places(doc))
      /\ Len(Places(doc)) \in Nat
      /\ \A i \in 1..Len(Places(doc)) :
            /\ Walked(doc)[i] = Found(doc, Len(doc), Places(doc)[i])
            /\ Places(doc)[i] \in Opens(doc, Len(doc))
    BY <1>2, SectionsCounted
<1>4. next + 1 \in 1..Len(Places(doc)) /\ next \in 0..Len(sections) - 1
    BY <1>1, <1>2, <1>3
<1>5. Laid(doc, file')
    <2>1. CASE next \in Exported
        <3> DEFINE a == Places(doc)[next + 1]
                   draft == drafts[next]
                   b == BodyOf(doc, a)
                   new == Rest(doc, a, NonBlank(draft))
                   k == Position(file, AfterOf(doc, a))
        <3>1. a \in Opens(doc, Len(doc)) /\ draft \in Seq(Wording) /\ doc \in Paragraphs(Wording)
            BY <1>2, <1>3, <1>4 DEF DocInv
        <3>2. file' = Replaced(file, Found(doc, Len(doc), a), draft)
            BY <1>1, <1>3, <1>4, <2>1
        <3> HIDE DEF a, draft
        <3>3. new \in Seq(Wording) /\ Operated(file, file', k, new, b, NonBlank(draft))
            BY <1>2, <3>1, <3>2, ReplacedOperates
        <3>4. \A i \in 1..Len(b) : doc[b[i]].level = Body
            BY <3>1, BodyOfIs
        <3> HIDE DEF b, new, k
        <3> QED BY <1>2, <3>1, <3>3, <3>4, LaidOperated
    <2>2. CASE next \notin Exported
        BY <1>1, <1>2, <2>2
    <2> QED BY <2>1, <2>2
<1>6. Reviewed'
    <2>1. next' \in 0..Len(sections)
        BY <1>1, <1>3, <1>4
    <2>2. DOMAIN drafts' = 0..Len(sections') - 1 /\ \A o \in DOMAIN drafts' : drafts'[o] \in Seq(Wording)
        BY <1>1, <1>2
    <2>3. phase' # "exported" /\ doc' = doc /\ sections' = sections
        BY <1>1
    <2> QED BY <1>5, <2>1, <2>2, <2>3 DEF Reviewed
<1>7. Stored'
    BY <1>1, <1>2 DEF Stored
<1> QED BY <1>1, <1>6, <1>7 DEF DocxInv, Rejecting, Waiting

LEMMA DocxInvSave ==
    ASSUME DocInv, DocxInv, Save
    PROVE  DocxInv'
<1>1. /\ phase = "export" /\ phase' = "exported" /\ UNCHANGED <<doc, sections, drafts, file, next>>
      /\ next = Len(Walked(doc))
    BY DEF Save
<1>2. Len(Parsed(doc)) = Len(Walked(doc))
    BY SectionsCounted
<1>3. sections = Parsed(doc) /\ Len(sections) <= MaxSections
    BY <1>1 DEF DocxInv, Stored
<1>4. Reviewed'
    BY <1>1, <1>2, <1>3 DEF DocxInv, Reviewed
<1>5. Stored'
    BY <1>1, <1>3 DEF Stored
<1> QED BY <1>1, <1>4, <1>5 DEF DocxInv, Rejecting, Waiting

LEMMA DocxInvHolds == Spec => [](DocInv /\ DocxInv)
<1>1. DocInv /\ DocxInv /\ [Next]_vars => DocxInv'
    <2> SUFFICES ASSUME DocInv, DocxInv, [Next]_vars PROVE DocxInv'
        OBVIOUS
    <2>1. CASE UNCHANGED vars
        BY <2>1 DEF vars, DocxInv, Rejecting, Waiting, Stored, Reviewed
    <2> QED BY <2>1, DocxInvAuthor, DocxInvParse, DocxInvReview, DocxInvReplace, DocxInvSave DEF Next
<1> QED BY <1>1, DocxInvInit, DocKept, PTL DEF Spec

\* Every variable has its type, and a section's parent comes before it.
THEOREM DocxTypeCorrect == Spec => []TypeOK
<1>1. DocInv /\ DocxInv => TypeOK
    <2> SUFFICES ASSUME DocInv, DocxInv PROVE TypeOK
        OBVIOUS
    <2>1. doc \in Paragraphs(Wording) /\ Numbered(doc) /\ Blank \in Wording /\ DOMAIN doc = 1..Len(doc)
        BY WordingHas, ParagraphsList DEF DocInv
    <2>2. \A k \in DOMAIN doc : doc[k].id = k /\ doc[k].level \in Body..9
        <3>1. \A k \in 1..Len(doc) : doc[k].level \in 0..9
            BY <2>1, ParagraphFields
        <3> QED BY <2>1, <3>1 DEF Numbered, Body
    <2>3. CASE sections = <<>>
        <3>1. Len(sections) = 0 /\ DOMAIN sections = {} /\ MaxSections \in Nat
            BY <2>3, DocxBounds
        <3>2. phase \in {"export", "exported"} => Laid(doc, file) /\ DOMAIN drafts = {} /\ next = 0
            BY <3>1 DEF DocxInv, Reviewed
        <3>3. phase \notin {"export", "exported"} => drafts = <<>> /\ file = <<>> /\ next = 0
            BY DEF DocxInv, Waiting
        <3>4. \A k \in DOMAIN file : file[k].id = 0 => file[k].level = Body
            <4>1. CASE phase \in {"export", "exported"}
                BY <3>2, <4>1, ParagraphsList DEF Laid
            <4>2. CASE phase \notin {"export", "exported"}
                BY <3>3, <4>2
            <4> QED BY <4>1, <4>2
        <3>5. DOMAIN drafts = {} /\ next = 0
            BY <3>2, <3>3
        <3> QED BY <2>2, <3>1, <3>4, <3>5 DEF TypeOK, DocxInv
    <2>4. CASE sections # <<>>
        <3>1. sections = Parsed(doc) /\ Len(sections) <= MaxSections
            BY <2>4 DEF DocxInv, Rejecting, Stored
        <3>2. Len(sections) \in Nat /\ sections \in Sections(Wording)
            BY <3>1, SectionsCounted
        <3>3. DOMAIN sections = 1..Len(sections) /\ \A i \in 1..Len(sections) : sections[i].level \in 0..9
            <4> DEFINE Row == [level : 0..9, heading : Wording, parent : Int, lines : Seq(Wording)]
            <4>1. sections \in Seq(Row)
                BY <3>2 DEF Sections
            <4>2. \A i \in 1..Len(sections) : sections[i] \in Row
                <5> HIDE DEF Row
                <5> QED BY <4>1, ElementOf
            <4>3. DOMAIN sections = 1..Len(sections)
                <5> HIDE DEF Row
                <5> QED BY <4>1
            <4> QED BY <4>2, <4>3
        <3>4. ASSUME NEW i \in 1..Len(sections)
              PROVE  sections[i].parent \in None..i - 2
            <4> DEFINE above == {j \in 1..i - 1 : sections[j].level \in 1..sections[i].level - 1}
            <4>1. sections[i].parent = IF above = {} THEN None ELSE Max(above) - 1
                <5>1. Enclosed(sections, i)
                    BY <2>1, <3>1, <3>3, ParsedEncloses
                <5> QED BY <5>1 DEF Enclosed
            <4>2. CASE above # {}
                <5>1. above \in SUBSET (0..i) /\ i \in Nat /\ above \subseteq 1..i - 1 /\ above \subseteq Nat
                    BY <3>2
                <5> HIDE DEF above
                <5>2. PICK m \in above : \A t \in above : t <= m
                    BY <4>2, <5>1, LastNat
                <5>3. Max(above) = m
                    BY <5>1, <5>2, MaxIs
                <5>4. m \in 1..i - 1 /\ sections[i].parent = m - 1
                    BY <4>1, <4>2, <5>1, <5>2, <5>3
                <5> QED BY <5>1, <5>4 DEF None
            <4>3. i \in Nat /\ i >= 1
                BY <3>2
            <4> HIDE DEF above
            <4>4. CASE above = {}
                BY <4>1, <4>3, <4>4 DEF None
            <4> QED BY <4>2, <4>4
        <3>5. /\ DOMAIN drafts \subseteq 0..Len(sections) - 1 /\ next \in 0..Len(sections)
              /\ \A k \in DOMAIN file : file[k].id = 0 => file[k].level = Body
            <4>1. CASE phase \in {"export", "exported"}
                BY <4>1, ParagraphsList DEF DocxInv, Reviewed, Laid
            <4>2. CASE phase \notin {"export", "exported"}
                <5>1. drafts = <<>> /\ file = <<>> /\ next = 0
                    BY <4>2 DEF DocxInv, Waiting
                <5> QED BY <3>2, <5>1
            <4> QED BY <4>1, <4>2
        <3> QED BY <2>2, <3>1, <3>3, <3>4, <3>5 DEF TypeOK, DocxInv
    <2> QED BY <2>3, <2>4
<1> QED BY <1>1, DocxInvHolds, PTL

\* The stack of open ancestors gives every section the nearest heading before it of a
\* smaller level, however levels are skipped or reopened (parser.py 95-117).
THEOREM ParentEnclosesHolds == Spec => []ParentEncloses
<1>1. DocInv /\ DocxInv => ParentEncloses
    <2> SUFFICES ASSUME DocInv, DocxInv, NEW i \in DOMAIN sections PROVE Enclosed(sections, i)
        BY DEF ParentEncloses, Enclosed
    <2>1. sections # <<>>
        OBVIOUS
    <2>2. sections = Parsed(doc)
        BY <2>1 DEF DocxInv, Rejecting, Stored
    <2>3. doc \in Paragraphs(Wording) /\ Blank \in Wording
        BY WordingHas DEF DocInv
    <2> QED BY <2>2, <2>3, ParsedEncloses
<1> QED BY <1>1, DocxInvHolds, PTL

\* The paragraphs of the document are all in the copy, in their order.
LEMMA LaidKept ==
    ASSUME NEW D \in Paragraphs(Wording), NEW F, Laid(D, F)
    PROVE  LET kept == Select(F, LAMBDA p : p.id # 0)
           IN  /\ [k \in DOMAIN kept |-> kept[k].id] = [k \in DOMAIN D |-> k]
               /\ \A k \in DOMAIN kept : kept[k].level # Body => kept[k] = D[k]
<1> DEFINE E == {q \in 1..Len(F) : F[q].id # 0}
           e == Listed(E)
           kept == Select(F, LAMBDA p : p.id # 0)
           ids == [k \in 1..Len(e) |-> F[e[k]].id]
           all == [k \in 1..Len(D) |-> k]
           Row == [id : Nat, level : 0..9, text : Wording]
<1>1. /\ F \in Paragraphs(Wording) /\ DOMAIN F = 1..Len(F) /\ Len(F) \in Nat
      /\ DOMAIN D = 1..Len(D) /\ Len(D) \in Nat
    BY ParagraphsList DEF Laid
<1>2. /\ \A q \in 1..Len(F) : F[q].id \in 0..Len(D)
      /\ \A k \in 1..Len(D) : \E q \in 1..Len(F) : F[q].id = k
      /\ \A q, r \in 1..Len(F) : q < r /\ F[q].id # 0 /\ F[r].id # 0 => F[q].id < F[r].id
      /\ \A q \in 1..Len(F) : F[q].id # 0 =>
            /\ F[q].level = D[F[q].id].level
            /\ F[q].level # Body => F[q] = D[F[q].id]
    BY DEF Laid
<1>3. Rising(e, E)
    <2>1. E \in SUBSET (0..Len(F))
        OBVIOUS
    <2> HIDE DEF E
    <2> QED BY <1>1, <2>1, ListedRises
<1>4. kept = Picked(F, e)
    <2>1. F \in Seq(Row)
        BY <1>1 DEF Paragraphs
    <2>2. kept = Kept(F, E)
        BY <1>1 DEF Select
    <2>3. E \cap 1..Len(F) = E
        OBVIOUS
    <2> HIDE DEF E, Row, kept, e
    <2> QED BY <1>3, <2>1, <2>2, <2>3, KeptPicked
<1> HIDE DEF e
<1>5. /\ Len(e) \in Nat /\ \A k \in 1..Len(e) : e[k] \in E
      /\ \A q \in E : \E k \in 1..Len(e) : e[k] = q
      /\ \A i, j \in 1..Len(e) : i < j => e[i] < e[j]
    BY <1>3, RisingElements
<1>6. /\ ids \in Seq(Nat) /\ Len(ids) = Len(e) /\ \A k \in 1..Len(e) : ids[k] = F[e[k]].id
    <2>1. ASSUME NEW k \in 1..Len(e) PROVE F[e[k]].id \in Nat
        <3>1. e[k] \in 1..Len(F)
            BY <1>5
        <3> QED BY <1>1, <1>2, <3>1
    <2> QED BY <1>5, <2>1
<1>7. Rising(ids, 1..Len(D))
    <2> HIDE DEF ids
    <2>1. ASSUME NEW k \in 1..Len(ids) PROVE ids[k] \in 1..Len(D)
        <3>1. e[k] \in 1..Len(F) /\ F[e[k]].id # 0
            BY <1>5, <1>6
        <3> QED BY <1>1, <1>2, <1>6, <3>1
    <2>2. ASSUME NEW t \in 1..Len(D) PROVE \E k \in 1..Len(ids) : ids[k] = t
        <3>1. PICK q \in 1..Len(F) : F[q].id = t
            BY <1>2
        <3>2. q \in E
            BY <3>1
        <3>3. PICK k \in 1..Len(e) : e[k] = q
            BY <1>5, <3>2
        <3>4. ids[k] = t
            BY <1>6, <3>1, <3>3
        <3> QED BY <1>6, <3>4
    <2>3. ASSUME NEW i \in 1..Len(ids), NEW j \in 1..Len(ids), i < j PROVE ids[i] < ids[j]
        <3>1. e[i] \in 1..Len(F) /\ e[j] \in 1..Len(F) /\ F[e[i]].id # 0 /\ F[e[j]].id # 0 /\ e[i] < e[j]
            BY <1>5, <1>6, <2>3
        <3>2. F[e[i]].id < F[e[j]].id
            BY <1>2, <3>1
        <3> QED BY <1>6, <2>3, <3>2
    <2> QED BY <1>6, <2>1, <2>2, <2>3, RisingIs
<1>8. Rising(all, 1..Len(D))
    <2>1. /\ all \in Seq(Nat) /\ Len(all) = Len(D) /\ \A k \in 1..Len(D) : all[k] = k
        BY <1>1
    <2> HIDE DEF all
    <2> QED BY <2>1, RisingIs
<1>9. ids = all
    <2> HIDE DEF ids, all
    <2> QED BY <1>7, <1>8, RisingUnique
<1>10. Len(e) = Len(D) /\ \A k \in 1..Len(e) : F[e[k]].id = k
    <2>1. Len(all) = Len(D) /\ \A k \in 1..Len(D) : all[k] = k
        BY <1>1
    <2> HIDE DEF ids, all
    <2> QED BY <1>6, <1>9, <2>1
<1>11. DOMAIN kept = 1..Len(e) /\ \A k \in 1..Len(e) : kept[k] = F[e[k]]
    <2> HIDE DEF kept
    <2> QED BY <1>4 DEF Picked
<1> HIDE DEF kept, ids, all
<1>12. [k \in DOMAIN kept |-> kept[k].id] = [k \in DOMAIN D |-> k]
    BY <1>1, <1>10, <1>11
<1>13. ASSUME NEW k \in DOMAIN kept, kept[k].level # Body PROVE kept[k] = D[k]
    <2>1. e[k] \in 1..Len(F) /\ F[e[k]].id # 0 /\ F[e[k]].id = k
        BY <1>5, <1>10, <1>11
    <2> QED BY <1>2, <1>11, <1>13, <2>1
<1> QED BY <1>12, <1>13 DEF kept

\* The surgery removes and reorders no paragraph of the original and touches no heading,
\* those used for spacing included (export_docx.py 89-139).
THEOREM LayoutStaysHolds == Spec => []LayoutStays
<1>1. DocInv /\ DocxInv => LayoutStays
    <2> SUFFICES ASSUME DocInv, DocxInv, phase \in {"export", "exported"} PROVE LayoutStays
        BY DEF LayoutStays
    <2>1. Laid(doc, file) /\ doc \in Paragraphs(Wording)
        BY DEF DocxInv, Reviewed, DocInv
    <2> QED BY <2>1, LaidKept DEF LayoutStays
<1> QED BY <1>1, DocxInvHolds, PTL

---------------------------------------------------------------------------
(* What the file reads as                                                    *)

\* H is F with m body paragraphs added after the one at k.
Displaced(F, H, k, m) ==
    /\ Len(F) \in Nat /\ m \in Nat /\ k \in 1..Len(F) /\ Len(H) = Len(F) + m
    /\ \A q \in 1..Len(F) : /\ H[Shift(k, m, q)].id = F[q].id
                            /\ H[Shift(k, m, q)].level = F[q].level
                            /\ IsHeading(H[Shift(k, m, q)]) <=> IsHeading(F[q])
    /\ \A i \in 1..m : H[k + i].id = 0 /\ H[k + i].level = Body

\* What is under what stays so.
LEMMA DisplacedUnder ==
    ASSUME NEW F, NEW H, NEW k, NEW m, Displaced(F, H, k, m), NEW p \in 0..Len(F), NEW q \in 1..Len(F)
    PROVE  Under(H, Shift(k, m, p), Shift(k, m, q)) <=> Under(F, p, q)
<1> DEFINE n == Len(F)
           S(r) == Shift(k, m, r)
<1>1. n \in Nat /\ m \in Nat /\ k \in 1..n /\ k \in 0..n
    BY DEF Displaced
<1>2. Shifting(n, m, k)
    <2> HIDE DEF n
    <2> QED BY <1>1, Shifts
<1>3. ASSUME NEW r \in 0..n, NEW s \in 0..n PROVE r < s <=> S(r) < S(s)
    BY <1>2 DEF Shifting
<1>4. \A r \in 0..n : S(r) \in Nat
    BY <1>1 DEF Shift
<1>5. ASSUME Under(F, p, q), NEW h \in S(p) + 1..S(q), IsHeading(H[h]) PROVE FALSE
    <2>1. p \in 0..n /\ q \in 0..n /\ S(q) \in 1..n + m
        BY <1>1, <1>2 DEF Shifting
    <2>2. h \in 1..n + m /\ S(p) < h /\ h <= S(q)
        BY <1>1, <1>4, <1>5, <2>1
    <2>3. ~ (\E i \in 1..m : h = k + i)
        BY <1>5 DEF Displaced, IsHeading
    <2>4. PICK r \in 1..n : h = S(r)
        BY <1>2, <2>2, <2>3 DEF Shifting
    <2>5. IsHeading(F[r])
        BY <1>5, <2>4 DEF Displaced
    <2>6. p < r /\ ~ (q < r)
        <3>1. r \in 0..n /\ ~ (S(q) < h)
            BY <1>1, <2>1, <2>2
        <3> HIDE DEF S, n
        <3> QED BY <1>3, <2>1, <2>2, <2>4, <3>1
    <2>7. r \in p + 1..q
        BY <1>1, <2>1, <2>6
    <2> QED BY <1>5, <2>5, <2>7 DEF Under
<1>6. ASSUME Under(H, S(p), S(q)), NEW r \in p + 1..q, IsHeading(F[r]) PROVE FALSE
    <2>1. r \in 1..n /\ r \in 0..n /\ q \in 0..n /\ p \in 0..n /\ p < r /\ ~ (q < r)
        BY <1>1, <1>6
    <2>2. IsHeading(H[S(r)])
        BY <1>6, <2>1 DEF Displaced
    <2>3. S(p) < S(r) /\ ~ (S(q) < S(r))
        <3> HIDE DEF S, n
        <3> QED BY <1>3, <2>1
    <2>4. S(r) \in S(p) + 1..S(q)
        <3> HIDE DEF S
        <3> QED BY <1>4, <2>1, <2>3
    <2> HIDE DEF S
    <2> QED BY <1>6, <2>2, <2>4 DEF Under
<1>7. p < q <=> S(p) < S(q)
    <2>1. p \in 0..n /\ q \in 0..n
        BY <1>1
    <2> HIDE DEF S, n
    <2> QED BY <1>3, <2>1
<1> HIDE DEF S
<1>8. Under(H, S(p), S(q)) <=> Under(F, p, q)
    BY <1>5, <1>6, <1>7 DEF Under
<1> QED BY <1>8 DEF S

\* The new paragraphs are under what the one before them is, or is the heading of.
LEMMA DisplacedNew ==
    ASSUME NEW F, NEW H, NEW k, NEW m, Displaced(F, H, k, m), NEW p \in 0..Len(F),
           p = k \/ Under(F, p, k), NEW i \in 1..m
    PROVE  Under(H, Shift(k, m, p), k + i)
<1>1. Len(F) \in Nat /\ m \in Nat /\ k \in 1..Len(F)
    BY DEF Displaced
<1>2. p <= k /\ Shift(k, m, p) = p
    BY <1>1 DEF Under, Shift
<1>3. ASSUME NEW h \in p + 1..k + i, IsHeading(H[h]) PROVE FALSE
    <2>1. CASE h <= k
        <3>1. h \in p + 1..k /\ h \in 1..Len(F) /\ Shift(k, m, h) = h
            BY <1>1, <2>1 DEF Shift
        <3>2. IsHeading(F[h])
            BY <1>3, <3>1 DEF Displaced
        <3>3. Under(F, p, k)
            BY <1>1, <3>1
        <3> QED BY <3>1, <3>2, <3>3 DEF Under
    <2>2. CASE ~ (h <= k)
        <3>1. h - k \in 1..m /\ h = k + (h - k)
            BY <1>1, <2>2
        <3>2. H[h].level = Body
            BY <3>1 DEF Displaced
        <3> QED BY <1>3, <3>2 DEF IsHeading
    <2> QED BY <2>1, <2>2
<1>4. p < k + i
    BY <1>1, <1>2
<1> QED BY <1>2, <1>3, <1>4 DEF Under

\* Where a section may start: at the document's start or at a heading.
Spots(D) == {0} \cup HeadingsIn(D, Len(D))

LEMMA SpotsIn ==
    ASSUME NEW D \in Paragraphs(Wording), NEW F, Laid(D, F), NEW a \in Spots(D)
    PROVE  /\ a \in 0..Len(D) /\ At(F, a) \in 0..Len(F) /\ At(F, a) \in Spots(F)
           /\ \A c \in Spots(D) : At(F, a) = At(F, c) => a = c
<1>1. \A c \in Spots(D) : c \in 0..Len(D) /\ (c # 0 => c \in 1..Len(D) /\ IsHeading(D[c]))
    <2>1. Len(D) \in Nat
        BY ParagraphsList
    <2> QED BY <2>1 DEF Spots, HeadingsIn
<1>2. \A c \in Spots(D) : /\ At(F, c) \in 0..Len(F) /\ (c = 0 => At(F, c) = 0)
                          /\ c # 0 => At(F, c) \in 1..Len(F) /\ F[At(F, c)].id = c
    BY <1>1, AtIs
<1>3. At(F, a) \in Spots(F)
    <2>1. CASE a = 0
        BY <1>2, <2>1 DEF Spots
    <2>2. CASE a # 0
        <3>1. IsHeading(F[At(F, a)])
            BY <1>1, <1>2, <2>2, LaidHeading
        <3> QED BY <1>2, <2>2, <3>1 DEF Spots, HeadingsIn
    <2> QED BY <2>1, <2>2
<1>4. ASSUME NEW c \in Spots(D), At(F, a) = At(F, c) PROVE a = c
    <2>1. a = 0 \/ a # 0
        OBVIOUS
    <2>2. 0 \notin 1..Len(F)
        OBVIOUS
    <2> QED BY <1>2, <1>4, <2>2
<1> QED BY <1>1, <1>2, <1>3, <1>4

\* G is F after the surgery that gives the section at a of D the lines.
Surgery(D, F, H, a, lines) ==
    /\ D \in Paragraphs(Wording) /\ Laid(D, F) /\ Laid(D, H) /\ a \in Opens(D, Len(D))
    /\ lines \in Seq(Wording) /\ Rest(D, a, lines) \in Seq(Wording)
    /\ Operated(F, H, Position(F, AfterOf(D, a)), Rest(D, a, lines), BodyOf(D, a), lines)

CutAt(D, F, a) == Position(F, AfterOf(D, a))
Added(D, a, lines) == Len(Rest(D, a, lines))

LEMMA SurgeryDisplaces ==
    ASSUME NEW D, NEW F, NEW H, NEW a, NEW lines, Surgery(D, F, H, a, lines)
    PROVE  Displaced(F, H, CutAt(D, F, a), Added(D, a, lines))
<1> DEFINE new == Rest(D, a, lines)
           k == CutAt(D, F, a)
           b == BodyOf(D, a)
<1>1. /\ D \in Paragraphs(Wording) /\ Laid(D, F) /\ a \in Opens(D, Len(D))
      /\ new \in Seq(Wording) /\ Operated(F, H, k, new, b, lines)
    BY DEF Surgery, CutAt
<1>2. Len(F) \in Nat /\ Len(new) \in Nat
    BY <1>1, ParagraphsList DEF Laid
<1>3. \A i \in 1..Len(b) : b[i] \in 1..Len(D) /\ D[b[i]].level = Body
    BY <1>1, BodyOfIs
<1> HIDE DEF new, k, b
<1>4. ASSUME NEW q \in 1..Len(F)
      PROVE  IsHeading(H[Shift(k, Len(new), q)]) <=> IsHeading(F[q])
    <2>1. CASE \A i \in 1..Len(b) : F[q].id # b[i]
        <3>1. H[Shift(k, Len(new), q)] = F[q]
            BY <1>1, <2>1 DEF Operated
        <3> QED BY <3>1
    <2>2. CASE \E i \in 1..Len(b) : F[q].id = b[i]
        <3>1. F[q].id \in 1..Len(D) /\ D[F[q].id].level = Body
            BY <1>3, <2>2
        <3>2. F[q].id # 0
            BY <3>1
        <3>3. F[q].level = Body
            BY <1>1, <3>1, <3>2 DEF Laid
        <3>4. H[Shift(k, Len(new), q)].level = Body
            BY <1>1, <3>3 DEF Operated
        <3> QED BY <3>3, <3>4 DEF IsHeading
    <2> QED BY <2>1, <2>2
<1>5. \A i \in 1..Len(new) : H[k + i].id = 0 /\ H[k + i].level = Body
    <2>1. \A i \in 1..Len(new) : H[k + i] = Paragraph(0, Body, new[i])
        BY <1>1 DEF Operated
    <2>2. ASSUME NEW w PROVE Paragraph(0, Body, w).id = 0 /\ Paragraph(0, Body, w).level = Body
        BY DEF Paragraph
    <2> QED BY <2>1, <2>2
<1>6. /\ k \in 1..Len(F) /\ Len(H) = Len(F) + Len(new)
      /\ \A q \in 1..Len(F) : /\ H[Shift(k, Len(new), q)].id = F[q].id
                              /\ H[Shift(k, Len(new), q)].level = F[q].level
    BY <1>1 DEF Operated
<1>7. Displaced(F, H, k, Len(new))
    BY <1>2, <1>4, <1>5, <1>6 DEF Displaced
<1> QED BY <1>7 DEF k, new, Added

\* Where D's places are in the two.
LEMMA SurgeryAt ==
    ASSUME NEW D, NEW F, NEW H, NEW a, NEW lines, Surgery(D, F, H, a, lines), NEW c \in 0..Len(D)
    PROVE  At(H, c) = Shift(CutAt(D, F, a), Added(D, a, lines), At(F, c))
<1> DEFINE k == CutAt(D, F, a)
           m == Added(D, a, lines)
<1>1. D \in Paragraphs(Wording) /\ Laid(D, F) /\ Laid(D, H)
    BY DEF Surgery
<1>2. Displaced(F, H, k, m)
    BY SurgeryDisplaces
<1> HIDE DEF k, m
<1>3. Len(F) \in Nat /\ m \in Nat /\ k \in 1..Len(F) /\ k \in 0..Len(F) /\ Len(H) = Len(F) + m
    BY <1>2 DEF Displaced
<1>4. CASE c = 0
    <2>1. At(H, c) = 0 /\ At(F, c) = 0
        BY <1>4 DEF At
    <2> QED BY <1>3, <2>1 DEF Shift, k, m
<1>5. CASE c # 0
    <2>1. c \in 1..Len(D)
        BY <1>5
    <2>2. At(F, c) \in 1..Len(F) /\ F[At(F, c)].id = c
        BY <1>1, <1>5, AtIs
    <2>3. Shifting(Len(F), m, k)
        BY <1>3, Shifts
    <2>4. Shift(k, m, At(F, c)) \in 1..Len(H) /\ H[Shift(k, m, At(F, c))].id = c
        BY <1>2, <1>3, <2>2, <2>3 DEF Shifting, Displaced
    <2>5. Shift(k, m, At(F, c)) = Position(H, c)
        BY <1>1, <2>1, <2>4, LaidPosition
    <2> QED BY <1>5, <2>5 DEF At, k, m
<1> QED BY <1>4, <1>5

\* Only the section operated on gets the new paragraphs.
LEMMA SurgeryNew ==
    ASSUME NEW D, NEW F, NEW H, NEW a, NEW lines, Surgery(D, F, H, a, lines),
           NEW i \in 1..Added(D, a, lines)
    PROVE  /\ Under(H, At(H, a), CutAt(D, F, a) + i)
           /\ \A c \in Spots(D) : Under(H, At(H, c), CutAt(D, F, a) + i) => c = a
<1> DEFINE k == CutAt(D, F, a)
           m == Added(D, a, lines)
           b == BodyOf(D, a)
           p == At(F, a)
           x == AfterOf(D, a)
<1>1. D \in Paragraphs(Wording) /\ Laid(D, F) /\ Laid(D, H) /\ a \in Opens(D, Len(D))
    BY DEF Surgery
<1>2. Displaced(F, H, k, m)
    BY SurgeryDisplaces
<1>3. /\ a \in 0..Len(D) /\ a \in Spots(D) /\ x \in 1..Len(D)
      /\ Len(b) \in Nat /\ \A j \in 1..Len(b) : b[j] \in 1..Len(D) /\ Under(D, a, b[j])
      /\ b \in Seq(Nat)
    BY <1>1, BodyOfIs DEF Spots, Rising
<1>4. Position(F, x) = k /\ k \in 1..Len(F) /\ F[k].id = x
    BY <1>1, <1>3, LaidPosition DEF CutAt
<1>5. p \in 0..Len(F) /\ At(H, a) = Shift(k, m, p)
    BY <1>1, <1>3, SurgeryAt, AtIs
<1>6. p = k \/ Under(F, p, k)
    <2>1. CASE b = <<>>
        <3>1. x = a
            BY <2>1 DEF AfterOf
        <3>2. a # 0
            BY <1>3, <3>1
        <3> QED BY <1>4, <3>1, <3>2 DEF At
    <2>2. CASE b # <<>>
        <3>1. Len(b) \in 1..Len(b) /\ x = b[Len(b)]
            <4> HIDE DEF b
            <4>1. Len(b) \in 1..Len(b)
                BY <1>3, <2>2
            <4>2. x = Last(b)
                BY <2>2 DEF AfterOf, b
            <4> QED BY <4>1, <4>2 DEF Last
        <3>2. Under(D, a, F[k].id) /\ F[k].id # 0
            BY <1>3, <1>4, <3>1
        <3>3. Under(F, p, k)
            BY <1>1, <1>3, <1>4, <3>2, LaidUnder
        <3> QED BY <3>3
    <2> QED BY <2>1, <2>2
<1>7. Under(H, At(H, a), k + i)
    <2>1. i \in 1..m
        OBVIOUS
    <2> HIDE DEF k, m, p
    <2> QED BY <1>2, <1>5, <1>6, <2>1, DisplacedNew
<1>8. ASSUME NEW c \in Spots(D), Under(H, At(H, c), k + i) PROVE c = a
    <2>1. At(H, a) \in Spots(H) /\ At(H, c) \in Spots(H)
        BY <1>1, <1>3, SpotsIn
    <2>2. Len(H) \in Nat /\ k + i \in Nat
        <3>1. k \in Nat /\ m \in Nat /\ i \in Nat
            BY <1>2 DEF Displaced
        <3> QED BY <1>1, <3>1, ParagraphsList DEF Laid
    <2>3. At(H, a) = At(H, c)
        <3> HIDE DEF k
        <3> QED BY <1>7, <1>8, <2>1, <2>2, UnderOne DEF Spots
    <2> QED BY <1>1, <1>3, <2>3, SpotsIn
<1> QED BY <1>7, <1>8

\* The body of the section at a is D's, and what the section's text is.
Untouched(D, F, a) ==
    \A q \in 1..Len(F) : F[q].level = Body /\ Under(F, At(F, a), q)
                             => F[q].id # 0 /\ F[q] = D[F[q].id]
TextIn(F, a) == LinesUnder(F, Len(F), At(F, a))

\* The paragraphs of other sections are left alone.
LEMMA SurgerySame ==
    ASSUME NEW D, NEW F, NEW H, NEW a, NEW lines, Surgery(D, F, H, a, lines),
           NEW c \in Spots(D), c # a, NEW q \in 1..Len(F), Under(F, At(F, c), q)
    PROVE  H[Shift(CutAt(D, F, a), Added(D, a, lines), q)] = F[q]
<1> DEFINE b == BodyOf(D, a)
           new == Rest(D, a, lines)
           k == CutAt(D, F, a)
<1>1. /\ D \in Paragraphs(Wording) /\ Laid(D, F) /\ a \in Opens(D, Len(D))
      /\ Operated(F, H, k, new, b, lines)
    BY DEF Surgery, CutAt
<1>2. /\ a \in Spots(D) /\ \A j \in 1..Len(b) : b[j] \in 1..Len(D) /\ Under(D, a, b[j])
      /\ c \in 0..Len(D) /\ Len(D) \in Nat
    BY <1>1, BodyOfIs, SpotsIn, ParagraphsList DEF Spots
<1> HIDE DEF b, new, k
<1>3. ASSUME NEW i \in 1..Len(b), F[q].id = b[i] PROVE FALSE
    <2>1. F[q].id # 0 /\ b[i] \in Nat
        BY <1>2, <1>3
    <2>2. Under(D, c, b[i])
        BY <1>1, <1>2, <1>3, <2>1, LaidUnder
    <2>3. Under(D, a, b[i])
        BY <1>2
    <2> QED BY <1>2, <2>1, <2>2, <2>3, UnderOne DEF Spots
<1>4. H[Shift(k, Len(new), q)] = F[q]
    BY <1>1, <1>3 DEF Operated
<1> QED BY <1>4 DEF k, new, Added

LEMMA SurgeryOthers ==
    ASSUME NEW D, NEW F, NEW H, NEW a, NEW lines, Surgery(D, F, H, a, lines),
           NEW c \in Spots(D), c # a
    PROVE  /\ TextIn(H, c) = TextIn(F, c)
           /\ Untouched(D, F, c) => Untouched(D, H, c)
<1> DEFINE k == CutAt(D, F, a)
           m == Added(D, a, lines)
           n == Len(F)
           S(q) == Shift(k, m, q)
           p == At(F, c)
           T == TextsUnder(F, n, p)
           U == TextsUnder(H, Len(H), At(H, c))
           f == [q \in 1..n |-> S(q)]
<1>1. D \in Paragraphs(Wording) /\ Laid(D, F) /\ Laid(D, H)
    BY DEF Surgery
<1>2. Displaced(F, H, k, m)
    BY SurgeryDisplaces
<1>3. n \in Nat /\ m \in Nat /\ k \in 1..n /\ k \in 0..n /\ Len(H) = n + m
    BY <1>2 DEF Displaced
<1>4. p \in 0..n /\ At(H, c) = S(p)
    BY <1>1, SpotsIn, SurgeryAt
<1>5. Shifting(n, m, k)
    <2> HIDE DEF n, m, k
    <2> QED BY <1>3, Shifts
<1>6. ASSUME NEW q \in 1..n PROVE Under(H, S(p), S(q)) <=> Under(F, p, q)
    <2> HIDE DEF k, m, p
    <2> QED BY <1>2, <1>4, DisplacedUnder
<1>7. ASSUME NEW q \in 1..n, Under(F, p, q) PROVE H[S(q)] = F[q]
    BY <1>7, SurgerySame
<1>8. ASSUME NEW r \in 1..Len(H), Under(H, S(p), r) PROVE \E q \in 1..n : r = S(q)
    <2>1. ASSUME NEW i \in 1..m, r = k + i PROVE FALSE
        <3>1. Under(H, At(H, c), k + i)
            BY <1>4, <1>8, <2>1
        <3> QED BY <3>1, SurgeryNew
    <2> HIDE DEF n, m, k
    <2>2. (\E q \in 1..n : r = Shift(k, m, q)) \/ (\E i \in 1..m : r = k + i)
        BY <1>3, <1>5 DEF Shifting
    <2> QED BY <2>1, <2>2
<1>9. \A q \in 1..n : S(q) \in 1..Len(H)
    BY <1>3, <1>5 DEF Shifting
<1>10. \A q, r \in 1..n : q < r => S(q) < S(r)
    <2>1. \A q \in 1..n : q \in 0..n
        BY <1>3
    <2> HIDE DEF n, m, k
    <2> QED BY <1>5, <2>1 DEF Shifting
<1>11. /\ TextsOf(F) \in Seq(Wording) /\ Len(TextsOf(F)) = n /\ \A q \in 1..n : TextsOf(F)[q] = F[q].text
       /\ TextsOf(H) \in Seq(Wording) /\ Len(TextsOf(H)) = Len(H)
       /\ \A q \in 1..Len(H) : TextsOf(H)[q] = H[q].text
    BY <1>1, TextsList DEF Laid
<1> HIDE DEF k, m, p, n, S
<1>12. Moves(f, TextsOf(F), T, TextsOf(H), U)
    <2>1. ASSUME NEW q \in T PROVE f[q] \in U /\ TextsOf(H)[f[q]] = TextsOf(F)[q]
        <3>1. q \in 1..n /\ IsText(F[q]) /\ Under(F, p, q) /\ f[q] = S(q)
            BY DEF TextsUnder
        <3>2. H[S(q)] = F[q] /\ Under(H, S(p), S(q)) /\ S(q) \in 1..Len(H)
            BY <1>6, <1>7, <1>9, <3>1
        <3>3. S(q) \in U
            BY <1>4, <3>1, <3>2 DEF TextsUnder
        <3> QED BY <1>11, <3>1, <3>2, <3>3
    <2>2. ASSUME NEW u \in U PROVE \E q \in T : f[q] = u
        <3>1. u \in 1..Len(H) /\ IsText(H[u]) /\ Under(H, S(p), u)
            BY <1>4 DEF TextsUnder
        <3>2. PICK q \in 1..n : u = S(q)
            BY <1>8, <3>1
        <3>3. Under(F, p, q)
            BY <1>6, <3>1, <3>2
        <3>4. IsText(F[q])
            BY <1>7, <3>1, <3>2, <3>3
        <3>5. q \in T /\ f[q] = u
            BY <3>2, <3>3, <3>4 DEF TextsUnder
        <3> QED BY <3>5
    <2>3. ASSUME NEW q \in T, NEW r \in T, q < r PROVE f[q] < f[r]
        <3>1. q \in 1..n /\ r \in 1..n
            BY DEF TextsUnder
        <3> QED BY <1>10, <2>3, <3>1
    <2> HIDE DEF f, T, U
    <2> QED BY <2>1, <2>2, <2>3 DEF Moves
<1>13. TextIn(H, c) = TextIn(F, c)
    <2>1. T \in SUBSET (1..Len(TextsOf(F))) /\ U \in SUBSET (1..Len(TextsOf(H)))
        BY <1>11 DEF TextsUnder
    <2> HIDE DEF T, U, f
    <2>2. Kept(TextsOf(H), U) = Kept(TextsOf(F), T)
        BY <1>11, <1>12, <2>1, MovedKept
    <2> QED BY <2>2 DEF TextIn, LinesUnder, T, U, n, p
<1>14. ASSUME Untouched(D, F, c), NEW r \in 1..Len(H), H[r].level = Body, Under(H, At(H, c), r)
       PROVE  H[r].id # 0 /\ H[r] = D[H[r].id]
    <2>1. Under(H, S(p), r)
        BY <1>4, <1>14
    <2>2. PICK q \in 1..n : r = S(q)
        BY <1>8, <2>1
    <2>3. Under(F, p, q)
        BY <1>6, <2>1, <2>2
    <2>4. H[r] = F[q]
        BY <1>7, <2>2, <2>3
    <2>5. F[q].level = Body /\ q \in 1..Len(F) /\ Under(F, At(F, c), q)
        BY <1>14, <2>3, <2>4 DEF n, p
    <2> QED BY <1>14, <2>4, <2>5 DEF Untouched
<1> QED BY <1>13, <1>14 DEF Untouched

\* Keeping every position keeps the list.
LEMMA KeptAll ==
    ASSUME NEW S, NEW s \in Seq(S)
    PROVE  Kept(s, 1..Len(s)) = s
<1> DEFINE e == [i \in 1..Len(s) |-> i]
<1>1. Len(s) \in Nat /\ s = [i \in 1..Len(s) |-> s[i]]
    OBVIOUS
<1>2. e \in Seq(Nat) /\ Len(e) = Len(s) /\ \A i \in 1..Len(s) : e[i] = i
    BY <1>1
<1> HIDE DEF e
<1>3. Rising(e, (1..Len(s)) \cap 1..Len(s))
    BY <1>2, RisingIs
<1>4. Kept(s, 1..Len(s)) = Picked(s, e)
    BY <1>3, KeptPicked
<1>5. Picked(s, e) = [i \in 1..Len(s) |-> s[i]]
    BY <1>2 DEF Picked
<1> QED BY <1>1, <1>4, <1>5

\* The section operated on reads as the lines.
LEMMA SurgeryOwn ==
    ASSUME NEW D, NEW F, NEW H, NEW a, NEW lines, Surgery(D, F, H, a, lines),
           Untouched(D, F, a), \A i \in 1..Len(lines) : lines[i] # Blank
    PROVE  TextIn(H, a) = lines
<1> DEFINE k == CutAt(D, F, a)
           m == Added(D, a, lines)
           n == Len(F)
           b == BodyOf(D, a)
           new == Rest(D, a, lines)
           S(q) == Shift(k, m, q)
           p == At(F, a)
           U == TextsUnder(H, Len(H), At(H, a))
           Put(i) == IF i <= Len(b) THEN S(Position(F, b[i])) ELSE k + (i - Len(b))
           f == [i \in 1..Len(lines) |-> Put(i)]
<1>1. /\ D \in Paragraphs(Wording) /\ Laid(D, F) /\ Laid(D, H) /\ a \in Opens(D, Len(D))
      /\ lines \in Seq(Wording) /\ Operated(F, H, k, new, b, lines)
    BY DEF Surgery, CutAt
<1>2. Displaced(F, H, k, m)
    BY SurgeryDisplaces
<1>3. n \in Nat /\ m \in Nat /\ k \in 1..n /\ k \in 0..n /\ k \in Nat /\ Len(H) = n + m
    BY <1>2 DEF Displaced
<1>4. /\ a \in 0..Len(D) /\ a \in Spots(D) /\ Rising(b, BodiesUnder(D, Len(D), a))
      /\ Len(b) \in Nat /\ AfterOf(D, a) \in 1..Len(D) /\ Len(D) \in Nat
      /\ \A i \in 1..Len(b) : b[i] \in 1..Len(D) /\ D[b[i]].level = Body /\ Under(D, a, b[i])
    BY <1>1, BodyOfIs, ParagraphsList DEF Spots
<1>5. /\ \A i, j \in 1..Len(b) : i < j => b[i] < b[j]
      /\ \A q \in BodiesUnder(D, Len(D), a) : \E i \in 1..Len(b) : b[i] = q
      /\ b \in Seq(Nat)
    BY <1>4, RisingElements
<1>6. p \in 0..n /\ At(H, a) = S(p)
    BY <1>1, <1>4, SpotsIn, SurgeryAt
<1>7. Shifting(n, m, k)
    <2> HIDE DEF n, m, k
    <2> QED BY <1>3, Shifts
<1>8. ASSUME NEW q \in 1..n PROVE Under(H, S(p), S(q)) <=> Under(F, p, q)
    <2> HIDE DEF k, m, p
    <2> QED BY <1>2, <1>6, DisplacedUnder
<1>9. /\ TextsOf(H) \in Seq(Wording) /\ Len(TextsOf(H)) = Len(H)
      /\ \A q \in 1..Len(H) : TextsOf(H)[q] = H[q].text
    BY <1>1, TextsList DEF Laid
<1>10. \A q \in 1..n : S(q) \in 1..Len(H)
    BY <1>3, <1>7 DEF Shifting
<1>11. \A q, r \in 1..n : q < r => S(q) < S(r)
    <2>1. \A q \in 1..n : q \in 0..n
        BY <1>3
    <2> HIDE DEF n, m, k
    <2> QED BY <1>7, <2>1 DEF Shifting
<1>12. /\ m = IF Len(b) <= Len(lines) THEN Len(lines) - Len(b) ELSE 0
       /\ \A j \in 1..Len(lines) - Len(b) : new[j] = lines[Len(b) + j]
       /\ Len(lines) \in Nat /\ Len(new) = m
    <2>1. new = SubSeq(lines, Len(b) + 1, Len(lines)) /\ m = Len(new)
        BY DEF Rest, Added
    <2> HIDE DEF b, new, m
    <2> QED BY <1>1, <1>4, <2>1, Ending
<1>13. ASSUME NEW i \in 1..Len(b)
       PROVE  /\ Position(F, b[i]) \in 1..n /\ F[Position(F, b[i])].id = b[i]
              /\ \A q \in 1..n : F[q].id = b[i] => q = Position(F, b[i])
    <2>1. b[i] \in 1..Len(D)
        BY <1>4
    <2> HIDE DEF b
    <2> QED BY <1>1, <2>1, LaidPosition
<1>14. Position(F, AfterOf(D, a)) = k /\ F[k].id = AfterOf(D, a)
    BY <1>1, <1>4, LaidPosition DEF CutAt
<1>15. b # <<>> => AfterOf(D, a) = b[Len(b)] /\ Len(b) \in 1..Len(b)
    <2> HIDE DEF b
    <2>1. b # <<>> => Len(b) \in 1..Len(b) /\ Last(b) = b[Len(b)]
        BY <1>4, <1>5 DEF Last
    <2> QED BY <2>1 DEF AfterOf, b
<1>16. \A i \in 1..m : Under(H, At(H, a), k + i) /\ H[k + i] = Paragraph(0, Body, new[i])
    <2>1. \A i \in 1..m : Under(H, At(H, a), k + i)
        BY SurgeryNew
    <2>2. \A i \in 1..m : H[k + i] = Paragraph(0, Body, new[i])
        BY <1>1, <1>12 DEF Operated
    <2> QED BY <2>1, <2>2
<1>17. /\ \A q \in 1..n : \A i \in 1..Len(b) :
              F[q].id = b[i] => H[S(q)].text = IF i <= Len(lines) THEN lines[i] ELSE Blank
       /\ \A q \in 1..n : H[S(q)].level = F[q].level
    <2>1. \A q \in 1..n : \A i \in 1..Len(b) : F[q].id = b[i] =>
              H[Shift(k, Len(new), q)].text = IF i <= Len(lines) THEN lines[i] ELSE Blank
        BY <1>1 DEF Operated
    <2>2. \A q \in 1..n : H[Shift(k, Len(new), q)].level = F[q].level
        BY <1>1 DEF Operated
    <2> QED BY <1>12, <2>1, <2>2
<1>18. ASSUME NEW i \in 1..Len(b), NEW j \in 1..Len(b), i < j
       PROVE  Position(F, b[i]) < Position(F, b[j])
    <2>1. b[i] < b[j] /\ b[i] \in Nat /\ b[j] \in Nat /\ b[i] # 0 /\ b[j] # 0
        BY <1>4, <1>5, <1>18
    <2> HIDE DEF b
    <2>2. Position(F, b[i]) # Position(F, b[j])
        BY <1>13, <2>1
    <2>3. ~ (Position(F, b[j]) < Position(F, b[i]))
        <3> DEFINE u == Position(F, b[i])
                   v == Position(F, b[j])
        <3>1. /\ u \in 1..Len(F) /\ v \in 1..Len(F) /\ F[u].id = b[i] /\ F[v].id = b[j]
              /\ F[u].id # 0 /\ F[v].id # 0
            BY <1>13, <2>1
        <3> HIDE DEF u, v
        <3>2. v < u => F[v].id < F[u].id
            BY <1>1, <3>1 DEF Laid
        <3>3. ~ (v < u)
            BY <2>1, <3>1, <3>2
        <3> QED BY <3>3 DEF u, v
    <2> QED BY <1>3, <1>13, <2>2, <2>3
<1>19. ASSUME NEW i \in 1..Len(b) PROVE Position(F, b[i]) <= k
    <2>1. b # <<>>
        BY <1>4, <1>19
    <2>2. Len(b) \in 1..Len(b) /\ Position(F, b[Len(b)]) = k
        BY <1>14, <1>15, <2>1
    <2> HIDE DEF b, k
    <2>3. i = Len(b) \/ i < Len(b)
        BY <1>4
    <2> QED BY <1>3, <1>13, <1>18, <2>2, <2>3
<1> HIDE DEF k, m, n, b, new, S, p, Put
<1>20. ASSUME NEW i \in 1..Len(lines)
       PROVE  f[i] \in U /\ TextsOf(H)[f[i]] = lines[i]
    <2>1. f[i] = Put(i) /\ lines[i] # Blank
        OBVIOUS
    <2>2. CASE i <= Len(b)
        <3> DEFINE q == Position(F, b[i])
        <3>1. i \in 1..Len(b)
            BY <1>4, <1>12, <2>2
        <3>2. q \in 1..n /\ F[q].id = b[i] /\ Put(i) = S(q)
            BY <1>13, <2>2, <3>1 DEF Put
        <3>3. F[q].id # 0 /\ Under(D, a, F[q].id) /\ D[F[q].id].level = Body
            BY <1>4, <3>1, <3>2
        <3>4. F[q].level = Body
            BY <1>1, <3>2, <3>3 DEF Laid, n
        <3>5. Under(F, p, q)
            BY <1>1, <1>4, <3>2, <3>3, LaidUnder DEF n, p
        <3>6. Under(H, At(H, a), S(q)) /\ S(q) \in 1..Len(H)
            BY <1>6, <1>8, <1>10, <3>2, <3>5
        <3>7. H[S(q)].text = lines[i] /\ H[S(q)].level = Body
            BY <1>12, <1>17, <3>1, <3>2, <3>4
        <3> HIDE DEF q
        <3>8. S(q) \in U
            BY <2>1, <3>6, <3>7 DEF TextsUnder, IsText
        <3> QED BY <1>9, <2>1, <3>2, <3>6, <3>7, <3>8
    <2>3. CASE ~ (i <= Len(b))
        <3> DEFINE j == i - Len(b)
        <3>1. j \in 1..Len(lines) - Len(b) /\ j \in 1..m /\ Len(b) + j = i
            BY <1>4, <1>12, <2>3
        <3>2. Put(i) = k + j
            BY <2>3 DEF Put
        <3>3. Under(H, At(H, a), k + j) /\ H[k + j] = Paragraph(0, Body, lines[i])
            BY <1>12, <1>16, <3>1
        <3>4. k + j \in 1..Len(H)
            BY <1>3, <3>1
        <3>5. H[k + j].level = Body /\ H[k + j].text = lines[i]
            <4> HIDE DEF j
            <4> QED BY <3>3 DEF Paragraph
        <3> HIDE DEF j
        <3>6. k + j \in U
            BY <2>1, <3>3, <3>4, <3>5 DEF TextsUnder, IsText
        <3> QED BY <1>9, <2>1, <3>2, <3>4, <3>5, <3>6
    <2> QED BY <2>2, <2>3
<1>21. ASSUME NEW u \in U PROVE \E i \in 1..Len(lines) : f[i] = u
    <2>1. u \in 1..Len(H) /\ H[u].level = Body /\ H[u].text # Blank /\ Under(H, S(p), u)
        BY <1>6 DEF TextsUnder, IsText
    <2>2. (\E q \in 1..n : u = S(q)) \/ (\E j \in 1..m : u = k + j)
        BY <1>3, <1>7, <2>1 DEF Shifting, S
    <2>3. CASE \E q \in 1..n : u = S(q)
        <3>1. PICK q \in 1..n : u = S(q)
            BY <2>3
        <3>2. Under(F, p, q) /\ F[q].level = Body
            BY <1>8, <1>17, <2>1, <3>1
        <3>3. F[q].id # 0
            BY <3>2 DEF Untouched, n, p
        <3>4. Under(D, a, F[q].id)
            BY <1>1, <1>4, <3>2, <3>3, LaidUnder DEF n, p
        <3>5. F[q].id \in 1..Len(D) /\ D[F[q].id].level = Body
            BY <1>1, <1>4, <3>2, <3>3 DEF Laid, n
        <3>6. F[q].id \in BodiesUnder(D, Len(D), a)
            BY <3>4, <3>5 DEF BodiesUnder
        <3>7. PICK i \in 1..Len(b) : b[i] = F[q].id
            BY <1>5, <3>6
        <3>8. q = Position(F, b[i])
            BY <1>13, <3>7
        <3>9. i <= Len(lines)
            BY <1>17, <2>1, <3>1, <3>7
        <3>10. i \in 1..Len(lines) /\ i <= Len(b)
            BY <1>4, <1>12, <3>9
        <3>11. f[i] = u
            BY <3>1, <3>8, <3>10 DEF Put
        <3> HIDE DEF f
        <3> QED BY <3>10, <3>11
    <2>4. CASE \E j \in 1..m : u = k + j
        <3>1. PICK j \in 1..m : u = k + j
            BY <2>4
        <3>2. Len(b) + j \in 1..Len(lines) /\ ~ (Len(b) + j <= Len(b)) /\ (Len(b) + j) - Len(b) = j
            BY <1>3, <1>4, <1>12
        <3>3. f[Len(b) + j] = u
            BY <3>1, <3>2 DEF Put
        <3> HIDE DEF f
        <3> QED BY <3>2, <3>3
    <2> QED BY <2>2, <2>3, <2>4
<1>22. ASSUME NEW i \in 1..Len(lines), NEW j \in 1..Len(lines), i < j PROVE f[i] < f[j]
    <2>1. f[i] = Put(i) /\ f[j] = Put(j)
        OBVIOUS
    <2>2. CASE j <= Len(b)
        <3>1. i \in 1..Len(b) /\ j \in 1..Len(b) /\ i <= Len(b)
            BY <1>4, <1>12, <1>22, <2>2
        <3>2. Position(F, b[i]) < Position(F, b[j])
            BY <1>18, <1>22, <3>1
        <3>3. S(Position(F, b[i])) < S(Position(F, b[j]))
            BY <1>11, <1>13, <3>1, <3>2
        <3> QED BY <2>1, <2>2, <3>1, <3>3 DEF Put
    <2>3. CASE ~ (j <= Len(b)) /\ i <= Len(b)
        <3>1. i \in 1..Len(b)
            BY <1>4, <1>12, <2>3
        <3>2. Position(F, b[i]) <= k /\ Position(F, b[i]) \in 1..n
            BY <1>13, <1>19, <3>1
        <3>3. S(Position(F, b[i])) = Position(F, b[i])
            BY <3>2 DEF S, Shift
        <3>4. Put(i) = Position(F, b[i]) /\ Put(j) = k + (j - Len(b))
            BY <2>3, <3>3 DEF Put
        <3>5. Position(F, b[i]) < k + (j - Len(b))
            BY <1>3, <1>4, <1>12, <2>3, <3>2
        <3> QED BY <2>1, <3>4, <3>5
    <2>4. CASE ~ (j <= Len(b)) /\ ~ (i <= Len(b))
        <3>1. Put(i) = k + (i - Len(b)) /\ Put(j) = k + (j - Len(b))
            BY <2>4 DEF Put
        <3> QED BY <1>3, <1>4, <1>12, <1>22, <2>1, <3>1
    <2> QED BY <2>2, <2>3, <2>4
<1> HIDE DEF f, U
<1> DEFINE T == 1..Len(lines)
<1>23. Moves(f, lines, T, TextsOf(H), U)
    BY <1>20, <1>21, <1>22 DEF Moves
<1>24. Kept(TextsOf(H), U) = Kept(lines, T)
    <2>1. U \in SUBSET (1..Len(TextsOf(H))) /\ T \in SUBSET (1..Len(lines))
        BY <1>9 DEF TextsUnder, U
    <2> HIDE DEF T
    <2> QED BY <1>1, <1>9, <1>23, <2>1, MovedKept
<1>25. Kept(lines, 1..Len(lines)) = lines
    BY <1>1, KeptAll
<1> QED BY <1>24, <1>25 DEF TextIn, LinesUnder, U

\* What is selected is empty if nothing is.
LEMMA KeptEmpty ==
    ASSUME NEW S, NEW s \in Seq(S), NEW T \in SUBSET (1..Len(s))
    PROVE  Kept(s, T) = <<>> <=> T = {}
<1>1. T = {} => Kept(s, T) = <<>>
    BY KeptNone
<1>2. ASSUME NEW t \in T PROVE Kept(s, T) # <<>>
    <2> DEFINE n == Len(s)
    <2>0. n \in Nat /\ T \in SUBSET (1..n)
        OBVIOUS
    <2>1. n \in Nat /\ T \in SUBSET (0..n) /\ T \cap 1..n = T
        <3>1. \A t1 \in T : t1 \in 1..n /\ t1 \in 0..n
            BY <2>0
        <3>2. T \cap 1..n = T
            BY <3>1
        <3> HIDE DEF n
        <3> QED BY <2>0, <3>1, <3>2
    <2>2. PICK e : Rising(e, T)
        BY <2>1, RisingExists
    <2>3. Kept(s, T) = Picked(s, e)
        BY <2>1, <2>2, KeptPicked
    <2>4. Len(e) \in Nat /\ \E i \in 1..Len(e) : e[i] = t
        BY <2>2, RisingElements
    <2>5. 1 \in DOMAIN Picked(s, e)
        BY <2>4 DEF Picked
    <2> QED BY <2>3, <2>5
<1> QED BY <1>1, <1>2

\* A list without its blank elements, and when none is left.
LEMMA NonBlankIs ==
    ASSUME NEW S, NEW s \in Seq(S)
    PROVE  /\ NonBlank(s) \in Seq(S)
           /\ \A i \in 1..Len(NonBlank(s)) : NonBlank(s)[i] # Blank
           /\ NonBlank(s) = <<>> <=> ~ \E i \in DOMAIN s : s[i] # Blank
<1> DEFINE T == {i \in DOMAIN s : s[i] # Blank}
<1>1. NonBlank(s) = Kept(s, T)
    BY DEF NonBlank, Select
<1>2. DOMAIN s = 1..Len(s) /\ Len(s) \in Nat
    OBVIOUS
<1>3. T \in SUBSET (1..Len(s)) /\ T \in SUBSET (0..Len(s)) /\ T \cap 1..Len(s) = T
    BY <1>2
<1>4. \A i \in T : s[i] # Blank
    OBVIOUS
<1>5. T = {} <=> ~ \E i \in DOMAIN s : s[i] # Blank
    OBVIOUS
<1> HIDE DEF T
<1>6. PICK e : Rising(e, T)
    BY <1>2, <1>3, RisingExists
<1>7. Kept(s, T) = Picked(s, e)
    BY <1>3, <1>6, KeptPicked
<1>8. Len(e) \in Nat /\ \A i \in 1..Len(e) : e[i] \in T
    BY <1>6, RisingElements
<1>9. \A i \in 1..Len(Kept(s, T)) : Kept(s, T)[i] # Blank
    <2>1. Len(Picked(s, e)) = Len(e) /\ \A i \in 1..Len(e) : Picked(s, e)[i] = s[e[i]]
        BY <1>8 DEF Picked
    <2> QED BY <1>4, <1>7, <1>8, <2>1
<1>10. Kept(s, T) \in Seq(S)
    BY KeptList
<1>11. Kept(s, T) = <<>> <=> T = {}
    BY <1>3, KeptEmpty
<1> QED BY <1>1, <1>5, <1>9, <1>10, <1>11

\* An untouched section reads as it did.
LEMMA UntouchedText ==
    ASSUME NEW D \in Paragraphs(Wording), NEW F, Laid(D, F), NEW a \in Spots(D), Untouched(D, F, a)
    PROVE  TextIn(F, a) = LinesUnder(D, Len(D), a)
<1> DEFINE n == Len(F)
           T == TextsUnder(F, n, At(F, a))
           U == TextsUnder(D, Len(D), a)
           f == [q \in 1..n |-> F[q].id]
<1>1. /\ a \in 0..Len(D) /\ n \in Nat /\ Len(D) \in Nat /\ F \in Paragraphs(Wording)
    BY SpotsIn, ParagraphsList DEF Laid
<1>2. /\ TextsOf(F) \in Seq(Wording) /\ Len(TextsOf(F)) = n
      /\ \A q \in 1..n : TextsOf(F)[q] = F[q].text
      /\ TextsOf(D) \in Seq(Wording) /\ Len(TextsOf(D)) = Len(D)
      /\ \A q \in 1..Len(D) : TextsOf(D)[q] = D[q].text
    BY <1>1, TextsList
<1>3. ASSUME NEW q \in 1..n, F[q].id # 0
      PROVE  Under(F, At(F, a), q) <=> Under(D, a, F[q].id)
    BY <1>1, <1>3, LaidUnder
<1>4. ASSUME NEW q \in T
      PROVE  /\ q \in 1..n /\ F[q].id \in 1..Len(D) /\ F[q].id # 0 /\ F[q] = D[F[q].id]
             /\ IsText(F[q]) /\ Under(D, a, F[q].id)
    <2>1. q \in 1..n /\ IsText(F[q]) /\ Under(F, At(F, a), q)
        BY DEF TextsUnder
    <2>2. F[q].id # 0 /\ F[q] = D[F[q].id]
        BY <2>1 DEF Untouched, IsText
    <2>3. F[q].id \in 1..Len(D)
        BY <1>1, <2>1, <2>2 DEF Laid
    <2> QED BY <1>3, <2>1, <2>2, <2>3
<1>5. ASSUME NEW q \in T PROVE f[q] \in U /\ TextsOf(D)[f[q]] = TextsOf(F)[q]
    <2>1. F[q].id \in U
        BY <1>4, <1>5 DEF TextsUnder
    <2>2. f[q] = F[q].id
        BY <1>4, <1>5
    <2>3. TextsOf(D)[F[q].id] = TextsOf(F)[q]
        BY <1>2, <1>4, <1>5
    <2> QED BY <2>1, <2>2, <2>3
<1>6. ASSUME NEW u \in U PROVE \E q \in T : f[q] = u
    <2>1. u \in 1..Len(D) /\ IsText(D[u]) /\ Under(D, a, u)
        BY DEF TextsUnder
    <2>2. PICK q \in 1..n : F[q].id = u
        BY <2>1 DEF Laid
    <2>3. Under(F, At(F, a), q) /\ F[q].id # 0
        BY <1>3, <2>1, <2>2
    <2>4. F[q].level = Body
        BY <2>1, <2>2, <2>3 DEF Laid, IsText
    <2>5. IsText(F[q])
        BY <2>1, <2>2, <2>3, <2>4 DEF Untouched
    <2>6. q \in T /\ f[q] = u
        BY <2>2, <2>3, <2>5 DEF TextsUnder
    <2> QED BY <2>6
<1>7. ASSUME NEW q \in T, NEW r \in T, q < r PROVE f[q] < f[r]
    <2>1. F[q].id < F[r].id
        BY <1>4, <1>7 DEF Laid
    <2>2. f[q] = F[q].id /\ f[r] = F[r].id
        BY <1>4, <1>7
    <2> QED BY <2>1, <2>2
<1> HIDE DEF f
<1>8. Moves(f, TextsOf(F), T, TextsOf(D), U)
    BY <1>5, <1>6, <1>7 DEF Moves
<1>9. Kept(TextsOf(D), U) = Kept(TextsOf(F), T)
    <2>1. T \in SUBSET (1..Len(TextsOf(F))) /\ U \in SUBSET (1..Len(TextsOf(D)))
        BY <1>2 DEF TextsUnder
    <2> HIDE DEF T, U
    <2> QED BY <1>2, <1>8, <2>1, MovedKept
<1> QED BY <1>9 DEF TextIn, LinesUnder

\* The sections of the file start where those of the document do.
LEMMA SamePlaces ==
    ASSUME NEW D \in Paragraphs(Wording), NEW F, Laid(D, F),
           0 \in Opens(D, Len(D)) <=> 0 \in Opens(F, Len(F))
    PROVE  /\ Len(Places(F)) = Len(Places(D))
           /\ \A i \in 1..Len(Places(D)) : Places(F)[i] = At(F, Places(D)[i])
<1> DEFINE P == Places(D)
           g == [i \in 1..Len(P) |-> At(F, P[i])]
<1>1. Len(D) \in Nat /\ Len(F) \in Nat
    BY ParagraphsList DEF Laid
<1>2. Rising(P, Opens(D, Len(D)))
    BY <1>1, PlacesRise DEF Places
<1> HIDE DEF P
<1>3. /\ Len(P) \in Nat /\ \A i \in 1..Len(P) : P[i] \in Opens(D, Len(D))
      /\ \A a \in Opens(D, Len(D)) : \E i \in 1..Len(P) : P[i] = a
      /\ \A i, j \in 1..Len(P) : i < j => P[i] < P[j]
    BY <1>2, RisingElements
<1>4. \A a \in Opens(D, Len(D)) : a \in Spots(D) /\ a \in 0..Len(D)
    BY <1>1, OpensBounds DEF Spots
<1>5. /\ \A a \in Spots(D) : At(F, a) \in Spots(F)
      /\ \A a \in Spots(D) : a \in 0..Len(D)
    BY SpotsIn
<1>6. \A a \in 0..Len(D) : /\ At(F, a) \in 0..Len(F) /\ (a = 0 => At(F, a) = 0)
                           /\ a # 0 => At(F, a) \in 1..Len(F) /\ F[At(F, a)].id = a
    BY AtIs
<1>7. g \in Seq(Nat) /\ Len(g) = Len(P) /\ \A i \in 1..Len(P) : g[i] = At(F, P[i])
    <2>1. ASSUME NEW i \in 1..Len(P) PROVE At(F, P[i]) \in Nat
        <3>1. At(F, P[i]) \in 0..Len(F)
            BY <1>3, <1>4, <1>6
        <3> QED BY <1>1, <3>1
    <2> QED BY <1>3, <2>1
<1> HIDE DEF g
<1>8. ASSUME NEW i \in 1..Len(g) PROVE g[i] \in Opens(F, Len(F))
    <2>1. P[i] \in Opens(D, Len(D)) /\ P[i] \in Spots(D) /\ g[i] = At(F, P[i])
        BY <1>3, <1>4, <1>7
    <2>2. CASE P[i] = 0
        <3>1. At(F, 0) = 0
            BY <1>1, <1>6
        <3> QED BY <2>1, <2>2, <3>1
    <2>3. CASE P[i] # 0
        <3>1. At(F, P[i]) \in Spots(F) /\ At(F, P[i]) # 0
            BY <1>5, <1>6, <2>1, <2>3
        <3> QED BY <2>1, <3>1 DEF Spots, Opens
    <2> QED BY <2>2, <2>3
<1>9. ASSUME NEW h \in Opens(F, Len(F)) PROVE \E i \in 1..Len(g) : g[i] = h
    <2>1. \E a \in Opens(D, Len(D)) : At(F, a) = h
        <3>1. CASE h = 0
            BY <1>1, <1>6, <3>1
        <3>2. CASE h # 0
            <4>1. h \in 1..Len(F) /\ IsHeading(F[h])
                BY <1>1, <3>2, OpensBounds
            <4>2. F[h].id # 0 /\ IsHeading(D[F[h].id])
                BY <4>1, LaidHeading
            <4>3. F[h].id \in 1..Len(D)
                BY <1>1, <4>1, <4>2 DEF Laid
            <4>4. F[h].id \in Opens(D, Len(D))
                BY <4>2, <4>3 DEF Opens, HeadingsIn
            <4>5. At(F, F[h].id) = h
                BY <4>1, <4>2, <4>3, LaidPosition DEF At
            <4> QED BY <4>4, <4>5
        <3> QED BY <3>1, <3>2
    <2>2. PICK a \in Opens(D, Len(D)) : At(F, a) = h
        BY <2>1
    <2>3. PICK i \in 1..Len(P) : P[i] = a
        BY <1>3
    <2>4. g[i] = h
        BY <1>7, <2>2, <2>3
    <2> QED BY <1>7, <2>4
<1>10. ASSUME NEW i \in 1..Len(g), NEW j \in 1..Len(g), i < j PROVE g[i] < g[j]
    <2>1. /\ P[i] \in 0..Len(D) /\ P[j] \in 0..Len(D) /\ P[i] < P[j]
          /\ g[i] = At(F, P[i]) /\ g[j] = At(F, P[j])
        BY <1>3, <1>4, <1>7, <1>10
    <2>2. P[j] # 0 /\ At(F, P[j]) \in 1..Len(F) /\ F[At(F, P[j])].id = P[j]
        BY <1>1, <1>6, <2>1
    <2>3. CASE P[i] = 0
        <3>1. At(F, P[i]) = 0
            BY <1>6, <2>1, <2>3
        <3> QED BY <2>1, <2>2, <3>1
    <2>4. CASE P[i] # 0
        <3> DEFINE u == At(F, P[i])
                   v == At(F, P[j])
        <3>1. u \in 1..Len(F) /\ v \in 1..Len(F) /\ F[u].id = P[i] /\ F[v].id = P[j]
            BY <1>6, <2>1, <2>2, <2>4
        <3> HIDE DEF u, v
        <3>2. v < u => F[v].id < F[u].id
            BY <2>2, <2>4, <3>1 DEF Laid
        <3>3. u # v /\ ~ (v < u)
            BY <2>1, <3>1, <3>2
        <3>4. u < v
            BY <3>1, <3>3
        <3> QED BY <2>1, <3>4 DEF u, v
    <2> QED BY <2>3, <2>4
<1>11. Rising(g, Opens(F, Len(F)))
    BY <1>7, <1>8, <1>9, <1>10, RisingIs
<1>12. Places(F) = g
    BY <1>11, ListedIs DEF Places
<1> QED BY <1>7, <1>12 DEF P

\* Sections of the same levels have the same parents.
LEMMA ParentSame ==
    ASSUME NEW ss, NEW tt, NEW i \in Nat, i >= 1,
           \A j \in 1..i : ss[j].level = tt[j].level, Enclosed(ss, i), Enclosed(tt, i)
    PROVE  ss[i].parent = tt[i].parent
<1>1. {j \in 1..i - 1 : ss[j].level \in 1..ss[i].level - 1}
          = {j \in 1..i - 1 : tt[j].level \in 1..tt[i].level - 1}
    OBVIOUS
<1> QED BY <1>1 DEF Enclosed

LEMMA SectionIs ==
    ASSUME NEW T, NEW s \in [level : 0..9, heading : T, parent : Int, lines : Seq(T)],
           NEW t \in [level : 0..9, heading : T, parent : Int, lines : Seq(T)],
           s.level = t.level, s.heading = t.heading, s.parent = t.parent
    PROVE  s = [t EXCEPT !.lines = s.lines] /\ (s.lines = t.lines => s = t)
OBVIOUS

\* What the parser makes of the file.
LEMMA FileReads ==
    ASSUME NEW D \in Paragraphs(Wording), NEW F, Laid(D, F),
           0 \in Opens(D, Len(D)) <=> 0 \in Opens(F, Len(F))
    PROVE  /\ Len(Parsed(F)) = Len(Parsed(D)) /\ Len(Parsed(D)) = Len(Places(D))
           /\ \A i \in 1..Len(Places(D)) :
                /\ Parsed(F)[i] = [Parsed(D)[i] EXCEPT !.lines = TextIn(F, Places(D)[i])]
                /\ Parsed(D)[i].lines = LinesUnder(D, Len(D), Places(D)[i])
                /\ TextIn(F, Places(D)[i]) = Parsed(D)[i].lines => Parsed(F)[i] = Parsed(D)[i]
<1> DEFINE P == Places(D)
           Q == Places(F)
           ss == Parsed(D)
           tt == Parsed(F)
           Row == [level : 0..9, heading : Wording, parent : Int, lines : Seq(Wording)]
<1>1. F \in Paragraphs(Wording) /\ Blank \in Wording /\ Len(D) \in Nat /\ Len(F) \in Nat
    BY WordingHas, ParagraphsList DEF Laid
<1>2. /\ Len(ss) = Len(P) /\ ss \in Sections(Wording)
      /\ \A i \in 1..Len(P) : Tells(ss[i], ss[i].lines, D, Len(D), P[i])
    BY <1>1, ParsedTells
<1>3. /\ Len(tt) = Len(Q) /\ tt \in Sections(Wording)
      /\ \A i \in 1..Len(Q) : Tells(tt[i], tt[i].lines, F, Len(F), Q[i])
    BY <1>1, ParsedTells
<1>4. Len(Q) = Len(P) /\ \A i \in 1..Len(P) : Q[i] = At(F, P[i])
    BY SamePlaces
<1>5. Len(P) \in Nat /\ \A i \in 1..Len(P) : P[i] \in Opens(D, Len(D))
    BY <1>1, PlacesRise DEF Places
<1>6. \A i \in DOMAIN ss : Enclosed(ss, i)
    BY <1>1, ParsedEncloses
<1>7. \A i \in DOMAIN tt : Enclosed(tt, i)
    BY <1>1, ParsedEncloses
<1>8. ss \in Seq(Row) /\ tt \in Seq(Row)
    BY <1>2, <1>3 DEF Sections
<1> HIDE DEF P, Q, ss, tt
<1>9. /\ DOMAIN ss = 1..Len(P) /\ DOMAIN tt = 1..Len(P)
      /\ \A i \in 1..Len(P) : ss[i] \in Row /\ tt[i] \in Row
    <2> HIDE DEF Row
    <2> QED BY <1>2, <1>3, <1>4, <1>8
<1>10. ASSUME NEW i \in 1..Len(P)
       PROVE  /\ tt[i].level = ss[i].level /\ tt[i].heading = ss[i].heading
              /\ tt[i].lines = TextIn(F, P[i]) /\ ss[i].lines = LinesUnder(D, Len(D), P[i])
    <2>1. P[i] \in Opens(D, Len(D)) /\ Q[i] = At(F, P[i]) /\ i \in 1..Len(Q)
        BY <1>4, <1>5
    <2>2. /\ Tells(ss[i], ss[i].lines, D, Len(D), P[i])
          /\ Tells(tt[i], tt[i].lines, F, Len(F), At(F, P[i]))
        BY <1>2, <1>3, <2>1
    <2>3. tt[i].lines = TextIn(F, P[i]) /\ ss[i].lines = LinesUnder(D, Len(D), P[i])
        BY <2>2 DEF Tells, TextIn
    <2>4. LevelAt(F, At(F, P[i])) = LevelAt(D, P[i]) /\ HeadingAt(F, At(F, P[i])) = HeadingAt(D, P[i])
        <3>1. CASE P[i] = 0
            <4>1. At(F, P[i]) = 0
                BY <3>1 DEF At
            <4> QED BY <3>1, <4>1 DEF LevelAt, HeadingAt
        <3>2. CASE P[i] # 0
            <4> DEFINE q == At(F, P[i])
            <4>1. P[i] \in 1..Len(D) /\ IsHeading(D[P[i]])
                BY <1>1, <2>1, <3>2, OpensBounds
            <4>2. P[i] \in 0..Len(D)
                BY <4>1
            <4>3. q \in 1..Len(F) /\ F[q].id = P[i]
                BY <3>2, <4>2, AtIs
            <4> HIDE DEF q
            <4>4. q # 0 /\ F[q] = D[P[i]]
                <5>1. D[P[i]].level # Body
                    BY <4>1 DEF IsHeading
                <5>2. F[q].id # 0 /\ F[q].level = D[P[i]].level
                    BY <3>2, <4>3 DEF Laid
                <5>3. F[q] = D[F[q].id]
                    BY <4>3, <5>1, <5>2 DEF Laid
                <5>4. q # 0
                    BY <4>3
                <5> QED BY <4>3, <5>3, <5>4
            <4> QED BY <3>2, <4>4 DEF LevelAt, HeadingAt, q
        <3> QED BY <3>1, <3>2
    <2> QED BY <2>2, <2>3, <2>4 DEF Tells
<1>11. ASSUME NEW i \in 1..Len(P) PROVE tt[i].parent = ss[i].parent
    <2>1. i \in Nat /\ i >= 1 /\ \A j \in 1..i : j \in 1..Len(P)
        BY <1>5
    <2>2. \A j \in 1..i : tt[j].level = ss[j].level
        BY <1>10, <2>1
    <2>3. Enclosed(tt, i) /\ Enclosed(ss, i)
        BY <1>6, <1>7, <1>9
    <2> QED BY <2>1, <2>2, <2>3, ParentSame
<1>12. ASSUME NEW i \in 1..Len(P)
       PROVE  /\ tt[i] = [ss[i] EXCEPT !.lines = TextIn(F, P[i])]
              /\ TextIn(F, P[i]) = ss[i].lines => tt[i] = ss[i]
    <2>1. tt[i] = [ss[i] EXCEPT !.lines = tt[i].lines] /\ (tt[i].lines = ss[i].lines => tt[i] = ss[i])
        BY <1>9, <1>10, <1>11, SectionIs
    <2> QED BY <1>10, <2>1
<1> QED BY <1>2, <1>3, <1>4, <1>10, <1>12 DEF P, Q, ss, tt

---------------------------------------------------------------------------
(* What the exporter has written so far                                      *)

\* The section that starts at a has its draft.
Done(a) == \E j \in 1..next : Places(doc)[j] = a /\ j - 1 \in Exported

SurgeryInv == phase \in {"export", "exported"} =>
    /\ \A a \in Spots(doc) : ~ Done(a) => Untouched(doc, file, a)
    /\ \A j \in 1..next : j - 1 \in Exported => TextIn(file, Places(doc)[j]) = NonBlank(drafts[j - 1])

LEMMA SurgeryInvReview ==
    ASSUME DocInv, DocxInv, Review
    PROVE  SurgeryInv'
<1>1. file' = doc /\ doc' = doc /\ next' = 0 /\ doc \in Paragraphs(Wording) /\ Numbered(doc)
    BY DEF Review, DocInv
<1>2. \A q \in 1..Len(doc) : doc[q].id = q /\ q # 0
    BY <1>1 DEF Numbered
<1>3. \A a : Untouched(doc, doc, a)
    BY <1>2 DEF Untouched
<1>4. \A j \in 1..next' : FALSE
    BY <1>1
<1>5. \A a \in Spots(doc') : Untouched(doc', file', a)
    BY <1>1, <1>3
<1> QED BY <1>4, <1>5 DEF SurgeryInv

\* No two sections start at one place.
LEMMA PlacesDiffer ==
    ASSUME DocInv
    PROVE  /\ Len(Places(doc)) \in Nat
           /\ \A i \in 1..Len(Places(doc)) : Places(doc)[i] \in Opens(doc, Len(doc))
           /\ \A a \in Opens(doc, Len(doc)) : \E i \in 1..Len(Places(doc)) : Places(doc)[i] = a
           /\ \A i, j \in 1..Len(Places(doc)) : Places(doc)[i] = Places(doc)[j] => i = j
           /\ Opens(doc, Len(doc)) \subseteq Spots(doc)
<1>1. Len(doc) \in Nat
    BY ParagraphsList DEF DocInv
<1> DEFINE P == Places(doc)
<1>2. Rising(P, Opens(doc, Len(doc)))
    BY <1>1, PlacesRise DEF Places
<1> HIDE DEF P
<1>3. /\ Len(P) \in Nat /\ \A i \in 1..Len(P) : P[i] \in Opens(doc, Len(doc)) /\ P[i] \in Nat
      /\ \A a \in Opens(doc, Len(doc)) : \E i \in 1..Len(P) : P[i] = a
      /\ \A i, j \in 1..Len(P) : i < j => P[i] < P[j]
    BY <1>2, RisingElements
<1>4. ASSUME NEW i \in 1..Len(P), NEW j \in 1..Len(P), P[i] = P[j], i # j PROVE FALSE
    <2>1. i < j \/ j < i
        BY <1>4
    <2>2. ~ (P[i] < P[j]) /\ ~ (P[j] < P[i])
        BY <1>3, <1>4
    <2> QED BY <1>3, <2>1, <2>2
<1>5. Opens(doc, Len(doc)) \subseteq Spots(doc)
    BY DEF Opens, Spots
<1> QED BY <1>3, <1>4, <1>5 DEF P

LEMMA SurgeryInvReplace ==
    ASSUME DocInv, DocxInv, SurgeryInv, ReplaceNext
    PROVE  SurgeryInv'
<1> DEFINE P == Places(doc)
           a == P[next + 1]
           lines == NonBlank(drafts[next])
<1>1. /\ phase = "export" /\ UNCHANGED <<phase, doc, sections, drafts>> /\ next' = next + 1
      /\ next < Len(Walked(doc))
      /\ file' = IF next \in Exported
                 THEN Replaced(file, Walked(doc)[next + 1], drafts[next]) ELSE file
    BY DEF ReplaceNext
<1>2. /\ sections = Parsed(doc) /\ DOMAIN drafts = 0..Len(sections) - 1
      /\ \A o \in DOMAIN drafts : drafts[o] \in Seq(Wording)
      /\ Laid(doc, file) /\ next \in 0..Len(sections) /\ doc \in Paragraphs(Wording)
    BY <1>1 DEF DocxInv, Stored, Reviewed, DocInv
<1>3. /\ Len(sections) = Len(P) /\ Len(Walked(doc)) = Len(P) /\ Len(P) \in Nat
      /\ \A i \in 1..Len(P) : Walked(doc)[i] = Found(doc, Len(doc), P[i])
    BY <1>2, SectionsCounted
<1>4. /\ next + 1 \in 1..Len(P) /\ next \in 0..Len(sections) - 1 /\ next \in Nat /\ (next + 1) - 1 = next
      /\ \A j \in 1..next : j \in 1..Len(P) /\ j # next + 1
      /\ \A j \in 1..next + 1 : j = next + 1 \/ j \in 1..next
      /\ \A j \in 1..next : j \in 1..next + 1
      /\ next + 1 \in 1..next + 1
    BY <1>1, <1>2, <1>3
<1>5. /\ \A i \in 1..Len(P) : P[i] \in Spots(doc) /\ P[i] \in Opens(doc, Len(doc))
      /\ \A i, j \in 1..Len(P) : P[i] = P[j] => i = j
    BY PlacesDiffer
<1>6. /\ \A c \in Spots(doc) : ~ Done(c) => Untouched(doc, file, c)
      /\ \A j \in 1..next : j - 1 \in Exported => TextIn(file, P[j]) = NonBlank(drafts[j - 1])
    BY <1>1 DEF SurgeryInv
<1>7. Laid(doc, file')
    <2>1. DocxInv'
        BY DocxInvReplace
    <2> QED BY <1>1, <2>1 DEF DocxInv, Reviewed
<1>8. Exported' = Exported /\ P' = P
    BY <1>1 DEF Exported, Places
<1>9. \A c : Done(c)' <=> \E j \in 1..next + 1 : P[j] = c /\ j - 1 \in Exported
    BY <1>1, <1>8 DEF Done
<1> HIDE DEF P
<1>10. CASE next \notin Exported
    <2>1. file' = file
        BY <1>1, <1>10
    <2>2. \A c : Done(c) => Done(c)'
        BY <1>4, <1>9 DEF Done, P
    <2>3. \A c \in Spots(doc') : ~ Done(c)' => Untouched(doc', file', c)
        BY <1>1, <1>6, <2>1, <2>2
    <2>4. \A j \in 1..next + 1 : j - 1 \in Exported => TextIn(file', P[j]) = NonBlank(drafts[j - 1])
        BY <1>4, <1>6, <1>10, <2>1
    <2> QED BY <1>1, <1>8, <2>3, <2>4 DEF SurgeryInv, P
<1>11. CASE next \in Exported
    <2>1. drafts[next] \in Seq(Wording)
        BY <1>2, <1>4
    <2>2. file' = Replaced(file, Found(doc, Len(doc), a), drafts[next])
        BY <1>1, <1>3, <1>4, <1>11
    <2>3. a \in Opens(doc, Len(doc)) /\ a \in Spots(doc)
        BY <1>4, <1>5
    <2> HIDE DEF a
    <2>4. Surgery(doc, file, file', a, lines)
        <3>1. /\ lines \in Seq(Wording) /\ Rest(doc, a, lines) \in Seq(Wording)
              /\ Operated(file, file', Position(file, AfterOf(doc, a)), Rest(doc, a, lines),
                          BodyOf(doc, a), lines)
            BY <1>2, <2>1, <2>2, <2>3, ReplacedOperates
        <3> HIDE DEF lines
        <3> QED BY <1>2, <1>7, <2>3, <3>1 DEF Surgery
    <2>5. \A i \in 1..Len(lines) : lines[i] # Blank
        BY <2>1, NonBlankIs
    <2> HIDE DEF lines
    <2>6. ~ Done(a)
        BY <1>4, <1>5 DEF Done, P, a
    <2>7. TextIn(file', a) = lines
        BY <1>6, <2>3, <2>4, <2>5, <2>6, SurgeryOwn
    <2>8. ASSUME NEW c \in Spots(doc), c # a
          PROVE  TextIn(file', c) = TextIn(file, c) /\ (Untouched(doc, file, c) => Untouched(doc, file', c))
        BY <2>4, <2>8, SurgeryOthers
    <2>9. ASSUME NEW c \in Spots(doc), ~ Done(c)' PROVE Untouched(doc, file', c)
        <3>1. c # a
            BY <1>4, <1>9, <1>11, <2>9 DEF a
        <3>2. ~ Done(c)
            BY <1>4, <1>9, <2>9 DEF Done, P
        <3> QED BY <1>6, <2>8, <3>1, <3>2
    <2>10. ASSUME NEW j \in 1..next + 1, j - 1 \in Exported
           PROVE  TextIn(file', P[j]) = NonBlank(drafts[j - 1])
        <3>1. CASE j = next + 1
            BY <1>4, <2>7, <3>1 DEF a, lines
        <3>2. CASE j \in 1..next
            <4>1. P[j] # a /\ P[j] \in Spots(doc)
                BY <1>4, <1>5, <3>2 DEF a
            <4> QED BY <1>6, <2>8, <2>10, <3>2, <4>1
        <3> QED BY <1>4, <3>1, <3>2
    <2>11. \A c \in Spots(doc') : ~ Done(c)' => Untouched(doc', file', c)
        BY <1>1, <2>9
    <2> QED BY <1>1, <1>8, <2>10, <2>11 DEF SurgeryInv, P
<1> QED BY <1>10, <1>11

LEMMA SurgeryHolds == Spec => [](DocInv /\ DocxInv /\ SurgeryInv)
<1>1. Init => SurgeryInv
    BY DEF Init, SurgeryInv
<1>2. DocInv /\ DocxInv /\ SurgeryInv /\ [Next]_vars => SurgeryInv'
    <2> SUFFICES ASSUME DocInv, DocxInv, SurgeryInv, [Next]_vars PROVE SurgeryInv'
        OBVIOUS
    <2>1. ASSUME NEW kind \in Kinds, Author(kind[1], kind[2]) PROVE SurgeryInv'
        BY <2>1 DEF Author, SurgeryInv
    <2>2. CASE Parse
        <3>1. phase' \in {"parsed", "rejected"}
            BY <2>2 DEF Parse
        <3> QED BY <3>1 DEF SurgeryInv
    <2>3. CASE Save
        <3>1. phase = "export" /\ UNCHANGED <<doc, sections, drafts, file, next>>
            BY <2>3 DEF Save
        <3> QED BY <3>1 DEF SurgeryInv, Done, Exported
    <2>4. CASE UNCHANGED vars
        BY <2>4 DEF vars, SurgeryInv, Done, Exported
    <2> QED BY <2>1, <2>2, <2>3, <2>4, SurgeryInvReview, SurgeryInvReplace DEF Next
<1> QED BY <1>1, <1>2, DocxInvHolds, PTL DEF Spec

\* The exported file, parsed like a new upload, has the same headings, levels and parents;
\* every section reads as its draft, and one whose draft is empty as the original
\* (export_docx.py 89-139, parser.py 56-124).
THEOREM ExportReadsBackHolds == Spec => []ExportReadsBack
<1>1. DocInv /\ DocxInv /\ SurgeryInv => ExportReadsBack
    <2> SUFFICES ASSUME DocInv, DocxInv, SurgeryInv, phase = "exported" PROVE ExportReadsBack
        BY DEF ExportReadsBack
    <2> DEFINE P == Places(doc)
    <2>1. /\ sections = Parsed(doc) /\ DOMAIN drafts = 0..Len(sections) - 1
          /\ \A o \in DOMAIN drafts : drafts[o] \in Seq(Wording)
          /\ Laid(doc, file) /\ next = Len(sections) /\ doc \in Paragraphs(Wording)
        BY DEF DocxInv, Stored, Reviewed, DocInv
    <2>2. /\ Len(P) \in Nat /\ Len(sections) = Len(P) /\ sections \in Sections(Wording)
          /\ \A i \in 1..Len(P) : P[i] \in Opens(doc, Len(doc)) /\ P[i] \in Spots(doc)
          /\ \A a \in Opens(doc, Len(doc)) : \E i \in 1..Len(P) : P[i] = a
          /\ \A i, j \in 1..Len(P) : P[i] = P[j] => i = j
        BY <2>1, SectionsCounted, PlacesDiffer
    <2>3. DOMAIN sections = 1..Len(P)
        BY <2>2 DEF Sections
    <2>4. ASSUME NEW i \in 1..Len(P)
          PROVE  /\ drafts[i - 1] \in Seq(Wording)
                 /\ i - 1 \in Exported <=> NonBlank(drafts[i - 1]) # <<>>
        <3>1. i - 1 \in DOMAIN drafts
            BY <2>1, <2>2
        <3>2. drafts[i - 1] \in Seq(Wording)
            BY <2>1, <3>1
        <3>3. i - 1 \in Exported <=> \E j \in DOMAIN drafts[i - 1] : drafts[i - 1][j] # Blank
            BY <3>1 DEF Exported
        <3> QED BY <3>2, <3>3, NonBlankIs
    <2>5. ASSUME NEW i \in 1..Len(P)
          PROVE  TextIn(file, P[i]) = IF NonBlank(drafts[i - 1]) = <<>>
                                      THEN LinesUnder(doc, Len(doc), P[i])
                                      ELSE NonBlank(drafts[i - 1])
        <3>1. CASE i - 1 \in Exported
            <4>1. i \in 1..next
                BY <2>1, <2>2
            <4>2. TextIn(file, P[i]) = NonBlank(drafts[i - 1])
                BY <3>1, <4>1 DEF SurgeryInv
            <4> QED BY <2>4, <3>1, <4>2
        <3>2. CASE i - 1 \notin Exported
            <4>1. ~ Done(P[i])
                BY <2>1, <2>2, <3>2 DEF Done
            <4>2. Untouched(doc, file, P[i])
                BY <2>2, <4>1 DEF SurgeryInv
            <4>3. TextIn(file, P[i]) = LinesUnder(doc, Len(doc), P[i])
                BY <2>1, <2>2, <4>2, UntouchedText
            <4> QED BY <2>4, <3>2, <4>3
        <3> QED BY <3>1, <3>2
    <2>6. /\ TextsUnder(doc, Len(doc), 0) = {} <=> LinesUnder(doc, Len(doc), 0) = <<>>
          /\ TextsUnder(file, Len(file), 0) = {} <=> TextIn(file, 0) = <<>>
        <3>1. /\ TextsOf(doc) \in Seq(Wording) /\ Len(TextsOf(doc)) = Len(doc)
              /\ TextsOf(file) \in Seq(Wording) /\ Len(TextsOf(file)) = Len(file)
            BY <2>1, TextsList DEF Laid
        <3>2. /\ TextsUnder(doc, Len(doc), 0) \in SUBSET (1..Len(TextsOf(doc)))
              /\ TextsUnder(file, Len(file), 0) \in SUBSET (1..Len(TextsOf(file)))
            BY <3>1 DEF TextsUnder
        <3>3. At(file, 0) = 0
            BY DEF At
        <3> QED BY <3>1, <3>2, <3>3, KeptEmpty DEF TextIn, LinesUnder
    <2>7. /\ 0 \in Opens(doc, Len(doc)) <=> TextsUnder(doc, Len(doc), 0) # {}
          /\ 0 \in Opens(file, Len(file)) <=> TextsUnder(file, Len(file), 0) # {}
        BY DEF Opens, HeadingsIn
    <2>8. 0 \in Opens(doc, Len(doc)) <=> 0 \in Opens(file, Len(file))
        <3>1. CASE 0 \in Opens(doc, Len(doc))
            <4>1. PICK i \in 1..Len(P) : P[i] = 0
                BY <2>2, <3>1
            <4>2. TextIn(file, 0) # <<>>
                BY <2>5, <2>6, <2>7, <3>1, <4>1
            <4> QED BY <2>6, <2>7, <3>1, <4>2
        <3>2. CASE 0 \notin Opens(doc, Len(doc))
            <4>1. ~ Done(0) /\ 0 \in Spots(doc)
                BY <2>1, <2>2, <3>2 DEF Done, Spots
            <4>2. Untouched(doc, file, 0)
                BY <4>1 DEF SurgeryInv
            <4>3. TextIn(file, 0) = LinesUnder(doc, Len(doc), 0)
                BY <2>1, <4>1, <4>2, UntouchedText
            <4> QED BY <2>6, <2>7, <3>2, <4>3
        <3> QED BY <3>1, <3>2
    <2>9. /\ Len(Parsed(file)) = Len(sections)
          /\ \A i \in 1..Len(P) :
                /\ Parsed(file)[i] = [sections[i] EXCEPT !.lines = TextIn(file, P[i])]
                /\ sections[i].lines = LinesUnder(doc, Len(doc), P[i])
                /\ TextIn(file, P[i]) = sections[i].lines => Parsed(file)[i] = sections[i]
        BY <2>1, <2>8, FileReads
    <2>10. ASSUME NEW i \in 1..Len(P)
           PROVE  Parsed(file)[i] = IF NonBlank(drafts[i - 1]) = <<>> THEN sections[i]
                                    ELSE [sections[i] EXCEPT !.lines = NonBlank(drafts[i - 1])]
        BY <2>5, <2>9
    <2> QED BY <2>3, <2>9, <2>10 DEF ExportReadsBack
<1> QED BY <1>1, SurgeryHolds, PTL

\* Appending to the second list appends to the concatenation.
LEMMA AppendConcat ==
    ASSUME NEW S, NEW u \in Seq(S), NEW v \in Seq(S), NEW t \in S
    PROVE  u \o Append(v, t) = Append(u \o v, t)
<1> DEFINE l == u \o Append(v, t)
           r == Append(u \o v, t)
           m == Len(u)
           n == Len(v)
<1>1. m \in Nat /\ n \in Nat /\ Append(v, t) \in Seq(S) /\ u \o v \in Seq(S)
    OBVIOUS
<1>2. Len(Append(v, t)) = n + 1 /\ Len(u \o v) = m + n
    OBVIOUS
<1>3. l \in Seq(S) /\ r \in Seq(S) /\ Len(l) = m + (n + 1) /\ Len(r) = (m + n) + 1
    BY <1>1, <1>2
<1>4. ASSUME NEW i \in 1..(m + n) + 1 PROVE l[i] = r[i]
    <2>1. l[i] = IF i <= m THEN u[i] ELSE Append(v, t)[i - m]
        BY <1>1, <1>2
    <2>2. r[i] = IF i = (m + n) + 1 THEN t ELSE (u \o v)[i]
        BY <1>1, <1>2
    <2>3. i # (m + n) + 1 => (u \o v)[i] = IF i <= m THEN u[i] ELSE v[i - m]
        BY <1>1
    <2>4. i > m => Append(v, t)[i - m] = IF i - m = n + 1 THEN t ELSE v[i - m]
        BY <1>1
    <2> HIDE DEF l, r, m, n
    <2>5. CASE i <= m
        <3>1. i # (m + n) + 1
            BY <1>1, <2>5
        <3> QED BY <2>1, <2>2, <2>3, <2>5, <3>1
    <2>6. CASE i > m /\ i # (m + n) + 1
        <3>1. ~ (i <= m) /\ i - m # n + 1
            BY <1>1, <2>6
        <3> QED BY <2>1, <2>2, <2>3, <2>4, <2>6, <3>1
    <2>7. CASE i = (m + n) + 1
        <3>1. ~ (i <= m) /\ i > m /\ i - m = n + 1
            BY <1>1, <2>7
        <3> QED BY <2>1, <2>2, <2>4, <2>7, <3>1
    <2> QED BY <1>1, <2>5, <2>6, <2>7
<1> HIDE DEF l, r, m, n
<1>5. Len(l) = Len(r) /\ Len(r) = (m + n) + 1
    BY <1>1, <1>3
<1>6. l = r
    BY <1>1, <1>3, <1>4, <1>5
<1> QED BY <1>6 DEF l, r

LEMMA ConcatOne ==
    ASSUME NEW S, NEW u \in Seq(S), NEW t \in S
    PROVE  u \o <<t>> = Append(u, t)
OBVIOUS

---------------------------------------------------------------------------
(* Nothing is lost                                                           *)

\* A concatenation goes from list to list.
Joined(g, ss) == g[0] = <<>> /\ \A i \in 1..Len(ss) : g[i] = g[i - 1] \o ss[i]

LEMMA FlattenSteps ==
    ASSUME NEW S, NEW ss \in Seq(Seq(S))
    PROVE  \E g : Joined(g, ss) /\ FlattenSeq(ss) = g[Len(ss)]
<1> DEFINE n == Len(ss)
           T == Seq(S)
           More(i, t) == t \o ss[i]
           P == {m \in Nat : m <= n => \E g : g[0] = <<>> /\ \A i \in 1..m : g[i] = More(i, g[i - 1])}
           Rec(g) == [i \in 1..n |-> IF i = 1 THEN ss[i] ELSE g[i - 1] \o ss[i]]
<1>1. n \in Nat /\ ss \in Seq(T)
    OBVIOUS
<1>a. \A i \in 1..n : ss[i] \in T
    <2> HIDE DEF T
    <2> QED BY <1>1, ElementOf
<1>b. \A i \in 1..n : More(i, <<>>) = ss[i]
    BY <1>a
<1> HIDE DEF T, More
<1>2. 0 \in P
    <2> DEFINE g == [i \in 0..0 |-> <<>>]
    <2>1. g[0] = <<>> /\ \A i \in 1..0 : g[i] = More(i, g[i - 1])
        OBVIOUS
    <2> HIDE DEF g, More, n
    <2> QED BY <2>1
<1>3. ASSUME NEW m \in Nat, m \in P PROVE m + 1 \in P
    <2> HIDE DEF n
    <2> SUFFICES ASSUME m + 1 <= n
                 PROVE  \E g : g[0] = <<>> /\ \A i \in 1..m + 1 : g[i] = More(i, g[i - 1])
        OBVIOUS
    <2>1. PICK g : g[0] = <<>> /\ \A i \in 1..m : g[i] = More(i, g[i - 1])
        BY <1>1, <1>3
    <2> DEFINE h == [i \in 0..m + 1 |-> IF i = m + 1 THEN More(m + 1, g[m]) ELSE g[i]]
    <2>2. h[0] = <<>>
        BY <2>1
    <2>3. ASSUME NEW i \in 1..m + 1 PROVE h[i] = More(i, h[i - 1])
        <3>1. h[i - 1] = g[i - 1]
            OBVIOUS
        <3>2. CASE i = m + 1
            BY <3>1, <3>2
        <3>3. CASE i # m + 1
            <4>1. i \in 1..m /\ h[i] = g[i]
                BY <3>3
            <4> QED BY <2>1, <3>1, <4>1
        <3> QED BY <3>2, <3>3
    <2> HIDE DEF h
    <2> QED BY <2>2, <2>3
<1>4. n \in P
    <2> HIDE DEF P, n
    <2> QED BY <1>1, <1>2, <1>3, Induction
<1>5. PICK g : g[0] = <<>> /\ \A i \in 1..n : g[i] = More(i, g[i - 1])
    <2> HIDE DEF n
    <2> QED BY <1>1, <1>4
<1>6. Joined(g, ss)
    BY <1>5 DEF Joined, More
<1>7. CASE n = 0
    <2>1. FlattenSeq(ss) = ss /\ ss = <<>>
        BY <1>1, <1>7 DEF FlattenSeq
    <2> QED BY <1>5, <1>6, <1>7, <2>1
<1>8. CASE n # 0
    <2> DEFINE f == [i \in 1..n |-> g[i]]
    <2>1. 1 \in 1..n /\ g[1] = ss[1]
        <3>1. 1 \in 1..n /\ 1 - 1 = 0
            BY <1>1, <1>8
        <3> HIDE DEF n
        <3>2. g[1] = More(1, <<>>)
            BY <1>5, <3>1
        <3> QED BY <1>b, <3>1, <3>2
    <2>2. ASSUME NEW i \in 1..n PROVE f[i] = IF i = 1 THEN ss[i] ELSE f[i - 1] \o ss[i]
        <3>1. CASE i = 1
            BY <2>1, <3>1
        <3>2. CASE i # 1
            <4>1. i - 1 \in 1..n
                BY <1>1, <3>2
            <4>2. f[i] = g[i] /\ f[i - 1] = g[i - 1]
                BY <4>1
            <4>3. g[i] = g[i - 1] \o ss[i]
                BY <1>5 DEF More
            <4> HIDE DEF f
            <4> QED BY <3>2, <4>2, <4>3
        <3> QED BY <3>1, <3>2
    <2>3. f = Rec(f)
        <3>1. f = [i \in 1..n |-> f[i]]
            OBVIOUS
        <3> HIDE DEF f
        <3> QED BY <2>2, <3>1
    <2> DEFINE flatten == CHOOSE h : h = Rec(h)
    <2>4. flatten = Rec(flatten)
        <3> HIDE DEF Rec, f
        <3> QED BY <2>3
    <2>5. FlattenSeq(ss) = flatten[n]
        BY <1>8 DEF FlattenSeq
    <2> HIDE DEF flatten
    <2>6. \A i \in 1..n : flatten[i] = IF i = 1 THEN ss[i] ELSE flatten[i - 1] \o ss[i]
        BY <2>4, Zenon
    <2>6a. \A i \in 1..n : flatten[i] = IF i = 1 THEN ss[i] ELSE More(i, flatten[i - 1])
        BY <2>6, Zenon DEF More
    <2> DEFINE Q == {m \in Nat : m + 1 <= n => flatten[m + 1] = g[m + 1]}
    <2>7. 0 \in Q
        <3> HIDE DEF n, f
        <3>1. flatten[1] = g[1]
            BY <2>1, <2>6a
        <3> QED BY <3>1
    <2>8. ASSUME NEW m \in Nat, m \in Q PROVE m + 1 \in Q
        <3> HIDE DEF n, f
        <3> SUFFICES ASSUME (m + 1) + 1 <= n PROVE flatten[(m + 1) + 1] = g[(m + 1) + 1]
            OBVIOUS
        <3>1. /\ flatten[m + 1] = g[m + 1] /\ (m + 1) + 1 \in 1..n
              /\ ((m + 1) + 1) - 1 = m + 1 /\ (m + 1) + 1 # 1
            BY <1>1, <2>8
        <3>2. flatten[(m + 1) + 1] = More((m + 1) + 1, flatten[m + 1])
            BY <2>6a, <3>1
        <3>3. g[(m + 1) + 1] = More((m + 1) + 1, g[m + 1])
            BY <1>5, <3>1
        <3> QED BY <3>1, <3>2, <3>3
    <2>9. n - 1 \in Q /\ n - 1 \in Nat /\ (n - 1) + 1 = n
        <3>1. n - 1 \in Nat /\ (n - 1) + 1 = n
            BY <1>1, <1>8
        <3> HIDE DEF Q, n
        <3> QED BY <2>7, <2>8, <3>1, Induction
    <2>10. flatten[n] = g[n]
        <3> HIDE DEF n, f
        <3> QED BY <1>1, <2>9
    <2> QED BY <1>6, <2>5, <2>10
<1> QED BY <1>7, <1>8

LEMMA JoinedTyped ==
    ASSUME NEW S, NEW ss \in Seq(Seq(S)), NEW g, Joined(g, ss)
    PROVE  \A i \in 0..Len(ss) : g[i] \in Seq(S)
<1> DEFINE n == Len(ss)
           T == Seq(S)
           P == {m \in Nat : m <= n => g[m] \in T}
<1>1. n \in Nat /\ ss \in Seq(T)
    OBVIOUS
<1>a. \A i \in 1..n : ss[i] \in T
    <2> HIDE DEF T
    <2> QED BY <1>1, ElementOf
<1>2. 0 \in P
    <2>1. g[0] = <<>> /\ <<>> \in T
        BY DEF Joined
    <2> HIDE DEF T, n
    <2> QED BY <2>1
<1>3. ASSUME NEW m \in Nat, m \in P PROVE m + 1 \in P
    <2> SUFFICES ASSUME m + 1 <= n PROVE g[m + 1] \in T
        BY SMT
    <2>1. g[m] \in T /\ m + 1 \in 1..n /\ (m + 1) - 1 = m
        <3> HIDE DEF T, n
        <3> QED BY <1>1, <1>3
    <2>2. g[m + 1] = g[m] \o ss[m + 1] /\ ss[m + 1] \in T
        BY <1>a, <2>1 DEF Joined
    <2>3. ASSUME NEW u \in T, NEW v \in T PROVE u \o v \in T
        OBVIOUS
    <2> HIDE DEF T
    <2> QED BY <2>1, <2>2, <2>3
<1>4. \A i \in 0..n : i \in P
    <2>1. Nat \subseteq P
        <3> HIDE DEF P
        <3> QED BY <1>2, <1>3, Induction
    <2> HIDE DEF P
    <2> QED BY <1>1, <2>1
<1>5. \A i \in 0..n : g[i] \in T
    <2> HIDE DEF T, n
    <2> QED BY <1>1, <1>4
<1> QED BY <1>5

\* One more list is joined at the end.
LEMMA FlattenAdds ==
    ASSUME NEW S, NEW ss \in Seq(Seq(S)), NEW c \in Seq(S)
    PROVE  /\ FlattenSeq(ss) \in Seq(S)
           /\ FlattenSeq(Append(ss, c)) = FlattenSeq(ss) \o c
<1> DEFINE n == Len(ss)
           tt == Append(ss, c)
           U == Seq(S)
<1>1. n \in Nat /\ ss \in Seq(U) /\ c \in U
    OBVIOUS
<1>2. tt \in Seq(U) /\ Len(tt) = n + 1 /\ tt[n + 1] = c /\ \A i \in 1..n : tt[i] = ss[i]
    <2> HIDE DEF U
    <2> QED BY <1>1
<1> HIDE DEF tt
<1>3. PICK g : Joined(g, ss) /\ FlattenSeq(ss) = g[n]
    BY FlattenSteps
<1>4. PICK h : Joined(h, tt) /\ FlattenSeq(tt) = h[n + 1]
    BY <1>2, FlattenSteps
<1>5. g[n] \in Seq(S)
    BY <1>1, <1>3, JoinedTyped
<1> DEFINE P == {m \in Nat : m <= n => h[m] = g[m]}
<1>6. 0 \in P
    BY <1>3, <1>4 DEF Joined
<1>7. ASSUME NEW m \in Nat, m \in P PROVE m + 1 \in P
    <2> SUFFICES ASSUME m + 1 <= n PROVE h[m + 1] = g[m + 1]
        OBVIOUS
    <2>1. h[m] = g[m] /\ m + 1 \in 1..n /\ m + 1 \in 1..Len(tt) /\ (m + 1) - 1 = m
        BY <1>1, <1>2, <1>7
    <2> QED BY <1>2, <1>3, <1>4, <2>1 DEF Joined
<1>8. n \in P
    <2> HIDE DEF P, n
    <2> QED BY <1>1, <1>6, <1>7, Induction
<1>9. h[n + 1] = h[n] \o c
    <2>1. n + 1 \in 1..Len(tt) /\ (n + 1) - 1 = n
        BY <1>1, <1>2
    <2> QED BY <1>2, <1>4, <2>1 DEF Joined
<1>10. h[n] = g[n]
    BY <1>1, <1>8
<1> QED BY <1>3, <1>4, <1>5, <1>9, <1>10 DEF tt

\* One more text, blank or not.
LEMMA NonBlankAdds ==
    ASSUME NEW S, NEW s \in Seq(S), NEW t \in S
    PROVE  NonBlank(Append(s, t)) = IF t = Blank THEN NonBlank(s) ELSE Append(NonBlank(s), t)
<1> DEFINE n == Len(s)
           r == Append(s, t)
           T == {i \in DOMAIN s : s[i] # Blank}
           U == {i \in DOMAIN r : r[i] # Blank}
           f == [q \in T |-> q]
<1>1. n \in Nat /\ DOMAIN s = 1..n
    OBVIOUS
<1>2. r \in Seq(S) /\ Len(r) = n + 1 /\ DOMAIN r = 1..n + 1 /\ r[n + 1] = t /\ \A i \in 1..n : r[i] = s[i]
    OBVIOUS
<1> HIDE DEF r
<1>3. U = IF t = Blank THEN T ELSE T \cup {n + 1}
    BY <1>1, <1>2
<1>4. T \in SUBSET (1..n) /\ T \in SUBSET (1..Len(s)) /\ T \in SUBSET (1..Len(r))
      /\ T \in SUBSET (1..(n + 1) - 1) /\ n + 1 \in 1..Len(r)
    BY <1>1, <1>2
<1>5. Kept(r, T) = Kept(s, T)
    <2> HIDE DEF T
    <2>1. Moves(f, s, T, r, T)
        BY <1>2, <1>4 DEF Moves
    <2> HIDE DEF f
    <2> QED BY <1>2, <1>4, <2>1, MovedKept
<1>6. Kept(r, T \cup {n + 1}) = Append(Kept(r, T), t)
    <2> HIDE DEF T, n
    <2> QED BY <1>2, <1>4, KeptAdds
<1>7. NonBlank(s) = Kept(s, T) /\ NonBlank(r) = Kept(r, U)
    BY DEF NonBlank, Select
<1> HIDE DEF T, U
<1>8. NonBlank(r) = IF t = Blank THEN NonBlank(s) ELSE Append(NonBlank(s), t)
    BY <1>3, <1>5, <1>6, <1>7
<1> QED BY <1>8 DEF r

\* The texts of the sections in order, headings first.
Chunks(ss) == [i \in DOMAIN ss |-> <<ss[i].heading>> \o ss[i].lines]
Story(s) == FlattenSeq(Chunks(Flush(s)))

LEMMA ChunksIs ==
    ASSUME NEW T, NEW ss \in Sections(T)
    PROVE  /\ Chunks(ss) \in Seq(Seq(T)) /\ Len(Chunks(ss)) = Len(ss) /\ Len(ss) \in Nat
           /\ \A i \in 1..Len(ss) : /\ ss[i].heading \in T /\ ss[i].lines \in Seq(T)
                                    /\ Chunks(ss)[i] = <<ss[i].heading>> \o ss[i].lines
<1> DEFINE Row == [level : 0..9, heading : T, parent : Int, lines : Seq(T)]
           n == Len(ss)
           U == Seq(T)
<1>1. ss \in Seq(Row)
    BY DEF Sections
<1>2. n \in Nat /\ DOMAIN ss = 1..n /\ \A i \in 1..n : ss[i] \in Row
    <2> HIDE DEF Row
    <2> QED BY <1>1
<1>3. \A i \in 1..n : ss[i].heading \in T /\ ss[i].lines \in U
    BY <1>2
<1>4. \A x \in T, y \in U : <<x>> \o y \in U
    OBVIOUS
<1>5. Chunks(ss) = [i \in 1..n |-> <<ss[i].heading>> \o ss[i].lines]
    BY <1>2 DEF Chunks
<1> HIDE DEF n, U, Row
<1>6. \A i \in 1..n : <<ss[i].heading>> \o ss[i].lines \in U
    BY <1>3, <1>4
<1>7. Chunks(ss) \in Seq(U) /\ Len(Chunks(ss)) = n
    <2> DEFINE F(i) == <<ss[i].heading>> \o ss[i].lines
    <2>1. \A i \in 1..n : F(i) \in U
        BY <1>6
    <2>2. Chunks(ss) = [i \in 1..n |-> F(i)]
        BY <1>5
    <2> HIDE DEF F
    <2> QED BY <1>2, <2>1, <2>2
<1>8. \A i \in 1..n : Chunks(ss)[i] = <<ss[i].heading>> \o ss[i].lines
    BY <1>5
<1> QED BY <1>2, <1>3, <1>7, <1>8 DEF n, U

\* One more text in the last list.
LEMMA LastGrows ==
    ASSUME NEW S, NEW cs \in Seq(Seq(S)), NEW ds \in Seq(Seq(S)), NEW t \in S,
           Len(cs) # 0, Len(ds) = Len(cs), ds[Len(cs)] = Append(cs[Len(cs)], t),
           \A i \in 1..Len(cs) : i # Len(cs) => ds[i] = cs[i]
    PROVE  FlattenSeq(ds) = Append(FlattenSeq(cs), t)
<1> DEFINE n == Len(cs)
           U == Seq(S)
           front == SubSeq(cs, 1, n - 1)
           c == cs[n]
<1>1. n \in Nat /\ n \in 1..n /\ cs \in Seq(U) /\ ds \in Seq(U)
    OBVIOUS
<1>2. c \in U /\ Append(c, t) \in U
    <2>1. c \in U
        <3> HIDE DEF U, n
        <3> QED BY <1>1, ElementOf DEF n
    <2> QED BY <2>1
<1>3. front \in Seq(U) /\ Len(front) = n - 1 /\ \A i \in 1..n - 1 : front[i] = cs[i]
    <2> HIDE DEF U
    <2> QED BY <1>1
<1>4. cs = Append(front, c)
    <2>1. Len(cs) = n /\ cs[n] = c
        OBVIOUS
    <2> HIDE DEF U, front, n, c
    <2> QED BY <1>1, <1>2, <1>3, <2>1
<1>5. ds = Append(front, Append(c, t))
    <2>1. Len(ds) = n /\ ds[n] = Append(c, t) /\ \A i \in 1..n - 1 : ds[i] = cs[i]
        BY <1>1
    <2> DEFINE e == Append(c, t)
    <2> HIDE DEF U, front, n, c, e
    <2>2. e \in U /\ ds[n] = e
        BY <1>2, <2>1 DEF e
    <2>3. ds = Append(front, e)
        BY <1>1, <1>3, <2>1, <2>2
    <2> QED BY <2>3 DEF e
<1> HIDE DEF front, c, n
<1>6. /\ FlattenSeq(front) \in U
      /\ FlattenSeq(Append(front, c)) = FlattenSeq(front) \o c
      /\ FlattenSeq(Append(front, Append(c, t))) = FlattenSeq(front) \o Append(c, t)
    BY <1>2, <1>3, FlattenAdds
<1>7. \A u \in U, v \in U : u \o Append(v, t) = Append(u \o v, t)
    BY AppendConcat
<1> HIDE DEF U
<1>8. FlattenSeq(front) \o Append(c, t) = Append(FlattenSeq(front) \o c, t)
    BY <1>2, <1>6, <1>7
<1> QED BY <1>4, <1>5, <1>6, <1>8


LEMMA StoryTyped ==
    ASSUME NEW T, NEW s \in ReadingStates(T)
    PROVE  Flush(s) \in Sections(T) /\ Chunks(Flush(s)) \in Seq(Seq(T)) /\ Story(s) \in Seq(T)
<1>1. Flush(s) \in Sections(T)
    BY FlushIs
<1>2. Chunks(Flush(s)) \in Seq(Seq(T))
    BY <1>1, ChunksIs
<1>3. FlattenSeq(Chunks(Flush(s))) \in Seq(T)
    <2>1. PICK g : Joined(g, Chunks(Flush(s))) /\ FlattenSeq(Chunks(Flush(s))) = g[Len(Chunks(Flush(s)))]
        BY <1>2, FlattenSteps
    <2>2. Len(Chunks(Flush(s))) \in 0..Len(Chunks(Flush(s)))
        <3> DEFINE U == Seq(T)
        <3>1. Chunks(Flush(s)) \in Seq(U)
            BY <1>2
        <3> HIDE DEF U
        <3> QED BY <3>1
    <2> HIDE DEF Chunks
    <2> QED BY <1>2, <2>1, <2>2, JoinedTyped
<1> QED BY <1>1, <1>2, <1>3 DEF Story

LEMMA StoryText ==
    ASSUME NEW T, Blank \in T, NEW s \in ReadingStates(T), s.sections # <<>>,
           NEW p \in [id : Nat, level : 0..9, text : T], IsText(p)
    PROVE  Story(ParseParagraph(s, p)) = Append(Story(s), p.text)
<1> DEFINE t == ParseParagraph(s, p)
           n == Len(s.sections)
           cs == Chunks(Flush(s))
           ds == Chunks(Flush(t))
<1>1. p.text \in T /\ s.body \in Seq(T) /\ n \in Nat /\ n # 0
    <2>1. s.sections \in Sections(T)
        BY DEF ReadingStates
    <2> DEFINE Row == [level : 0..9, heading : T, parent : Int, lines : Seq(T)]
    <2>2. s.sections \in Seq(Row)
        BY <2>1 DEF Sections
    <2>3. n \in Nat /\ n # 0
        <3> HIDE DEF Row
        <3> QED BY <2>2
    <2> QED BY <2>3 DEF ReadingStates
<1>2. t = [s EXCEPT !.body = Append(@, p.text)]
    BY DEF ParseParagraph, ParseBody, IsText
<1>3. t.sections = s.sections /\ t.body = Append(s.body, p.text)
    BY <1>2 DEF ReadingStates
<1>4. t \in ReadingStates(T)
    BY ParseTyped
<1> HIDE DEF t
<1>5. /\ Len(Flush(s)) = n /\ Len(Flush(t)) = n
      /\ \A i \in 1..n : Flush(t)[i].heading = Flush(s)[i].heading
      /\ \A i \in 1..n : i # n => Flush(t)[i].lines = Flush(s)[i].lines
      /\ Flush(s)[n].lines = s.body /\ Flush(t)[n].lines = Append(s.body, p.text)
    <2>1. n \in 1..n
        BY <1>1
    <2>2. /\ Len(Flush(s)) = n
          /\ \A i \in 1..n : /\ Flush(s)[i].heading = s.sections[i].heading
                             /\ Flush(s)[i].lines = IF i = n THEN s.body ELSE s.sections[i].lines
        BY FlushIs
    <2>3. /\ Len(Flush(t)) = n
          /\ \A i \in 1..n : /\ Flush(t)[i].heading = s.sections[i].heading
                             /\ Flush(t)[i].lines = IF i = n THEN Append(s.body, p.text) ELSE s.sections[i].lines
        <3>1. /\ Len(Flush(t)) = Len(t.sections)
              /\ \A i \in 1..Len(t.sections) :
                    /\ Flush(t)[i].heading = t.sections[i].heading
                    /\ Flush(t)[i].lines = IF i = Len(t.sections) THEN t.body ELSE t.sections[i].lines
            BY <1>4, FlushIs
        <3> QED BY <1>3, <3>1
    <2> HIDE DEF n
    <2> QED BY <2>1, <2>2, <2>3
<1>6. cs \in Seq(Seq(T)) /\ ds \in Seq(Seq(T)) /\ Flush(s) \in Sections(T) /\ Flush(t) \in Sections(T)
    BY <1>4, StoryTyped
<1>7. /\ Len(cs) = n
      /\ \A i \in 1..n : /\ Flush(s)[i].heading \in T
                         /\ cs[i] = <<Flush(s)[i].heading>> \o Flush(s)[i].lines
    BY <1>5, <1>6, ChunksIs
<1>8. /\ Len(ds) = n
      /\ \A i \in 1..n : ds[i] = <<Flush(t)[i].heading>> \o Flush(t)[i].lines
    BY <1>5, <1>6, ChunksIs
<1> HIDE DEF cs, ds, n
<1>9. \A x \in T, y \in Seq(T) : <<x>> \o Append(y, p.text) = Append(<<x>> \o y, p.text)
    <2> SUFFICES ASSUME NEW x \in T, NEW y \in Seq(T)
                 PROVE  <<x>> \o Append(y, p.text) = Append(<<x>> \o y, p.text)
        OBVIOUS
    <2>1. <<x>> \in Seq(T)
        OBVIOUS
    <2> QED BY <1>1, <2>1, AppendConcat
<1>10. n \in 1..n
    BY <1>1
<1>11. ds[n] = Append(cs[n], p.text)
    <2>1. ds[n] = <<Flush(s)[n].heading>> \o Append(s.body, p.text)
        BY <1>5, <1>8, <1>10
    <2>2. cs[n] = <<Flush(s)[n].heading>> \o s.body /\ Flush(s)[n].heading \in T
        BY <1>5, <1>7, <1>10
    <2> QED BY <1>1, <1>9, <2>1, <2>2
<1>12. \A i \in 1..n : i # n => ds[i] = cs[i]
    BY <1>5, <1>7, <1>8
<1>13. FlattenSeq(ds) = Append(FlattenSeq(cs), p.text)
    <2>1. /\ Len(cs) # 0 /\ Len(ds) = Len(cs) /\ ds[Len(cs)] = Append(cs[Len(cs)], p.text)
          /\ \A i \in 1..Len(cs) : i # Len(cs) => ds[i] = cs[i]
        BY <1>1, <1>7, <1>8, <1>11, <1>12
    <2> QED BY <1>1, <1>6, <2>1, LastGrows
<1> QED BY <1>13 DEF cs, ds, Story, t

LEMMA StoryHeading ==
    ASSUME NEW T, Blank \in T, NEW s \in ReadingStates(T),
           NEW p \in [id : Nat, level : 0..9, text : T], IsHeading(p)
    PROVE  Story(ParseParagraph(s, p)) = Append(Story(s), p.text)
<1> DEFINE t == ParseParagraph(s, p)
           n == Len(Flush(s))
           cs == Chunks(Flush(s))
           ds == Chunks(Flush(t))
           open == Popped(s.ancestors, p.level)
           new == Section(p.level, p.text, IF open = <<>> THEN None ELSE Last(open).order)
<1>1. p.text \in T /\ t \in ReadingStates(T)
    BY ParseTyped
<1>2. t.sections = Append(Flush(s), new) /\ t.body = <<>>
    <2>1. t = [sections  |-> Append(Flush(s), new),
               ancestors |-> Append(open, [level |-> p.level, order |-> Len(s.sections)]),
               body      |-> <<>>]
        BY DEF ParseParagraph, ParseHeading, IsHeading
    <2> HIDE DEF t, new, open
    <2> QED BY <2>1
<1>3. new.heading = p.text
    BY DEF Section
<1> HIDE DEF t, new, open
<1>4. cs \in Seq(Seq(T)) /\ ds \in Seq(Seq(T)) /\ Flush(s) \in Sections(T) /\ Flush(t) \in Sections(T)
    BY <1>1, StoryTyped
<1>5. n \in Nat /\ Len(t.sections) = n + 1 /\ t.sections[n + 1] = new
      /\ \A i \in 1..n : t.sections[i] = Flush(s)[i]
    <2> DEFINE Row == [level : 0..9, heading : T, parent : Int, lines : Seq(T)]
    <2>1. Flush(s) \in Seq(Row)
        BY <1>4 DEF Sections
    <2> HIDE DEF Row
    <2> QED BY <1>2, <2>1
<1>6. /\ Len(Flush(t)) = n + 1
      /\ \A i \in 1..n + 1 : /\ Flush(t)[i].heading = t.sections[i].heading
                             /\ Flush(t)[i].lines = IF i = n + 1 THEN <<>> ELSE t.sections[i].lines
    <2> HIDE DEF n
    <2> QED BY <1>1, <1>2, <1>5, FlushIs
<1>7. /\ Len(cs) = n
      /\ \A i \in 1..n : cs[i] = <<Flush(s)[i].heading>> \o Flush(s)[i].lines
    BY <1>4, ChunksIs
<1>8. /\ Len(ds) = n + 1
      /\ \A i \in 1..n + 1 : ds[i] = <<Flush(t)[i].heading>> \o Flush(t)[i].lines
    BY <1>4, <1>6, ChunksIs
<1> HIDE DEF cs, ds, n
<1>9. \A i \in 1..n : ds[i] = cs[i]
    <2> SUFFICES ASSUME NEW i \in 1..n PROVE ds[i] = cs[i]
        OBVIOUS
    <2>1. i \in 1..n + 1 /\ i # n + 1
        BY <1>5
    <2>2. Flush(t)[i].heading = Flush(s)[i].heading /\ Flush(t)[i].lines = Flush(s)[i].lines
        BY <1>5, <1>6, <2>1
    <2>3. ds[i] = <<Flush(t)[i].heading>> \o Flush(t)[i].lines
        BY <1>8, <2>1
    <2>4. cs[i] = <<Flush(s)[i].heading>> \o Flush(s)[i].lines
        BY <1>7
    <2> QED BY <2>2, <2>3, <2>4
<1>10. n + 1 \in 1..n + 1 /\ <<p.text>> \o <<>> = <<p.text>> /\ <<p.text>> \in Seq(T)
    BY <1>1, <1>5
<1>11. ds[n + 1] = <<p.text>>
    BY <1>3, <1>5, <1>6, <1>8, <1>10
<1>12. ds = Append(cs, <<p.text>>)
    <2> DEFINE U == Seq(T)
               c == <<p.text>>
    <2>1. cs \in Seq(U) /\ ds \in Seq(U) /\ c \in U /\ ds[n + 1] = c
        BY <1>4, <1>10, <1>11
    <2> HIDE DEF U, c
    <2>2. ds = Append(cs, c)
        BY <1>5, <1>7, <1>8, <1>9, <2>1
    <2> QED BY <2>2 DEF c
<1>13. FlattenSeq(ds) = FlattenSeq(cs) \o <<p.text>> /\ FlattenSeq(cs) \in Seq(T)
    BY <1>4, <1>10, <1>12, FlattenAdds
<1>14. \A u \in Seq(T) : u \o <<p.text>> = Append(u, p.text)
    BY <1>1, ConcatOne
<1>15. FlattenSeq(ds) = Append(FlattenSeq(cs), p.text)
    BY <1>13, <1>14
<1> QED BY <1>15 DEF cs, ds, Story, t

\* The first text also gets an empty heading to stand under.
LEMMA StoryPreamble ==
    ASSUME NEW T, Blank \in T, NEW s \in ReadingStates(T), s.sections = <<>>,
           NEW p \in [id : Nat, level : 0..9, text : T], IsText(p)
    PROVE  Story(s) = <<>> /\ Story(ParseParagraph(s, p)) = <<Blank, p.text>>
<1> DEFINE t == ParseParagraph(s, p)
           new == Section(0, Blank, None)
           c == <<Blank, p.text>>
<1>1. Flush(s) = <<>> /\ Chunks(Flush(s)) = <<>>
    BY DEF Flush, Chunks
<1>2. \A q : Len(q) = 0 => FlattenSeq(q) = q
    BY DEF FlattenSeq
<1>3. Story(s) = <<>>
    BY <1>1, <1>2 DEF Story
<1>4. p.text \in T /\ t \in ReadingStates(T)
    BY ParseTyped
<1>5. t.sections = <<new>> /\ t.body = <<p.text>>
    <2>1. t = [s EXCEPT !.sections = <<new>>, !.body = <<p.text>>]
        BY DEF ParseParagraph, ParseBody, IsText
    <2> HIDE DEF t, new
    <2> QED BY <2>1 DEF ReadingStates
<1>6. new.heading = Blank
    BY DEF Section
<1> HIDE DEF t, new
<1>7. Len(Flush(t)) = 1 /\ Flush(t)[1].heading = Blank /\ Flush(t)[1].lines = <<p.text>>
    <2>1. Len(t.sections) = 1 /\ t.sections[1] = new /\ 1 \in 1..1
        BY <1>5
    <2> QED BY <1>4, <1>5, <1>6, <2>1, FlushIs
<1>8. /\ Chunks(Flush(t)) \in Seq(Seq(T)) /\ Len(Chunks(Flush(t))) = 1
      /\ Chunks(Flush(t))[1] = <<Blank>> \o <<p.text>>
    <2>1. 1 \in 1..1 /\ Flush(t) \in Sections(T)
        BY <1>4, StoryTyped
    <2>2. /\ Chunks(Flush(t)) \in Seq(Seq(T)) /\ Len(Chunks(Flush(t))) = Len(Flush(t))
          /\ \A i \in 1..Len(Flush(t)) :
                Chunks(Flush(t))[i] = <<Flush(t)[i].heading>> \o Flush(t)[i].lines
        BY <2>1, ChunksIs
    <2>3. Chunks(Flush(t))[1] = <<Flush(t)[1].heading>> \o Flush(t)[1].lines
        BY <1>7, <2>1, <2>2
    <2>4. Len(Chunks(Flush(t))) = 1
        BY <1>7, <2>2
    <2>5. Chunks(Flush(t))[1] = <<Blank>> \o <<p.text>>
        BY <1>7, <2>3, Zenon
    <2> QED BY <2>2, <2>4, <2>5, Zenon
<1>9. <<Blank>> \o <<p.text>> = c /\ c \in Seq(T)
    <2>1. \A u \in Seq(T) : u \o <<p.text>> = Append(u, p.text)
        BY <1>4, ConcatOne
    <2>2. <<Blank>> \in Seq(T)
        OBVIOUS
    <2>3. Append(<<Blank>>, p.text) \in Seq(T)
        BY <1>4, <2>2
    <2>4. Append(<<Blank>>, p.text) = <<Blank, p.text>>
        <3>1. <<Blank, p.text>> = Append(Append(<<>>, Blank), p.text)
            BY <1>4
        <3>2. Append(<<>>, Blank) = <<Blank>>
            OBVIOUS
        <3> QED BY <3>1, <3>2
    <2>5. c = Append(<<Blank>>, p.text)
        BY <2>4
    <2> HIDE DEF c
    <2> QED BY <2>1, <2>2, <2>3, <2>5
<1>10. <<>> \in Seq(Seq(T)) /\ FlattenSeq(<<>>) = <<>>
    BY <1>2
<1>11. Chunks(Flush(t)) = Append(<<>>, c)
    <2> DEFINE U == Seq(T)
    <2>1. Chunks(Flush(t)) \in Seq(U) /\ Chunks(Flush(t))[1] = c /\ c \in U
        BY <1>8, <1>9
    <2> HIDE DEF U, c, Chunks
    <2> QED BY <1>8, <2>1
<1>12. FlattenSeq(Append(<<>>, c)) = <<>> \o c
    <2> HIDE DEF c
    <2> QED BY <1>9, <1>10, FlattenAdds
<1>13. <<>> \o c = c
    <2> HIDE DEF c
    <2> QED BY <1>9
<1> HIDE DEF c
<1>14. Story(t) = c
    BY <1>11, <1>12, <1>13 DEF Story
<1> QED BY <1>3, <1>14 DEF t, c

\* A paragraph adds its text to the story, unless it is blank.
LEMMA StoryStep ==
    ASSUME NEW T, Blank \in T, NEW s \in ReadingStates(T),
           NEW p \in [id : Nat, level : 0..9, text : T]
    PROVE  NonBlank(Story(ParseParagraph(s, p))) =
               IF p.text = Blank THEN NonBlank(Story(s)) ELSE Append(NonBlank(Story(s)), p.text)
<1> DEFINE t == ParseParagraph(s, p)
<1>1. p.text \in T /\ Story(s) \in Seq(T)
    BY StoryTyped
<1>2. CASE p.text = Blank
    <2>1. t = s
        BY <1>2 DEF ParseParagraph, ParseBody, ParseHeading
    <2> HIDE DEF t
    <2> QED BY <1>2, <2>1 DEF t
<1>3. CASE p.text # Blank /\ ~ (IsText(p) /\ s.sections = <<>>)
    <2>1. IsText(p) \/ IsHeading(p)
        BY <1>3 DEF IsText, IsHeading
    <2>2. Story(t) = Append(Story(s), p.text)
        BY <1>3, <2>1, StoryText, StoryHeading
    <2> HIDE DEF t
    <2>3. NonBlank(Append(Story(s), p.text)) = Append(NonBlank(Story(s)), p.text)
        BY <1>1, <1>3, NonBlankAdds
    <2> QED BY <1>3, <2>2, <2>3 DEF t
<1>4. CASE p.text # Blank /\ IsText(p) /\ s.sections = <<>>
    <2>1. Story(s) = <<>> /\ Story(t) = <<Blank, p.text>>
        BY <1>4, StoryPreamble
    <2> HIDE DEF t
    <2>2. <<Blank, p.text>> = Append(Append(<<>>, Blank), p.text) /\ <<>> \in Seq(T) /\ Append(<<>>, Blank) \in Seq(T)
        BY <1>1
    <2>3. NonBlank(Append(Append(<<>>, Blank), p.text)) = Append(NonBlank(Append(<<>>, Blank)), p.text)
        BY <1>1, <1>4, <2>2, NonBlankAdds
    <2>4. NonBlank(Append(<<>>, Blank)) = NonBlank(<<>>)
        BY <2>2, NonBlankAdds
    <2> QED BY <1>4, <2>1, <2>2, <2>3, <2>4 DEF t
<1> QED BY <1>2, <1>3, <1>4

\* What the parser has read so far tells the same story as the paragraphs.
LEMMA ReadingStory ==
    ASSUME NEW T, Blank \in T, NEW paras \in Paragraphs(T)
    PROVE  NonBlank(Story(Reading(paras)[Len(paras)])) = NonBlank(TextsOf(paras))
<1> DEFINE n == Len(paras)
           x == TextsOf(paras)
           Until(k) == {i \in 1..k : x[i] # Blank}
           Told(k) == NonBlank(Story(Reading(paras)[k])) = Kept(x, Until(k))
           P == {k \in Nat : k <= n => Told(k)}
<1>1. /\ n \in Nat /\ x \in Seq(T) /\ Len(x) = n /\ DOMAIN x = 1..n
      /\ \A k \in 1..n : x[k] = paras[k].text
    <2>1. n \in Nat
        BY DEF Paragraphs
    <2>2. DOMAIN x = 1..Len(x)
        BY TextsList
    <2> QED BY <2>1, <2>2, TextsList
<1> HIDE DEF x
<1>2. 0 \in P
    <2>1. Story(Reading(paras)[0]) = <<>>
        <3>1. Reading(paras)[0].sections = <<>>
            BY ReadingSteps
        <3>2. Flush(Reading(paras)[0]) = <<>>
            BY <3>1 DEF Flush
        <3>3. Chunks(<<>>) = <<>>
            BY DEF Chunks
        <3>4. Len(<<>>) = 0
            OBVIOUS
        <3>5. \A q : Len(q) = 0 => FlattenSeq(q) = q
            BY DEF FlattenSeq
        <3> QED BY <3>2, <3>3, <3>4, <3>5 DEF Story
    <2>2. NonBlank(<<>>) = <<>>
        <3>1. {i \in DOMAIN <<>> : <<>>[i] # Blank} = {} /\ <<>> \in Seq(T)
            OBVIOUS
        <3> QED BY <3>1, KeptNone DEF NonBlank, Select
    <2>3. Kept(x, Until(0)) = <<>>
        <3>1. Until(0) = {}
            OBVIOUS
        <3> QED BY <1>1, <3>1, KeptNone
    <2>4. Told(0)
        BY <2>1, <2>2, <2>3
    <2> HIDE DEF Told
    <2> QED BY <2>4
<1>3. ASSUME NEW k \in Nat, k \in P PROVE k + 1 \in P
    <2> SUFFICES ASSUME k + 1 <= n PROVE Told(k + 1)
        OBVIOUS
    <2>1. Told(k) /\ k + 1 \in 1..n /\ k \in 0..n /\ k + 1 - 1 = k
        <3> HIDE DEF Told
        <3> QED BY <1>1, <1>3
    <2> DEFINE s == Reading(paras)[k]
               t == Reading(paras)[k + 1]
               p == paras[k + 1]
    <2>2. t = ParseParagraph(s, p)
        BY <2>1, ReadingSteps
    <2>3. s \in ReadingStates(T) /\ p \in [id : Nat, level : 0..9, text : T]
        BY <2>1, ReadingTyped, ParagraphFields
    <2> HIDE DEF s, t, p
    <2>4. NonBlank(Story(t)) = IF p.text = Blank THEN NonBlank(Story(s)) ELSE Append(NonBlank(Story(s)), p.text)
        BY <2>2, <2>3, StoryStep
    <2>5. NonBlank(Story(s)) = Kept(x, Until(k))
        BY <2>1 DEF s
    <2>6. x[k + 1] = p.text
        BY <1>1, <2>1 DEF p
    <2>7. Until(k + 1) = IF p.text = Blank THEN Until(k) ELSE Until(k) \cup {k + 1}
        <3>1. 1..k + 1 = 1..k \cup {k + 1}
            OBVIOUS
        <3> QED BY <2>6, <3>1
    <2>8. Kept(x, Until(k) \cup {k + 1}) = Append(Kept(x, Until(k)), p.text)
        <3>1. Until(k) \in SUBSET (1..(k + 1) - 1) /\ k + 1 \in 1..Len(x)
            BY <1>1, <2>1
        <3> HIDE DEF At
        <3>2. Kept(x, Until(k) \cup {k + 1}) = Append(Kept(x, Until(k)), x[k + 1])
            BY <1>1, <3>1, KeptAdds
        <3> QED BY <2>6, <3>2
    <2> HIDE DEF At
    <2>9. NonBlank(Story(t)) = Kept(x, Until(k + 1))
        BY <2>4, <2>5, <2>7, <2>8
    <2> QED BY <2>9 DEF t
<1>4. n \in P
    <2> HIDE DEF P, n
    <2> QED BY <1>1, <1>2, <1>3, Induction
<1>5. NonBlank(Story(Reading(paras)[n])) = Kept(x, Until(n))
    <2>1. Told(n)
        <3> HIDE DEF Told, n
        <3> QED BY <1>1, <1>4
    <2> QED BY <2>1
<1>6. NonBlank(x) = Kept(x, Until(n))
    BY <1>1 DEF NonBlank, Select
<1> QED BY <1>5, <1>6 DEF x

\* No text of the document is lost or moved on its way into the sections: read in
\* order they are the document without its blank paragraphs (parser.py 73-124).
THEOREM NothingLostHolds == Spec => []NothingLost
<1>1. DocInv /\ DocxInv => NothingLost
    <2> SUFFICES ASSUME DocInv, DocxInv, phase \in {"parsed", "export", "exported"}
                 PROVE  NonBlank(FlattenSeq(Chunks(sections))) = NonBlank(TextsOf(doc))
        BY DEF NothingLost, Chunks
    <2>1. doc \in Paragraphs(Wording) /\ Blank \in Wording
        BY WordingHas DEF DocInv
    <2>2. sections = Flush(Reading(doc)[Len(doc)])
        BY DEF DocxInv, Stored, Parsed
    <2>3. FlattenSeq(Chunks(sections)) = Story(Reading(doc)[Len(doc)])
        BY <2>2 DEF Story
    <2> QED BY <2>1, <2>3, ReadingStory
<1> QED BY <1>1, DocxInvHolds, PTL
=============================================================================
