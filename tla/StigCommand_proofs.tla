------------------------- MODULE StigCommand_proofs -------------------------
(* What the comparison of two scan sets promises, for every scan set:        *)
(* lemmas about lists, about the two-pass match, about the tags and the       *)
(* coverage they are read against, and the theorems of StigCommand.           *)
EXTENDS StigCommand, FiniteSetTheorems, SequenceTheorems, WellFoundedInduction, TLAPS

---------------------------------------------------------------------------
(* Induction and recursion over the naturals, about sets and functions       *)

\* A non-empty set of naturals has a least element.
LEMMA LeastNat ==
    ASSUME NEW T \in SUBSET Nat, T # {}
    PROVE  \E n \in T : \A m \in T : n <= m
<1>1. OpToRel(<, Nat) = {p \in Nat \X Nat : p[1] < p[2]}
    BY Zenon DEF OpToRel
<1>2. IsWellFoundedOn({p \in Nat \X Nat : p[1] < p[2]}, Nat)
    BY <1>1, NatLessThanWellFounded
<1>3. PICK n \in T : \A m \in T : ~ (<<m, n>> \in {p \in Nat \X Nat : p[1] < p[2]})
    BY <1>2, WFMin
<1>4. ASSUME NEW m \in T PROVE n <= m
    <2>1. m \in Nat /\ n \in Nat /\ ~ (m < n)
        BY <1>3
    <2> QED BY <2>1
<1> QED BY <1>4

\* Induction: a set that holds 0 and with a natural its successor holds them all.
LEMMA Induction ==
    ASSUME NEW P, 0 \in P, \A n \in Nat : n \in P => n + 1 \in P
    PROVE  Nat \subseteq P
<1> SUFFICES ASSUME Nat \ P # {} PROVE FALSE
    OBVIOUS
<1>1. PICK n \in Nat \ P : \A m \in Nat \ P : n <= m
    BY LeastNat
<1>2. n # 0 /\ n - 1 \in Nat
    BY <1>1
<1>3. n - 1 \in P
    BY <1>1, <1>2
<1> QED BY <1>1, <1>2, <1>3

\* Recursion: g is what n steps of a function on T lead to.
Steps(T, n) == [1..n -> [T -> T]]
Recursive(g, T, base, n, step) ==
    g \in [0..n -> T] /\ g[0] = base /\ \A i \in 1..n : g[i] = step[i][g[i - 1]]

LEMMA Recursion ==
    ASSUME NEW T, NEW base \in T, NEW n \in Nat, NEW step \in Steps(T, n)
    PROVE  \E g : Recursive(g, T, base, n, step)
<1> USE DEF Steps
<1> DEFINE Reached(m) == \E g \in [0..m -> T] :
               g[0] = base /\ \A i \in 1..m : g[i] = step[i][g[i - 1]]
           P == {m \in Nat : m <= n => Reached(m)}
<1>1. 0 \in P
    <2> DEFINE g == [i \in 0..0 |-> base]
    <2>1. g \in [0..0 -> T] /\ g[0] = base
        OBVIOUS
    <2> HIDE DEF g
    <2>2. Reached(0)
        BY <2>1
    <2> HIDE DEF Reached
    <2> QED BY <2>2
<1>2. ASSUME NEW m \in Nat, m \in P PROVE m + 1 \in P
    <2> SUFFICES ASSUME m + 1 <= n PROVE Reached(m + 1)
        OBVIOUS
    <2>1. PICK g \in [0..m -> T] : g[0] = base /\ \A i \in 1..m : g[i] = step[i][g[i - 1]]
        BY <1>2
    <2> DEFINE h == [i \in 0..m + 1 |-> IF i = m + 1 THEN step[m + 1][g[m]] ELSE g[i]]
    <2>2. g[m] \in T /\ m + 1 \in 1..n
        OBVIOUS
    <2>3. h \in [0..m + 1 -> T]
        BY <2>2
    <2>4. h[0] = base
        BY <2>1
    <2>5. ASSUME NEW i \in 1..m + 1 PROVE h[i] = step[i][h[i - 1]]
        <3>1. CASE i = m + 1
            <4>1. m \in 0..m + 1 /\ m # m + 1 /\ i - 1 = m
                BY <3>1
            <4>2. h[i] = step[i][g[m]] /\ h[i - 1] = g[m]
                BY <3>1, <4>1
            <4> QED BY <4>2
        <3>2. CASE i # m + 1
            <4>1. i \in 1..m /\ i - 1 \in 0..m /\ i - 1 # m + 1
                BY <3>2
            <4>2. h[i] = g[i] /\ h[i - 1] = g[i - 1]
                BY <3>2, <4>1
            <4> QED BY <2>1, <4>1, <4>2
        <3> QED BY <3>1, <3>2
    <2> HIDE DEF h
    <2> QED BY <2>3, <2>4, <2>5
<1>3. n \in P
    BY <1>1, <1>2, Induction
<1> QED BY <1>3 DEF Recursive

---------------------------------------------------------------------------
(* Selections and concatenations                                             *)

\* A selection is a list of elements at the selected positions.
LEMMA KeptElements ==
    ASSUME NEW S, NEW s \in Seq(S), NEW at
    PROVE  Kept(s, at) \in Seq({s[i] : i \in at \cap DOMAIN s})
<1> DEFINE T == Seq({s[i] : i \in at \cap DOMAIN s})
           More(i, t) == IF i \in at THEN Append(t, s[i]) ELSE t
           step == [i \in 1..Len(s) |-> [t \in T |-> More(i, t)]]
           Rec(g) == [i \in 0..Len(s) |-> IF i = 0 THEN <<>>
                           ELSE IF i \in at THEN Append(g[i - 1], s[i]) ELSE g[i - 1]]
<1>1. Len(s) \in Nat /\ DOMAIN s = 1..Len(s)
    OBVIOUS
<1>2. <<>> \in T
    OBVIOUS
<1>3. ASSUME NEW i \in 1..Len(s), NEW t \in T PROVE More(i, t) \in T
    <2>1. CASE i \in at
        <3>1. s[i] \in {s[j] : j \in at \cap DOMAIN s}
            BY <1>1, <2>1
        <3> QED BY <2>1, <3>1, AppendProperties
    <2>2. CASE i \notin at
        BY <2>2
    <2> QED BY <2>1, <2>2
<1>4. step \in Steps(T, Len(s))
    BY <1>3 DEF Steps
<1>5. PICK g : Recursive(g, T, <<>>, Len(s), step)
    <2> HIDE DEF step, T
    <2> QED BY <1>1, <1>2, <1>4, Recursion
<1>5a. g \in [0..Len(s) -> T] /\ g[0] = <<>> /\ \A i \in 1..Len(s) : g[i] = step[i][g[i - 1]]
    BY <1>5 DEF Recursive
<1>6. ASSUME NEW i \in 1..Len(s), NEW t \in T PROVE step[i][t] = More(i, t)
    OBVIOUS
<1>7. g = Rec(g)
    <2>1. ASSUME NEW i \in 1..Len(s) PROVE g[i - 1] \in T
        <3> HIDE DEF T
        <3> QED BY <1>1, <1>5a
    <2>2. ASSUME NEW i \in 1..Len(s) PROVE g[i] = More(i, g[i - 1])
        <3> HIDE DEF step, T, More
        <3> QED BY <1>5a, <1>6, <2>1
    <2>3. ASSUME NEW i \in 0..Len(s)
          PROVE  g[i] = IF i = 0 THEN <<>>
                        ELSE IF i \in at THEN Append(g[i - 1], s[i]) ELSE g[i - 1]
        <3> HIDE DEF step, T
        <3>1. CASE i = 0
            BY <3>1, <1>5a
        <3>2. CASE i # 0
            <4>1. i \in 1..Len(s)
                BY <3>2, <1>1
            <4> QED BY <3>2, <4>1, <2>2
        <3> QED BY <3>1, <3>2
    <2> HIDE DEF step, T
    <2> QED BY <2>3, <1>5a
<1> DEFINE kept == CHOOSE h : h = Rec(h)
<1>8. kept = Rec(kept)
    <2> HIDE DEF Rec
    <2> QED BY <1>7
<1>8a. \A i \in 0..Len(s) : kept[i] = IF i = 0 THEN <<>>
                           ELSE IF i \in at THEN Append(kept[i - 1], s[i]) ELSE kept[i - 1]
    <2> HIDE DEF kept
    <2> QED BY <1>8, Zenon
<1>9. Kept(s, at) = kept[Len(s)]
    BY DEF Kept
<1> HIDE DEF kept
<1> DEFINE P == {n \in Nat : n <= Len(s) => kept[n] \in T}
<1>10. 0 \in P
    <2>1. kept[0] = <<>>
        BY <1>1, <1>8a
    <2> HIDE DEF T
    <2> QED BY <2>1, <1>2
<1>11. ASSUME NEW n \in Nat, n \in P PROVE n + 1 \in P
    <2> SUFFICES ASSUME n + 1 <= Len(s) PROVE kept[n + 1] \in T
        OBVIOUS
    <2>1. kept[n] \in T /\ n + 1 \in 1..Len(s)
        BY <1>11, <1>1
    <2>2. kept[n + 1] = More(n + 1, kept[n])
        BY <1>1, <1>8a, <2>1
    <2> HIDE DEF T, More
    <2> QED BY <1>3, <2>1, <2>2
<1>12. Len(s) \in P
    <2> HIDE DEF P
    <2> QED BY <1>1, <1>10, <1>11, Induction
<1> QED BY <1>9, <1>12, <1>1

\* The concatenation of lists over S is a list over S.
LEMMA FlattenElements ==
    ASSUME NEW S, NEW ss \in Seq(Seq(S))
    PROVE  FlattenSeq(ss) \in Seq(S)
<1>1. Len(ss) \in Nat /\ DOMAIN ss = 1..Len(ss) /\ \A i \in 1..Len(ss) : ss[i] \in Seq(S)
    OBVIOUS
<1>2. CASE Len(ss) = 0
    BY <1>2 DEF FlattenSeq
<1>3. CASE Len(ss) # 0
    <2> DEFINE T == Seq(S)
               step == [i \in 1..Len(ss) |-> [t \in T |-> t \o ss[i]]]
               Rec(g) == [i \in 1..Len(ss) |-> IF i = 1 THEN ss[i] ELSE g[i - 1] \o ss[i]]
    <2>1. step \in Steps(T, Len(ss)) /\ <<>> \in T
        BY <1>1 DEF Steps
    <2>2. PICK g : Recursive(g, T, <<>>, Len(ss), step)
        <3> HIDE DEF step, T
        <3> QED BY <1>1, <2>1, Recursion
    <2>3. /\ g \in [0..Len(ss) -> T]
          /\ g[0] = <<>>
          /\ \A i \in 1..Len(ss) : g[i] = step[i][g[i - 1]]
        BY <2>2 DEF Recursive
    <2> DEFINE f == [i \in 1..Len(ss) |-> g[i]]
    <2>4. ASSUME NEW i \in 1..Len(ss)
          PROVE  f[i] = IF i = 1 THEN ss[i] ELSE f[i - 1] \o ss[i]
        <3>1. g[i - 1] \in T
            <4> HIDE DEF T, step
            <4>1. i - 1 \in 0..Len(ss)
                BY <1>1
            <4> QED BY <4>1, <2>3
        <3>2. g[i] = g[i - 1] \o ss[i]
            BY <3>1, <2>3
        <3>3. CASE i = 1
            BY <1>1, <2>3, <3>2, <3>3
        <3>4. CASE i # 1
            <4>1. i - 1 \in 1..Len(ss)
                BY <1>1, <3>4
            <4> QED BY <3>2, <3>4, <4>1
        <3> QED BY <3>3, <3>4
    <2>5. f = Rec(f)
        <3>1. f = [i \in 1..Len(ss) |-> f[i]]
            OBVIOUS
        <3> HIDE DEF f
        <3> QED BY <2>4, <3>1
    <2> DEFINE flatten == CHOOSE h : h = Rec(h)
    <2>6. flatten = Rec(flatten)
        <3> HIDE DEF Rec, f
        <3> QED BY <2>5
    <2>7. FlattenSeq(ss) = flatten[Len(ss)]
        BY <1>3 DEF FlattenSeq
    <2>8. \A i \in 1..Len(ss) : flatten[i] = IF i = 1 THEN ss[i] ELSE flatten[i - 1] \o ss[i]
        <3> HIDE DEF flatten
        <3> QED BY <2>6, Zenon
    <2> HIDE DEF flatten
    <2> DEFINE P == {n \in Nat : n + 1 <= Len(ss) => flatten[n + 1] \in T}
    <2>9. 0 \in P
        BY <1>1, <1>3, <2>8
    <2>10. ASSUME NEW n \in Nat, n \in P PROVE n + 1 \in P
        <3> SUFFICES ASSUME (n + 1) + 1 <= Len(ss) PROVE flatten[(n + 1) + 1] \in T
            OBVIOUS
        <3>1. flatten[n + 1] \in T /\ (n + 1) + 1 \in 1..Len(ss)
            BY <2>10, <1>1
        <3>2. flatten[(n + 1) + 1] = flatten[n + 1] \o ss[(n + 1) + 1]
            <4>1. (n + 1) + 1 # 1 /\ ((n + 1) + 1) - 1 = n + 1
                OBVIOUS
            <4> HIDE DEF T
            <4> QED BY <2>8, <3>1, <4>1
        <3> QED BY <1>1, <3>1, <3>2, ConcatProperties
    <2>11. Len(ss) - 1 \in P
        <3> HIDE DEF P
        <3>1. Len(ss) - 1 \in Nat
            BY <1>1, <1>3
        <3> QED BY <2>9, <2>10, <3>1, Induction
    <2> QED BY <2>7, <2>11, <1>1, <1>3
<1> QED BY <1>2, <1>3

---------------------------------------------------------------------------
(* The match.  A pass sees its lists through the keys of their positions; k   *)
(* is the function that gives each position its key.                          *)

Repeated(k, at) == {i \in at : k[i] # NoKey /\ \E j \in at : j < i /\ k[j] = k[i]}
First(k, at) == {i \in at : k[i] # NoKey} \ Repeated(k, at)
Paired(kb, atB, kc, atC) == {p \in First(kb, atB) \X First(kc, atC) : kb[p[1]] = kc[p[2]]}
Rest(k, at, matched) == (at \ matched) \ Repeated(k, at)

KeyPass(kb, atB, kc, atC) ==
    LET P == Paired(kb, atB, kc, atC)
    IN  [pairs |-> P,
         base |-> Rest(kb, atB, {p[1] : p \in P}),
         curr |-> Rest(kc, atC, {p[2] : p \in P}),
         dropped |-> [base |-> Repeated(kb, atB), curr |-> Repeated(kc, atC)]]

VulnKeys(s) == [i \in DOMAIN s |-> VulnKey(s[i])]
RuleKeys(s) == [i \in DOMAIN s |-> RuleKey(s[i])]

\* A pass on vuln ids is a pass on their keys.
LEMMA PassIsKeyPassVuln ==
    ASSUME NEW base, NEW atB, atB \subseteq DOMAIN base,
           NEW curr, NEW atC, atC \subseteq DOMAIN curr
    PROVE  Pass(base, atB, curr, atC, Pairs(base, atB, curr, atC, VulnKey), VulnKey)
             = KeyPass(VulnKeys(base), atB, VulnKeys(curr), atC)
<1> DEFINE P == Paired(VulnKeys(base), atB, VulnKeys(curr), atC)
<1>1. \A i \in atB : VulnKeys(base)[i] = VulnKey(base[i])
    BY DEF VulnKeys
<1>2. \A i \in atC : VulnKeys(curr)[i] = VulnKey(curr[i])
    BY DEF VulnKeys
<1>3. /\ Dropped(base, atB, VulnKey) = Repeated(VulnKeys(base), atB)
      /\ Dropped(curr, atC, VulnKey) = Repeated(VulnKeys(curr), atC)
    BY <1>1, <1>2 DEF Dropped, Repeated
<1>4. /\ Indexed(base, atB, VulnKey) = First(VulnKeys(base), atB)
      /\ Indexed(curr, atC, VulnKey) = First(VulnKeys(curr), atC)
    BY <1>1, <1>2, <1>3 DEF Indexed, First
<1>5. First(VulnKeys(base), atB) \subseteq atB /\ First(VulnKeys(curr), atC) \subseteq atC
    BY DEF First
<1>6. Pairs(base, atB, curr, atC, VulnKey) = P
    BY <1>1, <1>2, <1>4, <1>5 DEF Pairs, Paired
<1> HIDE DEF P
<1>7. /\ LeftOver(base, atB, {p[1] : p \in P}, VulnKey) = Rest(VulnKeys(base), atB, {p[1] : p \in P})
      /\ LeftOver(curr, atC, {p[2] : p \in P}, VulnKey) = Rest(VulnKeys(curr), atC, {p[2] : p \in P})
    BY <1>3 DEF LeftOver, Rest
<1> QED BY <1>3, <1>6, <1>7 DEF Pass, KeyPass, P

\* A pass on rule stems is a pass on their keys.
LEMMA PassIsKeyPassRule ==
    ASSUME NEW base, NEW atB, atB \subseteq DOMAIN base,
           NEW curr, NEW atC, atC \subseteq DOMAIN curr
    PROVE  Pass(base, atB, curr, atC, Pairs(base, atB, curr, atC, RuleKey), RuleKey)
             = KeyPass(RuleKeys(base), atB, RuleKeys(curr), atC)
<1> DEFINE P == Paired(RuleKeys(base), atB, RuleKeys(curr), atC)
<1>1. \A i \in atB : RuleKeys(base)[i] = RuleKey(base[i])
    BY DEF RuleKeys
<1>2. \A i \in atC : RuleKeys(curr)[i] = RuleKey(curr[i])
    BY DEF RuleKeys
<1>3. /\ Dropped(base, atB, RuleKey) = Repeated(RuleKeys(base), atB)
      /\ Dropped(curr, atC, RuleKey) = Repeated(RuleKeys(curr), atC)
    BY <1>1, <1>2 DEF Dropped, Repeated
<1>4. /\ Indexed(base, atB, RuleKey) = First(RuleKeys(base), atB)
      /\ Indexed(curr, atC, RuleKey) = First(RuleKeys(curr), atC)
    BY <1>1, <1>2, <1>3 DEF Indexed, First
<1>5. First(RuleKeys(base), atB) \subseteq atB /\ First(RuleKeys(curr), atC) \subseteq atC
    BY DEF First
<1>6. Pairs(base, atB, curr, atC, RuleKey) = P
    BY <1>1, <1>2, <1>4, <1>5 DEF Pairs, Paired
<1> HIDE DEF P
<1>7. /\ LeftOver(base, atB, {p[1] : p \in P}, RuleKey) = Rest(RuleKeys(base), atB, {p[1] : p \in P})
      /\ LeftOver(curr, atC, {p[2] : p \in P}, RuleKey) = Rest(RuleKeys(curr), atC, {p[2] : p \in P})
    BY <1>3 DEF LeftOver, Rest
<1> QED BY <1>3, <1>6, <1>7 DEF Pass, KeyPass, P


\* What one pass promises: its pairs are of positions, of equal keys and of no
\* repetition, no position is in two pairs, and what is left has no pair.
PassFacts(kb, atB, kc, atC, pass) ==
    /\ \A p \in pass.pairs :
           /\ p[1] \in atB /\ p[2] \in atC /\ p = <<p[1], p[2]>>
           /\ kb[p[1]] # NoKey /\ kb[p[1]] = kc[p[2]]
           /\ p[1] \notin pass.dropped.base /\ p[2] \notin pass.dropped.curr
    /\ \A p, q \in pass.pairs : p[1] = q[1] \/ p[2] = q[2] => p = q
    /\ pass.base = (atB \ {p[1] : p \in pass.pairs}) \ pass.dropped.base
    /\ pass.curr = (atC \ {p[2] : p \in pass.pairs}) \ pass.dropped.curr
    /\ \A i \in pass.base, j \in pass.curr : kb[i] = kc[j] => kb[i] = NoKey
    /\ \A i \in pass.dropped.base :
           i \in atB /\ kb[i] # NoKey /\ \E j \in atB : j < i /\ kb[j] = kb[i]
    /\ \A i \in pass.dropped.curr :
           i \in atC /\ kc[i] # NoKey /\ \E j \in atC : j < i /\ kc[j] = kc[i]

\* One pass keeps its promise.
LEMMA OnePass ==
    ASSUME NEW n \in Nat, NEW m \in Nat, NEW kb, NEW kc,
           NEW atB \in SUBSET (1..n), NEW atC \in SUBSET (1..m)
    PROVE  PassFacts(kb, atB, kc, atC, KeyPass(kb, atB, kc, atC))
<1> DEFINE P == Paired(kb, atB, kc, atC)
           B == Rest(kb, atB, {p[1] : p \in P})
           C == Rest(kc, atC, {p[2] : p \in P})
           pass == KeyPass(kb, atB, kc, atC)
<1>1. ASSUME NEW i \in First(kb, atB), NEW j \in First(kb, atB), kb[i] = kb[j] PROVE i = j
    BY <1>1 DEF First, Repeated
<1>2. ASSUME NEW i \in First(kc, atC), NEW j \in First(kc, atC), kc[i] = kc[j] PROVE i = j
    BY <1>2 DEF First, Repeated
<1>3. ASSUME NEW p \in P
      PROVE  /\ p[1] \in First(kb, atB) /\ p[2] \in First(kc, atC) /\ p = <<p[1], p[2]>>
             /\ kb[p[1]] = kc[p[2]]
    BY DEF Paired
<1>4. ASSUME NEW p \in P
      PROVE  /\ p[1] \in atB /\ p[2] \in atC /\ p = <<p[1], p[2]>>
             /\ kb[p[1]] # NoKey /\ kb[p[1]] = kc[p[2]]
             /\ p[1] \notin Repeated(kb, atB) /\ p[2] \notin Repeated(kc, atC)
    BY <1>3 DEF First
<1>5. ASSUME NEW p \in P, NEW q \in P, p[1] = q[1] \/ p[2] = q[2] PROVE p = q
    <2>1. p[1] = q[1] /\ p[2] = q[2]
        BY <1>1, <1>2, <1>3, <1>5
    <2> QED BY <2>1, <1>3
<1>6. ASSUME NEW i \in B, NEW j \in C, kb[i] = kc[j], kb[i] # NoKey PROVE FALSE
    <2>1. i \in First(kb, atB) /\ j \in First(kc, atC)
        BY <1>6 DEF First, Rest
    <2>2. <<i, j>> \in P
        BY <1>6, <2>1 DEF Paired
    <2>3. i \in {p[1] : p \in P}
        BY <2>2
    <2> QED BY <2>3 DEF Rest
<1>7. /\ pass.pairs = P /\ pass.base = B /\ pass.curr = C
      /\ pass.dropped.base = Repeated(kb, atB) /\ pass.dropped.curr = Repeated(kc, atC)
    BY DEF KeyPass
<1>8. /\ B = (atB \ {p[1] : p \in P}) \ Repeated(kb, atB)
      /\ C = (atC \ {p[2] : p \in P}) \ Repeated(kc, atC)
    BY DEF Rest
<1>9. /\ \A i \in Repeated(kb, atB) :
             i \in atB /\ kb[i] # NoKey /\ \E j \in atB : j < i /\ kb[j] = kb[i]
      /\ \A i \in Repeated(kc, atC) :
             i \in atC /\ kc[i] # NoKey /\ \E j \in atC : j < i /\ kc[j] = kc[i]
    BY DEF Repeated
<1> HIDE DEF P, B, C, pass
<1>10. PassFacts(kb, atB, kc, atC, pass)
    BY <1>4, <1>5, <1>6, <1>7, <1>8, <1>9 DEF PassFacts
<1> QED BY <1>10 DEF pass

---------------------------------------------------------------------------
(* Both passes                                                               *)
TwoPasses(base, atB, curr, atC) ==
    LET first == KeyPass(VulnKeys(base), atB, VulnKeys(curr), atC)
        second == KeyPass(RuleKeys(base), first.base, RuleKeys(curr), first.curr)
    IN  [pairs |-> first.pairs \cup second.pairs,
         base |-> second.base,
         curr |-> second.curr,
         dropped |-> [base |-> first.dropped.base \cup second.dropped.base,
                      curr |-> first.dropped.curr \cup second.dropped.curr]]

\* A pass leaves positions of its lists.
LEMMA PassLeaves ==
    ASSUME NEW kb, NEW atB, NEW kc, NEW atC
    PROVE  /\ KeyPass(kb, atB, kc, atC).base \subseteq atB
           /\ KeyPass(kb, atB, kc, atC).curr \subseteq atC
BY DEF KeyPass, Rest

\* The match is a pass on vuln ids and one on the rule stems of what it leaves.
LEMMA MatchIsTwoPasses ==
    ASSUME NEW base, NEW atB, atB \subseteq DOMAIN base,
           NEW curr, NEW atC, atC \subseteq DOMAIN curr
    PROVE  MatchTwoPass(base, atB, curr, atC) = TwoPasses(base, atB, curr, atC)
<1> DEFINE first == Pass(base, atB, curr, atC, Pairs(base, atB, curr, atC, VulnKey), VulnKey)
           second(b, c) == Pass(base, b, curr, c, Pairs(base, b, curr, c, RuleKey), RuleKey)
           F == KeyPass(VulnKeys(base), atB, VulnKeys(curr), atC)
           S == KeyPass(RuleKeys(base), F.base, RuleKeys(curr), F.curr)
           M == MatchTwoPass(base, atB, curr, atC)
<1>1. M = [second(first.base, first.curr) EXCEPT
              !.pairs = first.pairs \cup @,
              !.dropped.base = first.dropped.base \cup @,
              !.dropped.curr = first.dropped.curr \cup @]
    BY Zenon DEF MatchTwoPass
<1>2. first = F
    BY PassIsKeyPassVuln
<1>3. F.base \subseteq atB /\ F.curr \subseteq atC
    BY PassLeaves
<1>4. second(F.base, F.curr) = S
    <2> HIDE DEF F
    <2> QED BY <1>3, PassIsKeyPassRule
<1>5. M = [S EXCEPT !.pairs = F.pairs \cup S.pairs,
                    !.dropped.base = F.dropped.base \cup S.dropped.base,
                    !.dropped.curr = F.dropped.curr \cup S.dropped.curr]
    <2> HIDE DEF F, S, first, second, M
    <2>1. second(first.base, first.curr) = S
        BY <1>2, <1>4
    <2> QED BY <1>1, <1>2, <2>1, Zenon
<1>6. S = [pairs |-> S.pairs, base |-> S.base, curr |-> S.curr,
           dropped |-> [base |-> S.dropped.base, curr |-> S.dropped.curr]]
    <2> HIDE DEF F
    <2> QED BY DEF KeyPass
<1>7. M = [pairs |-> F.pairs \cup S.pairs, base |-> S.base, curr |-> S.curr,
           dropped |-> [base |-> F.dropped.base \cup S.dropped.base,
                        curr |-> F.dropped.curr \cup S.dropped.curr]]
    <2> HIDE DEF F, S, M
    <2>1. M = [[pairs |-> S.pairs, base |-> S.base, curr |-> S.curr,
                dropped |-> [base |-> S.dropped.base, curr |-> S.dropped.curr]] EXCEPT
                   !.pairs = F.pairs \cup S.pairs,
                   !.dropped.base = F.dropped.base \cup S.dropped.base,
                   !.dropped.curr = F.dropped.curr \cup S.dropped.curr]
        BY <1>5, <1>6, Zenon
    <2> QED BY <2>1
<1> QED BY <1>7, Zenon DEF TwoPasses

\* What is left of one list, what of it is matched and what is dropped are all
\* of it; what is dropped is of one rule with an earlier finding.
SideMatched(s, at, matched, left, dropped) ==
    /\ matched \cup left \cup dropped = at
    /\ matched \cap left = {} /\ matched \cap dropped = {} /\ left \cap dropped = {}
    /\ \A i \in dropped : \E j \in at : j < i /\ SameRule(s[j], s[i])

\* What the match promises, whatever the lists: each pair is of one rule, no
\* finding is in two, and no two findings that are left are of one rule.
Matched(base, atB, curr, atC, M) ==
    /\ \A p \in M.pairs : p[1] \in atB /\ p[2] \in atC /\ p = <<p[1], p[2]>>
    /\ \A p \in M.pairs : SameRule(base[p[1]], curr[p[2]])
    /\ \A p, q \in M.pairs : p[1] = q[1] \/ p[2] = q[2] => p = q
    /\ SideMatched(base, atB, {p[1] : p \in M.pairs}, M.base, M.dropped.base)
    /\ SideMatched(curr, atC, {p[2] : p \in M.pairs}, M.curr, M.dropped.curr)
    /\ \A i \in M.base, j \in M.curr : ~SameRule(base[i], curr[j])

\* The match keeps its promise.
LEMMA MatchKeepsPromise ==
    ASSUME NEW n \in Nat, NEW base, DOMAIN base = 1..n, NEW atB \in SUBSET (1..n),
           NEW m \in Nat, NEW curr, DOMAIN curr = 1..m, NEW atC \in SUBSET (1..m)
    PROVE  Matched(base, atB, curr, atC, MatchTwoPass(base, atB, curr, atC))
<1> DEFINE VB == VulnKeys(base)
           VC == VulnKeys(curr)
           RB == RuleKeys(base)
           RC == RuleKeys(curr)
           F == KeyPass(VB, atB, VC, atC)
           S == KeyPass(RB, F.base, RC, F.curr)
           M == MatchTwoPass(base, atB, curr, atC)
<1>1. /\ M.pairs = F.pairs \cup S.pairs /\ M.base = S.base /\ M.curr = S.curr
      /\ M.dropped.base = F.dropped.base \cup S.dropped.base
      /\ M.dropped.curr = F.dropped.curr \cup S.dropped.curr
    <2>1. M = TwoPasses(base, atB, curr, atC)
        BY MatchIsTwoPasses
    <2>2. TwoPasses(base, atB, curr, atC) =
             [pairs |-> F.pairs \cup S.pairs, base |-> S.base, curr |-> S.curr,
              dropped |-> [base |-> F.dropped.base \cup S.dropped.base,
                           curr |-> F.dropped.curr \cup S.dropped.curr]]
        BY Zenon DEF TwoPasses
    <2> HIDE DEF F, S, M
    <2> QED BY <2>1, <2>2
<1>2. F.base \in SUBSET (1..n) /\ F.curr \in SUBSET (1..m)
    BY PassLeaves
<1>3. PassFacts(VB, atB, VC, atC, F)
    BY OnePass
<1>4. PassFacts(RB, F.base, RC, F.curr, S)
    <2> HIDE DEF F
    <2> QED BY <1>2, OnePass
<1>5. /\ \A i \in 1..n : VB[i] = VulnKey(base[i]) /\ RB[i] = RuleKey(base[i])
      /\ \A i \in 1..m : VC[i] = VulnKey(curr[i]) /\ RC[i] = RuleKey(curr[i])
    BY DEF VulnKeys, RuleKeys
<1> HIDE DEF VB, VC, RB, RC, F, S, M
<1>6. \A p \in M.pairs : p[1] \in atB /\ p[2] \in atC /\ p = <<p[1], p[2]>>
    BY <1>1, <1>3, <1>4 DEF PassFacts
<1>7. ASSUME NEW p \in M.pairs PROVE SameRule(base[p[1]], curr[p[2]])
    <2>1. CASE p \in F.pairs
        BY <2>1, <1>3, <1>5 DEF PassFacts, SameRule
    <2>2. CASE p \in S.pairs
        BY <2>2, <1>2, <1>4, <1>5 DEF PassFacts, SameRule
    <2> QED BY <1>1, <2>1, <2>2
<1>8. ASSUME NEW p \in M.pairs, NEW q \in M.pairs, p[1] = q[1] \/ p[2] = q[2] PROVE p = q
    <2>1. ASSUME NEW x \in F.pairs, NEW y \in S.pairs PROVE x[1] # y[1] /\ x[2] # y[2]
        <3>1. x[1] \notin F.base /\ x[2] \notin F.curr
            BY <1>3 DEF PassFacts
        <3> QED BY <3>1, <1>4 DEF PassFacts
    <2>2. CASE p \in F.pairs /\ q \in F.pairs
        BY <1>3, <1>8, <2>2 DEF PassFacts
    <2>3. CASE p \in S.pairs /\ q \in S.pairs
        BY <1>4, <1>8, <2>3 DEF PassFacts
    <2> QED BY <1>1, <1>8, <2>1, <2>2, <2>3
<1>9. SideMatched(base, atB, {p[1] : p \in M.pairs}, M.base, M.dropped.base)
    <2>1. {p[1] : p \in M.pairs} = {p[1] : p \in F.pairs} \cup {p[1] : p \in S.pairs}
        BY <1>1
    <2>2. /\ {p[1] : p \in F.pairs} \subseteq atB
          /\ {p[1] : p \in F.pairs} \cap F.dropped.base = {}
          /\ F.dropped.base \subseteq atB
          /\ F.base = (atB \ {p[1] : p \in F.pairs}) \ F.dropped.base
        BY <1>3 DEF PassFacts
    <2>3. /\ {p[1] : p \in S.pairs} \subseteq F.base
          /\ {p[1] : p \in S.pairs} \cap S.dropped.base = {}
          /\ S.dropped.base \subseteq F.base
          /\ S.base = (F.base \ {p[1] : p \in S.pairs}) \ S.dropped.base
        BY <1>4 DEF PassFacts
    <2>4. ASSUME NEW i \in F.dropped.base PROVE \E j \in atB : j < i /\ SameRule(base[j], base[i])
        BY <1>3, <1>5 DEF PassFacts, SameRule
    <2>5. ASSUME NEW i \in S.dropped.base PROVE \E j \in atB : j < i /\ SameRule(base[j], base[i])
        BY <1>2, <1>4, <1>5, <2>2 DEF PassFacts, SameRule
    <2> QED BY <1>1, <2>1, <2>2, <2>3, <2>4, <2>5 DEF SideMatched
<1>10. SideMatched(curr, atC, {p[2] : p \in M.pairs}, M.curr, M.dropped.curr)
    <2>1. {p[2] : p \in M.pairs} = {p[2] : p \in F.pairs} \cup {p[2] : p \in S.pairs}
        BY <1>1
    <2>2. /\ {p[2] : p \in F.pairs} \subseteq atC
          /\ {p[2] : p \in F.pairs} \cap F.dropped.curr = {}
          /\ F.dropped.curr \subseteq atC
          /\ F.curr = (atC \ {p[2] : p \in F.pairs}) \ F.dropped.curr
        BY <1>3 DEF PassFacts
    <2>3. /\ {p[2] : p \in S.pairs} \subseteq F.curr
          /\ {p[2] : p \in S.pairs} \cap S.dropped.curr = {}
          /\ S.dropped.curr \subseteq F.curr
          /\ S.curr = (F.curr \ {p[2] : p \in S.pairs}) \ S.dropped.curr
        BY <1>4 DEF PassFacts
    <2>4. ASSUME NEW i \in F.dropped.curr PROVE \E j \in atC : j < i /\ SameRule(curr[j], curr[i])
        BY <1>3, <1>5 DEF PassFacts, SameRule
    <2>5. ASSUME NEW i \in S.dropped.curr PROVE \E j \in atC : j < i /\ SameRule(curr[j], curr[i])
        BY <1>2, <1>4, <1>5, <2>2 DEF PassFacts, SameRule
    <2> QED BY <1>1, <2>1, <2>2, <2>3, <2>4, <2>5 DEF SideMatched
<1>11. ASSUME NEW i \in M.base, NEW j \in M.curr PROVE ~SameRule(base[i], curr[j])
    <2>1. i \in S.base /\ j \in S.curr /\ i \in F.base /\ j \in F.curr
        BY <1>1, <1>4 DEF PassFacts
    <2>2. VB[i] = VC[j] => VB[i] = NoKey
        BY <1>3, <2>1 DEF PassFacts
    <2>3. RB[i] = RC[j] => RB[i] = NoKey
        BY <1>4, <2>1 DEF PassFacts
    <2> QED BY <1>2, <1>5, <2>1, <2>2, <2>3 DEF SameRule
<1>12. Matched(base, atB, curr, atC, M)
    BY <1>6, <1>7, <1>8, <1>9, <1>10, <1>11 DEF Matched
<1> QED BY <1>12 DEF M

\* The same match, told from the other side.
Mirrored(pass) ==
    [pairs |-> {<<p[2], p[1]>> : p \in pass.pairs}, base |-> pass.curr, curr |-> pass.base,
     dropped |-> [base |-> pass.dropped.curr, curr |-> pass.dropped.base]]

\* A pass does not tell its lists apart.
LEMMA PassMirrors ==
    ASSUME NEW kb, NEW atB, NEW kc, NEW atC
    PROVE  KeyPass(kc, atC, kb, atB) = Mirrored(KeyPass(kb, atB, kc, atC))
<1> DEFINE P == Paired(kb, atB, kc, atC)
           Q == Paired(kc, atC, kb, atB)
<1>1. Q = {<<p[2], p[1]>> : p \in P}
    <2>1. ASSUME NEW q \in Q PROVE \E p \in P : q = <<p[2], p[1]>>
        <3>1. <<q[2], q[1]>> \in P /\ q = <<q[1], q[2]>>
            BY DEF Paired
        <3> QED BY <3>1
    <2>2. ASSUME NEW p \in P PROVE <<p[2], p[1]>> \in Q
        BY DEF Paired
    <2> HIDE DEF P, Q
    <2> QED BY <2>1, <2>2
<1> HIDE DEF P, Q
<1>2. {q[1] : q \in Q} = {p[2] : p \in P} /\ {q[2] : q \in Q} = {p[1] : p \in P}
    <2>1. ASSUME NEW q \in Q PROVE \E p \in P : p[2] = q[1] /\ p[1] = q[2]
        BY <1>1
    <2>2. ASSUME NEW p \in P PROVE \E q \in Q : p[2] = q[1] /\ p[1] = q[2]
        <3>1. <<p[2], p[1]>> \in Q
            BY <1>1
        <3> QED BY <3>1
    <2> QED BY <2>1, <2>2
<1>3. KeyPass(kb, atB, kc, atC) =
        [pairs |-> P,
         base |-> Rest(kb, atB, {p[1] : p \in P}),
         curr |-> Rest(kc, atC, {p[2] : p \in P}),
         dropped |-> [base |-> Repeated(kb, atB), curr |-> Repeated(kc, atC)]]
    BY DEF KeyPass, P
<1>4. KeyPass(kc, atC, kb, atB) =
        [pairs |-> Q,
         base |-> Rest(kc, atC, {q[1] : q \in Q}),
         curr |-> Rest(kb, atB, {q[2] : q \in Q}),
         dropped |-> [base |-> Repeated(kc, atC), curr |-> Repeated(kb, atB)]]
    BY DEF KeyPass, Q
<1>5. Mirrored(KeyPass(kb, atB, kc, atC)) =
        [pairs |-> {<<p[2], p[1]>> : p \in P},
         base |-> Rest(kc, atC, {p[2] : p \in P}),
         curr |-> Rest(kb, atB, {p[1] : p \in P}),
         dropped |-> [base |-> Repeated(kc, atC), curr |-> Repeated(kb, atB)]]
    <2> DEFINE X == KeyPass(kb, atB, kc, atC)
    <2>1. /\ X.pairs = P /\ X.base = Rest(kb, atB, {p[1] : p \in P})
          /\ X.curr = Rest(kc, atC, {p[2] : p \in P})
          /\ X.dropped.base = Repeated(kb, atB) /\ X.dropped.curr = Repeated(kc, atC)
        BY <1>3
    <2> HIDE DEF X
    <2>2. Mirrored(X) = [pairs |-> {<<p[2], p[1]>> : p \in P},
                         base |-> Rest(kc, atC, {p[2] : p \in P}),
                         curr |-> Rest(kb, atB, {p[1] : p \in P}),
                         dropped |-> [base |-> Repeated(kc, atC), curr |-> Repeated(kb, atB)]]
        BY <2>1, Zenon DEF Mirrored
    <2> QED BY <2>2 DEF X
<1> QED BY <1>1, <1>2, <1>4, <1>5, Zenon

\* Nor does the match.
LEMMA MatchMirrors ==
    ASSUME NEW base, NEW atB, atB \subseteq DOMAIN base,
           NEW curr, NEW atC, atC \subseteq DOMAIN curr
    PROVE  MatchTwoPass(curr, atC, base, atB) = Mirrored(MatchTwoPass(base, atB, curr, atC))
<1> DEFINE F == KeyPass(VulnKeys(base), atB, VulnKeys(curr), atC)
           S == KeyPass(RuleKeys(base), F.base, RuleKeys(curr), F.curr)
           G == KeyPass(VulnKeys(curr), atC, VulnKeys(base), atB)
           T == KeyPass(RuleKeys(curr), G.base, RuleKeys(base), G.curr)
<1>1. MatchTwoPass(base, atB, curr, atC) =
        [pairs |-> F.pairs \cup S.pairs, base |-> S.base, curr |-> S.curr,
         dropped |-> [base |-> F.dropped.base \cup S.dropped.base,
                      curr |-> F.dropped.curr \cup S.dropped.curr]]
    BY MatchIsTwoPasses, Zenon DEF TwoPasses
<1>2. MatchTwoPass(curr, atC, base, atB) =
        [pairs |-> G.pairs \cup T.pairs, base |-> T.base, curr |-> T.curr,
         dropped |-> [base |-> G.dropped.base \cup T.dropped.base,
                      curr |-> G.dropped.curr \cup T.dropped.curr]]
    BY MatchIsTwoPasses, Zenon DEF TwoPasses
<1>3. G = Mirrored(F)
    BY PassMirrors
<1>4. G.base = F.curr /\ G.curr = F.base
    BY <1>3 DEF Mirrored
<1>5. T = Mirrored(S)
    <2> HIDE DEF F, G
    <2> QED BY <1>4, PassMirrors
<1> HIDE DEF F, S, G, T
<1>6. {<<p[2], p[1]>> : p \in F.pairs \cup S.pairs}
        = {<<p[2], p[1]>> : p \in F.pairs} \cup {<<p[2], p[1]>> : p \in S.pairs}
    OBVIOUS
<1>7. /\ G.pairs = {<<p[2], p[1]>> : p \in F.pairs} /\ T.pairs = {<<p[2], p[1]>> : p \in S.pairs}
      /\ T.base = S.curr /\ T.curr = S.base
      /\ G.dropped.base = F.dropped.curr /\ G.dropped.curr = F.dropped.base
      /\ T.dropped.base = S.dropped.curr /\ T.dropped.curr = S.dropped.base
    BY <1>3, <1>5 DEF Mirrored
<1>8. Mirrored(MatchTwoPass(base, atB, curr, atC)) =
        [pairs |-> {<<p[2], p[1]>> : p \in F.pairs \cup S.pairs},
         base |-> S.curr, curr |-> S.base,
         dropped |-> [base |-> F.dropped.curr \cup S.dropped.curr,
                      curr |-> F.dropped.base \cup S.dropped.base]]
    <2> DEFINE X == MatchTwoPass(base, atB, curr, atC)
    <2>1. /\ X.pairs = F.pairs \cup S.pairs /\ X.base = S.base /\ X.curr = S.curr
          /\ X.dropped.base = F.dropped.base \cup S.dropped.base
          /\ X.dropped.curr = F.dropped.curr \cup S.dropped.curr
        BY <1>1
    <2> HIDE DEF X
    <2>2. Mirrored(X) = [pairs |-> {<<p[2], p[1]>> : p \in F.pairs \cup S.pairs},
                         base |-> S.curr, curr |-> S.base,
                         dropped |-> [base |-> F.dropped.curr \cup S.dropped.curr,
                                      curr |-> F.dropped.base \cup S.dropped.base]]
        BY <2>1, Zenon DEF Mirrored
    <2> QED BY <2>2 DEF X
<1> QED BY <1>2, <1>6, <1>7, <1>8, Zenon

---------------------------------------------------------------------------
(* Lists                                                                     *)

\* What is in Seq(S) is a list of elements of S, with positions 1 to its length.
LEMMA SeqIsList ==
    ASSUME NEW S, NEW s \in Seq(S)
    PROVE  /\ IsList(s) /\ ToSet(s) \subseteq S
           /\ Len(s) \in Nat /\ DOMAIN s = 1..Len(s)
<1>1. Len(s) \in Nat /\ DOMAIN s = 1..Len(s) /\ s \in [1..Len(s) -> S]
    OBVIOUS
<1>2. ToSet(s) \subseteq S
    BY <1>1 DEF ToSet
<1>3. s \in [1..Len(s) -> ToSet(s)]
    BY <1>1 DEF ToSet
<1>4. s \in Seq(ToSet(s))
    BY <1>1, <1>3
<1> QED BY <1>1, <1>2, <1>4 DEF IsList

\* A list has its length as its domain.
LEMMA ListDomain ==
    ASSUME NEW s, IsList(s)
    PROVE  /\ Len(s) \in Nat /\ DOMAIN s = 1..Len(s) /\ s \in Seq(ToSet(s))
           /\ \A i \in DOMAIN s : s[i] \in ToSet(s)
           /\ \A x \in ToSet(s) : \E i \in DOMAIN s : s[i] = x
BY SeqIsList DEF IsList, ToSet

\* A function on the positions of a list is a list.
LEMMA MappedList ==
    ASSUME NEW s, IsList(s), NEW f, f = [i \in DOMAIN s |-> f[i]]
    PROVE  IsList(f)
<1>1. Len(s) \in Nat /\ DOMAIN s = 1..Len(s)
    BY ListDomain
<1>2. f \in [1..Len(s) -> ToSet(f)]
    BY <1>1 DEF ToSet
<1> QED BY <1>1, <1>2 DEF IsList

\* A selection of a list is a list of elements that pass the test.
LEMMA KeptList ==
    ASSUME NEW s, IsList(s), NEW at
    PROVE  /\ IsList(Kept(s, at))
           /\ \A x \in ToSet(Kept(s, at)) : \E i \in at : i \in DOMAIN s /\ x = s[i]
<1>1. Kept(s, at) \in Seq({s[i] : i \in at \cap DOMAIN s})
    BY ListDomain, KeptElements
<1> QED BY <1>1, SeqIsList

\* A concatenation of lists is a list of their elements.
LEMMA FlattenedList ==
    ASSUME NEW ss, IsList(ss), \A i \in DOMAIN ss : IsList(ss[i])
    PROVE  /\ IsList(FlattenSeq(ss))
           /\ \A x \in ToSet(FlattenSeq(ss)) : \E i \in DOMAIN ss : x \in ToSet(ss[i])
<1> DEFINE S == UNION {ToSet(ss[i]) : i \in DOMAIN ss}
<1>1. Len(ss) \in Nat /\ DOMAIN ss = 1..Len(ss) /\ ss \in Seq(ToSet(ss))
    BY ListDomain
<1>2. ASSUME NEW i \in DOMAIN ss PROVE ss[i] \in Seq(S)
    <2>1. ss[i] \in Seq(ToSet(ss[i])) /\ ToSet(ss[i]) \subseteq S
        BY ListDomain
    <2> HIDE DEF S
    <2> QED BY <2>1
<1>3. ss \in Seq(Seq(S))
    <2> HIDE DEF S
    <2>1. ss \in [1..Len(ss) -> Seq(S)]
        BY <1>1, <1>2
    <2> QED BY <1>1, <2>1
<1>4. FlattenSeq(ss) \in Seq(S)
    BY <1>3, FlattenElements
<1> QED BY <1>4, SeqIsList

\* So is the concatenation of two.
LEMMA JoinedList ==
    ASSUME NEW s, IsList(s), NEW t, IsList(t)
    PROVE  IsList(s \o t) /\ ToSet(s \o t) \subseteq ToSet(s) \cup ToSet(t)
<1> DEFINE S == ToSet(s) \cup ToSet(t)
<1>1. s \in Seq(ToSet(s)) /\ t \in Seq(ToSet(t))
    BY ListDomain
<1>2. s \in Seq(S) /\ t \in Seq(S)
    BY <1>1
<1> HIDE DEF S
<1>3. s \o t \in Seq(S)
    BY <1>2, ConcatProperties
<1> QED BY <1>3, SeqIsList DEF S

---------------------------------------------------------------------------
(* Tags.  M is what the match says of the findings on hosts that both sides   *)
(* cover; the others, uB and uC, have no chance of a match.                   *)

TagsFrom(base, curr, bc, cc, M, uB, uC) ==
    {Tag("Not re-scanned", i, None) : i \in uB}
      \cup {Tag("Newly scanned", None, i) : i \in uC}
      \cup {Tag("Persisting", p[1], p[2]) : p \in M.pairs}
      \cup {Tag(IF Rescanned(base[i], cc) THEN "Resolved" ELSE "Not re-scanned", i, None) :
                i \in M.base}
      \cup {Tag(IF Rescanned(curr[i], bc) THEN "New" ELSE "Newly scanned", None, i) :
                i \in M.curr}

Common(bc, cc) == Hosts(bc) \cap Hosts(cc)
Alone(s, hosts) == Dedupe(s, DOMAIN s \ On(s, hosts))

\* What each way of getting a tag says of its finding.
Says(t, base, curr, bc, cc, M, uB, uC) ==
    \/ t.delta_status = "Not re-scanned" /\ t.base \in uB /\ t.curr = None
    \/ t.delta_status = "Newly scanned" /\ t.base = None /\ t.curr \in uC
    \/ t.delta_status = "Persisting" /\ <<t.base, t.curr>> \in M.pairs
    \/ /\ t.delta_status = IF Rescanned(base[t.base], cc) THEN "Resolved" ELSE "Not re-scanned"
       /\ t.base \in M.base /\ t.curr = None
    \/ /\ t.delta_status = IF Rescanned(curr[t.curr], bc) THEN "New" ELSE "Newly scanned"
       /\ t.base = None /\ t.curr \in M.curr

\* The tags are the records that say so.
LEMMA TagsSay ==
    ASSUME NEW base, NEW curr, NEW bc, NEW cc, NEW M, NEW uB, NEW uC,
           \A p \in M.pairs : p = <<p[1], p[2]>>
    PROVE  /\ \A t \in TagsFrom(base, curr, bc, cc, M, uB, uC) :
                  /\ t = Tag(t.delta_status, t.base, t.curr)
                  /\ Says(t, base, curr, bc, cc, M, uB, uC)
           /\ \A st, i, j : Says(Tag(st, i, j), base, curr, bc, cc, M, uB, uC) =>
                  Tag(st, i, j) \in TagsFrom(base, curr, bc, cc, M, uB, uC)
<1>1. ASSUME NEW st, NEW i, NEW j, NEW t, t = Tag(st, i, j)
      PROVE  t.delta_status = st /\ t.base = i /\ t.curr = j /\ t = Tag(t.delta_status, t.base, t.curr)
    BY <1>1 DEF Tag
<1>2. ASSUME NEW t \in TagsFrom(base, curr, bc, cc, M, uB, uC)
      PROVE  /\ t = Tag(t.delta_status, t.base, t.curr)
             /\ Says(t, base, curr, bc, cc, M, uB, uC)
    <2>1. CASE \E i \in uB : t = Tag("Not re-scanned", i, None)
        <3>1. PICK i \in uB : t = Tag("Not re-scanned", i, None)
            BY <2>1
        <3>2. /\ t.delta_status = "Not re-scanned"
              /\ t.base = i /\ t.curr = None
              /\ t = Tag(t.delta_status, t.base, t.curr)
            BY <3>1 DEF Tag
        <3> QED BY <3>1, <3>2 DEF Says
    <2>2. CASE \E i \in uC : t = Tag("Newly scanned", None, i)
        <3>1. PICK i \in uC : t = Tag("Newly scanned", None, i)
            BY <2>2
        <3>2. /\ t.delta_status = "Newly scanned"
              /\ t.base = None /\ t.curr = i
              /\ t = Tag(t.delta_status, t.base, t.curr)
            BY <3>1 DEF Tag
        <3> QED BY <3>1, <3>2 DEF Says
    <2>3. CASE \E p \in M.pairs : t = Tag("Persisting", p[1], p[2])
        <3>1. PICK p \in M.pairs : t = Tag("Persisting", p[1], p[2])
            BY <2>3
        <3>2. /\ t.delta_status = "Persisting"
              /\ t.base = p[1] /\ t.curr = p[2]
              /\ t = Tag(t.delta_status, t.base, t.curr)
            BY <3>1 DEF Tag
        <3> QED BY <3>1, <3>2 DEF Says
    <2>4. CASE \E i \in M.base :
                   t = Tag(IF Rescanned(base[i], cc) THEN "Resolved" ELSE "Not re-scanned", i, None)
        <3>1. PICK i \in M.base : t = Tag(IF Rescanned(base[i], cc) THEN "Resolved" ELSE "Not re-scanned", i, None)
            BY <2>4
        <3>2. /\ t.delta_status = IF Rescanned(base[i], cc) THEN "Resolved" ELSE "Not re-scanned"
              /\ t.base = i /\ t.curr = None
              /\ t = Tag(t.delta_status, t.base, t.curr)
            BY <3>1 DEF Tag
        <3> QED BY <3>1, <3>2 DEF Says
    <2>5. CASE \E i \in M.curr :
                   t = Tag(IF Rescanned(curr[i], bc) THEN "New" ELSE "Newly scanned", None, i)
        <3>1. PICK i \in M.curr : t = Tag(IF Rescanned(curr[i], bc) THEN "New" ELSE "Newly scanned", None, i)
            BY <2>5
        <3>2. /\ t.delta_status = IF Rescanned(curr[i], bc) THEN "New" ELSE "Newly scanned"
              /\ t.base = None /\ t.curr = i
              /\ t = Tag(t.delta_status, t.base, t.curr)
            BY <3>1 DEF Tag
        <3> QED BY <3>1, <3>2 DEF Says
    <2> QED BY <2>1, <2>2, <2>3, <2>4, <2>5 DEF TagsFrom
<1>3. ASSUME NEW st, NEW i, NEW j, Says(Tag(st, i, j), base, curr, bc, cc, M, uB, uC)
      PROVE  Tag(st, i, j) \in TagsFrom(base, curr, bc, cc, M, uB, uC)
    <2> DEFINE t == Tag(st, i, j)
    <2>1. t.delta_status = st /\ t.base = i /\ t.curr = j
        BY <1>1
    <2>2. CASE st = "Not re-scanned" /\ i \in uB /\ j = None
        BY <2>2 DEF TagsFrom
    <2>3. CASE st = "Newly scanned" /\ i = None /\ j \in uC
        BY <2>3 DEF TagsFrom
    <2>4. CASE st = "Persisting" /\ <<i, j>> \in M.pairs
        <3>1. <<i, j>>[1] = i /\ <<i, j>>[2] = j
            OBVIOUS
        <3>2. \E p \in M.pairs : t = Tag("Persisting", p[1], p[2])
            BY <2>4, <3>1
        <3> HIDE DEF t
        <3>3. t \in TagsFrom(base, curr, bc, cc, M, uB, uC)
            BY <3>2 DEF TagsFrom
        <3> QED BY <3>3 DEF t
    <2>5. CASE /\ st = IF Rescanned(base[i], cc) THEN "Resolved" ELSE "Not re-scanned"
               /\ i \in M.base /\ j = None
        BY <2>5 DEF TagsFrom
    <2>6. CASE /\ st = IF Rescanned(curr[j], bc) THEN "New" ELSE "Newly scanned"
               /\ i = None /\ j \in M.curr
        BY <2>6 DEF TagsFrom
    <2> QED BY <1>3, <2>1, <2>2, <2>3, <2>4, <2>5, <2>6 DEF Says
<1> QED BY <1>2, <1>3

\* The tags of two scan sets are told from their match.
LEMMA TagsAreFromMatch ==
    ASSUME NEW base, NEW curr, NEW bc, NEW cc
    PROVE  LET hosts == Common(bc, cc)
           IN  Tags(base, curr, bc, cc)
                 = TagsFrom(base, curr, bc, cc,
                            MatchTwoPass(base, On(base, hosts), curr, On(curr, hosts)),
                            Alone(base, hosts), Alone(curr, hosts))
BY Zenon DEF Tags, TagsFrom, Common, Alone

---------------------------------------------------------------------------
(* What the tags promise of the findings                                     *)

MatchOf(base, curr, bc, cc) ==
    MatchTwoPass(base, On(base, Common(bc, cc)), curr, On(curr, Common(bc, cc)))

\* The findings of one side: matched, left over by the match, out of its reach,
\* or a duplicate of an earlier one.
Sorted(s, matched, left, alone, duplicates) ==
    /\ matched \cup left \cup alone \cup duplicates = DOMAIN s
    /\ matched \cap left = {} /\ matched \cap alone = {} /\ matched \cap duplicates = {}
    /\ left \cap alone = {} /\ left \cap duplicates = {} /\ alone \cap duplicates = {}
    /\ \A i \in duplicates : \E j \in DOMAIN s :
           j < i /\ (SameRule(s[j], s[i]) \/ FindingKey(s[j]) = FindingKey(s[i]))

\* Each side is sorted so.
LEMMA SideSorted ==
    ASSUME NEW s, NEW hosts, NEW matched, NEW left, NEW dropped,
           SideMatched(s, On(s, hosts), matched, left, dropped)
    PROVE  Sorted(s, matched, left, Alone(s, hosts), Duplicates(s, On(s, hosts), dropped))
<1> DEFINE at == On(s, hosts)
           others == DOMAIN s \ at
           same == Dropped(s, others, FindingKey)
<1>1. at \subseteq DOMAIN s
    BY DEF On
<1>2. Alone(s, hosts) = others \ same
    BY DEF Alone, Dedupe
<1>3. Duplicates(s, at, dropped) = dropped \cup same
    BY DEF Duplicates
<1>4. /\ same \subseteq others
      /\ \A i \in same : \E j \in others : j < i /\ FindingKey(s[j]) = FindingKey(s[i])
    BY DEF Dropped
<1> HIDE DEF at, same
<1>5. /\ matched \cup left \cup dropped = at
      /\ matched \cap left = {} /\ matched \cap dropped = {} /\ left \cap dropped = {}
      /\ \A i \in dropped : \E j \in at : j < i /\ SameRule(s[j], s[i])
    BY DEF SideMatched, at
<1>6. Sorted(s, matched, left, others \ same, dropped \cup same)
    <2>1. matched \cup left \cup (others \ same) \cup (dropped \cup same) = DOMAIN s
        BY <1>1, <1>4, <1>5
    <2>2. ASSUME NEW i \in dropped \cup same
          PROVE  \E j \in DOMAIN s :
                    j < i /\ (SameRule(s[j], s[i]) \/ FindingKey(s[j]) = FindingKey(s[i]))
        BY <1>1, <1>4, <1>5
    <2>3. /\ matched \cap left = {} /\ matched \cap (others \ same) = {}
          /\ matched \cap (dropped \cup same) = {} /\ left \cap (others \ same) = {}
          /\ left \cap (dropped \cup same) = {} /\ (others \ same) \cap (dropped \cup same) = {}
        BY <1>1, <1>4, <1>5
    <2> QED BY <2>1, <2>2, <2>3 DEF Sorted
<1> QED BY <1>2, <1>3, <1>6 DEF at

\* Two scan sets, sorted.
BothSorted(base, curr, bc, cc, M) ==
    /\ Matched(base, On(base, Common(bc, cc)), curr, On(curr, Common(bc, cc)), M)
    /\ Sorted(base, {p[1] : p \in M.pairs}, M.base, Alone(base, Common(bc, cc)),
              Duplicates(base, On(base, Common(bc, cc)), M.dropped.base))
    /\ Sorted(curr, {p[2] : p \in M.pairs}, M.curr, Alone(curr, Common(bc, cc)),
              Duplicates(curr, On(curr, Common(bc, cc)), M.dropped.curr))

LEMMA ScanSetsSorted ==
    ASSUME NEW base, IsList(base), NEW curr, IsList(curr), NEW bc, NEW cc
    PROVE  BothSorted(base, curr, bc, cc, MatchOf(base, curr, bc, cc))
<1> DEFINE hosts == Common(bc, cc)
           M == MatchOf(base, curr, bc, cc)
<1>1. /\ Len(base) \in Nat /\ DOMAIN base = 1..Len(base)
      /\ Len(curr) \in Nat /\ DOMAIN curr = 1..Len(curr)
    BY ListDomain
<1>2. On(base, hosts) \subseteq DOMAIN base /\ On(curr, hosts) \subseteq DOMAIN curr
    BY DEF On
<1> HIDE DEF hosts
<1>3. Matched(base, On(base, hosts), curr, On(curr, hosts), M)
    <2>1. On(base, hosts) \in SUBSET (1..Len(base)) /\ On(curr, hosts) \in SUBSET (1..Len(curr))
        BY <1>1, <1>2
    <2> QED BY <1>1, <2>1, MatchKeepsPromise DEF MatchOf, hosts
<1> HIDE DEF M
<1>4. /\ SideMatched(base, On(base, hosts), {p[1] : p \in M.pairs}, M.base, M.dropped.base)
      /\ SideMatched(curr, On(curr, hosts), {p[2] : p \in M.pairs}, M.curr, M.dropped.curr)
    BY <1>3, Zenon DEF Matched
<1>5. /\ Sorted(base, {p[1] : p \in M.pairs}, M.base, Alone(base, hosts),
                Duplicates(base, On(base, hosts), M.dropped.base))
      /\ Sorted(curr, {p[2] : p \in M.pairs}, M.curr, Alone(curr, hosts),
                Duplicates(curr, On(curr, hosts), M.dropped.curr))
    BY <1>4, SideSorted
<1> QED BY <1>3, <1>5, Zenon DEF BothSorted, hosts, M

\* The tags of a finding, and that it has one, or none.
OfBase(tags, i) == {t \in tags : t.base = i}
OneOrNone(mine, none) == IF none THEN mine = {} ELSE \E u : mine = {u}

\* A baseline finding has one tag, or none if it is a duplicate.
LEMMA OneTagOfBase ==
    ASSUME NEW base, IsList(base), NEW curr, NEW bc, NEW cc, NEW M, NEW uB, NEW uC, NEW dB,
           \A p \in M.pairs : p = <<p[1], p[2]>>,
           \A p, q \in M.pairs : p[1] = q[1] \/ p[2] = q[2] => p = q,
           Sorted(base, {p[1] : p \in M.pairs}, M.base, uB, dB),
           NEW i \in DOMAIN base
    PROVE  OneOrNone(OfBase(TagsFrom(base, curr, bc, cc, M, uB, uC), i), i \in dB)
<1> DEFINE tags == TagsFrom(base, curr, bc, cc, M, uB, uC)
           matched == {p[1] : p \in M.pairs}
<1> USE DEF OneOrNone, OfBase
<1>1. i # None
    BY ListDomain DEF None
<1>2. /\ \A t \in tags : /\ t = Tag(t.delta_status, t.base, t.curr)
                         /\ Says(t, base, curr, bc, cc, M, uB, uC)
      /\ \A st, b, c : Says(Tag(st, b, c), base, curr, bc, cc, M, uB, uC) => Tag(st, b, c) \in tags
    BY TagsSay
<1>3. \A p \in M.pairs : p[1] \in matched
    OBVIOUS
<1>3a. \A j \in matched : \E p \in M.pairs : j = p[1]
    OBVIOUS
<1>4. \A b, c : <<b, c>> \in M.pairs => b \in matched
    BY <1>3
<1>5. /\ i \in matched \/ i \in M.base \/ i \in uB \/ i \in dB
      /\ i \in matched => i \notin M.base /\ i \notin uB /\ i \notin dB
      /\ i \in M.base => i \notin uB /\ i \notin dB
      /\ i \in uB => i \notin dB
    BY DEF Sorted
<1> HIDE DEF tags, matched
<1>6. CASE i \in dB
    <2>1. ASSUME NEW t \in tags, t.base = i PROVE FALSE
        BY <1>1, <1>2, <1>4, <1>5, <1>6, <2>1 DEF Says
    <2> QED BY <1>6, <2>1 DEF tags
<1>7. CASE i \in uB
    <2>1. Tag("Not re-scanned", i, None) \in tags
        BY <1>2, <1>7 DEF Says, Tag
    <2>2. ASSUME NEW t \in tags, t.base = i PROVE t = Tag("Not re-scanned", i, None)
        <3>1. t.delta_status = "Not re-scanned" /\ t.curr = None
            BY <1>1, <1>2, <1>4, <1>5, <1>7, <2>2 DEF Says
        <3>2. t = Tag(t.delta_status, t.base, t.curr)
            BY <1>2
        <3> QED BY <2>2, <3>1, <3>2
    <2>3. Tag("Not re-scanned", i, None).base = i
        BY DEF Tag
    <2>4. {t \in tags : t.base = i} = {Tag("Not re-scanned", i, None)}
        BY <2>1, <2>2, <2>3
    <2> QED BY <1>5, <1>7, <2>4 DEF tags
<1>8. CASE i \in M.base
    <2> DEFINE st == IF Rescanned(base[i], cc) THEN "Resolved" ELSE "Not re-scanned"
    <2>1. Tag(st, i, None) \in tags
        <3>1. Says(Tag(st, i, None), base, curr, bc, cc, M, uB, uC)
            BY <1>8 DEF Says, Tag
        <3> QED BY <1>2, <3>1
    <2>2. ASSUME NEW t \in tags, t.base = i PROVE t = Tag(st, i, None)
        <3>1. t.delta_status = st /\ t.curr = None
            BY <1>1, <1>2, <1>4, <1>5, <1>8, <2>2 DEF Says
        <3>2. t = Tag(t.delta_status, t.base, t.curr)
            BY <1>2
        <3> QED BY <2>2, <3>1, <3>2
    <2>3. Tag(st, i, None).base = i
        BY DEF Tag
    <2>4. {t \in tags : t.base = i} = {Tag(st, i, None)}
        BY <2>1, <2>2, <2>3
    <2> QED BY <1>5, <1>8, <2>4 DEF tags
<1>9. CASE i \in matched
    <2>1. PICK p \in M.pairs : i = p[1]
        BY <1>3a, <1>9
    <2>2. p = <<i, p[2]>>
        BY <2>1
    <2>3. Tag("Persisting", i, p[2]) \in tags
        <3>1. Says(Tag("Persisting", i, p[2]), base, curr, bc, cc, M, uB, uC)
            BY <2>2 DEF Says, Tag
        <3> QED BY <1>2, <3>1
    <2>4. ASSUME NEW t \in tags, t.base = i PROVE t = Tag("Persisting", i, p[2])
        <3>1. t.delta_status = "Persisting" /\ <<t.base, t.curr>> \in M.pairs
            BY <1>1, <1>2, <1>5, <1>9, <2>4 DEF Says
        <3>2. <<t.base, t.curr>> = p
            BY <2>1, <2>4, <3>1
        <3>3. t.curr = p[2]
            BY <3>2
        <3>4. t = Tag(t.delta_status, t.base, t.curr)
            BY <1>2
        <3> QED BY <2>4, <3>1, <3>3, <3>4
    <2>5. Tag("Persisting", i, p[2]).base = i
        BY DEF Tag
    <2>6. {t \in tags : t.base = i} = {Tag("Persisting", i, p[2])}
        BY <2>3, <2>4, <2>5
    <2> QED BY <1>5, <1>9, <2>6 DEF tags
<1> QED BY <1>5, <1>6, <1>7, <1>8, <1>9

---------------------------------------------------------------------------
(* The tags of the comparison the other way round                            *)
MirrorStatus(status) ==
    CASE status = "New" -> "Resolved" [] status = "Resolved" -> "New"
      [] status = "Not re-scanned" -> "Newly scanned"
      [] status = "Newly scanned" -> "Not re-scanned"
      [] OTHER -> status
Flip(t) == Tag(MirrorStatus(t.delta_status), t.curr, t.base)

\* N is the match M from the other side.
Mirrors(M, N) ==
    /\ \A b, c : <<b, c>> \in M.pairs => <<c, b>> \in N.pairs
    /\ N.base = M.curr /\ N.curr = M.base

\* Each status is the mirror of its mirror.
LEMMA MirrorTwice ==
    /\ MirrorStatus("New") = "Resolved" /\ MirrorStatus("Resolved") = "New"
    /\ MirrorStatus("Not re-scanned") = "Newly scanned"
    /\ MirrorStatus("Newly scanned") = "Not re-scanned"
    /\ MirrorStatus("Persisting") = "Persisting"
BY DEF MirrorStatus

\* A tag of one comparison is, flipped, a tag of the other.
LEMMA FlipSays ==
    ASSUME NEW base, NEW curr, NEW bc, NEW cc, NEW M, NEW N, NEW uB, NEW uC, NEW t,
           Mirrors(M, N), Says(t, base, curr, bc, cc, M, uB, uC),
           t = Tag(t.delta_status, t.base, t.curr)
    PROVE  /\ Says(Flip(t), curr, base, cc, bc, N, uC, uB)
           /\ Flip(Flip(t)) = t
           /\ Flip(t) = Tag(Flip(t).delta_status, Flip(t).base, Flip(t).curr)
           /\ Flip(t).base = t.curr /\ Flip(t).curr = t.base
<1> DEFINE u == Flip(t)
<1>1. u.delta_status = MirrorStatus(t.delta_status) /\ u.base = t.curr /\ u.curr = t.base
    BY DEF Flip, Tag
<1>2. u = Tag(u.delta_status, u.base, u.curr)
    BY <1>1 DEF Flip
<1> HIDE DEF u
<1>3. Says(u, curr, base, cc, bc, N, uC, uB)
    BY <1>1, MirrorTwice DEF Says, Mirrors
<1>4. MirrorStatus(u.delta_status) = t.delta_status
    BY <1>1, MirrorTwice DEF Says
<1>5. Flip(u) = Tag(t.delta_status, t.base, t.curr)
    BY <1>1, <1>4 DEF Flip
<1> QED BY <1>1, <1>2, <1>3, <1>5 DEF u

\* What the match says, from either side.
LEMMA MatchesMirror ==
    ASSUME NEW base, IsList(base), NEW curr, IsList(curr), NEW bc, NEW cc
    PROVE  /\ Mirrors(MatchOf(base, curr, bc, cc), MatchOf(curr, base, cc, bc))
           /\ Mirrors(MatchOf(curr, base, cc, bc), MatchOf(base, curr, bc, cc))
           /\ MatchOf(curr, base, cc, bc).dropped.base = MatchOf(base, curr, bc, cc).dropped.curr
           /\ MatchOf(curr, base, cc, bc).dropped.curr = MatchOf(base, curr, bc, cc).dropped.base
<1> DEFINE M == MatchOf(base, curr, bc, cc)
           N == MatchOf(curr, base, cc, bc)
<1>1. Common(bc, cc) = Common(cc, bc)
    BY DEF Common
<1>2. On(base, Common(bc, cc)) \subseteq DOMAIN base /\ On(curr, Common(bc, cc)) \subseteq DOMAIN curr
    BY DEF On
<1>3. N = Mirrored(M)
    BY <1>1, <1>2, MatchMirrors DEF MatchOf
<1>4. \A p \in M.pairs : p = <<p[1], p[2]>>
    <2>1. BothSorted(base, curr, bc, cc, M)
        BY ScanSetsSorted
    <2> HIDE DEF M
    <2> QED BY <2>1 DEF BothSorted, Matched
<1> HIDE DEF M, N
<1>5. /\ N.pairs = {<<p[2], p[1]>> : p \in M.pairs} /\ N.base = M.curr /\ N.curr = M.base
      /\ N.dropped.base = M.dropped.curr /\ N.dropped.curr = M.dropped.base
    BY <1>3 DEF Mirrored
<1>6. Mirrors(M, N)
    <2>1. ASSUME NEW b, NEW c, <<b, c>> \in M.pairs PROVE <<c, b>> \in N.pairs
        <3>1. <<b, c>>[1] = b /\ <<b, c>>[2] = c
            OBVIOUS
        <3> QED BY <2>1, <3>1, <1>5
    <2> QED BY <2>1, <1>5 DEF Mirrors
<1>7. Mirrors(N, M)
    <2>1. ASSUME NEW b, NEW c, <<b, c>> \in N.pairs PROVE <<c, b>> \in M.pairs
        <3>1. PICK p \in M.pairs : <<b, c>> = <<p[2], p[1]>>
            BY <2>1, <1>5
        <3>2. b = p[2] /\ c = p[1] /\ p = <<p[1], p[2]>>
            BY <3>1, <1>4
        <3> QED BY <3>2
    <2> QED BY <2>1, <1>5 DEF Mirrors
<1> QED BY <1>5, <1>6, <1>7 DEF M, N

\* The tags of a comparison, as TagsFrom tells them.
LEMMA TagsOf ==
    ASSUME NEW base, NEW curr, NEW bc, NEW cc
    PROVE  Tags(base, curr, bc, cc)
             = TagsFrom(base, curr, bc, cc, MatchOf(base, curr, bc, cc),
                        Alone(base, Common(bc, cc)), Alone(curr, Common(bc, cc)))
BY TagsAreFromMatch, Zenon DEF MatchOf

\* The comparison the other way round has the tags of this one, flipped.
LEMMA TagsMirror ==
    ASSUME NEW base, IsList(base), NEW curr, IsList(curr), NEW bc, NEW cc
    PROVE  /\ \A t \in Tags(base, curr, bc, cc) :
                  /\ Flip(t) \in Tags(curr, base, cc, bc)
                  /\ Flip(Flip(t)) = t
                  /\ Flip(t).base = t.curr /\ Flip(t).curr = t.base
           /\ Tags(curr, base, cc, bc) = {Flip(t) : t \in Tags(base, curr, bc, cc)}
<1> DEFINE M == MatchOf(base, curr, bc, cc)
           N == MatchOf(curr, base, cc, bc)
           uB == Alone(base, Common(bc, cc))
           uC == Alone(curr, Common(bc, cc))
           tags == Tags(base, curr, bc, cc)
           back == Tags(curr, base, cc, bc)
<1>1. Mirrors(M, N) /\ Mirrors(N, M)
    BY MatchesMirror
<1>2. /\ \A p \in M.pairs : p = <<p[1], p[2]>>
      /\ \A p \in N.pairs : p = <<p[1], p[2]>>
    <2>1. BothSorted(base, curr, bc, cc, M) /\ BothSorted(curr, base, cc, bc, N)
        BY ScanSetsSorted
    <2> HIDE DEF M, N
    <2> QED BY <2>1 DEF BothSorted, Matched
<1>3. tags = TagsFrom(base, curr, bc, cc, M, uB, uC)
    BY TagsOf
<1>4. back = TagsFrom(curr, base, cc, bc, N, uC, uB)
    <2>1. Common(bc, cc) = Common(cc, bc)
        BY DEF Common
    <2> QED BY <2>1, TagsOf
<1> HIDE DEF M, N, uB, uC, tags, back
<1>5. /\ \A t \in tags : /\ t = Tag(t.delta_status, t.base, t.curr)
                         /\ Says(t, base, curr, bc, cc, M, uB, uC)
      /\ \A st, i, j : Says(Tag(st, i, j), base, curr, bc, cc, M, uB, uC) => Tag(st, i, j) \in tags
    BY <1>2, <1>3, TagsSay
<1>6. /\ \A t \in back : /\ t = Tag(t.delta_status, t.base, t.curr)
                         /\ Says(t, curr, base, cc, bc, N, uC, uB)
      /\ \A st, i, j : Says(Tag(st, i, j), curr, base, cc, bc, N, uC, uB) => Tag(st, i, j) \in back
    BY <1>2, <1>4, TagsSay
<1>7. ASSUME NEW t \in tags
      PROVE  /\ Flip(t) \in back /\ Flip(Flip(t)) = t
             /\ Flip(t).base = t.curr /\ Flip(t).curr = t.base
    <2>1. t = Tag(t.delta_status, t.base, t.curr) /\ Says(t, base, curr, bc, cc, M, uB, uC)
        BY <1>5
    <2>2. /\ Says(Flip(t), curr, base, cc, bc, N, uC, uB) /\ Flip(Flip(t)) = t
          /\ Flip(t) = Tag(Flip(t).delta_status, Flip(t).base, Flip(t).curr)
          /\ Flip(t).base = t.curr /\ Flip(t).curr = t.base
        BY <1>1, <2>1, FlipSays
    <2> QED BY <1>6, <2>2
<1>8. ASSUME NEW t \in back PROVE Flip(t) \in tags /\ Flip(Flip(t)) = t
    <2>1. t = Tag(t.delta_status, t.base, t.curr) /\ Says(t, curr, base, cc, bc, N, uC, uB)
        BY <1>6
    <2>2. /\ Says(Flip(t), base, curr, bc, cc, M, uB, uC) /\ Flip(Flip(t)) = t
          /\ Flip(t) = Tag(Flip(t).delta_status, Flip(t).base, Flip(t).curr)
        BY <1>1, <2>1, FlipSays
    <2> QED BY <1>5, <2>2
<1>9. back = {Flip(t) : t \in tags}
    BY <1>7, <1>8
<1> QED BY <1>7, <1>9 DEF tags, back

\* What a comparison does with the findings of one side, by the position pos(t)
\* that its tags give them.
OneTagEach(s, mine, duplicates) ==
    /\ \A i \in DOMAIN s : IF i \in duplicates THEN mine[i] = {} ELSE \E t : mine[i] = {t}
    /\ \A i \in duplicates : \E j \in DOMAIN s :
           j < i /\ (SameRule(s[j], s[i]) \/ FindingKey(s[j]) = FindingKey(s[i]))

\* Each finding of the baseline has one tag, or none if it is a duplicate.
LEMMA BaseTagged ==
    ASSUME NEW base, IsList(base), NEW curr, IsList(curr), NEW bc, NEW cc
    PROVE  OneTagEach(base,
               [i \in DOMAIN base |-> {t \in Tags(base, curr, bc, cc) : t.base = i}],
               Duplicates(base, On(base, Common(bc, cc)),
                          MatchOf(base, curr, bc, cc).dropped.base))
<1> DEFINE M == MatchOf(base, curr, bc, cc)
           uB == Alone(base, Common(bc, cc))
           uC == Alone(curr, Common(bc, cc))
           dB == Duplicates(base, On(base, Common(bc, cc)), M.dropped.base)
           tags == Tags(base, curr, bc, cc)
           mine == [i \in DOMAIN base |-> {t \in tags : t.base = i}]
<1>1. BothSorted(base, curr, bc, cc, M)
    BY ScanSetsSorted
<1>2. tags = TagsFrom(base, curr, bc, cc, M, uB, uC)
    BY TagsOf
<1> HIDE DEF M, uB, uC, tags
<1>3. /\ Sorted(base, {p[1] : p \in M.pairs}, M.base, uB, dB)
      /\ \A p \in M.pairs : p = <<p[1], p[2]>>
      /\ \A p, q \in M.pairs : p[1] = q[1] \/ p[2] = q[2] => p = q
    BY <1>1 DEF BothSorted, Matched, uB
<1> HIDE DEF dB
<1>4. ASSUME NEW i \in DOMAIN base
      PROVE  IF i \in dB THEN mine[i] = {} ELSE \E t : mine[i] = {t}
    <2>1. mine[i] = {t \in TagsFrom(base, curr, bc, cc, M, uB, uC) : t.base = i}
        BY <1>2
    <2>2. OneOrNone(OfBase(TagsFrom(base, curr, bc, cc, M, uB, uC), i), i \in dB)
        BY <1>3, OneTagOfBase
    <2> HIDE DEF mine
    <2> QED BY <2>1, <2>2 DEF OneOrNone, OfBase
<1>5. \A i \in dB : \E j \in DOMAIN base :
           j < i /\ (SameRule(base[j], base[i]) \/ FindingKey(base[j]) = FindingKey(base[i]))
    BY <1>3 DEF Sorted
<1> HIDE DEF mine
<1>6. OneTagEach(base, mine, dB)
    BY <1>4, <1>5 DEF OneTagEach
<1> QED BY <1>6 DEF mine, tags, dB, M

\* So has each finding of the current set.
LEMMA CurrTagged ==
    ASSUME NEW base, IsList(base), NEW curr, IsList(curr), NEW bc, NEW cc
    PROVE  OneTagEach(curr,
               [i \in DOMAIN curr |-> {t \in Tags(base, curr, bc, cc) : t.curr = i}],
               Duplicates(curr, On(curr, Common(bc, cc)),
                          MatchOf(base, curr, bc, cc).dropped.curr))
<1> DEFINE tags == Tags(base, curr, bc, cc)
           back == Tags(curr, base, cc, bc)
           mine == [i \in DOMAIN curr |-> {t \in tags : t.curr = i}]
           its == [i \in DOMAIN curr |-> {t \in back : t.base = i}]
           dC == Duplicates(curr, On(curr, Common(bc, cc)),
                            MatchOf(base, curr, bc, cc).dropped.curr)
<1>1. OneTagEach(curr, its, dC)
    <2>1. MatchOf(curr, base, cc, bc).dropped.base = MatchOf(base, curr, bc, cc).dropped.curr
        BY MatchesMirror
    <2>2. Common(cc, bc) = Common(bc, cc)
        BY DEF Common
    <2> QED BY <2>1, <2>2, BaseTagged
<1>2. /\ \A t \in tags : /\ Flip(t) \in back /\ Flip(Flip(t)) = t
                         /\ Flip(t).base = t.curr /\ Flip(t).curr = t.base
      /\ \A t \in back : /\ Flip(t) \in tags /\ Flip(Flip(t)) = t
                         /\ Flip(t).base = t.curr /\ Flip(t).curr = t.base
    BY TagsMirror
<1> HIDE DEF tags, back, dC
<1>3. ASSUME NEW i \in DOMAIN curr, its[i] = {} PROVE mine[i] = {}
    BY <1>2, <1>3
<1>4. ASSUME NEW i \in DOMAIN curr, NEW u, its[i] = {u} PROVE mine[i] = {Flip(u)}
    <2>1. u \in back /\ u.base = i /\ \A v \in back : v.base = i => v = u
        BY <1>4
    <2>2. Flip(u) \in tags /\ Flip(u).curr = i
        BY <2>1, <1>2
    <2>3. ASSUME NEW t \in tags, t.curr = i PROVE t = Flip(u)
        <3>1. Flip(t) = u
            BY <2>1, <2>3, <1>2
        <3> QED BY <3>1, <1>2
    <2> QED BY <2>2, <2>3
<1> HIDE DEF mine, its
<1>5. OneTagEach(curr, mine, dC)
    BY <1>1, <1>3, <1>4 DEF OneTagEach
<1> QED BY <1>5 DEF mine, tags, dC

---------------------------------------------------------------------------
(* Coverage: what a set of scans can speak about                             *)

\* every finding of s is of a pair that its own coverage lists
Covered(s, coverage) == \A i \in DOMAIN s : <<s[i].server, s[i].stig_title>> \in coverage

\* A covered finding's key and host are among those of the coverage.
LEMMA CoveredKeys ==
    ASSUME NEW s, NEW coverage, Covered(s, coverage), NEW i \in DOMAIN s
    PROVE  PairOf(s[i]) \in PairKeys(coverage) /\ HostKey(s[i].server) \in Hosts(coverage)
<1>1. PairOf(s[i]) \in PairKeys(coverage)
    BY DEF Covered, PairOf, PairKeys
<1>2. PairOf(s[i])[1] = HostKey(s[i].server)
    BY DEF PairOf, PairKey
<1> QED BY <1>1, <1>2 DEF Hosts

\* A set that never saw a host did not scan its findings again.
LEMMA UnseenHost ==
    ASSUME NEW f, NEW other, HostKey(f.server) \notin Hosts(other)
    PROVE  ~Rescanned(f, other)
<1>1. PairOf(f)[1] = HostKey(f.server)
    BY DEF PairOf, PairKey
<1> QED BY <1>1 DEF Rescanned, Hosts

\* Findings of one rule are on one host.
LEMMA SameHost ==
    ASSUME NEW f, NEW g, SameRule(f, g)
    PROVE  HostKey(f.server) = HostKey(g.server)
<1>1. ASSUME NEW h, VulnKey(h) # NoKey PROVE VulnKey(h)[1] = HostKey(h.server)
    BY <1>1 DEF VulnKey
<1>2. ASSUME NEW h, RuleKey(h) # NoKey PROVE RuleKey(h)[1] = HostKey(h.server)
    BY <1>2 DEF RuleKey
<1> QED BY <1>1, <1>2 DEF SameRule

\* A pair that a coverage lists is a gap exactly if the other set did not scan
\* it again.
LEMMA GapOrRescanned ==
    ASSUME NEW coverage, NEW other, NEW f, PairOf(f) \in PairKeys(coverage)
    PROVE  (\E p \in Gaps(coverage, other) : PairKey(p) = PairOf(f)) <=> ~Rescanned(f, other)
<1>1. ASSUME NEW key \in PairKeys(coverage) PROVE PairKey(Spelling(coverage, key)) = key
    <2>1. \E p \in coverage : PairKey(p) = key
        BY DEF PairKeys
    <2> QED BY <2>1 DEF Spelling
<1>2. PairOf(f)[2] = StigKey(f.stig_title)
    BY DEF PairOf, PairKey
<1>3. ~Rescanned(f, other) <=> PairOf(f) \notin PairKeys(other) \/ PairOf(f)[2] = ""
    BY <1>2 DEF Rescanned
<1>4. ASSUME NEW p \in Gaps(coverage, other), PairKey(p) = PairOf(f)
      PROVE  PairOf(f) \notin PairKeys(other) \/ PairOf(f)[2] = ""
    <2>1. PICK key \in PairKeys(coverage) :
              /\ key \notin PairKeys(other) \/ key[2] = ""
              /\ p = Spelling(coverage, key)
        BY DEF Gaps
    <2> QED BY <1>1, <1>4, <2>1
<1>5. ASSUME PairOf(f) \notin PairKeys(other) \/ PairOf(f)[2] = ""
      PROVE  \E p \in Gaps(coverage, other) : PairKey(p) = PairOf(f)
    <2>1. Spelling(coverage, PairOf(f)) \in Gaps(coverage, other)
        BY <1>5 DEF Gaps
    <2> QED BY <1>1, <2>1
<1> QED BY <1>3, <1>4, <1>5

---------------------------------------------------------------------------
(* Classification                                                            *)

\* what a tag tells of the findings it names
TagTells(t, base, curr, bc, cc) ==
    \/ /\ t.delta_status = "Resolved" /\ t.base \in DOMAIN base /\ t.curr = None
       /\ Rescanned(base[t.base], cc)
    \/ /\ t.delta_status = "Not re-scanned" /\ t.base \in DOMAIN base /\ t.curr = None
       /\ ~Rescanned(base[t.base], cc)
    \/ /\ t.delta_status = "New" /\ t.curr \in DOMAIN curr /\ t.base = None
       /\ Rescanned(curr[t.curr], bc)
    \/ /\ t.delta_status = "Newly scanned" /\ t.curr \in DOMAIN curr /\ t.base = None
       /\ ~Rescanned(curr[t.curr], bc)
    \/ t.delta_status = "Persisting" /\ t.base \in DOMAIN base /\ t.curr \in DOMAIN curr

\* Every tag tells the truth about coverage.
LEMMA TagsTell ==
    ASSUME NEW base, IsList(base), NEW curr, IsList(curr), NEW bc, NEW cc,
           Covered(base, bc), Covered(curr, cc), NEW t \in Tags(base, curr, bc, cc)
    PROVE  /\ TagTells(t, base, curr, bc, cc)
           /\ t = Tag(t.delta_status, t.base, t.curr)
<1> DEFINE M == MatchOf(base, curr, bc, cc)
           uB == Alone(base, Common(bc, cc))
           uC == Alone(curr, Common(bc, cc))
           pB == {p[1] : p \in M.pairs}
           pC == {p[2] : p \in M.pairs}
<1>1. BothSorted(base, curr, bc, cc, M)
    BY ScanSetsSorted
<1> HIDE DEF M
<1>2. /\ \A p \in M.pairs : p = <<p[1], p[2]>>
      /\ pB \subseteq DOMAIN base /\ M.base \subseteq DOMAIN base /\ uB \subseteq DOMAIN base
      /\ pC \subseteq DOMAIN curr /\ M.curr \subseteq DOMAIN curr /\ uC \subseteq DOMAIN curr
    BY <1>1 DEF BothSorted, Matched, Sorted
<1>3. \A b, c : <<b, c>> \in M.pairs => b \in DOMAIN base /\ c \in DOMAIN curr
    <2>1. ASSUME NEW b, NEW c, <<b, c>> \in M.pairs PROVE b \in DOMAIN base /\ c \in DOMAIN curr
        <3>1. <<b, c>>[1] \in pB /\ <<b, c>>[2] \in pC
            BY <2>1
        <3> QED BY <3>1, <1>2
    <2> QED BY <2>1
<1>4. ASSUME NEW i \in uB PROVE ~Rescanned(base[i], cc)
    <2>1. i \in DOMAIN base /\ HostKey(base[i].server) \notin Common(bc, cc)
        BY DEF Alone, Dedupe, On
    <2>2. HostKey(base[i].server) \notin Hosts(cc)
        BY <2>1, CoveredKeys DEF Common
    <2> QED BY <2>2, UnseenHost
<1>5. ASSUME NEW i \in uC PROVE ~Rescanned(curr[i], bc)
    <2>1. i \in DOMAIN curr /\ HostKey(curr[i].server) \notin Common(bc, cc)
        BY DEF Alone, Dedupe, On
    <2>2. HostKey(curr[i].server) \notin Hosts(bc)
        BY <2>1, CoveredKeys DEF Common
    <2> QED BY <2>2, UnseenHost
<1>6. t = Tag(t.delta_status, t.base, t.curr) /\ Says(t, base, curr, bc, cc, M, uB, uC)
    <2>1. t \in TagsFrom(base, curr, bc, cc, M, uB, uC)
        BY TagsOf DEF M
    <2> HIDE DEF uB, uC
    <2> QED BY <2>1, <1>2, TagsSay
<1> HIDE DEF uB, uC, pB, pC
<1>7. CASE t.delta_status = "Not re-scanned" /\ t.base \in uB /\ t.curr = None
    BY <1>6, <1>2, <1>4, <1>7 DEF TagTells
<1>8. CASE t.delta_status = "Newly scanned" /\ t.base = None /\ t.curr \in uC
    BY <1>6, <1>2, <1>5, <1>8 DEF TagTells
<1>9. CASE t.delta_status = "Persisting" /\ <<t.base, t.curr>> \in M.pairs
    BY <1>6, <1>3, <1>9 DEF TagTells
<1>10. CASE /\ t.delta_status = IF Rescanned(base[t.base], cc) THEN "Resolved" ELSE "Not re-scanned"
            /\ t.base \in M.base /\ t.curr = None
    BY <1>6, <1>2, <1>10 DEF TagTells
<1>11. CASE /\ t.delta_status = IF Rescanned(curr[t.curr], bc) THEN "New" ELSE "Newly scanned"
            /\ t.base = None /\ t.curr \in M.curr
    BY <1>6, <1>2, <1>11 DEF TagTells
<1> QED BY <1>6, <1>7, <1>8, <1>9, <1>10, <1>11 DEF Says

\* Where no set lists a rule twice, a baseline finding persists exactly if the
\* current set has one of its rule, and is otherwise told by coverage.
LEMMA TagsClassify ==
    ASSUME NEW base, IsList(base), NEW curr, IsList(curr), NEW bc, NEW cc,
           Covered(base, bc), Covered(curr, cc),
           ~Overlaps(base, curr), ~Overlaps(curr, base), NEW i \in DOMAIN base
    PROVE  \E t \in Tags(base, curr, bc, cc) :
              /\ t.base = i
              /\ t.delta_status = IF \E j \in DOMAIN curr : SameRule(base[i], curr[j])
                                  THEN "Persisting"
                                  ELSE IF Rescanned(base[i], cc) THEN "Resolved" ELSE "Not re-scanned"
<1> DEFINE h == Common(bc, cc)
           M == MatchOf(base, curr, bc, cc)
           uB == Alone(base, h)
           uC == Alone(curr, h)
           dB == Duplicates(base, On(base, h), M.dropped.base)
           dC == Duplicates(curr, On(curr, h), M.dropped.curr)
           pB == {p[1] : p \in M.pairs}
           pC == {p[2] : p \in M.pairs}
           tags == Tags(base, curr, bc, cc)
<1>1. /\ Len(base) \in Nat /\ DOMAIN base = 1..Len(base)
      /\ Len(curr) \in Nat /\ DOMAIN curr = 1..Len(curr)
    BY ListDomain
<1>2. BothSorted(base, curr, bc, cc, M)
    BY ScanSetsSorted
<1>3. tags = TagsFrom(base, curr, bc, cc, M, uB, uC)
    BY TagsOf
<1> HIDE DEF M, tags
<1>4. /\ Matched(base, On(base, h), curr, On(curr, h), M)
      /\ Sorted(base, pB, M.base, uB, dB) /\ Sorted(curr, pC, M.curr, uC, dC)
    BY <1>2, Zenon DEF BothSorted
<1> HIDE DEF dB, dC
<1>5. dB = {} /\ dC = {}
    <2>1. ASSUME NEW k \in dB PROVE FALSE
        <3>1. PICK j \in DOMAIN base :
                  j < k /\ (SameRule(base[j], base[k]) \/ FindingKey(base[j]) = FindingKey(base[k]))
            BY <1>4 DEF Sorted
        <3>2. k \in DOMAIN base /\ j # k
            BY <1>1, <1>4, <3>1 DEF Sorted
        <3> QED BY <3>1, <3>2 DEF Overlaps
    <2>2. ASSUME NEW k \in dC PROVE FALSE
        <3>1. PICK j \in DOMAIN curr :
                  j < k /\ (SameRule(curr[j], curr[k]) \/ FindingKey(curr[j]) = FindingKey(curr[k]))
            BY <1>4 DEF Sorted
        <3>2. k \in DOMAIN curr /\ j # k
            BY <1>1, <1>4, <3>1 DEF Sorted
        <3> QED BY <3>1, <3>2 DEF Overlaps
    <2> QED BY <2>1, <2>2
<1>6. i \in pB \/ i \in M.base \/ i \in uB
    BY <1>4, <1>5 DEF Sorted
<1>7. ASSUME NEW st, NEW b, NEW c, Says(Tag(st, b, c), base, curr, bc, cc, M, uB, uC)
      PROVE  Tag(st, b, c) \in tags
    <2>1. \A p \in M.pairs : p = <<p[1], p[2]>>
        BY <1>4 DEF Matched
    <2> HIDE DEF uB, uC
    <2> QED BY <1>3, <1>7, <2>1, TagsSay
<1>9. CASE i \in pB
    <2>1. PICK p \in M.pairs : i = p[1]
        BY <1>9
    <2>2. p = <<i, p[2]>> /\ p[2] \in DOMAIN curr /\ SameRule(base[i], curr[p[2]])
        BY <2>1, <1>4 DEF Matched, Sorted
    <2>3. Tag("Persisting", i, p[2]) \in tags
        <3>1. Says(Tag("Persisting", i, p[2]), base, curr, bc, cc, M, uB, uC)
            BY <2>2 DEF Says, Tag
        <3> QED BY <1>7, <3>1
    <2>4. Tag("Persisting", i, p[2]).base = i /\ Tag("Persisting", i, p[2]).delta_status = "Persisting"
        BY DEF Tag
    <2>5. \E j \in DOMAIN curr : SameRule(base[i], curr[j])
        BY <2>2
    <2>6. \E t \in tags : t.base = i /\ t.delta_status = "Persisting"
        BY <2>3, <2>4
    <2> QED BY <2>5, <2>6 DEF tags
<1>10. CASE i \in M.base
    <2> DEFINE st == IF Rescanned(base[i], cc) THEN "Resolved" ELSE "Not re-scanned"
    <2>1. ASSUME NEW j \in DOMAIN curr, SameRule(base[i], curr[j]) PROVE FALSE
        <3>1. j \in On(curr, h)
            <4>1. HostKey(curr[j].server) = HostKey(base[i].server)
                BY <2>1, SameHost
            <4>2. i \in On(base, h)
                BY <1>4, <1>10 DEF Matched, SideMatched
            <4> QED BY <4>1, <4>2 DEF On
        <3>2. j \notin uC
            BY <3>1 DEF Alone, Dedupe
        <3>3. j \in pC \/ j \in M.curr
            BY <1>4, <1>5, <3>2 DEF Sorted
        <3>4. CASE j \in M.curr
            BY <1>4, <1>10, <2>1, <3>4 DEF Matched
        <3>5. CASE j \in pC
            <4>1. PICK p \in M.pairs : j = p[2]
                BY <3>5
            <4>2. p[1] \in pB /\ SameRule(base[p[1]], curr[j])
                BY <1>4, <4>1 DEF Matched
            <4>3. p[1] \in DOMAIN base /\ p[1] # i
                BY <1>4, <1>10, <4>2 DEF Sorted
            <4> QED BY <2>1, <4>2, <4>3 DEF Overlaps
        <3> QED BY <3>3, <3>4, <3>5
    <2>2. Tag(st, i, None) \in tags
        <3>1. Says(Tag(st, i, None), base, curr, bc, cc, M, uB, uC)
            BY <1>10 DEF Says, Tag
        <3> QED BY <1>7, <3>1
    <2>3. Tag(st, i, None).base = i /\ Tag(st, i, None).delta_status = st
        BY DEF Tag
    <2>4. ~ \E j \in DOMAIN curr : SameRule(base[i], curr[j])
        BY <2>1
    <2> HIDE DEF st
    <2>5. \E t \in tags : t.base = i /\ t.delta_status = st
        BY <2>2, <2>3
    <2> QED BY <2>4, <2>5 DEF tags, st
<1>11. CASE i \in uB
    <2>1. HostKey(base[i].server) \notin Hosts(cc)
        <3>1. HostKey(base[i].server) \notin h
            BY <1>11 DEF Alone, Dedupe, On
        <3> QED BY <3>1, CoveredKeys DEF Common
    <2>2. ~Rescanned(base[i], cc)
        BY <2>1, UnseenHost
    <2>3. ASSUME NEW j \in DOMAIN curr, SameRule(base[i], curr[j]) PROVE FALSE
        BY <2>1, <2>3, SameHost, CoveredKeys
    <2>4. Tag("Not re-scanned", i, None) \in tags
        <3>1. Says(Tag("Not re-scanned", i, None), base, curr, bc, cc, M, uB, uC)
            BY <1>11 DEF Says, Tag
        <3> QED BY <1>7, <3>1
    <2>5. Tag("Not re-scanned", i, None).base = i
          /\ Tag("Not re-scanned", i, None).delta_status = "Not re-scanned"
        BY DEF Tag
    <2>6. ~ \E j \in DOMAIN curr : SameRule(base[i], curr[j])
        BY <2>3
    <2>7. \E t \in tags : t.base = i /\ t.delta_status = "Not re-scanned"
        BY <2>4, <2>5
    <2> QED BY <2>2, <2>6, <2>7 DEF tags
<1> QED BY <1>6, <1>9, <1>10, <1>11 DEF tags

---------------------------------------------------------------------------
(* The Summary sheet                                                         *)

\* A comparison of lists has finitely many tags.
LEMMA TagsFinite ==
    ASSUME NEW base, IsList(base), NEW curr, IsList(curr), NEW bc, NEW cc,
           Covered(base, bc), Covered(curr, cc)
    PROVE  IsFiniteSet(Tags(base, curr, bc, cc))
<1> DEFINE tags == Tags(base, curr, bc, cc)
           places == (0..Len(base)) \X (0..Len(curr))
           f == [t \in tags |-> <<t.delta_status, <<t.base, t.curr>>>>]
<1>1. /\ Len(base) \in Nat /\ DOMAIN base = 1..Len(base)
      /\ Len(curr) \in Nat /\ DOMAIN curr = 1..Len(curr)
    BY ListDomain
<1>2. IsFiniteSet(DELTA_STATUSES)
    <2>1. DELTA_STATUSES = ((({"New"} \cup {"Resolved"}) \cup {"Persisting"})
                                \cup {"Not re-scanned"}) \cup {"Newly scanned"}
        BY DEF DELTA_STATUSES
    <2>2. \A x : IsFiniteSet({x})
        BY FS_Singleton
    <2> QED BY <2>1, <2>2, FS_Union
<1>3. IsFiniteSet(DELTA_STATUSES \X places)
    <2>1. IsFiniteSet(0..Len(base)) /\ IsFiniteSet(0..Len(curr))
        BY <1>1, FS_Interval
    <2>2. IsFiniteSet(places)
        BY <2>1, FS_Product
    <2> HIDE DEF places
    <2> QED BY <1>2, <2>2, FS_Product
<1>4. ASSUME NEW t \in tags
      PROVE  /\ t.delta_status \in DELTA_STATUSES
             /\ t.base \in 0..Len(base) /\ t.curr \in 0..Len(curr)
             /\ t = Tag(t.delta_status, t.base, t.curr)
    <2>1. TagTells(t, base, curr, bc, cc) /\ t = Tag(t.delta_status, t.base, t.curr)
        BY TagsTell
    <2>2. t.delta_status \in DELTA_STATUSES
        BY <2>1 DEF TagTells, DELTA_STATUSES
    <2>3. ~(t.base \in DOMAIN base) => t.base = None
        BY <2>1 DEF TagTells
    <2>4. ~(t.curr \in DOMAIN curr) => t.curr = None
        BY <2>1 DEF TagTells
    <2> QED BY <1>1, <2>1, <2>2, <2>3, <2>4 DEF None
<1> HIDE DEF tags
<1>5. f \in Injection(tags, DELTA_STATUSES \X places)
    <2>1. f \in [tags -> DELTA_STATUSES \X places]
        BY <1>4
    <2>2. ASSUME NEW t \in tags, NEW u \in tags, f[t] = f[u] PROVE t = u
        <3>1. t.delta_status = u.delta_status /\ t.base = u.base /\ t.curr = u.curr
            BY <2>2
        <3> QED BY <3>1, <1>4
    <2> HIDE DEF f
    <2> QED BY <2>1, <2>2 DEF Injection, IsInjective
<1> HIDE DEF f, places
<1> QED BY <1>3, <1>5, FS_Injection DEF tags

\* The totals of the five statuses add up to the tags.
WithStatus(tags, status) == {t \in tags : t.delta_status = status}

LEMMA StatusTotals ==
    ASSUME NEW tags, IsFiniteSet(tags), \A t \in tags : t.delta_status \in DELTA_STATUSES
    PROVE  Cardinality(tags) =
               Cardinality(WithStatus(tags, "New")) + Cardinality(WithStatus(tags, "Resolved"))
                   + Cardinality(WithStatus(tags, "Persisting"))
                   + Cardinality(WithStatus(tags, "Not re-scanned"))
                   + Cardinality(WithStatus(tags, "Newly scanned"))
<1> DEFINE A == WithStatus(tags, "New")
           B == WithStatus(tags, "Resolved")
           C == WithStatus(tags, "Persisting")
           D == WithStatus(tags, "Not re-scanned")
           E == WithStatus(tags, "Newly scanned")
<1>1. /\ A \cap B = {} /\ (A \cup B) \cap C = {} /\ ((A \cup B) \cup C) \cap D = {}
      /\ (((A \cup B) \cup C) \cup D) \cap E = {}
    BY DEF WithStatus
<1>2. tags = (((A \cup B) \cup C) \cup D) \cup E
    BY DEF WithStatus, DELTA_STATUSES
<1>3. /\ A \in SUBSET tags /\ B \in SUBSET tags /\ C \in SUBSET tags
      /\ D \in SUBSET tags /\ E \in SUBSET tags
    BY DEF WithStatus
<1> HIDE DEF A, B, C, D, E
<1>4. /\ IsFiniteSet(A) /\ IsFiniteSet(B) /\ IsFiniteSet(C) /\ IsFiniteSet(D) /\ IsFiniteSet(E)
      /\ Cardinality(A) \in Nat /\ Cardinality(B) \in Nat /\ Cardinality(C) \in Nat
      /\ Cardinality(D) \in Nat /\ Cardinality(E) \in Nat
    BY <1>3, FS_Subset, FS_CardinalityType
<1>5. ASSUME NEW S, NEW T, IsFiniteSet(S), IsFiniteSet(T), S \cap T = {}
      PROVE  IsFiniteSet(S \cup T) /\ Cardinality(S \cup T) = Cardinality(S) + Cardinality(T)
    <2>1. Cardinality(S \cap T) = 0
        BY <1>5, FS_EmptySet
    <2>2. /\ IsFiniteSet(S \cup T)
          /\ Cardinality(S \cup T) = Cardinality(S) + Cardinality(T) - Cardinality(S \cap T)
        BY <1>5, FS_Union
    <2>3. Cardinality(S) \in Nat /\ Cardinality(T) \in Nat
        BY <1>5, FS_CardinalityType
    <2> QED BY <2>1, <2>2, <2>3
<1>6. IsFiniteSet(A \cup B) /\ Cardinality(A \cup B) = Cardinality(A) + Cardinality(B)
    BY <1>1, <1>4, <1>5
<1>7. /\ IsFiniteSet((A \cup B) \cup C)
      /\ Cardinality((A \cup B) \cup C) = Cardinality(A \cup B) + Cardinality(C)
    BY <1>1, <1>4, <1>5, <1>6
<1>8. /\ IsFiniteSet(((A \cup B) \cup C) \cup D)
      /\ Cardinality(((A \cup B) \cup C) \cup D) = Cardinality((A \cup B) \cup C) + Cardinality(D)
    BY <1>1, <1>4, <1>5, <1>7
<1>9. Cardinality((((A \cup B) \cup C) \cup D) \cup E)
          = Cardinality(((A \cup B) \cup C) \cup D) + Cardinality(E)
    BY <1>1, <1>4, <1>5, <1>8
<1> QED BY <1>2, <1>6, <1>7, <1>8, <1>9 DEF A, B, C, D, E

\* The finding that a tag shows.
Showing(t, base, curr) == IF t.curr = None THEN base[t.base] ELSE curr[t.curr]

\* A host is warned about for a finding of its own without a title.
LEMMA BlankHost ==
    ASSUME NEW base, NEW curr, NEW bc, NEW cc, NEW server, NEW title, StigKey(title) = "",
           \/ <<server, title>> \in {<<base[i].server, base[i].stig_title>> : i \in DOMAIN base}
           \/ <<server, title>> \in {<<curr[i].server, curr[i].stig_title>> : i \in DOMAIN curr}
    PROVE  HostKey(server) \in BlankHosts(base, curr, bc, cc)
<1> DEFINE pairs == bc \cup cc \cup {<<base[i].server, base[i].stig_title>> : i \in DOMAIN base}
                      \cup {<<curr[i].server, curr[i].stig_title>> : i \in DOMAIN curr}
           p == <<server, title>>
<1>1. p \in pairs /\ p[1] = server /\ p[2] = title
    OBVIOUS
<1>2. BlankHosts(base, curr, bc, cc) = {HostKey(q[1]) : q \in {r \in pairs : StigKey(r[2]) = ""}}
    BY DEF BlankHosts
<1> HIDE DEF pairs, p
<1>3. p \in {r \in pairs : StigKey(r[2]) = ""}
    BY <1>1
<1>4. HostKey(p[1]) \in {HostKey(q[1]) : q \in {r \in pairs : StigKey(r[2]) = ""}}
    BY <1>3
<1> QED BY <1>1, <1>2, <1>4

\* A finding that was not compared is listed as a gap, one that is Resolved or
\* New is not, and its host is warned about if it has no title.
Listing(t, f, base, curr, bc, cc) ==
    /\ t.delta_status = "Not re-scanned" => \E p \in Gaps(bc, cc) : PairKey(p) = PairOf(f)
    /\ t.delta_status = "Resolved" => ~ \E p \in Gaps(bc, cc) : PairKey(p) = PairOf(f)
    /\ t.delta_status = "Newly scanned" => \E p \in Gaps(cc, bc) : PairKey(p) = PairOf(f)
    /\ t.delta_status = "New" => ~ \E p \in Gaps(cc, bc) : PairKey(p) = PairOf(f)
    /\ t.delta_status # "Persisting" /\ StigKey(f.stig_title) = ""
           => HostKey(f.server) \in BlankHosts(base, curr, bc, cc)

\* Every tag's finding is listed so.
LEMMA TagsListed ==
    ASSUME NEW base, IsList(base), NEW curr, IsList(curr), NEW bc, NEW cc,
           Covered(base, bc), Covered(curr, cc), NEW t \in Tags(base, curr, bc, cc),
           NEW f, f = Showing(t, base, curr)
    PROVE  Listing(t, f, base, curr, bc, cc)
<1> USE DEF Listing
<1>1. TagTells(t, base, curr, bc, cc)
    BY TagsTell
<1>2. \A j \in DOMAIN curr : j # None
    BY ListDomain DEF None
<1>3. ASSUME NEW g, PairOf(g) \in PairKeys(bc)
      PROVE  (\E p \in Gaps(bc, cc) : PairKey(p) = PairOf(g)) <=> ~Rescanned(g, cc)
    BY <1>3, GapOrRescanned
<1>4. ASSUME NEW g, PairOf(g) \in PairKeys(cc)
      PROVE  (\E p \in Gaps(cc, bc) : PairKey(p) = PairOf(g)) <=> ~Rescanned(g, bc)
    BY <1>4, GapOrRescanned
<1>5. CASE t.delta_status \in {"Resolved", "Not re-scanned"}
    <2>1. t.base \in DOMAIN base /\ f = base[t.base]
        BY <1>1, <1>5 DEF TagTells, Showing
    <2>2. PairOf(f) \in PairKeys(bc)
        BY <2>1, CoveredKeys
    <2>3. /\ t.delta_status = "Resolved" => Rescanned(f, cc)
          /\ t.delta_status = "Not re-scanned" => ~Rescanned(f, cc)
        BY <1>1, <1>5, <2>1 DEF TagTells
    <2>4. <<f.server, f.stig_title>> \in {<<base[i].server, base[i].stig_title>> : i \in DOMAIN base}
        BY <2>1
    <2>5. StigKey(f.stig_title) = "" => HostKey(f.server) \in BlankHosts(base, curr, bc, cc)
        BY <2>4, BlankHost
    <2> QED BY <1>3, <1>5, <2>2, <2>3, <2>5
<1>6. CASE t.delta_status \in {"New", "Newly scanned"}
    <2>1. t.curr \in DOMAIN curr /\ f = curr[t.curr]
        BY <1>1, <1>2, <1>6 DEF TagTells, Showing
    <2>2. PairOf(f) \in PairKeys(cc)
        BY <2>1, CoveredKeys
    <2>3. /\ t.delta_status = "New" => Rescanned(f, bc)
          /\ t.delta_status = "Newly scanned" => ~Rescanned(f, bc)
        BY <1>1, <1>6, <2>1 DEF TagTells
    <2>4. <<f.server, f.stig_title>> \in {<<curr[i].server, curr[i].stig_title>> : i \in DOMAIN curr}
        BY <2>1
    <2>5. StigKey(f.stig_title) = "" => HostKey(f.server) \in BlankHosts(base, curr, bc, cc)
        BY <2>4, BlankHost
    <2> QED BY <1>4, <1>6, <2>2, <2>3, <2>5
<1> QED BY <1>1, <1>5, <1>6 DEF TagTells

---------------------------------------------------------------------------
(* The parsers                                                               *)

\* a file whose runs, blocks and their rows are lists
HoldsLists(f) ==
    /\ IsList(f.runs) /\ \A run \in ToSet(f.runs) : IsList(run)
    /\ IsList(f.blocks) /\ \A block \in ToSet(f.blocks) : IsList(block.rows)
GoodFiles(results) == IsList(results) /\ \A f \in ToSet(results) : HoldsLists(f)

\* The files that are read are files of the set, each by the parser for it.
LEMMA FilesRead ==
    ASSUME NEW results, GoodFiles(results)
    PROVE  /\ IsList(ReadXccdf(results)) /\ IsList(ReadSelf(results))
           /\ \A f \in ToSet(ReadXccdf(results)) :
                  HoldsLists(f) /\ ~SelfContained(f) /\ f.ext # "ckl"
           /\ \A f \in ToSet(ReadSelf(results)) : HoldsLists(f) /\ SelfContained(f)
<1> DEFINE x == Xccdf(results)
           atX == {i \in DOMAIN results : ~SelfContained(results[i])}
           atR == {i \in DOMAIN x : Readable(x[i]) /\ x[i].ext # "ckl"}
           atS == {i \in DOMAIN results : SelfContained(results[i]) /\ Readable(results[i])}
<1>1. /\ x = Kept(results, atX) /\ ReadXccdf(results) = Kept(x, atR)
      /\ ReadSelf(results) = Kept(results, atS)
    BY DEF Xccdf, ReadXccdf, ReadSelf, Select
<1>2. IsList(results) /\ \A i \in DOMAIN results : HoldsLists(results[i])
    BY ListDomain DEF GoodFiles
<1> HIDE DEF x, atR
<1>3. IsList(x) /\ \A f \in ToSet(x) : \E i \in atX : i \in DOMAIN results /\ f = results[i]
    BY <1>1, <1>2, KeptList
<1>4. \A i \in DOMAIN x : HoldsLists(x[i]) /\ ~SelfContained(x[i])
    BY <1>2, <1>3, ListDomain
<1>5. /\ IsList(ReadXccdf(results))
      /\ \A f \in ToSet(ReadXccdf(results)) : \E i \in atR : i \in DOMAIN x /\ f = x[i]
    <2>1. /\ IsList(Kept(x, atR))
          /\ \A f \in ToSet(Kept(x, atR)) : \E i \in atR : i \in DOMAIN x /\ f = x[i]
        BY <1>3, KeptList
    <2> QED BY <1>1, <2>1
<1>6. /\ IsList(ReadSelf(results))
      /\ \A f \in ToSet(ReadSelf(results)) : \E i \in atS : i \in DOMAIN results /\ f = results[i]
    BY <1>1, <1>2, KeptList
<1> QED BY <1>2, <1>4, <1>5, <1>6 DEF atR

\* A self-contained file is read as a list of rows, and so is a set of them.
LEMMA RowsAreList ==
    ASSUME NEW results, GoodFiles(results)
    PROVE  IsList(Rows(results))
<1> DEFINE read == ReadSelf(results)
           all == [i \in DOMAIN read |-> ParseSelfContained(read[i])]
<1>1. IsList(read) /\ \A i \in DOMAIN read : HoldsLists(read[i])
    BY FilesRead, ListDomain
<1> HIDE DEF read
<1>2. ASSUME NEW f, HoldsLists(f), NEW block \in ToSet(f.blocks) PROVE IsList(ParseBlock(f, block))
    <2> DEFINE rows == IF f.ext = "cklb" THEN CklbRows(block) ELSE block.rows
    <2>1. IsList(block.rows)
        BY <1>2 DEF HoldsLists
    <2>2. IsList(CklbRows(block))
        BY <2>1, KeptList DEF CklbRows, Select
    <2>3. IsList(rows)
        BY <2>1, <2>2
    <2>4. ParseBlock(f, block) = [i \in DOMAIN rows |-> ParseBlock(f, block)[i]]
        BY DEF ParseBlock
    <2> HIDE DEF rows
    <2> QED BY <2>3, <2>4, MappedList
<1>3. ASSUME NEW f, HoldsLists(f) PROVE IsList(ParseSelfContained(f))
    <2> DEFINE blocks == [i \in DOMAIN f.blocks |-> ParseBlock(f, f.blocks[i])]
    <2>1. IsList(f.blocks)
        BY <1>3 DEF HoldsLists
    <2>2. IsList(blocks)
        BY <2>1, MappedList
    <2>3. \A i \in DOMAIN blocks : IsList(blocks[i])
        BY <1>2, <1>3, <2>1, ListDomain
    <2>4. ParseSelfContained(f) = FlattenSeq(blocks)
        BY DEF ParseSelfContained
    <2> HIDE DEF blocks
    <2> QED BY <2>2, <2>3, <2>4, FlattenedList
<1>4. IsList(all)
    BY <1>1, MappedList
<1>5. \A i \in DOMAIN all : IsList(all[i])
    BY <1>1, <1>3
<1>6. Rows(results) = FlattenSeq(all)
    BY DEF Rows, read
<1> HIDE DEF all
<1> QED BY <1>4, <1>5, <1>6, FlattenedList

\* The scans are a list, and so are the results of each.
LEMMA ScansAreList ==
    ASSUME NEW results, GoodFiles(results)
    PROVE  /\ IsList(Scans(results))
           /\ \A s \in ToSet(Scans(results)) : IsList(s.rule_results)
<1> DEFINE read == ReadXccdf(results)
<1>1. IsList(read) /\ \A i \in DOMAIN read : HoldsLists(read[i])
    BY FilesRead, ListDomain
<1>2. Scans(results) = [i \in DOMAIN read |-> ParseResults(read[i])]
    BY DEF Scans
<1> HIDE DEF read
<1>3. IsList(Scans(results))
    BY <1>1, <1>2, MappedList
<1>4. ASSUME NEW f, HoldsLists(f) PROVE IsList(ParseResults(f).rule_results)
    <2> DEFINE run == Last(f.runs)
               at == {i \in DOMAIN run : run[i].rule_id # NoRule /\ run[i].status # ""}
    <2>1. ParseResults(f).rule_results = IF f.runs = <<>> THEN <<>> ELSE Kept(run, at)
        BY DEF ParseResults, Select
    <2>2. CASE f.runs = <<>>
        <3>1. <<>> \in Seq({})
            OBVIOUS
        <3> QED BY <2>1, <2>2, <3>1, SeqIsList
    <2>3. CASE f.runs # <<>>
        <3>1. IsList(f.runs) /\ \A r \in ToSet(f.runs) : IsList(r)
            BY <1>4 DEF HoldsLists
        <3>2. Len(f.runs) \in DOMAIN f.runs /\ f.runs \in Seq(ToSet(f.runs))
            <4>1. f.runs \in Seq(ToSet(f.runs))
                BY <3>1, ListDomain
            <4>2. Len(f.runs) \in Nat /\ Len(f.runs) # 0 /\ DOMAIN f.runs = 1..Len(f.runs)
                BY <2>3, <4>1, EmptySeq, LenProperties
            <4> QED BY <4>1, <4>2
        <3>3. run = f.runs[Len(f.runs)]
            BY DEF Last
        <3>4. IsList(run)
            BY <3>1, <3>2, <3>3, ListDomain
        <3> HIDE DEF run
        <3> QED BY <2>1, <2>3, <3>4, KeptList
    <2> QED BY <2>2, <2>3
<1>5. ASSUME NEW s \in ToSet(Scans(results)) PROVE IsList(s.rule_results)
    <2>1. PICK i \in DOMAIN read : s = ParseResults(read[i])
        BY <1>2, <1>3, ListDomain
    <2> QED BY <1>1, <1>4, <2>1
<1> QED BY <1>3, <1>5

\* The findings of scans are a list, each of the pair its scan covers.
LEMMA MatchedAreList ==
    ASSUME NEW scans, IsList(scans), \A s \in ToSet(scans) : IsList(s.rule_results),
           NEW benchmarks
    PROVE  /\ IsList(MatchResultsToBenchmarks(scans, benchmarks))
           /\ \A f \in ToSet(MatchResultsToBenchmarks(scans, benchmarks)) :
                  <<f.server, f.stig_title>> \in ScanCoverage(scans, benchmarks)
<1> DEFINE all == [i \in DOMAIN scans |-> MatchScan(scans[i], benchmarks)]
<1>1. ASSUME NEW s \in ToSet(scans)
      PROVE  /\ IsList(MatchScan(s, benchmarks))
             /\ \A f \in ToSet(MatchScan(s, benchmarks)) :
                    <<f.server, f.stig_title>> \in ScanCoverage(scans, benchmarks)
    <2> DEFINE at == {i \in DOMAIN s.rule_results : s.rule_results[i].status \in DOMAIN MATCHER_STATUS_MAP}
               kept == Kept(s.rule_results, at)
               made == MatchScan(s, benchmarks)
    <2>1. /\ IsList(kept)
          /\ \A r \in ToSet(kept) : \E i \in at : i \in DOMAIN s.rule_results /\ r = s.rule_results[i]
        <3> HIDE DEF at
        <3> QED BY KeptList
    <2>2. /\ made = [i \in DOMAIN kept |-> made[i]]
          /\ \A i \in DOMAIN kept :
                 /\ made[i].server = s.hostname
                 /\ made[i].stig_title = FindBenchmark(s, benchmarks).title
        BY DEF MatchScan, Select
    <2> HIDE DEF kept, made
    <2>3. IsList(made)
        BY <2>1, <2>2, MappedList
    <2>4. ASSUME NEW f \in ToSet(made)
          PROVE  <<f.server, f.stig_title>> \in ScanCoverage(scans, benchmarks)
        <3>1. PICK i \in DOMAIN kept : f = made[i]
            BY <2>2, <2>3, ListDomain
        <3>2. \E j \in DOMAIN s.rule_results : TRUE
            BY <2>1, <3>1, ListDomain
        <3>3. s.rule_results # <<>>
            BY <3>2
        <3> QED BY <2>2, <3>1, <3>3 DEF ScanCoverage
    <2> QED BY <2>3, <2>4 DEF made
<1>2. IsList(all)
    BY MappedList
<1>3. \A i \in DOMAIN all : all[i] = MatchScan(scans[i], benchmarks) /\ scans[i] \in ToSet(scans)
    BY ListDomain
<1>4. MatchResultsToBenchmarks(scans, benchmarks) = FlattenSeq(all)
    BY DEF MatchResultsToBenchmarks
<1> HIDE DEF all
<1>5. \A i \in DOMAIN all : IsList(all[i])
    BY <1>1, <1>3
<1>6. /\ IsList(FlattenSeq(all))
      /\ \A f \in ToSet(FlattenSeq(all)) : \E i \in DOMAIN all : f \in ToSet(all[i])
    BY <1>2, <1>5, FlattenedList
<1> QED BY <1>1, <1>3, <1>4, <1>6

\* What parse_stage finds is a list, every finding of a pair that it covers.
LEMMA FindingsCovered ==
    ASSUME NEW results, GoodFiles(results), NEW files, NEW allow_empty
    PROVE  LET P == ParseStage(results, files, allow_empty)
           IN  IsList(P.findings) /\ Covered(P.findings, P.coverage)
<1> DEFINE P == ParseStage(results, files, allow_empty)
           matched == MatchResultsToBenchmarks(Scans(results), Benchmarks(results, files))
           rows == Rows(results)
           every == matched \o rows
           at == {i \in DOMAIN every : every[i].status \in KEEP_STATUSES}
<1>1. P.findings = Kept(every, at) /\ P.coverage = Coverage(results, files)
    BY DEF ParseStage, FilterFindings, Select
<1>2. /\ IsList(matched)
      /\ \A f \in ToSet(matched) :
             <<f.server, f.stig_title>> \in ScanCoverage(Scans(results), Benchmarks(results, files))
    BY ScansAreList, MatchedAreList
<1>3. IsList(rows)
    BY RowsAreList
<1>4. \A f \in ToSet(matched) \cup ToSet(rows) : <<f.server, f.stig_title>> \in Coverage(results, files)
    BY <1>2 DEF Coverage
<1> HIDE DEF P, matched, rows
<1>5. IsList(every) /\ ToSet(every) \subseteq ToSet(matched) \cup ToSet(rows)
    BY <1>2, <1>3, JoinedList
<1> HIDE DEF every
<1>6. /\ IsList(P.findings)
      /\ \A f \in ToSet(P.findings) : \E i \in at : i \in DOMAIN every /\ f = every[i]
    BY <1>1, <1>5, KeptList
<1>7. \A f \in ToSet(P.findings) : <<f.server, f.stig_title>> \in P.coverage
    BY <1>1, <1>4, <1>5, <1>6, ListDomain
<1>8. Covered(P.findings, P.coverage)
    BY <1>6, <1>7, ListDomain DEF Covered
<1> QED BY <1>6, <1>8 DEF P

---------------------------------------------------------------------------
(* The command                                                               *)

\* a side as parse_stage left it
ParsedAs(side) ==
    /\ parsed[side] = ParseStage(cmd[side], cmd.benchmarks, cmd.command = "delta")
    /\ parsed[side].ok

\* both sides, and their delta
DeltaDone ==
    /\ ParsedAs("baseline") /\ ParsedAs("current")
    /\ delta = Delta(Base, Curr, parsed["baseline"].coverage, parsed["current"].coverage)

\* the workbook, as export_delta wrote it
BookTells ==
    /\ book.rows = delta.tags
    /\ book.totals = [status \in DELTA_STATUSES |-> Cardinality(WithStatus(delta.tags, status))]
    /\ book.not_rescanned = delta.not_rescanned_pairs
    /\ book.newly_scanned = delta.newly_scanned_pairs
    /\ book.warnings.parse = ParseWarnings
    /\ book.warnings.delta = delta.warnings

\* Where a run is, what it knows.
CommandInv ==
    /\ TypeOK
    /\ pc \in {"parse_current", "compare"} => cmd.command = "delta" /\ ParsedAs("baseline")
    /\ pc = "compare" => ParsedAs("current")
    /\ pc = "export" /\ cmd.command = "delta" => DeltaDone
    /\ Compared => DeltaDone /\ BookTells

\* The workbook that is written tells the delta.
LEMMA SummaryTells ==
    /\ DeltaSummary.rows = delta.tags
    /\ DeltaSummary.totals = [status \in DELTA_STATUSES |-> Cardinality(WithStatus(delta.tags, status))]
    /\ DeltaSummary.not_rescanned = delta.not_rescanned_pairs
    /\ DeltaSummary.newly_scanned = delta.newly_scanned_pairs
    /\ DeltaSummary.warnings.parse = ParseWarnings
    /\ DeltaSummary.warnings.delta = delta.warnings
BY DEF DeltaSummary, CountTags, WithStatus

\* CommandInv holds of every state of a run.
THEOREM CommandInvariant == Spec => []CommandInv
<1>1. Init => CommandInv
    BY DEF Init, CommandInv, TypeOK, Compared, Sides, Running
<1>2. CommandInv /\ [Next]_vars => CommandInv'
    <2> SUFFICES ASSUME CommandInv, [Next]_vars PROVE CommandInv'
        OBVIOUS
    <2> USE DEF Goto, Exit, Running
    <2>1. CASE Resolve
        BY <2>1 DEF Resolve, CommandInv, TypeOK, Compared
    <2>2. CASE ParseBaseline
        <3> DEFINE result == ParseStage(cmd["baseline"], cmd.benchmarks, cmd.command = "delta")
                   next == IF cmd.command = "delta" THEN "parse_current" ELSE "export"
        <3>1. /\ pc = "parse_baseline" /\ parsed' = [parsed EXCEPT !["baseline"] = result]
              /\ IF result.ok THEN pc' = next /\ exit' = exit ELSE pc' = "done" /\ exit' = 1
              /\ cmd' = cmd /\ delta' = delta /\ book' = book
            BY <2>2 DEF ParseBaseline, ParseSide
        <3> HIDE DEF result
        <3>2. DOMAIN parsed' = Sides /\ parsed'["baseline"] = result
            BY <3>1 DEF CommandInv, TypeOK, Sides
        <3>3. result.ok => ParsedAs("baseline")'
            BY <3>1, <3>2 DEF ParsedAs, result
        <3> QED BY <3>1, <3>2, <3>3 DEF CommandInv, TypeOK, Compared
    <2>3. CASE ParseCurrent
        <3> DEFINE result == ParseStage(cmd["current"], cmd.benchmarks, cmd.command = "delta")
        <3>1. /\ pc = "parse_current" /\ parsed' = [parsed EXCEPT !["current"] = result]
              /\ IF result.ok THEN pc' = "compare" /\ exit' = exit ELSE pc' = "done" /\ exit' = 1
              /\ cmd' = cmd /\ delta' = delta /\ book' = book
            BY <2>3 DEF ParseCurrent, ParseSide
        <3> HIDE DEF result
        <3>2. /\ DOMAIN parsed' = Sides /\ parsed'["current"] = result
              /\ parsed'["baseline"] = parsed["baseline"]
            BY <3>1 DEF CommandInv, TypeOK, Sides
        <3>3. ParsedAs("baseline")'
            BY <3>1, <3>2 DEF CommandInv, ParsedAs
        <3>4. result.ok => ParsedAs("current")'
            BY <3>1, <3>2 DEF ParsedAs, result
        <3> QED BY <3>1, <3>2, <3>3, <3>4 DEF CommandInv, TypeOK, Compared
    <2>4. CASE Compare
        <3>1. /\ pc = "compare" /\ pc' = "export" /\ cmd' = cmd /\ parsed' = parsed /\ book' = book
              /\ exit' = exit
              /\ delta' = Delta(Base, Curr, parsed["baseline"].coverage, parsed["current"].coverage)
            BY <2>4 DEF Compare, Base, Curr
        <3>2. DeltaDone'
            BY <3>1 DEF CommandInv, DeltaDone, ParsedAs, Base, Curr
        <3> QED BY <3>1, <3>2 DEF CommandInv, TypeOK, Compared
    <2>5. CASE Export
        <3>1. /\ pc = "export" /\ pc' = "done" /\ exit' = 0
              /\ cmd' = cmd /\ parsed' = parsed /\ delta' = delta
              /\ book' = IF cmd.command = "report" THEN Summary ELSE DeltaSummary
            BY <2>5 DEF Export
        <3>2. cmd.command = "delta" => DeltaDone'
            BY <3>1 DEF CommandInv, DeltaDone, ParsedAs, Base, Curr
        <3>3. cmd.command = "delta" => BookTells'
            <4>1. ParseWarnings' = ParseWarnings
                BY <3>1 DEF ParseWarnings
            <4>2. cmd.command = "delta" => book' = DeltaSummary
                BY <3>1
            <4> QED BY <3>1, <4>1, <4>2, SummaryTells DEF BookTells
        <3> QED BY <3>1, <3>2, <3>3 DEF CommandInv, TypeOK, Compared
    <2>6. CASE ExportFails
        BY <2>6 DEF ExportFails, CommandInv, TypeOK, Compared
    <2>7. CASE UNCHANGED vars
        <3>1. /\ cmd' = cmd /\ pc' = pc /\ parsed' = parsed /\ delta' = delta /\ book' = book
              /\ exit' = exit
            BY <2>7 DEF vars
        <3>2. ParseWarnings' = ParseWarnings
            BY <3>1 DEF ParseWarnings
        <3> QED BY <3>1, <3>2
                DEF CommandInv, TypeOK, Compared, DeltaDone, ParsedAs, BookTells, Base, Curr
    <2> QED BY <2>1, <2>2, <2>3, <2>4, <2>5, <2>6, <2>7 DEF Next
<1> QED BY <1>1, <1>2, PTL DEF Spec

\* A run's variables have their types.
THEOREM TypeCorrect == Spec => []TypeOK
<1>1. CommandInv => TypeOK
    BY DEF CommandInv
<1> QED BY <1>1, CommandInvariant, PTL

\* A written delta is of two covered lists, and says what compute_delta told.
LEMMA WrittenDelta ==
    ASSUME CommandInv, Compared
    PROVE  /\ DeltaDone /\ BookTells
           /\ cmd.baseline \in ScanSets /\ cmd.current \in ScanSets
           /\ GoodFiles(cmd.baseline) /\ GoodFiles(cmd.current)
           /\ IsList(Base) /\ Covered(Base, parsed["baseline"].coverage)
           /\ IsList(Curr) /\ Covered(Curr, parsed["current"].coverage)
<1>1. DeltaDone /\ BookTells /\ cmd.baseline \in ScanSets /\ cmd.current \in ScanSets
    BY DEF CommandInv, TypeOK
<1>2. GoodFiles(cmd.baseline) /\ GoodFiles(cmd.current)
    BY <1>1, FilesHoldLists DEF GoodFiles, HoldsLists
<1>3. /\ parsed["baseline"] = ParseStage(cmd.baseline, cmd.benchmarks, cmd.command = "delta")
      /\ parsed["current"] = ParseStage(cmd.current, cmd.benchmarks, cmd.command = "delta")
    BY <1>1 DEF DeltaDone, ParsedAs
<1>4. /\ IsList(Base) /\ Covered(Base, parsed["baseline"].coverage)
      /\ IsList(Curr) /\ Covered(Curr, parsed["current"].coverage)
    BY <1>2, <1>3, FindingsCovered DEF Base, Curr
<1> QED BY <1>1, <1>2, <1>4

\* What compute_delta returns.
LEMMA DeltaTells ==
    ASSUME NEW base, NEW curr, NEW bc, NEW cc, NEW d, d = Delta(base, curr, bc, cc)
    PROVE  /\ d.tags = Tags(base, curr, bc, cc)
           /\ d.not_rescanned_pairs = Gaps(bc, cc) /\ d.newly_scanned_pairs = Gaps(cc, bc)
           /\ d.warnings.duplicate.baseline =
                  Duplicates(base, On(base, Common(bc, cc)), MatchOf(base, curr, bc, cc).dropped.base)
           /\ d.warnings.duplicate.current =
                  Duplicates(curr, On(curr, Common(bc, cc)), MatchOf(base, curr, bc, cc).dropped.curr)
           /\ d.warnings.no_title = BlankHosts(base, curr, bc, cc)
BY DEF Delta, Common, MatchOf

\* A baseline finding is Resolved only if results of the current set are of its
\* host and product.
THEOREM ResolvedWasRescannedHolds == Spec => []ResolvedWasRescanned
<1>1. CommandInv => ResolvedWasRescanned
    <2> SUFFICES ASSUME CommandInv, Compared, NEW t \in delta.tags, t.delta_status = "Resolved"
                 PROVE  \/ \E row \in ToSet(Rows(cmd.current)) : PairOf(row) = PairOf(Base[t.base])
                        \/ \E s \in ToSet(Scans(cmd.current)) :
                            /\ s.rule_results # <<>>
                            /\ PairOf(Base[t.base]) = PairKey(<<s.hostname,
                                   FindBenchmark(s, Benchmarks(cmd.current, cmd.benchmarks)).title>>)
        BY Zenon DEF ResolvedWasRescanned
    <2> DEFINE bc == parsed["baseline"].coverage
               cc == parsed["current"].coverage
    <2>1. t \in Tags(Base, Curr, bc, cc)
        BY WrittenDelta, DeltaTells DEF DeltaDone
    <2>2. Rescanned(Base[t.base], cc)
        BY <2>1, WrittenDelta, TagsTell DEF TagTells
    <2>3. cc = Coverage(cmd.current, cmd.benchmarks)
        BY WrittenDelta DEF DeltaDone, ParsedAs, ParseStage
    <2> HIDE DEF bc, cc
    <2>4. PICK p \in Coverage(cmd.current, cmd.benchmarks) : PairKey(p) = PairOf(Base[t.base])
        BY <2>2, <2>3 DEF Rescanned, PairKeys
    <2>5. CASE p \in {<<f.server, f.stig_title>> : f \in ToSet(Rows(cmd.current))}
        BY <2>4, <2>5 DEF PairOf
    <2>6. CASE p \in ScanCoverage(Scans(cmd.current), Benchmarks(cmd.current, cmd.benchmarks))
        BY <2>4, <2>6 DEF ScanCoverage
    <2> QED BY <2>4, <2>5, <2>6 DEF Coverage
<1> QED BY <1>1, CommandInvariant, PTL

\* Where no scan set lists a rule twice, findings are classified by identity.
THEOREM ClassifiedByIdentityHolds == Spec => []ClassifiedByIdentity
<1>1. CommandInv => ClassifiedByIdentity
    <2> SUFFICES ASSUME CommandInv, Compared, ~Overlaps(Base, Curr), ~Overlaps(Curr, Base),
                        NEW i \in DOMAIN Base
                 PROVE  \E t \in delta.tags :
                            /\ t.base = i
                            /\ t.delta_status = IF \E j \in DOMAIN Curr : SameRule(Base[i], Curr[j])
                                                THEN "Persisting"
                                                ELSE IF Rescanned(Base[i], parsed["current"].coverage)
                                                THEN "Resolved" ELSE "Not re-scanned"
        BY Zenon DEF ClassifiedByIdentity
    <2> DEFINE bc == parsed["baseline"].coverage
               cc == parsed["current"].coverage
    <2>1. delta.tags = Tags(Base, Curr, bc, cc)
        BY WrittenDelta, DeltaTells DEF DeltaDone
    <2>2. IsList(Base) /\ Covered(Base, bc) /\ IsList(Curr) /\ Covered(Curr, cc)
        BY WrittenDelta
    <2> HIDE DEF bc, cc
    <2>3. \E t \in Tags(Base, Curr, bc, cc) :
              /\ t.base = i
              /\ t.delta_status = IF \E j \in DOMAIN Curr : SameRule(Base[i], Curr[j])
                                  THEN "Persisting"
                                  ELSE IF Rescanned(Base[i], cc) THEN "Resolved" ELSE "Not re-scanned"
        BY <2>2, TagsClassify
    <2> QED BY <2>1, <2>3, Zenon DEF cc
<1> QED BY <1>1, CommandInvariant, PTL

\* Each finding has one tag, or is told as the duplicate of an earlier one.
THEOREM EveryFindingTaggedHolds == Spec => []EveryFindingTagged
<1>1. CommandInv => EveryFindingTagged
    <2> SUFFICES ASSUME CommandInv, Compared PROVE EveryFindingTagged
        BY DEF EveryFindingTagged
    <2> DEFINE bc == parsed["baseline"].coverage
               cc == parsed["current"].coverage
               dB == book.warnings.delta.duplicate.baseline
               dC == book.warnings.delta.duplicate.current
               ofB == [i \in DOMAIN Base |-> {t \in delta.tags : t.base = i}]
               ofC == [i \in DOMAIN Curr |-> {t \in delta.tags : t.curr = i}]
    <2>1. /\ delta.tags = Tags(Base, Curr, bc, cc)
          /\ dB = Duplicates(Base, On(Base, Common(bc, cc)), MatchOf(Base, Curr, bc, cc).dropped.base)
          /\ dC = Duplicates(Curr, On(Curr, Common(bc, cc)), MatchOf(Base, Curr, bc, cc).dropped.curr)
        BY WrittenDelta, DeltaTells DEF DeltaDone, BookTells
    <2>2. IsList(Base) /\ IsList(Curr)
        BY WrittenDelta
    <2>3. OneTagEach(Base, ofB, dB) /\ OneTagEach(Curr, ofC, dC)
        <3> HIDE DEF bc, cc, dB, dC
        <3> QED BY <2>1, <2>2, BaseTagged, CurrTagged
    <2> HIDE DEF dB, dC
    <2>4. ASSUME NEW s, IsList(s), NEW mine, NEW dup, OneTagEach(s, mine, dup), NEW i \in DOMAIN s
          PROVE  /\ Cardinality(mine[i]) = IF i \in dup THEN 0 ELSE 1
                 /\ i \in dup => \E j \in 1..(i - 1) :
                        SameRule(s[j], s[i]) \/ FindingKey(s[j]) = FindingKey(s[i])
        <3>1. IF i \in dup THEN mine[i] = {} ELSE \E t : mine[i] = {t}
            BY <2>4 DEF OneTagEach
        <3>2. Cardinality(mine[i]) = IF i \in dup THEN 0 ELSE 1
            BY <3>1, FS_EmptySet, FS_Singleton
        <3>3. ASSUME i \in dup
              PROVE  \E j \in 1..(i - 1) :
                        SameRule(s[j], s[i]) \/ FindingKey(s[j]) = FindingKey(s[i])
            <4>1. PICK j \in DOMAIN s :
                      j < i /\ (SameRule(s[j], s[i]) \/ FindingKey(s[j]) = FindingKey(s[i]))
                BY <2>4, <3>3 DEF OneTagEach
            <4>2. j \in 1..(i - 1)
                BY <2>4, <4>1, ListDomain
            <4> QED BY <4>1, <4>2
        <3> QED BY <3>2, <3>3
    <2>5. /\ \A i \in DOMAIN Base : ofB[i] = {t \in delta.tags : t.base = i}
          /\ \A i \in DOMAIN Curr : ofC[i] = {t \in delta.tags : t.curr = i}
        OBVIOUS
    <2> HIDE DEF ofB, ofC
    <2>6. ASSUME NEW i \in DOMAIN Base
          PROVE  /\ Cardinality({t \in delta.tags : t.base = i}) = IF i \in dB THEN 0 ELSE 1
                 /\ i \in dB => \E j \in 1..(i - 1) :
                        SameRule(Base[j], Base[i]) \/ FindingKey(Base[j]) = FindingKey(Base[i])
        <3>1. /\ Cardinality(ofB[i]) = IF i \in dB THEN 0 ELSE 1
              /\ i \in dB => \E j \in 1..(i - 1) :
                     SameRule(Base[j], Base[i]) \/ FindingKey(Base[j]) = FindingKey(Base[i])
            BY <2>2, <2>3, <2>4
        <3> QED BY <2>5, <3>1, Zenon
    <2>7. ASSUME NEW i \in DOMAIN Curr
          PROVE  /\ Cardinality({t \in delta.tags : t.curr = i}) = IF i \in dC THEN 0 ELSE 1
                 /\ i \in dC => \E j \in 1..(i - 1) :
                        SameRule(Curr[j], Curr[i]) \/ FindingKey(Curr[j]) = FindingKey(Curr[i])
        <3>1. /\ Cardinality(ofC[i]) = IF i \in dC THEN 0 ELSE 1
              /\ i \in dC => \E j \in 1..(i - 1) :
                     SameRule(Curr[j], Curr[i]) \/ FindingKey(Curr[j]) = FindingKey(Curr[i])
            BY <2>2, <2>3, <2>4
        <3> QED BY <2>5, <3>1, Zenon
    <2> QED BY <2>6, <2>7, Zenon DEF EveryFindingTagged, dB, dC
<1> QED BY <1>1, CommandInvariant, PTL

\* The comparison the other way round tells the same story backwards.
THEOREM MirrorImageHolds == Spec => []MirrorImage
<1>1. CommandInv => MirrorImage
    <2> SUFFICES ASSUME CommandInv, Compared PROVE MirrorImage
        BY DEF MirrorImage
    <2>1. /\ delta.tags = Tags(Base, Curr, parsed["baseline"].coverage, parsed["current"].coverage)
          /\ IsList(Base) /\ IsList(Curr)
        BY WrittenDelta, DeltaTells DEF DeltaDone
    <2>2. Tags(Curr, Base, parsed["current"].coverage, parsed["baseline"].coverage)
              = {Flip(t) : t \in delta.tags}
        BY <2>1, TagsMirror
    <2> QED BY <2>2, Zenon DEF MirrorImage, Flip, MirrorStatus
<1> QED BY <1>1, CommandInvariant, PTL

\* The Summary sheet agrees with the Findings sheet.
THEOREM WorkbookAgreesWithTagsHolds == Spec => []WorkbookAgreesWithTags
<1>1. CommandInv => WorkbookAgreesWithTags
    <2> SUFFICES ASSUME CommandInv, Compared PROVE WorkbookAgreesWithTags
        BY DEF WorkbookAgreesWithTags
    <2> DEFINE bc == parsed["baseline"].coverage
               cc == parsed["current"].coverage
               tags == delta.tags
    <2>1. /\ tags = Tags(Base, Curr, bc, cc)
          /\ book.rows = tags
          /\ book.totals = [status \in DELTA_STATUSES |-> Cardinality(WithStatus(tags, status))]
          /\ book.not_rescanned = Gaps(bc, cc) /\ book.newly_scanned = Gaps(cc, bc)
          /\ book.warnings.delta.no_title = BlankHosts(Base, Curr, bc, cc)
        BY WrittenDelta, DeltaTells DEF DeltaDone, BookTells
    <2>2. IsList(Base) /\ Covered(Base, bc) /\ IsList(Curr) /\ Covered(Curr, cc)
        BY WrittenDelta
    <2>3. ASSUME NEW t \in tags PROVE Shown(t) = Showing(t, Base, Curr)
        BY DEF Shown, Showing, Base, Curr
    <2> HIDE DEF bc, cc, tags
    <2>4. IsFiniteSet(tags)
        BY <2>1, <2>2, TagsFinite
    <2>5. \A t \in tags : t.delta_status \in DELTA_STATUSES
        BY <2>1, <2>2, TagsTell DEF TagTells, DELTA_STATUSES
    <2>6. Cardinality(book.rows) =
              book.totals["New"] + book.totals["Resolved"] + book.totals["Persisting"]
                  + book.totals["Not re-scanned"] + book.totals["Newly scanned"]
        <3>1. \A st \in DELTA_STATUSES : book.totals[st] = Cardinality(WithStatus(tags, st))
            BY <2>1
        <3>2. /\ book.totals["New"] = Cardinality(WithStatus(tags, "New"))
              /\ book.totals["Resolved"] = Cardinality(WithStatus(tags, "Resolved"))
              /\ book.totals["Persisting"] = Cardinality(WithStatus(tags, "Persisting"))
              /\ book.totals["Not re-scanned"] = Cardinality(WithStatus(tags, "Not re-scanned"))
              /\ book.totals["Newly scanned"] = Cardinality(WithStatus(tags, "Newly scanned"))
            BY <3>1 DEF DELTA_STATUSES
        <3>3. Cardinality(tags) =
                  Cardinality(WithStatus(tags, "New")) + Cardinality(WithStatus(tags, "Resolved"))
                      + Cardinality(WithStatus(tags, "Persisting"))
                      + Cardinality(WithStatus(tags, "Not re-scanned"))
                      + Cardinality(WithStatus(tags, "Newly scanned"))
            BY <2>4, <2>5, StatusTotals
        <3>4. book.rows = tags
            BY <2>1
        <3> QED BY <3>2, <3>3, <3>4, Zenon
    <2>7. ASSUME NEW t \in tags, NEW f, f = Shown(t)
          PROVE  Listing(t, f, Base, Curr, bc, cc)
        <3>1. t \in Tags(Base, Curr, bc, cc) /\ f = Showing(t, Base, Curr)
            BY <2>1, <2>3, <2>7
        <3> QED BY <2>2, <3>1, TagsListed
    <2> QED BY <2>1, <2>6, <2>7, Zenon DEF WorkbookAgreesWithTags, Listing
<1> QED BY <1>1, CommandInvariant, PTL

\* A file that adds no covered pair is named in the warnings of its parse.
LEMMA FileAccounted ==
    ASSUME NEW results, GoodFiles(results), NEW files, NEW allow_empty,
           ParseStage(results, files, allow_empty).ok, NEW f \in ToSet(results)
    PROVE  \/ IF SelfContained(f) THEN ParseSelfContained(f) # <<>>
              ELSE f.ext # "ckl" /\ ParseResults(f).rule_results # <<>>
           \/ \E w \in ParseStage(results, files, allow_empty).warnings : w.name = f.name
<1> DEFINE P == ParseStage(results, files, allow_empty)
<1>1. ASSUME NEW kind, NEW fs, NEW g \in fs
      PROVE  \E w \in Warn(kind, fs) : w.name = g.name
    <2>1. [kind |-> kind, name |-> g.name] \in Warn(kind, fs)
        BY DEF Warn
    <2> QED BY <2>1
<1>2. Scans(results) # <<>> \/ ReadSelf(results) # <<>>
    BY DEF ParseStage
<1>3. P.warnings = ReadWarnings(results, files) \cup EmptyScanWarnings(results)
    BY <1>2 DEF ParseStage
<1> HIDE DEF P
<1>4. CASE f \in ToSet(ReadXccdf(results))
    <2>1. ~SelfContained(f) /\ f.ext # "ckl"
        BY <1>4, FilesRead
    <2>2. CASE ParseResults(f).rule_results = <<>>
        <3> DEFINE fs == {g \in ToSet(ReadXccdf(results)) : ParseResults(g).rule_results = <<>>}
        <3>1. f \in fs /\ Warn("no rows", fs) \subseteq P.warnings
            BY <1>3, <1>4, <2>2 DEF EmptyScanWarnings
        <3> HIDE DEF fs
        <3>2. \E w \in Warn("no rows", fs) : w.name = f.name
            BY <1>1, <3>1
        <3> QED BY <3>1, <3>2 DEF P
    <2> QED BY <2>1, <2>2
<1>5. CASE f \in ToSet(ReadSelf(results))
    <2>1. SelfContained(f)
        BY <1>5, FilesRead
    <2>2. CASE ParseSelfContained(f) = <<>>
        <3> DEFINE fs == {g \in ToSet(ReadSelf(results)) : ParseSelfContained(g) = <<>>}
        <3>1. f \in fs /\ Warn("no rows", fs) \subseteq P.warnings
            BY <1>3, <1>5, <2>2 DEF ReadWarnings
        <3> HIDE DEF fs
        <3>2. \E w \in Warn("no rows", fs) : w.name = f.name
            BY <1>1, <3>1
        <3> QED BY <3>1, <3>2 DEF P
    <2> QED BY <2>1, <2>2
<1>6. CASE f \notin ToSet(ReadXccdf(results)) /\ f \notin ToSet(ReadSelf(results))
    <2> DEFINE fs == ToSet(results) \ (ToSet(ReadXccdf(results)) \cup ToSet(ReadSelf(results)))
    <2>1. f \in fs /\ Warn("unreadable results", fs) \subseteq P.warnings
        BY <1>3, <1>6 DEF ReadWarnings
    <2> HIDE DEF fs
    <2>2. \E w \in Warn("unreadable results", fs) : w.name = f.name
        BY <1>1, <2>1
    <2> QED BY <2>1, <2>2 DEF P
<1> QED BY <1>4, <1>5, <1>6

\* Every results file adds a covered pair or is named in the workbook.
THEOREM EveryFileAccountedHolds == Spec => []EveryFileAccounted
<1>1. CommandInv => EveryFileAccounted
    <2> SUFFICES ASSUME CommandInv, Compared, NEW side \in Sides, NEW f \in ToSet(cmd[side])
                 PROVE  \/ IF SelfContained(f) THEN ParseSelfContained(f) # <<>>
                           ELSE f.ext # "ckl" /\ ParseResults(f).rule_results # <<>>
                        \/ \E w \in book.warnings.parse :
                              w.side \in {side, "both"} /\ w.about.name = f.name
        BY Zenon DEF EveryFileAccounted
    <2>1. /\ parsed[side] = ParseStage(cmd[side], cmd.benchmarks, cmd.command = "delta")
          /\ parsed[side].ok /\ GoodFiles(cmd[side]) /\ book.warnings.parse = ParseWarnings
        BY WrittenDelta DEF DeltaDone, ParsedAs, BookTells, Sides
    <2>2. ASSUME NEW w \in parsed[side].warnings, w.name = f.name
          PROVE  \E v \in ParseWarnings : v.side \in {side, "both"} /\ v.about.name = f.name
        <3> DEFINE shared == parsed["baseline"].warnings \cap parsed["current"].warnings
        <3>1. CASE w \in shared
            <4>1. [side |-> "both", about |-> w] \in ParseWarnings
                BY <3>1 DEF ParseWarnings
            <4> QED BY <2>2, <4>1
        <3>2. CASE w \notin shared
            <4>1. [side |-> side, about |-> w] \in ParseWarnings
                BY <2>2, <3>2 DEF ParseWarnings, Sides
            <4> QED BY <2>2, <4>1
        <3> QED BY <3>1, <3>2
    <2>3. \/ IF SelfContained(f) THEN ParseSelfContained(f) # <<>>
             ELSE f.ext # "ckl" /\ ParseResults(f).rule_results # <<>>
          \/ \E w \in parsed[side].warnings : w.name = f.name
        BY <2>1, FileAccounted
    <2> QED BY <2>1, <2>2, <2>3
<1> QED BY <1>1, CommandInvariant, PTL

=============================================================================
