----------------------- MODULE ConstraintStreamProofs -----------------------
(* Proofs about ConstraintStream, for any resources, names, properties,       *)
(* values and bounds: the types, and that overrides survive promotions.       *)
EXTENDS ConstraintStream, SequenceTheorems, WellFoundedInduction, TLAPS

-----------------------------------------------------------------------------
(* Lists of which the same constraints count.                                 *)
LEMMA Classes ==
    /\ ResourceConstraint \cap Replace = {}
    /\ ResourceConstraint \subseteq Constraint /\ Replace \subseteq Constraint
  <1>1. ASSUME NEW c \in ResourceConstraint, c \in Replace PROVE FALSE
    <2>1. c.operator \in Operator /\ c.operator = "replace"
      BY <1>1 DEF ResourceConstraint, Replace
    <2> QED
      BY <2>1 DEF Operator
  <1> QED
    BY <1>1 DEF Constraint

LEMMA Positions ==
    ASSUME NEW S, NEW s \in Seq(S)
    PROVE  /\ Len(s) \in Nat /\ DOMAIN s = 1 .. Len(s)
           /\ Standing(s) \subseteq 1 .. Len(s)
           /\ \A i \in 1 .. Len(s) : s[i] \in S
  BY LenProperties, ElementOfSeq DEF Standing

LEMMA FunctionIsSeq ==
    ASSUME NEW S, NEW n \in Nat, NEW z \in [1 .. n -> S]
    PROVE  z \in Seq(S) /\ Len(z) = n
  <1>1. z \in Seq(S)
    OBVIOUS
  <1>2. Len(z) \in Nat /\ 1 .. Len(z) = 1 .. n
    BY <1>1, Positions
  <1> QED
    BY <1>1, <1>2

LEMMA SameTrans ==
    ASSUME NEW s, NEW t, NEW u, SameStanding(s, t), SameStanding(t, u)
    PROVE  SameStanding(s, u)
  <1>1. PICK g \in [Standing(s) -> Standing(t)] :
            /\ \A i, j \in Standing(s) : i < j => g[i] < g[j]
            /\ \A k \in Standing(t) : \E i \in Standing(s) : g[i] = k
            /\ \A i \in Standing(s) : t[g[i]] = s[i]
    BY DEF SameStanding
  <1>2. PICK h \in [Standing(t) -> Standing(u)] :
            /\ \A i, j \in Standing(t) : i < j => h[i] < h[j]
            /\ \A k \in Standing(u) : \E i \in Standing(t) : h[i] = k
            /\ \A i \in Standing(t) : u[h[i]] = t[i]
    BY DEF SameStanding
  <1> DEFINE f == [i \in Standing(s) |-> h[g[i]]]
  <1>3. f \in [Standing(s) -> Standing(u)] /\ \A i \in Standing(s) : f[i] = h[g[i]]
    BY <1>1, <1>2
  <1>4. \A i, j \in Standing(s) : i < j => f[i] < f[j]
    BY <1>1, <1>2, <1>3
  <1>5. \A k \in Standing(u) : \E i \in Standing(s) : f[i] = k
    BY <1>1, <1>2, <1>3
  <1>6. \A i \in Standing(s) : u[f[i]] = s[i]
    BY <1>1, <1>2, <1>3
  <1> QED
    BY <1>3, <1>4, <1>5, <1>6 DEF SameStanding

(* y is x without its element i.                                              *)
Skipping(x, y, i) ==
    /\ Len(y) = Len(x) - 1
    /\ \A k \in 1 .. Len(y) : y[k] = x[IF k < i THEN k ELSE k + 1]

(* To take out an element that a later one overrules changes nothing.         *)
LEMMA RemoveOne ==
    ASSUME NEW S, NEW x \in Seq(S), NEW y \in Seq(S),
           NEW i \in 1 .. Len(x), NEW j \in 1 .. Len(x), i < j, Overrules(x[j], x[i]),
           Skipping(x, y, i)
    PROVE  SameStanding(x, y)
  <1>1. /\ Len(x) \in Nat /\ DOMAIN x = 1 .. Len(x) /\ Standing(x) \subseteq 1 .. Len(x)
        /\ Len(y) \in Nat /\ DOMAIN y = 1 .. Len(y) /\ Standing(y) \subseteq 1 .. Len(y)
        /\ Len(y) = Len(x) - 1
    BY Positions DEF Skipping
  <1>2. \A k \in 1 .. Len(y) : y[k] = x[IF k < i THEN k ELSE k + 1]
    BY DEF Skipping
  <1> DEFINE down(k) == IF k < i THEN k ELSE k - 1
  <1>3. \A k \in 1 .. Len(x) : k # i => down(k) \in 1 .. Len(y) /\ y[down(k)] = x[k]
    <2> TAKE k \in 1 .. Len(x)
    <2>1. CASE k < i
      BY <1>1, <1>2, <2>1
    <2>2. CASE k > i
      <3>1. k - 1 \in 1 .. Len(y) /\ ~(k - 1 < i) /\ (k - 1) + 1 = k
        BY <1>1, <2>2
      <3> QED
        BY <1>2, <2>2, <3>1
    <2> QED
      BY <1>1, <2>1, <2>2
  <1>4. i \notin Standing(x)
    BY <1>1 DEF Standing
  <1>5. \A k \in Standing(x) : down(k) \in Standing(y)
    <2> SUFFICES ASSUME NEW k \in Standing(x), NEW m \in 1 .. Len(y), m > down(k),
                        Overrules(y[m], y[down(k)])
                 PROVE  FALSE
      BY <1>1, <1>3, <1>4 DEF Standing
    <2>1. PICK n : n = IF m < i THEN m ELSE m + 1
      OBVIOUS
    <2>2. n \in 1 .. Len(x) /\ y[m] = x[n] /\ n > k
      BY <1>1, <1>2, <1>4, <2>1
    <2>3. y[down(k)] = x[k]
      BY <1>1, <1>3, <1>4
    <2> QED
      BY <1>1, <2>2, <2>3 DEF Standing
  <1>6. \A n \in Standing(y) : \E k \in Standing(x) : down(k) = n
    <2> TAKE n \in Standing(y)
    <2>1. PICK k : k = IF n < i THEN n ELSE n + 1
      OBVIOUS
    <2>2. k \in 1 .. Len(x) /\ k # i /\ down(k) = n /\ y[n] = x[k]
      <3>1. n \in 1 .. Len(y) /\ y[n] = x[k]
        BY <1>1, <1>2, <2>1
      <3>2. CASE n < i
        BY <1>1, <2>1, <3>1, <3>2
      <3>3. CASE ~(n < i)
        BY <1>1, <2>1, <3>1, <3>3
      <3> QED
        BY <3>2, <3>3
    <2>3. ASSUME NEW m \in 1 .. Len(x), m > k, Overrules(x[m], x[k]) PROVE FALSE
      <3>1. PICK o \in 1 .. Len(x) : o # i /\ o > k /\ Overrules(x[o], x[k]) /\ down(o) > n
        <4>1. CASE m # i
          BY <1>1, <2>1, <2>2, <2>3, <4>1
        <4>2. CASE m = i
          <5>1. Overrules(x[j], x[k])
            BY <2>3, <4>2 DEF Overrules
          <5>2. j # i /\ j > k /\ down(j) > n
            BY <1>1, <2>1, <2>2, <2>3, <4>2
          <5> QED
            BY <5>1, <5>2
        <4> QED
          BY <4>1, <4>2
      <3>2. down(o) \in 1 .. Len(y) /\ y[down(o)] = x[o]
        BY <1>3, <3>1
      <3> QED
        BY <1>1, <2>2, <3>1, <3>2 DEF Standing
    <2>4. k \in Standing(x)
      BY <1>1, <2>2, <2>3 DEF Standing
    <2> QED
      BY <2>2, <2>4
  <1>7. PICK g \in [Standing(x) -> Standing(y)] : \A k \in Standing(x) : g[k] = down(k)
    <2> DEFINE f == [k \in Standing(x) |-> down(k)]
    <2>1. f \in [Standing(x) -> Standing(y)] /\ \A k \in Standing(x) : f[k] = down(k)
      BY <1>5
    <2> QED
      BY <2>1
  <1>8. \A k, l \in Standing(x) : k < l => g[k] < g[l]
    BY <1>1, <1>4, <1>7
  <1>9. \A n \in Standing(y) : \E k \in Standing(x) : g[k] = n
    BY <1>6, <1>7
  <1>10. \A k \in Standing(x) : y[g[k]] = x[k]
    BY <1>1, <1>3, <1>4, <1>7
  <1> QED
    BY <1>7, <1>8, <1>9, <1>10 DEF SameStanding

(* The same constraint at the end of both.                                    *)
LEMMA AppendBoth ==
    ASSUME NEW S, NEW s \in Seq(S), NEW t \in Seq(S), NEW o \in S, SameStanding(s, t)
    PROVE  SameStanding(Append(s, o), Append(t, o))
  <1>1. ASSUME NEW x \in Seq(S)
        PROVE  /\ Len(x) \in Nat /\ DOMAIN x = 1 .. Len(x)
               /\ DOMAIN Append(x, o) = 1 .. Len(x) + 1
               /\ Append(x, o)[Len(x) + 1] = o
               /\ \A i \in 1 .. Len(x) : Append(x, o)[i] = x[i]
    BY AppendProperties, LenProperties
  <1>2. ASSUME NEW x \in Seq(S)
        PROVE  Standing(Append(x, o)) =
                  {i \in Standing(x) : ~Overrules(o, x[i])} \cup {Len(x) + 1}
    <2>1. PICK n \in Nat : n = Len(x)
      BY <1>1
    <2>2. PICK y : y = Append(x, o)
      OBVIOUS
    <2>3. /\ DOMAIN x = 1 .. n /\ DOMAIN y = 1 .. n + 1 /\ y[n + 1] = o
          /\ \A i \in 1 .. n : y[i] = x[i]
      BY <1>1, <2>1, <2>2
    <2>4. ASSUME NEW i \in 1 .. n
          PROVE  i \in Standing(y) <=> i \in Standing(x) /\ ~Overrules(o, x[i])
      <3>1. (\E j \in 1 .. n + 1 : j > i /\ Overrules(y[j], y[i])) <=>
              \/ \E j \in 1 .. n : j > i /\ Overrules(x[j], x[i])
              \/ Overrules(o, x[i])
        <4>1. \A j \in 1 .. n + 1 : j \in 1 .. n \/ j = n + 1
          OBVIOUS
        <4>2. n + 1 > i /\ n + 1 \in 1 .. n + 1 /\ \A j \in 1 .. n : j \in 1 .. n + 1
          OBVIOUS
        <4> QED
          BY <2>3, <4>1, <4>2
      <3>2. i \in Standing(y) <=> ~\E j \in 1 .. n + 1 : j > i /\ Overrules(y[j], y[i])
        <4>1. i \in DOMAIN y
          BY <2>3
        <4> QED
          BY <2>3, <4>1 DEF Standing
      <3>3. i \in Standing(x) <=> ~\E j \in 1 .. n : j > i /\ Overrules(x[j], x[i])
        BY <2>3 DEF Standing
      <3> QED
        BY <3>1, <3>2, <3>3
    <2>5. n + 1 \in Standing(y)
      BY <2>3 DEF Standing
    <2>6. Standing(y) \subseteq 1 .. n + 1 /\ Standing(x) \subseteq 1 .. n
      BY <2>3 DEF Standing
    <2> QED
      BY <2>1, <2>2, <2>4, <2>5, <2>6
  <1>3. PICK g \in [Standing(s) -> Standing(t)] :
            /\ \A i, j \in Standing(s) : i < j => g[i] < g[j]
            /\ \A k \in Standing(t) : \E i \in Standing(s) : g[i] = k
            /\ \A i \in Standing(s) : t[g[i]] = s[i]
    BY DEF SameStanding
  <1>4. PICK A, B : A = Standing(Append(s, o)) /\ B = Standing(Append(t, o))
    OBVIOUS
  <1>5. PICK m \in Nat, n \in Nat : m = Len(s) /\ n = Len(t)
    BY <1>1
  <1>6. /\ A = {i \in Standing(s) : ~Overrules(o, s[i])} \cup {m + 1}
        /\ B = {i \in Standing(t) : ~Overrules(o, t[i])} \cup {n + 1}
        /\ Standing(s) \subseteq 1 .. m /\ Standing(t) \subseteq 1 .. n
    BY <1>2, <1>4, <1>5, Positions
  <1> DEFINE f == [i \in A |-> IF i = m + 1 THEN n + 1 ELSE g[i]]
  <1>7. f \in [A -> B]
    BY <1>3, <1>6
  <1>8. \A i, j \in A : i < j => f[i] < f[j]
    <2> SUFFICES ASSUME NEW i \in A, NEW j \in A, i < j PROVE f[i] < f[j]
      OBVIOUS
    <2>1. i \in Standing(s) /\ i # m + 1 /\ g[i] \in 1 .. n
      BY <1>3, <1>6
    <2>2. CASE j = m + 1
      BY <2>1, <2>2
    <2>3. CASE j # m + 1
      BY <1>3, <1>6, <2>1, <2>3
    <2> QED
      BY <2>2, <2>3
  <1>9. \A k \in B : \E i \in A : f[i] = k
    <2> TAKE k \in B
    <2>1. CASE k = n + 1
      BY <1>6, <2>1
    <2>2. CASE k # n + 1
      <3>1. PICK i \in Standing(s) : g[i] = k /\ s[i] = t[k]
        BY <1>3, <1>6, <2>2
      <3>2. i \in A /\ i # m + 1
        BY <1>6, <2>2, <3>1
      <3> QED
        BY <3>1, <3>2
    <2> QED
      BY <2>1, <2>2
  <1>10. \A i \in A : Append(t, o)[f[i]] = Append(s, o)[i]
    <2> TAKE i \in A
    <2>1. CASE i = m + 1
      BY <1>1, <1>5, <2>1
    <2>2. CASE i # m + 1
      <3>1. i \in Standing(s) /\ i \in 1 .. m /\ g[i] \in 1 .. n /\ f[i] = g[i]
        BY <1>3, <1>6, <2>2
      <3>2. t[g[i]] = s[i]
        BY <1>3, <3>1
      <3>3. Append(s, o)[i] = s[i] /\ Append(t, o)[g[i]] = t[g[i]]
        BY <1>1, <1>5, <3>1
      <3> QED
        BY <3>1, <3>2, <3>3
    <2> QED
      BY <2>1, <2>2
  <1>11. \E h \in [A -> B] :
            /\ \A i, j \in A : i < j => h[i] < h[j]
            /\ \A k \in B : \E i \in A : h[i] = k
            /\ \A i \in A : Append(t, o)[h[i]] = Append(s, o)[i]
    <2> HIDE DEF f
    <2> USE <1>7
    <2> WITNESS f \in [A -> B]
    <2> QED
      BY <1>8, <1>9, <1>10
  <1>12. \E h \in [Standing(Append(s, o)) -> Standing(Append(t, o))] :
            /\ \A i, j \in Standing(Append(s, o)) : i < j => h[i] < h[j]
            /\ \A k \in Standing(Append(t, o)) : \E i \in Standing(Append(s, o)) : h[i] = k
            /\ \A i \in Standing(Append(s, o)) : Append(t, o)[h[i]] = Append(s, o)[i]
    <2>1. Standing(Append(s, o)) = A /\ Standing(Append(t, o)) = B
      BY <1>4
    <2>2. PICK h \in [A -> B] :
            /\ \A i, j \in A : i < j => h[i] < h[j]
            /\ \A k \in B : \E i \in A : h[i] = k
            /\ \A i \in A : Append(t, o)[h[i]] = Append(s, o)[i]
      BY <1>11
    <2> USE <2>1
    <2> WITNESS h \in [Standing(Append(s, o)) -> Standing(Append(t, o))]
    <2> QED
      BY <2>2
  <1> QED
    BY <1>12, Zenon DEF SameStanding

(* s with its targets, names in f, replaced by those of the same resources in *)
(* g is z.                                                                    *)
Renamed(s, z, f, g) ==
    /\ DOMAIN z = DOMAIN s
    /\ \A k \in DOMAIN s : \E q \in Resource :
          s[k].target = f[q] /\ z[k] = [s[k] EXCEPT !.target = g[q]]

LEMMA RenamedStanding ==
    ASSUME NEW f \in Naming, NEW g \in Naming, NEW s \in Seq(ResourceConstraint), NEW z,
           Renamed(s, z, f, g)
    PROVE  Standing(z) = Standing(s)
  <1>1. DOMAIN z = DOMAIN s /\ \A k \in DOMAIN s : s[k] \in ResourceConstraint
    BY Positions DEF Renamed
  <1>2. ASSUME NEW k \in DOMAIN s, NEW l \in DOMAIN s
        PROVE  Overrules(z[k], z[l]) <=> Overrules(s[k], s[l])
    <2>1. PICK q \in Resource : s[k].target = f[q] /\ z[k] = [s[k] EXCEPT !.target = g[q]]
      BY DEF Renamed
    <2>2. PICK r \in Resource : s[l].target = f[r] /\ z[l] = [s[l] EXCEPT !.target = g[r]]
      BY DEF Renamed
    <2>3. /\ z[k].operator = s[k].operator /\ z[k].property = s[k].property /\ z[k].target = g[q]
          /\ z[l].property = s[l].property /\ z[l].target = g[r]
      BY <1>1, <2>1, <2>2 DEF ResourceConstraint
    <2>4. g[q] = g[r] <=> f[q] = f[r]
      BY DEF Naming
    <2> QED
      BY <2>1, <2>2, <2>3, <2>4 DEF Overrules
  <1> QED
    BY <1>1, <1>2 DEF Standing

LEMMA RenameBoth ==
    ASSUME NEW f \in Naming, NEW g \in Naming,
           NEW s \in Seq(ResourceConstraint), NEW t \in Seq(ResourceConstraint), NEW y, NEW z,
           Renamed(s, y, f, g), Renamed(t, z, f, g), SameStanding(s, t)
    PROVE  SameStanding(y, z)
  <1>1. Standing(y) = Standing(s) /\ Standing(z) = Standing(t)
    BY RenamedStanding
  <1>2. PICK h \in [Standing(s) -> Standing(t)] :
            /\ \A i, j \in Standing(s) : i < j => h[i] < h[j]
            /\ \A k \in Standing(t) : \E i \in Standing(s) : h[i] = k
            /\ \A i \in Standing(s) : t[h[i]] = s[i]
    BY DEF SameStanding
  <1>3. ASSUME NEW i \in Standing(s) PROVE z[h[i]] = y[i]
    <2>1. i \in DOMAIN s /\ h[i] \in DOMAIN t /\ t[h[i]] = s[i]
      BY <1>2 DEF Standing
    <2>2. PICK q \in Resource : s[i].target = f[q] /\ y[i] = [s[i] EXCEPT !.target = g[q]]
      BY <2>1 DEF Renamed
    <2>3. PICK r \in Resource : t[h[i]].target = f[r] /\ z[h[i]] = [t[h[i]] EXCEPT !.target = g[r]]
      BY <2>1 DEF Renamed
    <2>4. q = r
      BY <2>1, <2>2, <2>3 DEF Naming
    <2> QED
      BY <2>1, <2>2, <2>3, <2>4
  <1>4. \E k \in [Standing(y) -> Standing(z)] :
            /\ \A i, j \in Standing(y) : i < j => k[i] < k[j]
            /\ \A l \in Standing(z) : \E i \in Standing(y) : k[i] = l
            /\ \A i \in Standing(y) : z[k[i]] = y[i]
    <2> USE <1>1
    <2> WITNESS h \in [Standing(y) -> Standing(z)]
    <2> QED
      BY <1>2, <1>3
  <1> QED
    BY <1>4, Zenon DEF SameStanding

-----------------------------------------------------------------------------
(* What the folds do to a list.                                               *)
LEMMA Least ==
    ASSUME NEW T, T \subseteq Nat, T # {}
    PROVE  \E m \in T : \A j \in T : m <= j
  <1>1. PICK m \in T : \A j \in T : ~(<<j, m>> \in OpToRel(<, Nat))
    BY WFMin, NatLessThanWellFounded
  <1>2. \A j \in Nat, k \in Nat : j < k => <<j, k>> \in OpToRel(<, Nat)
    BY Zenon DEF OpToRel
  <1>3. \A j \in T : ~(j < m)
    BY <1>1, <1>2
  <1> QED
    BY <1>3

LEMMA CutOut ==
    ASSUME NEW S, NEW x \in Seq(S), NEW i \in 1 .. Len(x), NEW y,
           y = SubSeq(x, 1, i - 1) \o SubSeq(x, i + 1, Len(x))
    PROVE  y \in Seq(S) /\ Skipping(x, y, i)
  <1>1. PICK n \in Nat : n = Len(x)
    BY Positions
  <1>2. i \in 1 .. n /\ i \in Int /\ n \in Int /\ \A j \in 1 .. n : x[j] \in S
    BY <1>1, Positions
  <1>3. PICK a, b : a = SubSeq(x, 1, i - 1) /\ b = SubSeq(x, i + 1, n)
    OBVIOUS
  <1>4. /\ a \in Seq(S) /\ Len(a) = i - 1
        /\ \A j \in 1 .. i - 1 : a[j] = x[j]
    <2>1. i - 1 \in Int /\ 1 \in Int /\ \A j \in 1 .. i - 1 : x[j] \in S
      BY <1>2
    <2>2. /\ a \in Seq(S) /\ Len(a) = IF 1 <= i - 1 THEN (i - 1) - 1 + 1 ELSE 0
          /\ \A j \in 1 .. (i - 1) - 1 + 1 : a[j] = x[1 + j - 1]
      <3>1. PICK m \in Int, l \in Int : m = 1 /\ l = i - 1
        BY <2>1
      <3>2. a = SubSeq(x, m, l) /\ \A j \in m .. l : x[j] \in S
        BY <1>3, <2>1, <3>1
      <3>3. /\ a \in Seq(S) /\ Len(a) = IF m <= l THEN l - m + 1 ELSE 0
            /\ \A j \in 1 .. l - m + 1 : a[j] = x[m + j - 1]
        BY <3>2, SubSeqProperties
      <3> QED
        BY <3>1, <3>3
    <2> QED
      BY <1>2, <2>2
  <1>5. /\ b \in Seq(S) /\ Len(b) = n - i
        /\ \A j \in 1 .. n - i : b[j] = x[i + j]
    <2>1. i + 1 \in Int /\ \A j \in i + 1 .. n : x[j] \in S
      BY <1>2
    <2>2. /\ b \in Seq(S) /\ Len(b) = IF i + 1 <= n THEN n - (i + 1) + 1 ELSE 0
          /\ \A j \in 1 .. n - (i + 1) + 1 : b[j] = x[(i + 1) + j - 1]
      BY <1>2, <1>3, <2>1, SubSeqProperties
    <2> QED
      BY <1>2, <2>2
  <1>6. /\ a \o b \in Seq(S) /\ Len(a \o b) = n - 1
        /\ \A j \in 1 .. n - 1 : (a \o b)[j] = IF j <= i - 1 THEN a[j] ELSE b[j - (i - 1)]
    <2>1. /\ a \o b \in Seq(S) /\ Len(a \o b) = Len(a) + Len(b)
          /\ \A j \in 1 .. Len(a) + Len(b) :
                (a \o b)[j] = IF j <= Len(a) THEN a[j] ELSE b[j - Len(a)]
      BY <1>4, <1>5, ConcatProperties
    <2>2. Len(a) + Len(b) = n - 1
      BY <1>2, <1>4, <1>5
    <2> QED
      BY <1>4, <2>1, <2>2
  <1>7. ASSUME NEW j \in 1 .. n - 1
        PROVE  (a \o b)[j] = x[IF j < i THEN j ELSE j + 1]
    <2>1. CASE j < i
      BY <1>2, <1>4, <1>6, <2>1
    <2>2. CASE ~(j < i)
      <3>1. j - (i - 1) \in 1 .. n - i /\ i + (j - (i - 1)) = j + 1 /\ ~(j <= i - 1)
        BY <1>2, <2>2
      <3> QED
        BY <1>5, <1>6, <2>2, <3>1
    <2> QED
      BY <2>1, <2>2
  <1> QED
    BY <1>1, <1>3, <1>6, <1>7 DEF Skipping

LEMMA WithoutIs ==
    ASSUME NEW S, NEW x \in Seq(S), NEW k \in 1 .. Len(x)
    PROVE  /\ Without(x, x[k]) \in Seq(S)
           /\ \E i \in 1 .. k : x[i] = x[k] /\ Skipping(x, Without(x, x[k]), i)
  <1> DEFINE P(i) == x[i] = x[k] /\ \A j \in DOMAIN x : x[j] = x[k] => i <= j
             i == CHOOSE l \in DOMAIN x : P(l)
  <1>1. Len(x) \in Nat /\ DOMAIN x = 1 .. Len(x)
    BY Positions
  <1>2. \E l \in DOMAIN x : P(l)
    <2> DEFINE T == {l \in DOMAIN x : x[l] = x[k]}
    <2>1. T \subseteq Nat /\ T # {}
      BY <1>1
    <2>2. PICK l \in T : \A j \in T : l <= j
      BY <2>1, Least
    <2> QED
      BY <2>2
  <1>3. Without(x, x[k]) = SubSeq(x, 1, i - 1) \o SubSeq(x, i + 1, Len(x))
    BY DEF Without, P
  <1> HIDE DEF P
  <1>4. i \in DOMAIN x /\ P(i)
    BY <1>2
  <1> HIDE DEF i
  <1>5. i \in 1 .. k /\ x[i] = x[k]
    BY <1>1, <1>4 DEF P
  <1> QED
    BY <1>1, <1>3, <1>4, <1>5, CutOut

LEMMA SkippingConcat ==
    ASSUME NEW S, NEW x \in Seq(S), NEW y \in Seq(S), NEW z \in Seq(S),
           NEW i \in 1 .. Len(x), Skipping(x, y, i)
    PROVE  Skipping(x \o z, y \o z, i)
  <1>1. /\ Len(x) \in Nat /\ Len(y) = Len(x) - 1 /\ Len(z) \in Nat
        /\ \A k \in 1 .. Len(y) : y[k] = x[IF k < i THEN k ELSE k + 1]
    BY LenProperties DEF Skipping
  <1>2. /\ Len(x \o z) = Len(x) + Len(z) /\ Len(y \o z) = Len(y) + Len(z)
        /\ \A k \in 1 .. Len(x) + Len(z) :
              (x \o z)[k] = IF k <= Len(x) THEN x[k] ELSE z[k - Len(x)]
        /\ \A k \in 1 .. Len(y) + Len(z) :
              (y \o z)[k] = IF k <= Len(y) THEN y[k] ELSE z[k - Len(y)]
    BY ConcatProperties
  <1>3. ASSUME NEW k \in 1 .. Len(y \o z)
        PROVE  (y \o z)[k] = (x \o z)[IF k < i THEN k ELSE k + 1]
    <2>1. CASE k < i
      <3>1. k \in 1 .. Len(y) /\ k <= Len(x)
        BY <1>1, <1>2, <2>1
      <3>2. k \in 1 .. Len(y) + Len(z) /\ k \in 1 .. Len(x) + Len(z)
        BY <1>1, <1>2, <3>1
      <3>3. y[k] = x[k]
        BY <1>1, <2>1, <3>1
      <3>4. (y \o z)[k] = y[k]
        BY <1>2, <3>1, <3>2
      <3>5. (x \o z)[k] = x[k]
        BY <1>2, <3>1, <3>2
      <3> QED
        BY <2>1, <3>3, <3>4, <3>5
    <2>2. CASE ~(k < i) /\ k <= Len(y)
      <3>1. k \in 1 .. Len(y) /\ k + 1 \in 1 .. Len(x) /\ y[k] = x[k + 1]
        <4>1. k \in 1 .. Len(y)
          BY <1>1, <2>2
        <4>2. k + 1 \in 1 .. Len(x)
          BY <1>1, <4>1
        <4> QED
          BY <1>1, <2>2, <4>1, <4>2
      <3>2. (y \o z)[k] = y[k] /\ (x \o z)[k + 1] = x[k + 1]
        BY <1>1, <1>2, <3>1
      <3> QED
        BY <2>2, <3>1, <3>2
    <2>3. CASE k > Len(y)
      <3>1. ~(k < i) /\ ~(k <= Len(y)) /\ ~(k + 1 <= Len(x)) /\ k - Len(y) = (k + 1) - Len(x)
        BY <1>1, <1>2, <2>3
      <3>2. k \in 1 .. Len(y) + Len(z) /\ k + 1 \in 1 .. Len(x) + Len(z)
        BY <1>1, <1>2
      <3> QED
        BY <1>2, <3>1, <3>2
    <2> QED
      BY <1>1, <1>2, <2>1, <2>2, <2>3
  <1> QED
    BY <1>1, <1>2, <1>3 DEF Skipping

LEMMA MoveHead ==
    ASSUME NEW S, NEW x \in Seq(S), NEW y \in Seq(S), y # << >>
    PROVE  /\ Append(x, Head(y)) \o Tail(y) = x \o y
           /\ Head(y) = y[1] /\ Len(y) \in Nat \ {0}
           /\ Append(x, Head(y)) \in Seq(S) /\ Tail(y) \in Seq(S) /\ Head(y) \in S
  <1>1. /\ Head(y) \in S /\ Head(y) = y[1] /\ Tail(y) \in Seq(S) /\ Len(Tail(y)) = Len(y) - 1
        /\ \A i \in 1 .. Len(Tail(y)) : Tail(y)[i] = y[i + 1]
    BY HeadTailProperties
  <1>2. Len(x) \in Nat /\ Len(y) \in Nat \ {0}
    BY LenProperties, EmptySeq
  <1>3. PICK h, t : h = Head(y) /\ t = Tail(y)
    OBVIOUS
  <1>4. /\ Append(x, h) \in Seq(S) /\ Len(Append(x, h)) = Len(x) + 1
        /\ \A i \in 1 .. Len(x) : Append(x, h)[i] = x[i]
        /\ Append(x, h)[Len(x) + 1] = y[1]
    BY <1>1, <1>3, AppendProperties
  <1>5. PICK a : a = Append(x, h)
    OBVIOUS
  <1>6. /\ a \o t \in Seq(S) /\ Len(a \o t) = Len(x) + Len(y)
        /\ \A i \in 1 .. Len(x) + Len(y) :
              (a \o t)[i] = IF i <= Len(x) + 1 THEN a[i] ELSE t[i - (Len(x) + 1)]
    BY <1>1, <1>2, <1>3, <1>4, <1>5, ConcatProperties
  <1>7. /\ x \o y \in Seq(S) /\ Len(x \o y) = Len(x) + Len(y)
        /\ \A i \in 1 .. Len(x) + Len(y) :
              (x \o y)[i] = IF i <= Len(x) THEN x[i] ELSE y[i - Len(x)]
    BY ConcatProperties
  <1>8. ASSUME NEW i \in 1 .. Len(x) + Len(y) PROVE (a \o t)[i] = (x \o y)[i]
    <2>1. CASE i <= Len(x)
      BY <1>2, <1>4, <1>5, <1>6, <1>7, <2>1
    <2>2. CASE i = Len(x) + 1
      BY <1>2, <1>4, <1>5, <1>6, <1>7, <2>2
    <2>3. CASE ~(i <= Len(x)) /\ i # Len(x) + 1
      <3>1. /\ i - (Len(x) + 1) \in 1 .. Len(t) /\ (i - (Len(x) + 1)) + 1 = i - Len(x)
            /\ ~(i <= Len(x) + 1) /\ ~(i <= Len(x))
        BY <1>1, <1>2, <1>3, <2>3
      <3> QED
        BY <1>1, <1>3, <1>6, <1>7, <3>1
    <2> QED
      BY <1>2, <2>1, <2>2, <2>3
  <1> QED
    BY <1>1, <1>2, <1>3, <1>4, <1>5, <1>6, <1>7, <1>8, SeqEqual

-----------------------------------------------------------------------------
(* What a list of constraints does to the names of the resources: c leads     *)
(* from f to g if it renames a resource of f, or names nothing anew; a list   *)
(* is a chain of such steps.                                                  *)
Leads(c, f, g) ==
    /\ c \in Replace => \E r \in Resource : c.target = f[r] /\ g = [f EXCEPT ![r] = c.replacement]
    /\ c \notin Replace => g = f

Chain(list, f, g) ==
    \E h \in [0 .. Len(list) -> Naming] :
        /\ h[0] = f /\ h[Len(list)] = g
        /\ \A k \in 1 .. Len(list) : Leads(list[k], h[k - 1], h[k])

(* Every target is the name of a resource in f.                               *)
TargetsIn(list, f) == \A k \in DOMAIN list : \E q \in Resource : list[k].target = f[q]

LEMMA ChainEmpty ==
    ASSUME NEW f, NEW g, Chain(<< >>, f, g)
    PROVE  f = g
  BY EmptySeq DEF Chain

LEMMA ChainTail ==
    ASSUME NEW x \in Seq(Constraint), x # << >>, NEW f, NEW g, Chain(x, f, g)
    PROVE  \E e \in Naming : Leads(Head(x), f, e) /\ Chain(Tail(x), e, g)
  <1>1. PICK n \in Nat : n + 1 = Len(x)
    BY EmptySeq
  <1>2. /\ Len(Tail(x)) = n /\ Head(x) = x[1]
        /\ \A k \in 1 .. n : Tail(x)[k] = x[k + 1]
    BY <1>1, HeadTailProperties
  <1>3. PICK h \in [0 .. n + 1 -> Naming] :
            /\ h[0] = f /\ h[n + 1] = g
            /\ \A k \in 1 .. n + 1 : Leads(x[k], h[k - 1], h[k])
    BY <1>1 DEF Chain
  <1> DEFINE l == [k \in 0 .. n |-> h[k + 1]]
  <1>4. l \in [0 .. n -> Naming] /\ l[0] = h[1] /\ l[n] = g
    BY <1>3
  <1>5. ASSUME NEW k \in 1 .. n PROVE Leads(Tail(x)[k], l[k - 1], l[k])
    <2>1. k + 1 \in 1 .. n + 1 /\ (k + 1) - 1 = k /\ l[k - 1] = h[k] /\ l[k] = h[k + 1]
      OBVIOUS
    <2> QED
      BY <1>2, <1>3, <2>1
  <1>6. Leads(Head(x), f, h[1]) /\ h[1] \in Naming
    <2>1. 1 \in 1 .. n + 1 /\ 1 \in 0 .. n + 1 /\ 1 - 1 = 0
      OBVIOUS
    <2> QED
      BY <1>2, <1>3, <2>1
  <1>7. Chain(Tail(x), h[1], g)
    BY <1>2, <1>4, <1>5 DEF Chain
  <1> QED
    BY <1>6, <1>7

(* A resource constraint can go, for it renames nothing.                      *)
LEMMA ChainWithout ==
    ASSUME NEW x \in Seq(Constraint), NEW y, NEW i \in 1 .. Len(x),
           x[i] \in ResourceConstraint, Skipping(x, y, i), NEW f, NEW g, Chain(x, f, g)
    PROVE  Chain(y, f, g)
  <1>1. PICK n \in Nat : n = Len(x)
    BY Positions
  <1>2. /\ i \in 1 .. n /\ Len(y) = n - 1
        /\ \A k \in 1 .. n - 1 : y[k] = x[IF k < i THEN k ELSE k + 1]
    BY <1>1 DEF Skipping
  <1>3. PICK h \in [0 .. n -> Naming] :
            /\ h[0] = f /\ h[n] = g
            /\ \A k \in 1 .. n : Leads(x[k], h[k - 1], h[k])
    BY <1>1 DEF Chain
  <1>4. h[i] = h[i - 1]
    BY <1>2, <1>3, Classes DEF Leads
  <1> DEFINE l == [k \in 0 .. n - 1 |-> IF k < i THEN h[k] ELSE h[k + 1]]
  <1>5. l \in [0 .. n - 1 -> Naming] /\ l[0] = f
    BY <1>2, <1>3
  <1>6. l[n - 1] = g
    BY <1>2, <1>3, <1>4
  <1>7. ASSUME NEW k \in 1 .. n - 1 PROVE Leads(y[k], l[k - 1], l[k])
    <2>1. CASE k < i
      <3>1. k \in 1 .. n /\ y[k] = x[k] /\ l[k - 1] = h[k - 1] /\ l[k] = h[k]
        BY <1>2, <2>1
      <3> QED
        BY <1>3, <3>1
    <2>2. CASE ~(k < i)
      <3>1. k + 1 \in 1 .. n /\ (k + 1) - 1 = k /\ y[k] = x[k + 1] /\ l[k] = h[k + 1]
        BY <1>2, <2>2
      <3>2. l[k - 1] = h[k]
        <4>1. CASE k = i
          BY <1>2, <1>4, <4>1
        <4>2. CASE k # i
          <5>1. k - 1 \in 0 .. n - 1 /\ ~(k - 1 < i) /\ (k - 1) + 1 = k
            BY <1>2, <2>2, <4>2
          <5> QED
            BY <5>1
        <4> QED
          BY <4>1, <4>2
      <3> QED
        BY <1>3, <3>1, <3>2
    <2> QED
      BY <2>1, <2>2
  <1> QED
    BY <1>2, <1>5, <1>6, <1>7 DEF Chain

(* A constraint that renames a resource leads to other names of the same      *)
(* resources, and substituting it renames the targets of a list.              *)
LEMMA SubstituteRenames ==
    ASSUME NEW x \in Seq(ResourceConstraint), NEW c \in Replace, NEW f \in Naming,
           NEW g \in Naming, Leads(c, f, g), TargetsIn(x, f)
    PROVE  /\ Renamed(x, Substitute(x, c), f, g)
           /\ Substitute(x, c) \in Seq(ResourceConstraint)
           /\ TargetsIn(Substitute(x, c), g)
  <1>1. PICK n \in Nat : n = Len(x) /\ DOMAIN x = 1 .. n
    BY Positions
  <1>2. ASSUME NEW k \in 1 .. n PROVE x[k] \in ResourceConstraint
    BY <1>1, Positions
  <1>3. PICK z : z = Substitute(x, c)
    OBVIOUS
  <1>4. /\ DOMAIN z = 1 .. n
        /\ \A k \in 1 .. n : z[k] =
              IF x[k].target = c.target THEN [x[k] EXCEPT !.target = c.replacement] ELSE x[k]
    BY <1>1, <1>3 DEF Substitute
  <1>5. PICK r \in Resource : c.target = f[r] /\ g = [f EXCEPT ![r] = c.replacement]
    BY DEF Leads
  <1>6. ASSUME NEW k \in 1 .. n
        PROVE  /\ z[k] \in ResourceConstraint
               /\ \E q \in Resource :
                     /\ x[k].target = f[q] /\ z[k] = [x[k] EXCEPT !.target = g[q]]
                     /\ z[k].target = g[q]
    <2>1. PICK q \in Resource : x[k].target = f[q]
      BY <1>1 DEF TargetsIn
    <2>2. g[q] = IF q = r THEN c.replacement ELSE f[q]
      BY <1>5 DEF Naming
    <2>3. q = r <=> x[k].target = c.target
      BY <1>5, <2>1 DEF Naming
    <2>4. PICK o : o = x[k]
      OBVIOUS
    <2>5. o \in ResourceConstraint
      BY <1>2, <2>4
    <2>6. [o EXCEPT !.target = o.target] = o
      BY <2>5 DEF ResourceConstraint
    <2>7. z[k] = [o EXCEPT !.target = g[q]]
      BY <1>4, <2>1, <2>2, <2>3, <2>4, <2>6
    <2>8. g[q] \in Name
      BY DEF Naming
    <2>9. z[k] \in ResourceConstraint /\ z[k].target = g[q]
      BY <2>5, <2>7, <2>8 DEF ResourceConstraint
    <2> QED
      BY <2>1, <2>4, <2>7, <2>9
  <1>7. z \in Seq(ResourceConstraint)
    <2>1. z = [k \in 1 .. n |-> IF x[k].target = c.target
                 THEN [x[k] EXCEPT !.target = c.replacement] ELSE x[k]]
      BY <1>1, <1>3 DEF Substitute
    <2>2. z \in [1 .. n -> ResourceConstraint]
      BY <1>6, <2>1
    <2> QED
      BY <2>2
  <1>8. TargetsIn(z, g)
    BY <1>4, <1>6 DEF TargetsIn
  <1>9. Renamed(x, z, f, g)
    BY <1>1, <1>4, <1>6 DEF Renamed
  <1> QED
    BY <1>3, <1>7, <1>8, <1>9

-----------------------------------------------------------------------------
(* One turn of a promotion.  m: what was made in the environment; f, the      *)
(* names it has; g, those of the base.                                        *)
ByName(m, f) == [i \in DOMAIN m |->
    [operator |-> m[i].operator, target |-> f[m[i].resource],
     property |-> m[i].property, value |-> m[i].value]]

(* A list that has, under the names f, what counts of m.                      *)
Holds(list, m, f) == TargetsIn(list, f) /\ SameStanding(ByName(m, f), list)

(* Lists of overrides have resource constraints only.                         *)
Lists(p) ==
    /\ p.step = "overrides" => p.kept \in Seq(ResourceConstraint) /\ p.rest \in Seq(ResourceConstraint)
    /\ p.step = "names" => p.kept \in Seq(ResourceConstraint)

(* What is left of the stream leads to the names of the base, and the         *)
(* overrides hold what counts, by the names as far as they are substituted.   *)
Folded(p, m, f, g) ==
    /\ p.step = "stream" => Chain(p.kept \o p.rest, f, g)
    /\ p.step = "overrides" => Chain(p.stream, f, g) /\ Holds(p.kept \o p.rest, m, f)
    /\ p.step = "names" => \E e \in Naming : Chain(p.rest, e, g) /\ Holds(p.kept, m, e)

LEMMA PromotionFields ==
    ASSUME NEW p \in Promotion
    PROVE  /\ p.step \in {"idle", "stream", "overrides", "names"}
           /\ p.rest \in Seq(Constraint) /\ p.kept \in Seq(Constraint)
           /\ p.at \in Nat \ {0} /\ p.stream \in Seq(Constraint)
  BY DEF Promotion

LEMMA ByNameIs ==
    ASSUME NEW m \in Seq(Made), NEW f \in Naming
    PROVE  /\ ByName(m, f) \in Seq(ResourceConstraint)
           /\ DOMAIN ByName(m, f) = DOMAIN m
           /\ \A k \in DOMAIN m : m[k].resource \in Resource
           /\ \A k \in DOMAIN m : ByName(m, f)[k] =
                 [operator |-> m[k].operator, target |-> f[m[k].resource],
                  property |-> m[k].property, value |-> m[k].value]
  <1>1. PICK n \in Nat : n = Len(m) /\ DOMAIN m = 1 .. n
    BY Positions
  <1>2. ASSUME NEW k \in 1 .. n PROVE m[k] \in Made
    BY <1>1, Positions
  <1>3. ASSUME NEW k \in 1 .. n
        PROVE  [operator |-> m[k].operator, target |-> f[m[k].resource],
                property |-> m[k].property, value |-> m[k].value] \in ResourceConstraint
    BY <1>2 DEF Made, ResourceConstraint, Naming
  <1>4. ByName(m, f) \in [1 .. n -> ResourceConstraint]
    BY <1>1, <1>3 DEF ByName
  <1>5. ByName(m, f) \in Seq(ResourceConstraint)
    BY <1>4
  <1>6. \A k \in DOMAIN m : m[k].resource \in Resource
    BY <1>1, <1>2 DEF Made
  <1> QED
    BY <1>5, <1>6 DEF ByName

LEMMA ByNameRenamed ==
    ASSUME NEW m \in Seq(Made), NEW f \in Naming, NEW g \in Naming
    PROVE  Renamed(ByName(m, f), ByName(m, g), f, g)
  <1>1. ASSUME NEW k \in DOMAIN m
        PROVE  \E q \in Resource :
                  /\ ByName(m, f)[k].target = f[q]
                  /\ ByName(m, g)[k] = [ByName(m, f)[k] EXCEPT !.target = g[q]]
    <2>1. PICK q \in Resource : q = m[k].resource
      BY ByNameIs
    <2>2. PICK o, t, pr, v : o = m[k].operator /\ t = f[q] /\ pr = m[k].property /\ v = m[k].value
      OBVIOUS
    <2>3. ByName(m, f)[k] = [operator |-> o, target |-> t, property |-> pr, value |-> v]
      BY <2>1, <2>2, ByNameIs
    <2>4. ByName(m, g)[k] = [operator |-> o, target |-> g[q], property |-> pr, value |-> v]
      BY <2>1, <2>2, ByNameIs
    <2>5. ByName(m, g)[k] = [ByName(m, f)[k] EXCEPT !.target = g[q]]
      BY <2>3, <2>4
    <2> QED
      BY <2>2, <2>3, <2>5
  <1> QED
    BY <1>1, ByNameIs DEF Renamed

LEMMA WalkLists ==
    ASSUME NEW p \in Promotion, Lists(p), NEW q,
           p.step # "names", p.rest # << >>, p.at <= Len(p.kept),
           q = [p EXCEPT !.at = @ + 1, !.kept =
                  IF CancelsOut(Head(p.rest), @[p.at]) THEN Without(@, @[p.at]) ELSE @]
    PROVE  q \in Promotion /\ Lists(q)
  <1>1. /\ p.rest \in Seq(Constraint) /\ p.kept \in Seq(Constraint)
        /\ p.at \in 1 .. Len(p.kept) /\ p.stream \in Seq(Constraint)
    BY PromotionFields, LenProperties
  <1>2. PICK x, c : x = p.kept /\ c = x[p.at]
    OBVIOUS
  <1>3. PICK y : y = IF CancelsOut(Head(p.rest), c) THEN Without(x, c) ELSE x
    OBVIOUS
  <1>4. q = [p EXCEPT !.at = @ + 1, !.kept = y]
    BY <1>2, <1>3
  <1>5. /\ q.step = p.step /\ q.rest = p.rest /\ q.kept = y /\ q.stream = p.stream
    BY <1>4 DEF Promotion
  <1>6. y \in Seq(Constraint) /\ (x \in Seq(ResourceConstraint) => y \in Seq(ResourceConstraint))
    BY <1>1, <1>2, <1>3, WithoutIs
  <1>7. q \in Promotion
    <2>1. PICK n \in Nat \ {0} : n = p.at + 1
      BY PromotionFields
    <2>2. q = [p EXCEPT !.at = n, !.kept = y]
      BY <1>4, <2>1
    <2> QED
      BY <1>6, <2>1, <2>2 DEF Promotion
  <1>8. Lists(q)
    BY <1>2, <1>5, <1>6 DEF Lists
  <1> QED
    BY <1>7, <1>8

LEMMA WalkFolds ==
    ASSUME NEW p \in Promotion, Lists(p), NEW q, NEW m \in Seq(Made), NEW f, NEW g,
           Folded(p, m, f, g), p.step # "names", p.rest # << >>, p.at <= Len(p.kept),
           q = [p EXCEPT !.at = @ + 1, !.kept =
                  IF CancelsOut(Head(p.rest), @[p.at]) THEN Without(@, @[p.at]) ELSE @]
    PROVE  Folded(q, m, f, g)
  <1>1. /\ p.rest \in Seq(Constraint) /\ p.kept \in Seq(Constraint)
        /\ p.at \in 1 .. Len(p.kept) /\ p.stream \in Seq(Constraint)
    BY PromotionFields, LenProperties
  <1>2. PICK x, c : x = p.kept /\ c = x[p.at]
    OBVIOUS
  <1>3. PICK y : y = IF CancelsOut(Head(p.rest), c) THEN Without(x, c) ELSE x
    OBVIOUS
  <1>4. q = [p EXCEPT !.at = @ + 1, !.kept = y]
    BY <1>2, <1>3
  <1>5. /\ q.step = p.step /\ q.rest = p.rest /\ q.kept = y /\ q.stream = p.stream
    BY <1>4 DEF Promotion
  <1>6. y \in Seq(Constraint) /\ (x \in Seq(ResourceConstraint) => y \in Seq(ResourceConstraint))
    BY <1>1, <1>2, <1>3, WithoutIs
  <1>7. CASE y = x
    <2>1. q.kept = p.kept
      BY <1>2, <1>5, <1>7
    <2> QED
      BY <1>5, <2>1 DEF Folded
  <1>8. CASE y # x
    <2>1. CancelsOut(Head(p.rest), c) /\ y = Without(x, c)
      BY <1>3, <1>8
    <2>2. c \in ResourceConstraint /\ Overrules(Head(p.rest), c)
      BY <2>1 DEF CancelsOut, Overrules
    <2>3. PICK i \in 1 .. p.at : x[i] = c /\ Skipping(x, y, i)
      BY <1>1, <1>2, <2>1, WithoutIs
    <2>4. i \in 1 .. Len(x) /\ Len(x) \in Nat
      BY <1>1, <1>2, LenProperties
    <2>5. PICK u, w : u = x \o p.rest /\ w = y \o p.rest
      OBVIOUS
    <2>6. /\ u \in Seq(Constraint) /\ w \in Seq(Constraint) /\ Skipping(u, w, i)
      BY <1>1, <1>2, <1>6, <2>3, <2>4, <2>5, SkippingConcat, ConcatProperties
    <2>7. /\ Len(u) = Len(x) + Len(p.rest) /\ Len(p.rest) \in Nat \ {0}
          /\ \A k \in 1 .. Len(x) + Len(p.rest) :
                u[k] = IF k <= Len(x) THEN x[k] ELSE p.rest[k - Len(x)]
          /\ Head(p.rest) = p.rest[1]
      <3>1. PICK z \in Seq(Constraint) : z = p.rest
        BY <1>1
      <3>2. Len(z) \in Nat \ {0} /\ Head(z) = z[1]
        BY <1>1, <3>1, MoveHead
      <3>3. /\ Len(x \o z) = Len(x) + Len(z)
            /\ \A k \in 1 .. Len(x) + Len(z) :
                  (x \o z)[k] = IF k <= Len(x) THEN x[k] ELSE z[k - Len(x)]
        BY <1>1, <1>2, ConcatProperties
      <3> QED
        BY <2>5, <3>1, <3>2, <3>3
    <2>8. i \in 1 .. Len(u) /\ u[i] = c
      BY <2>3, <2>4, <2>7
    <2>9. PICK j : j = Len(x) + 1
      OBVIOUS
    <2>10. j \in 1 .. Len(u) /\ i < j /\ u[j] = Head(p.rest)
      <3>1. j \in 1 .. Len(x) + Len(p.rest) /\ ~(j <= Len(x)) /\ j - Len(x) = 1 /\ i < j
        BY <2>4, <2>7, <2>9
      <3> QED
        BY <2>7, <3>1
    <2>11. p.step = "stream" => Chain(w, f, g)
      <3> HAVE p.step = "stream"
      <3>1. Chain(u, f, g)
        BY <1>2, <2>5 DEF Folded
      <3> QED
        BY <2>2, <2>6, <2>8, <3>1, ChainWithout
    <2>12. p.step = "overrides" => Holds(w, m, f)
      <3> HAVE p.step = "overrides"
      <3>1. TargetsIn(u, f) /\ SameStanding(ByName(m, f), u)
        BY <1>2, <2>5 DEF Folded, Holds
      <3>2. SameStanding(u, w)
        BY <2>2, <2>6, <2>8, <2>10, RemoveOne
      <3>3. SameStanding(ByName(m, f), w)
        BY <3>1, <3>2, SameTrans
      <3>4. TargetsIn(w, f)
        <4>1. /\ DOMAIN w = 1 .. Len(w) /\ DOMAIN u = 1 .. Len(u) /\ Len(u) \in Nat
              /\ Len(w) = Len(u) - 1
              /\ \A k \in 1 .. Len(w) : w[k] = u[IF k < i THEN k ELSE k + 1]
          BY <2>6, Positions DEF Skipping
        <4>2. \A k \in 1 .. Len(w) : \E l \in 1 .. Len(u) : w[k] = u[l]
          BY <4>1
        <4> QED
          BY <3>1, <4>1, <4>2 DEF TargetsIn
      <3> QED
        BY <3>3, <3>4 DEF Holds
    <2> QED
      BY <1>5, <2>5, <2>11, <2>12 DEF Folded
  <1> QED
    BY <1>7, <1>8

LEMMA KeepLists ==
    ASSUME NEW p \in Promotion, Lists(p), NEW q,
           p.step # "names", p.rest # << >>,
           q = [p EXCEPT !.kept = Append(@, Head(p.rest)), !.rest = Tail(@), !.at = 1]
    PROVE  q \in Promotion /\ Lists(q)
  <1>1. /\ p.rest \in Seq(Constraint) /\ p.kept \in Seq(Constraint) /\ p.stream \in Seq(Constraint)
    BY PromotionFields
  <1>2. PICK y, t : y = Append(p.kept, Head(p.rest)) /\ t = Tail(p.rest)
    OBVIOUS
  <1>3. y \in Seq(Constraint) /\ t \in Seq(Constraint) /\ y \o t = p.kept \o p.rest
    <2>1. PICK x \in Seq(Constraint), r \in Seq(Constraint) : x = p.kept /\ r = p.rest
      BY <1>1
    <2>2. r # << >> /\ y = Append(x, Head(r)) /\ t = Tail(r)
      BY <1>2, <2>1
    <2>3. /\ Append(x, Head(r)) \o Tail(r) = x \o r
          /\ Append(x, Head(r)) \in Seq(Constraint) /\ Tail(r) \in Seq(Constraint)
      <3> HIDE <2>1
      <3>1. r # << >>
        BY <2>2
      <3> QED
        BY <3>1, MoveHead
    <2> QED
      BY <2>1, <2>2, <2>3
  <1>4. p.step = "overrides" => y \in Seq(ResourceConstraint) /\ t \in Seq(ResourceConstraint)
    BY <1>2, MoveHead DEF Lists
  <1>5. q = [p EXCEPT !.kept = y, !.rest = t, !.at = 1]
    BY <1>2
  <1>6. q.step = p.step /\ q.rest = t /\ q.kept = y /\ q.stream = p.stream
    BY <1>5 DEF Promotion
  <1>7. q \in Promotion
    <2>1. 1 \in Nat \ {0}
      OBVIOUS
    <2> QED
      BY <1>3, <1>5, <2>1 DEF Promotion
  <1>8. Lists(q)
    BY <1>4, <1>6 DEF Lists
  <1> QED
    BY <1>7, <1>8

LEMMA KeepFolds ==
    ASSUME NEW p \in Promotion, Lists(p), NEW q, NEW m \in Seq(Made), NEW f, NEW g,
           Folded(p, m, f, g), p.step # "names", p.rest # << >>,
           q = [p EXCEPT !.kept = Append(@, Head(p.rest)), !.rest = Tail(@), !.at = 1]
    PROVE  Folded(q, m, f, g)
  <1>1. /\ p.rest \in Seq(Constraint) /\ p.kept \in Seq(Constraint) /\ p.stream \in Seq(Constraint)
    BY PromotionFields
  <1>2. PICK y, t : y = Append(p.kept, Head(p.rest)) /\ t = Tail(p.rest)
    OBVIOUS
  <1>3. y \in Seq(Constraint) /\ t \in Seq(Constraint) /\ y \o t = p.kept \o p.rest
    <2>1. PICK x \in Seq(Constraint), r \in Seq(Constraint) : x = p.kept /\ r = p.rest
      BY <1>1
    <2>2. r # << >> /\ y = Append(x, Head(r)) /\ t = Tail(r)
      BY <1>2, <2>1
    <2>3. /\ Append(x, Head(r)) \o Tail(r) = x \o r
          /\ Append(x, Head(r)) \in Seq(Constraint) /\ Tail(r) \in Seq(Constraint)
      <3> HIDE <2>1
      <3>1. r # << >>
        BY <2>2
      <3> QED
        BY <3>1, MoveHead
    <2> QED
      BY <2>1, <2>2, <2>3
  <1>4. q = [p EXCEPT !.kept = y, !.rest = t, !.at = 1]
    BY <1>2
  <1>5. q.step = p.step /\ q.rest = t /\ q.kept = y /\ q.stream = p.stream
    BY <1>4 DEF Promotion
  <1> QED
    BY <1>3, <1>5 DEF Folded

LEMMA SubstituteFolds ==
    ASSUME NEW p \in Promotion, Lists(p), NEW q, NEW m \in Seq(Made), NEW f, NEW g,
           Folded(p, m, f, g),
           p.step = "names", p.rest # << >>,
           q = [p EXCEPT !.rest = Tail(@), !.kept =
                  IF Head(p.rest) \in Replace THEN Substitute(@, Head(p.rest)) ELSE @]
    PROVE  Folded(q, m, f, g)
  <1>1. /\ p.rest \in Seq(Constraint) /\ p.kept \in Seq(ResourceConstraint)
    BY PromotionFields DEF Lists
  <1>2. PICK c, x, y : /\ c = Head(p.rest) /\ x = p.kept
                       /\ y = IF c \in Replace THEN Substitute(x, c) ELSE x
    OBVIOUS
  <1>3. q.step = "names" /\ q.rest = Tail(p.rest) /\ q.kept = y
    BY <1>2 DEF Promotion
  <1>4. PICK e \in Naming : Chain(p.rest, e, g) /\ TargetsIn(x, e) /\ SameStanding(ByName(m, e), x)
    BY <1>2 DEF Folded, Holds
  <1>5. PICK d \in Naming : Leads(c, e, d) /\ Chain(Tail(p.rest), d, g)
    BY <1>1, <1>2, <1>4, ChainTail
  <1>6. CASE c \in Replace
    <2>1. Renamed(x, y, e, d) /\ TargetsIn(y, d)
      BY <1>1, <1>2, <1>4, <1>5, <1>6, SubstituteRenames
    <2>2. Renamed(ByName(m, e), ByName(m, d), e, d) /\ ByName(m, e) \in Seq(ResourceConstraint)
      BY ByNameRenamed, ByNameIs
    <2>3. SameStanding(ByName(m, d), y)
      BY <1>1, <1>2, <1>4, <2>1, <2>2, RenameBoth
    <2> QED
      BY <1>3, <1>5, <2>1, <2>3 DEF Folded, Holds
  <1>7. CASE c \notin Replace
    <2>1. d = e /\ y = x
      BY <1>2, <1>5, <1>7 DEF Leads
    <2> QED
      BY <1>3, <1>4, <1>5, <2>1 DEF Folded, Holds
  <1> QED
    BY <1>6, <1>7

LEMMA SubstituteLists ==
    ASSUME NEW p \in Promotion, Lists(p), NEW q,
           p.step = "names", p.rest # << >>,
           q = [p EXCEPT !.rest = Tail(@), !.kept =
                  IF Head(p.rest) \in Replace THEN Substitute(@, Head(p.rest)) ELSE @]
    PROVE  q \in Promotion /\ Lists(q)
  <1>1. /\ p.rest \in Seq(Constraint) /\ p.kept \in Seq(ResourceConstraint)
        /\ Tail(p.rest) \in Seq(Constraint)
    BY PromotionFields, MoveHead DEF Lists
  <1>2. PICK c, x, y : /\ c = Head(p.rest) /\ x = p.kept
                       /\ y = IF c \in Replace THEN Substitute(x, c) ELSE x
    OBVIOUS
  <1>3. ASSUME c \in Replace PROVE Substitute(x, c) \in Seq(ResourceConstraint)
    <2>1. PICK n \in Nat : n = Len(x) /\ DOMAIN x = 1 .. n
      BY <1>1, <1>2, Positions
    <2>2. ASSUME NEW k \in 1 .. n
          PROVE  (IF x[k].target = c.target THEN [x[k] EXCEPT !.target = c.replacement] ELSE x[k])
                    \in ResourceConstraint
      <3>1. PICK o : o = x[k]
        OBVIOUS
      <3>2. o \in ResourceConstraint /\ c.replacement \in Name
        BY <1>1, <1>2, <1>3, <2>1, <3>1, Positions DEF Replace
      <3>3. [o EXCEPT !.target = c.replacement] \in ResourceConstraint
        BY <3>2 DEF ResourceConstraint
      <3> QED
        BY <3>1, <3>2, <3>3
    <2>3. Substitute(x, c) \in [1 .. n -> ResourceConstraint]
      BY <2>1, <2>2 DEF Substitute
    <2> QED
      BY <2>3
  <1>4. y \in Seq(ResourceConstraint) /\ y \in Seq(Constraint)
    <2>1. y \in Seq(ResourceConstraint)
      BY <1>1, <1>2, <1>3
    <2> QED
      BY <2>1, SeqMonotonic, Classes
  <1>5. q = [p EXCEPT !.rest = Tail(p.rest), !.kept = y]
    BY <1>2
  <1>6. q.step = "names" /\ q.kept = y
    BY <1>5 DEF Promotion
  <1>7. q \in Promotion
    BY <1>1, <1>4, <1>5 DEF Promotion
  <1> QED
    BY <1>4, <1>6, <1>7 DEF Lists

-----------------------------------------------------------------------------
(* The versions of the base: later ones have later hashes, and the constraint *)
(* of each leads from the names of the one before to its own.                 *)
History(b, d) ==
    /\ b # << >>
    /\ \A i, j \in DOMAIN b : i < j => b[i].hash < b[j].hash
    /\ \A i \in DOMAIN b : b[i].hash <= d
    /\ \A i \in DOMAIN b : i + 1 \in DOMAIN b =>
          /\ b[i + 1].constraint \in Constraint
          /\ Leads(b[i + 1].constraint, b[i].names, b[i + 1].names)

LEMMA HistoryFields ==
    ASSUME NEW b \in Seq(Version), NEW d, History(b, d)
    PROVE  /\ Len(b) \in Nat \ {0} /\ DOMAIN b = 1 .. Len(b)
           /\ \A i \in DOMAIN b : b[i].hash \in Hash /\ b[i].hash \in Nat /\ b[i].names \in Naming
           /\ \A i, j \in DOMAIN b : b[i].hash = b[j].hash => i = j
  <1>1. Len(b) \in Nat \ {0} /\ DOMAIN b = 1 .. Len(b) /\ \A i \in 1 .. Len(b) : b[i] \in Version
    BY Positions, EmptySeq DEF History
  <1>2. \A i \in DOMAIN b : b[i].hash \in Hash /\ b[i].names \in Naming
    BY <1>1 DEF Version
  <1>3. \A i \in DOMAIN b : b[i].hash \in Nat
    BY <1>2, BoundsAssumption DEF Hash
  <1>4. ASSUME NEW i \in DOMAIN b, NEW j \in DOMAIN b, b[i].hash = b[j].hash, i # j
        PROVE  FALSE
    <2>1. \A k, l \in DOMAIN b : k < l => b[k].hash < b[l].hash
      BY DEF History
    <2>2. i < j \/ j < i
      BY <1>1, <1>4
    <2> QED
      BY <1>3, <1>4, <2>1, <2>2
  <1> QED
    BY <1>1, <1>2, <1>3, <1>4

(* A run replaces what follows the current version.                           *)
LEMMA HistoryGrows ==
    ASSUME NEW b \in Seq(Version), NEW d \in Hash, History(b, d), NEW e \in Hash, e = d + 1,
           NEW i \in DOMAIN b,
           NEW v \in Version, v.hash = e, v.constraint \in Constraint,
           Leads(v.constraint, b[i].names, v.names), NEW z, z = Append(SubSeq(b, 1, i), v)
    PROVE  /\ z \in Seq(Version) /\ History(z, e)
           /\ Len(z) = i + 1 /\ DOMAIN z = 1 .. i + 1 /\ z[i + 1].hash = e
           /\ \A k \in 1 .. i : k \in DOMAIN b /\ z[k] = b[k]
  <1>1. /\ DOMAIN b = 1 .. Len(b) /\ Len(b) \in Nat /\ i \in 1 .. Len(b)
        /\ \A k \in 1 .. Len(b) : b[k] \in Version
    BY HistoryFields, Positions
  <1>2. d \in Nat /\ e \in Hash
    BY BoundsAssumption DEF Hash
  <1>3. PICK a : a = SubSeq(b, 1, i)
    OBVIOUS
  <1>4. a \in Seq(Version) /\ Len(a) = i /\ \A k \in 1 .. i : a[k] = b[k]
    <2>1. 1 \in Int /\ i \in Int /\ \A k \in 1 .. i : b[k] \in Version
      BY <1>1
    <2>2. /\ a \in Seq(Version) /\ Len(a) = IF 1 <= i THEN i - 1 + 1 ELSE 0
          /\ \A k \in 1 .. i - 1 + 1 : a[k] = b[1 + k - 1]
      BY <1>3, <2>1, SubSeqProperties
    <2> QED
      BY <1>1, <2>2
  <1>5. /\ z \in Seq(Version) /\ Len(z) = i + 1 /\ DOMAIN z = 1 .. i + 1 /\ z[i + 1] = v
        /\ \A k \in 1 .. i : k \in DOMAIN b /\ z[k] = b[k]
    <2>1. z = Append(a, v)
      BY <1>3
    <2>2. /\ z \in Seq(Version) /\ Len(z) = i + 1 /\ z[i + 1] = v
          /\ \A k \in 1 .. i : z[k] = a[k]
      BY <1>4, <2>1, AppendProperties
    <2>3. DOMAIN z = 1 .. i + 1
      BY <2>2, Positions
    <2> QED
      BY <1>1, <1>4, <2>2, <2>3
  <1>6. /\ \A k \in 1 .. i : b[k].hash <= d /\ b[k].hash \in Nat
        /\ \A k, l \in 1 .. i : k < l => b[k].hash < b[l].hash
        /\ \A k \in 1 .. i : k + 1 \in 1 .. i =>
              /\ b[k + 1].constraint \in Constraint
              /\ Leads(b[k + 1].constraint, b[k].names, b[k + 1].names)
    <2>1. \A k \in 1 .. i : k \in DOMAIN b
      BY <1>1
    <2>2. \A k \in 1 .. i : b[k].hash <= d /\ b[k].hash \in Nat
      BY <2>1, HistoryFields DEF History
    <2>3. \A k, l \in 1 .. i : k < l => b[k].hash < b[l].hash
      BY <2>1 DEF History
    <2>4. \A k \in 1 .. i : k + 1 \in 1 .. i =>
              /\ b[k + 1].constraint \in Constraint
              /\ Leads(b[k + 1].constraint, b[k].names, b[k + 1].names)
      BY <2>1 DEF History
    <2> QED
      BY <2>2, <2>3, <2>4
  <1>7. ASSUME NEW k \in 1 .. i + 1, NEW l \in 1 .. i + 1, k < l PROVE z[k].hash < z[l].hash
    <2>1. k \in 1 .. i /\ z[k] = b[k]
      BY <1>1, <1>5, <1>7
    <2>2. CASE l = i + 1
      <3>1. z[l].hash = v.hash /\ z[k].hash = b[k].hash
        BY <1>5, <2>1, <2>2
      <3>2. b[k].hash < v.hash
        BY <1>2, <1>6, <2>1
      <3> QED
        BY <3>1, <3>2
    <2>3. CASE l # i + 1
      BY <1>1, <1>5, <1>6, <1>7, <2>1, <2>3
    <2> QED
      BY <2>2, <2>3
  <1>8. ASSUME NEW k \in 1 .. i + 1 PROVE z[k].hash <= e
    <2>1. CASE k = i + 1
      BY <1>2, <1>5, <2>1
    <2>2. CASE k # i + 1
      BY <1>1, <1>2, <1>5, <1>6, <2>2
    <2> QED
      BY <2>1, <2>2
  <1>9. ASSUME NEW k \in 1 .. i + 1, k + 1 \in 1 .. i + 1
         PROVE  /\ z[k + 1].constraint \in Constraint
                /\ Leads(z[k + 1].constraint, z[k].names, z[k + 1].names)
    <2>1. k \in 1 .. i /\ z[k] = b[k]
      BY <1>1, <1>5, <1>9
    <2>2. CASE k = i
      BY <1>5, <2>1, <2>2
    <2>3. CASE k # i
      <3>1. k + 1 \in 1 .. i
        BY <1>1, <2>1, <2>3
      <3> QED
        BY <1>5, <1>6, <2>1, <3>1
    <2> QED
      BY <2>2, <2>3
  <1>10. History(z, e)
    <2>1. z # << >>
      BY <1>1, <1>5, EmptySeq
    <2> QED
      BY <1>5, <1>7, <1>8, <1>9, <2>1 DEF History
  <1> QED
    BY <1>2, <1>5, <1>10

(* The stream since a version leads from its names to those of the last one.  *)
LEMMA StreamIsChain ==
    ASSUME NEW b \in Seq(Version), NEW d, History(b, d), NEW i \in DOMAIN b, NEW z,
           z = [k \in 1 .. Len(b) - i |-> b[i + k].constraint]
    PROVE  z \in Seq(Constraint) /\ Chain(z, b[i].names, b[Len(b)].names)
  <1>1. /\ DOMAIN b = 1 .. Len(b) /\ Len(b) \in Nat /\ i \in 1 .. Len(b)
        /\ \A k \in DOMAIN b : b[k].names \in Naming
    BY HistoryFields
  <1>2. PICK n \in Nat : n = Len(b) - i
    BY <1>1
  <1>3. ASSUME NEW k \in 1 .. n
        PROVE  /\ b[i + k].constraint \in Constraint
               /\ Leads(b[i + k].constraint, b[i + (k - 1)].names, b[i + k].names)
    <2>1. i + (k - 1) \in DOMAIN b /\ (i + (k - 1)) + 1 = i + k /\ i + k \in DOMAIN b
      BY <1>1, <1>2
    <2>2. /\ b[(i + (k - 1)) + 1].constraint \in Constraint
          /\ Leads(b[(i + (k - 1)) + 1].constraint, b[i + (k - 1)].names, b[(i + (k - 1)) + 1].names)
      BY <2>1 DEF History
    <2> QED
      BY <2>1, <2>2
  <1>4. z \in [1 .. n -> Constraint] /\ \A k \in 1 .. n : z[k] = b[i + k].constraint
    BY <1>2, <1>3
  <1>5. z \in Seq(Constraint) /\ Len(z) = n
    BY <1>4, FunctionIsSeq
  <1> DEFINE h == [k \in 0 .. n |-> b[i + k].names]
  <1>6. h \in [0 .. n -> Naming]
    <2>1. \A k \in 0 .. n : i + k \in DOMAIN b
      BY <1>1, <1>2
    <2> QED
      BY <1>1, <2>1
  <1>7. h[0] = b[i].names /\ h[n] = b[Len(b)].names
    <2>1. 0 \in 0 .. n /\ n \in 0 .. n /\ i + 0 = i /\ i + n = Len(b)
      BY <1>1, <1>2
    <2> QED
      BY <2>1
  <1>8. \A k \in 1 .. n : Leads(z[k], h[k - 1], h[k])
    <2> TAKE k \in 1 .. n
    <2>1. k - 1 \in 0 .. n /\ k \in 0 .. n
      OBVIOUS
    <2> QED
      BY <1>3, <1>4, <2>1
  <1> HIDE DEF h
  <1> QED
    BY <1>5, <1>6, <1>7, <1>8 DEF Chain

-----------------------------------------------------------------------------
(* The inductive invariant: of the types, and of what counts.                 *)
BaseInv ==
    /\ History(base, drawn)
    /\ \E i \in DOMAIN base : base[i].hash = current
    /\ tracks <= drawn
    /\ \A i \in DOMAIN base : base[i].hash = tracks => names = base[i].names

TypeInv ==
    /\ TypeOK
    /\ BaseInv
    /\ promotion.step = "idle" => promotion = Idle
    /\ Lists(promotion)

LastNames == base[Len(base)].names

SurvivalInv ==
    ~strayed =>
        /\ Holds(overrides, made, names)
        /\ promotion.step # "idle" => base[Len(base)].hash = current
        /\ Folded(promotion, made, names, LastNames)

LEMMA IdleFields ==
    /\ Idle \in Promotion /\ Idle.step = "idle" /\ Lists(Idle)
    /\ \A m, f, g : Folded(Idle, m, f, g)
  <1>1. << >> \in Seq(Constraint) /\ 1 \in Nat \ {0}
    BY EmptySeq
  <1>2. Idle \in Promotion /\ Idle.step = "idle"
    BY <1>1 DEF Idle, Promotion
  <1> QED
    BY <1>2 DEF Lists, Folded

LEMMA IndexIs ==
    ASSUME TypeInv, NEW i \in DOMAIN base
    PROVE  IndexOf(base[i].hash) = i
  <1>1. base \in Seq(Version) /\ History(base, drawn)
    BY DEF TypeInv, TypeOK, BaseInv
  <1>2. \A k, l \in DOMAIN base : base[k].hash = base[l].hash => k = l
    BY <1>1, HistoryFields
  <1>3. \E k \in DOMAIN base : base[k].hash = base[i].hash
    OBVIOUS
  <1>4. IndexOf(base[i].hash) \in DOMAIN base /\ base[IndexOf(base[i].hash)].hash = base[i].hash
    BY <1>3 DEF IndexOf
  <1> QED
    BY <1>2, <1>4

LEMMA BaseFields ==
    ASSUME TypeInv
    PROVE  /\ base \in Seq(Version) /\ History(base, drawn)
           /\ Len(base) \in Nat \ {0} /\ DOMAIN base = 1 .. Len(base)
           /\ IndexOf(current) \in DOMAIN base /\ base[IndexOf(current)].hash = current
           /\ BaseNames = base[IndexOf(current)].names /\ BaseNames \in Naming
           /\ tracks \in Nat /\ drawn \in Nat /\ drawn \in Hash
  <1>1. base \in Seq(Version) /\ History(base, drawn)
    BY DEF TypeInv, TypeOK, BaseInv
  <1>2. /\ Len(base) \in Nat \ {0} /\ DOMAIN base = 1 .. Len(base)
        /\ \A i \in DOMAIN base : base[i].names \in Naming
    BY <1>1, HistoryFields
  <1>3. PICK i \in DOMAIN base : base[i].hash = current
    BY DEF TypeInv, BaseInv
  <1>4. IndexOf(current) = i
    BY <1>3, IndexIs
  <1>5. tracks \in Nat /\ drawn \in Nat /\ drawn \in Hash
    BY BoundsAssumption DEF TypeInv, TypeOK, Hash
  <1> QED
    BY <1>1, <1>2, <1>3, <1>4, <1>5 DEF BaseNames

LEMMA InitInv == Init => TypeInv /\ SurvivalInv
  <1> SUFFICES ASSUME Init PROVE TypeInv /\ SurvivalInv
    OBVIOUS
  <1>1. PICK f \in Naming :
            base = <<[hash |-> 0, constraint |-> << >>, names |-> f]>> /\ names = f
    BY DEF Init
  <1>2. /\ current = 0 /\ drawn = 0 /\ tracks = 0 /\ overrides = << >> /\ made = << >>
        /\ strayed = FALSE /\ promotion = Idle
    BY DEF Init
  <1>3. 0 \in Hash
    BY BoundsAssumption DEF Hash
  <1>4. PICK v : v = [hash |-> 0, constraint |-> << >>, names |-> f]
    OBVIOUS
  <1>5. v \in Version /\ v.hash = 0 /\ v.names = f
    BY <1>3, <1>4 DEF Version
  <1>6. base = <<v>>
    BY <1>1, <1>4
  <1>7. base \in Seq(Version) /\ Len(base) = 1 /\ DOMAIN base = {1} /\ base[1] = v
    BY <1>5, <1>6
  <1>8. History(base, 0)
    <2>1. \A i \in DOMAIN base : i = 1 /\ base[i].hash = 0 /\ i + 1 \notin DOMAIN base
      BY <1>5, <1>7
    <2>2. base # << >>
      BY <1>7, EmptySeq
    <2> QED
      BY <2>1, <2>2 DEF History
  <1>9. TypeOK
    BY <1>1, <1>2, <1>3, <1>7, EmptySeq, IdleFields DEF TypeOK
  <1>10. BaseInv
    BY <1>1, <1>2, <1>5, <1>7, <1>8 DEF BaseInv
  <1>11. TypeInv
    BY <1>2, <1>9, <1>10, IdleFields DEF TypeInv
  <1>12. SameStanding(ByName(made, names), overrides)
    <2>1. ByName(made, names) = << >>
      BY <1>2 DEF ByName
    <2>2. Standing(<< >>) = {}
      BY DEF Standing
    <2> DEFINE g == [i \in {} |-> i]
    <2>3. g \in [{} -> {}]
      OBVIOUS
    <2> QED
      BY <1>2, <2>1, <2>2, <2>3 DEF SameStanding
  <1>13. TargetsIn(overrides, names)
    BY <1>2 DEF TargetsIn
  <1> QED
    BY <1>2, <1>11, <1>12, <1>13, IdleFields DEF SurvivalInv, Holds

(* The runs.                                                                  *)
LEMMA EditBaseInv ==
    ASSUME TypeInv, NEW c \in Constraint, NEW f \in Naming, Leads(c, BaseNames, f), EditBase(c, f)
    PROVE  TypeInv' /\ (SurvivalInv => SurvivalInv')
  <1>1. /\ promotion = Idle /\ promotion' = Idle /\ ~strayed /\ drawn < MaxBase
        /\ drawn' = drawn + 1 /\ current' = drawn + 1
        /\ base' = Append(SubSeq(base, 1, IndexOf(current)),
                          [hash |-> drawn + 1, constraint |-> c, names |-> f])
        /\ tracks' = tracks /\ overrides' = overrides /\ names' = names /\ made' = made
        /\ strayed' = strayed
    BY DEF EditBase, Ready
  <1>2. PICK b \in Seq(Version), d \in Hash : b = base /\ d = drawn
    BY BaseFields
  <1>3. PICK i \in DOMAIN b : i = IndexOf(current)
    BY <1>2, BaseFields
  <1>4. /\ History(b, d) /\ Leads(c, b[i].names, f) /\ d \in Nat /\ tracks \in Nat /\ i \in Nat
    BY <1>2, <1>3, BaseFields
  <1>5. PICK e, v, z : e = d + 1 /\ v = [hash |-> e, constraint |-> c, names |-> f] /\ z = base'
    OBVIOUS
  <1>6. /\ e \in Hash /\ z \in Seq(Version) /\ History(z, e)
        /\ Len(z) = i + 1 /\ DOMAIN z = 1 .. i + 1 /\ z[i + 1].hash = e
        /\ \A k \in 1 .. i : k \in DOMAIN b /\ z[k] = b[k]
    <2>1. e \in Hash
      BY <1>1, <1>2, <1>4, <1>5, BoundsAssumption DEF Hash
    <2>2. v \in Version /\ v.hash = e /\ v.constraint = c /\ v.names = f
      BY <1>5, <2>1 DEF Version
    <2>3. z = Append(SubSeq(b, 1, i), v)
      <3>1. z = Append(SubSeq(base, 1, IndexOf(current)),
                       [hash |-> drawn + 1, constraint |-> c, names |-> f])
        BY <1>1, <1>5
      <3>2. v = [hash |-> drawn + 1, constraint |-> c, names |-> f]
        BY <1>2, <1>5
      <3> QED
        BY <1>2, <1>3, <3>1, <3>2
    <2>4. v.constraint \in Constraint /\ Leads(v.constraint, b[i].names, v.names)
      BY <1>4, <2>2
    <2>5. /\ b \in Seq(Version) /\ d \in Hash /\ i \in DOMAIN b /\ History(b, d)
          /\ e = d + 1 /\ v \in Version /\ v.hash = e
      BY <1>4, <1>5, <2>2
    <2>6. History(z, e)
      BY <2>1, <2>3, <2>4, <2>5, HistoryGrows
    <2> QED
      BY <2>1, <2>3, <2>4, <2>5, <2>6, HistoryGrows
  <1>7. TypeOK'
    BY <1>1, <1>2, <1>5, <1>6 DEF TypeInv, TypeOK
  <1>8. \A k \in DOMAIN z : z[k].hash = tracks => names = z[k].names
    <2> SUFFICES ASSUME NEW k \in DOMAIN z, z[k].hash = tracks PROVE names = z[k].names
      OBVIOUS
    <2>1. tracks <= d
      BY <1>2 DEF TypeInv, BaseInv
    <2>2. k # i + 1
      BY <1>4, <1>5, <1>6, <2>1
    <2>3. k \in 1 .. i
      BY <1>4, <1>6, <2>2
    <2> QED
      BY <1>2, <1>6, <2>3 DEF TypeInv, BaseInv
  <1>9. BaseInv'
    <2>1. tracks <= e
      BY <1>2, <1>4, <1>5 DEF TypeInv, BaseInv
    <2>2. i + 1 \in DOMAIN z
      BY <1>4, <1>6
    <2> QED
      BY <1>1, <1>2, <1>5, <1>6, <1>8, <2>1, <2>2 DEF BaseInv
  <1>10. TypeInv'
    BY <1>1, <1>7, <1>9, IdleFields DEF TypeInv
  <1>11. SurvivalInv => SurvivalInv'
    BY <1>1, IdleFields DEF SurvivalInv
  <1> QED
    BY <1>10, <1>11

LEMMA RenameInv ==
    ASSUME TypeInv, NEW r \in Resource, NEW n \in Name, Rename(r, n)
    PROVE  TypeInv' /\ (SurvivalInv => SurvivalInv')
  <1>1. PICK f \in Naming : f = BaseNames
    BY BaseFields
  <1>2. PICK c, g : /\ c = [operator |-> "replace", target |-> f[r], replacement |-> n]
                    /\ g = [f EXCEPT ![r] = n]
    OBVIOUS
  <1>3. EditBase(c, g) /\ \A q \in Resource : f[q] # n
    BY <1>1, <1>2 DEF Rename
  <1>4. c \in Replace /\ c.target = f[r] /\ c.replacement = n
    BY <1>2 DEF Replace, Naming
  <1>5. g \in Naming
    <2>1. g \in [Resource -> Name]
      BY <1>2 DEF Naming
    <2>2. ASSUME NEW q \in Resource, NEW o \in Resource, g[q] = g[o] PROVE q = o
      BY <1>2, <1>3, <2>2 DEF Naming
    <2> QED
      BY <2>1, <2>2 DEF Naming
  <1>6. c \in Constraint /\ Leads(c, BaseNames, g)
    BY <1>1, <1>2, <1>4, Classes DEF Leads
  <1> QED
    BY <1>3, <1>5, <1>6, EditBaseInv

LEMMA ConfigureInv ==
    ASSUME TypeInv, NEW r \in Resource, NEW op \in Operator, NEW p \in Property, NEW v \in Value,
           Configure(r, op, p, v)
    PROVE  TypeInv' /\ (SurvivalInv => SurvivalInv')
  <1>1. BaseNames \in Naming
    BY BaseFields
  <1>2. PICK c : c = [operator |-> op, target |-> BaseNames[r], property |-> p, value |-> v]
    OBVIOUS
  <1>3. c \in ResourceConstraint
    BY <1>1, <1>2 DEF ResourceConstraint, Naming
  <1>4. c \in Constraint /\ Leads(c, BaseNames, BaseNames)
    BY <1>3, Classes DEF Leads
  <1>5. EditBase(c, BaseNames)
    BY <1>2 DEF Configure
  <1> QED
    BY <1>1, <1>4, <1>5, EditBaseInv

LEMMA UndoInv ==
    ASSUME TypeInv, Undo
    PROVE  TypeInv' /\ (SurvivalInv => SurvivalInv')
  <1>1. /\ promotion = Idle /\ promotion' = promotion /\ base' = base /\ drawn' = drawn
        /\ tracks' = tracks /\ overrides' = overrides /\ names' = names /\ made' = made
        /\ strayed' = strayed
    BY DEF Undo, Ready
  <1>2. PICK i \in DOMAIN base : current' = base[i].hash
    BY DEF Undo
  <1>3. current' \in Hash
    BY <1>2, BaseFields, HistoryFields
  <1>4. TypeOK'
    BY <1>1, <1>3 DEF TypeInv, TypeOK
  <1>5. BaseInv'
    BY <1>1, <1>2 DEF TypeInv, BaseInv
  <1>6. TypeInv'
    BY <1>1, <1>4, <1>5, IdleFields DEF TypeInv
  <1>7. SurvivalInv => SurvivalInv'
    BY <1>1, IdleFields DEF SurvivalInv
  <1> QED
    BY <1>6, <1>7

LEMMA OverrideHolds ==
    ASSUME NEW list \in Seq(ResourceConstraint), NEW m \in Seq(Made), NEW f \in Naming,
           Holds(list, m, f), NEW e \in Made,
           NEW c \in ResourceConstraint,
           c = [operator |-> e.operator, target |-> f[e.resource],
                property |-> e.property, value |-> e.value]
    PROVE  Holds(Append(list, c), Append(m, e), f)
  <1>1. ByName(Append(m, e), f) = Append(ByName(m, f), c)
    <2>1. PICK n \in Nat : n = Len(m) /\ DOMAIN m = 1 .. n
      BY Positions
    <2>2. PICK k : k = Append(m, e)
      OBVIOUS
    <2>3. /\ k \in Seq(Made) /\ Len(k) = n + 1 /\ k[n + 1] = e
          /\ \A i \in 1 .. n : k[i] = m[i]
      BY <2>1, <2>2, AppendProperties
    <2>4. /\ ByName(k, f) \in Seq(ResourceConstraint) /\ DOMAIN ByName(k, f) = DOMAIN k
          /\ \A i \in DOMAIN k : ByName(k, f)[i] =
                 [operator |-> k[i].operator, target |-> f[k[i].resource],
                  property |-> k[i].property, value |-> k[i].value]
      BY <2>3, ByNameIs
    <2>5. DOMAIN k = 1 .. n + 1
      BY <2>3, Positions
    <2>6. PICK y : y = ByName(m, f)
      OBVIOUS
    <2>7. /\ y \in Seq(ResourceConstraint) /\ DOMAIN y = 1 .. n
          /\ \A i \in 1 .. n : y[i] =
                 [operator |-> m[i].operator, target |-> f[m[i].resource],
                  property |-> m[i].property, value |-> m[i].value]
      BY <2>1, <2>6, ByNameIs
    <2>8. Len(y) = n
      BY <2>7, LenProperties, FunctionIsSeq
    <2>9. /\ Append(y, c) \in Seq(ResourceConstraint) /\ Len(Append(y, c)) = n + 1
          /\ Append(y, c)[n + 1] = c /\ \A i \in 1 .. n : Append(y, c)[i] = y[i]
      BY <2>7, <2>8, AppendProperties
    <2>10. Len(ByName(k, f)) = n + 1
      BY <2>4, <2>5, LenProperties
    <2>11. ASSUME NEW i \in 1 .. n + 1 PROVE ByName(k, f)[i] = Append(y, c)[i]
      <3>1. CASE i = n + 1
        BY <2>3, <2>4, <2>5, <2>9, <3>1
      <3>2. CASE i # n + 1
        <4>1. i \in 1 .. n
          BY <3>2
        <4>2. ByName(k, f)[i] =
                 [operator |-> m[i].operator, target |-> f[m[i].resource],
                  property |-> m[i].property, value |-> m[i].value]
          BY <2>3, <2>4, <2>5, <4>1
        <4>3. Append(y, c)[i] = y[i]
          BY <2>9, <4>1
        <4> QED
          BY <2>7, <4>1, <4>2, <4>3
      <3> QED
        BY <3>1, <3>2
    <2> QED
      BY <2>2, <2>4, <2>6, <2>9, <2>10, <2>11, SeqEqual
  <1>2. SameStanding(Append(ByName(m, f), c), Append(list, c))
    BY ByNameIs, AppendBoth DEF Holds
  <1>3. TargetsIn(Append(list, c), f)
    <2>1. /\ DOMAIN list = 1 .. Len(list) /\ Len(list) \in Nat
          /\ DOMAIN Append(list, c) = 1 .. Len(list) + 1
          /\ Append(list, c)[Len(list) + 1] = c
          /\ \A i \in 1 .. Len(list) : Append(list, c)[i] = list[i]
      BY LenProperties, AppendProperties
    <2>2. c.target = f[e.resource] /\ e.resource \in Resource
      BY DEF Made
    <2>3. ASSUME NEW k \in 1 .. Len(list) + 1
          PROVE  \E q \in Resource : Append(list, c)[k].target = f[q]
      <3>1. CASE k = Len(list) + 1
        BY <2>1, <2>2, <3>1
      <3>2. CASE k # Len(list) + 1
        <4>1. k \in 1 .. Len(list)
          BY <2>1, <3>2
        <4> QED
          BY <2>1, <4>1 DEF Holds, TargetsIn
      <3> QED
        BY <3>1, <3>2
    <2> QED
      BY <2>1, <2>3 DEF TargetsIn
  <1> QED
    BY <1>1, <1>2, <1>3 DEF Holds

LEMMA OverrideInv ==
    ASSUME TypeInv, NEW r \in Resource, NEW op \in Operator, NEW p \in Property, NEW v \in Value,
           Override(r, op, p, v)
    PROVE  TypeInv' /\ (SurvivalInv => SurvivalInv')
  <1>1. PICK e, c : /\ e = [operator |-> op, resource |-> r, property |-> p, value |-> v]
                    /\ c = [operator |-> op, target |-> names[r], property |-> p, value |-> v]
    OBVIOUS
  <1>2. /\ promotion = Idle /\ promotion' = promotion /\ base' = base /\ drawn' = drawn
        /\ tracks' = tracks /\ current' = current /\ names' = names /\ strayed' = strayed
        /\ overrides' = Append(overrides, c) /\ made' = Append(made, e)
    BY <1>1 DEF Override, Ready
  <1>3. /\ overrides \in Seq(ResourceConstraint) /\ made \in Seq(Made) /\ names \in Naming
    BY DEF TypeInv, TypeOK
  <1>4. /\ e \in Made /\ c \in ResourceConstraint
        /\ c = [operator |-> e.operator, target |-> names[e.resource],
                property |-> e.property, value |-> e.value]
    BY <1>1, <1>3 DEF Made, ResourceConstraint, Naming
  <1>5. Append(overrides, c) \in Seq(ResourceConstraint) /\ Append(made, e) \in Seq(Made)
    BY <1>3, <1>4, AppendProperties
  <1>6. TypeOK'
    BY <1>2, <1>5 DEF TypeInv, TypeOK
  <1>7. BaseInv'
    BY <1>2 DEF TypeInv, BaseInv
  <1>8. TypeInv'
    BY <1>2, <1>6, <1>7, IdleFields DEF TypeInv
  <1>9. ASSUME SurvivalInv PROVE SurvivalInv'
    <2> SUFFICES ASSUME ~strayed PROVE Holds(Append(overrides, c), Append(made, e), names)
      BY <1>2, IdleFields DEF SurvivalInv
    <2>1. Holds(overrides, made, names)
      BY <1>9 DEF SurvivalInv
    <2> QED
      BY <1>3, <1>4, <2>1, OverrideHolds
  <1> QED
    BY <1>8, <1>9

(* The promotion.                                                             *)
LEMMA PromoteInv ==
    ASSUME TypeInv, Promote
    PROVE  TypeInv' /\ (SurvivalInv => SurvivalInv')
  <1>1. /\ ~strayed /\ promotion' = [Idle EXCEPT !.step = "stream", !.rest = SinceTracked]
        /\ strayed' = (strayed \/ IndexOf(current) # Len(base))
        /\ base' = base /\ current' = current /\ drawn' = drawn /\ tracks' = tracks
        /\ overrides' = overrides /\ names' = names /\ made' = made
    BY DEF Promote, Ready
  <1>2. PICK i \in DOMAIN base : base[i].hash = tracks
    BY DEF Promote
  <1>3. IndexOf(tracks) = i
    BY <1>2, IndexIs
  <1>4. PICK z : z = SinceTracked
    OBVIOUS
  <1>5. z = [k \in 1 .. Len(base) - i |-> base[i + k].constraint]
    BY <1>3, <1>4 DEF SinceTracked
  <1>6. names = base[i].names
    BY <1>2 DEF TypeInv, BaseInv
  <1>7. z \in Seq(Constraint) /\ Chain(z, names, LastNames)
    <2>1. PICK b \in Seq(Version), d \in Hash : b = base /\ d = drawn
      BY BaseFields
    <2>2. History(b, d) /\ i \in DOMAIN b
      BY <2>1, BaseFields
    <2>3. z = [k \in 1 .. Len(b) - i |-> b[i + k].constraint]
      BY <1>5, <2>1
    <2>4. z \in Seq(Constraint) /\ Chain(z, b[i].names, b[Len(b)].names)
      BY <2>2, <2>3, StreamIsChain
    <2> QED
      BY <1>6, <2>1, <2>4 DEF LastNames
  <1>8. promotion' = [step |-> "stream", rest |-> z, kept |-> << >>, at |-> 1, stream |-> << >>]
    BY <1>1, <1>4 DEF Idle
  <1>9. << >> \in Seq(Constraint) /\ 1 \in Nat \ {0} /\ << >> \o z = z
    BY <1>7, EmptySeq, ConcatEmptySeq
  <1>10. promotion' \in Promotion
    BY <1>7, <1>8, <1>9 DEF Promotion
  <1>11. TypeOK'
    BY <1>1, <1>10 DEF TypeInv, TypeOK
  <1>12. BaseInv'
    BY <1>1 DEF TypeInv, BaseInv
  <1>13. TypeInv'
    BY <1>8, <1>11, <1>12 DEF TypeInv, Lists
  <1>14. ASSUME SurvivalInv PROVE SurvivalInv'
    <2> SUFFICES ASSUME strayed' = FALSE
                 PROVE  /\ Holds(overrides, made, names)
                        /\ base[Len(base)].hash = current
                        /\ Folded(promotion', made, names, LastNames)
      BY <1>1 DEF SurvivalInv, LastNames
    <2>1. Holds(overrides, made, names)
      BY <1>1, <1>14 DEF SurvivalInv
    <2>2. base[Len(base)].hash = current
      BY <1>1, BaseFields
    <2>3. Folded(promotion', made, names, LastNames)
      BY <1>7, <1>8, <1>9 DEF Folded
    <2> QED
      BY <2>1, <2>2, <2>3
  <1> QED
    BY <1>13, <1>14

(* A turn changes the promotion only.                                         *)
LEMMA TurnInv ==
    ASSUME TypeInv, promotion.step # "idle",
           UNCHANGED <<base, current, drawn, tracks, overrides, names, made, strayed>>,
           promotion' \in Promotion, promotion'.step # "idle", Lists(promotion')
    PROVE  /\ TypeInv'
           /\ SurvivalInv /\ (~strayed => Folded(promotion', made, names, LastNames)) => SurvivalInv'
  <1>1. /\ base' = base /\ current' = current /\ drawn' = drawn /\ tracks' = tracks
        /\ overrides' = overrides /\ names' = names /\ made' = made /\ strayed' = strayed
    OBVIOUS
  <1>2. TypeOK'
    BY <1>1 DEF TypeInv, TypeOK
  <1>3. BaseInv'
    BY <1>1 DEF TypeInv, BaseInv
  <1>4. TypeInv'
    BY <1>2, <1>3 DEF TypeInv
  <1>5. ASSUME SurvivalInv, ~strayed => Folded(promotion', made, names, LastNames)
        PROVE  SurvivalInv'
    BY <1>1, <1>5 DEF SurvivalInv, LastNames
  <1> QED
    BY <1>4, <1>5

LEMMA TurnFields ==
    ASSUME TypeInv
    PROVE  promotion \in Promotion /\ Lists(promotion) /\ made \in Seq(Made) /\ names \in Naming
  BY DEF TypeInv, TypeOK

LEMMA WalkInv ==
    ASSUME TypeInv, Walk
    PROVE  TypeInv' /\ (SurvivalInv => SurvivalInv')
  <1>1. PICK p, q : p = promotion /\ q = promotion'
    OBVIOUS
  <1>2. /\ p.step # "names" /\ p.step # "idle" /\ p.rest # << >> /\ p.at <= Len(p.kept)
        /\ q = [p EXCEPT !.at = @ + 1, !.kept =
                  IF CancelsOut(Head(p.rest), @[p.at]) THEN Without(@, @[p.at]) ELSE @]
        /\ UNCHANGED <<base, current, drawn, tracks, overrides, names, made, strayed>>
    BY <1>1 DEF Walk, Folds, Incoming
  <1>3. PICK m, f, g : m = made /\ f = names /\ g = LastNames
    OBVIOUS
  <1>4. p \in Promotion /\ Lists(p) /\ m \in Seq(Made) /\ f \in Naming
    BY <1>1, <1>3, TurnFields
  <1>5. q \in Promotion /\ Lists(q) /\ q.step = p.step
    <2>1. q \in Promotion /\ Lists(q)
      BY <1>2, <1>4, WalkLists
    <2>2. q.step = p.step
      BY <1>2, <1>4 DEF Promotion
    <2> QED
      BY <2>1, <2>2
  <1>6. Folded(p, m, f, g) => Folded(q, m, f, g)
    BY <1>2, <1>4, WalkFolds
  <1>7. SurvivalInv => (~strayed => Folded(promotion', made, names, LastNames))
    BY <1>1, <1>3, <1>6 DEF SurvivalInv
  <1>8. promotion.step # "idle" /\ promotion'.step # "idle"
    BY <1>1, <1>2, <1>5
  <1> QED
    BY <1>1, <1>2, <1>5, <1>7, <1>8, TurnInv

LEMMA KeepInv ==
    ASSUME TypeInv, Keep
    PROVE  TypeInv' /\ (SurvivalInv => SurvivalInv')
  <1>1. PICK p, q : p = promotion /\ q = promotion'
    OBVIOUS
  <1>2. /\ p.step # "names" /\ p.step # "idle" /\ p.rest # << >>
        /\ q = [p EXCEPT !.kept = Append(@, Head(p.rest)), !.rest = Tail(@), !.at = 1]
        /\ UNCHANGED <<base, current, drawn, tracks, overrides, names, made, strayed>>
    BY <1>1 DEF Keep, Folds, Incoming
  <1>3. PICK m, f, g : m = made /\ f = names /\ g = LastNames
    OBVIOUS
  <1>4. p \in Promotion /\ Lists(p) /\ m \in Seq(Made) /\ f \in Naming
    BY <1>1, <1>3, TurnFields
  <1>5. q \in Promotion /\ Lists(q) /\ q.step = p.step
    <2>1. q \in Promotion /\ Lists(q)
      BY <1>2, <1>4, KeepLists
    <2>2. q.step = p.step
      BY <1>2, <1>4 DEF Promotion
    <2> QED
      BY <2>1, <2>2
  <1>6. Folded(p, m, f, g) => Folded(q, m, f, g)
    BY <1>2, <1>4, KeepFolds
  <1>7. SurvivalInv => (~strayed => Folded(promotion', made, names, LastNames))
    BY <1>1, <1>3, <1>6 DEF SurvivalInv
  <1>8. promotion.step # "idle" /\ promotion'.step # "idle"
    BY <1>1, <1>2, <1>5
  <1> QED
    BY <1>1, <1>2, <1>5, <1>7, <1>8, TurnInv

LEMMA SubstituteInv ==
    ASSUME TypeInv, SubstituteNext
    PROVE  TypeInv' /\ (SurvivalInv => SurvivalInv')
  <1>1. PICK p, q : p = promotion /\ q = promotion'
    OBVIOUS
  <1>2. /\ p.step = "names" /\ p.rest # << >>
        /\ q = [p EXCEPT !.rest = Tail(@), !.kept =
                  IF Head(p.rest) \in Replace THEN Substitute(@, Head(p.rest)) ELSE @]
        /\ UNCHANGED <<base, current, drawn, tracks, overrides, names, made, strayed>>
    BY <1>1 DEF SubstituteNext, Incoming
  <1>3. PICK m, f, g : m = made /\ f = names /\ g = LastNames
    OBVIOUS
  <1>4. p \in Promotion /\ Lists(p) /\ m \in Seq(Made) /\ f \in Naming
    BY <1>1, <1>3, TurnFields
  <1>5. q \in Promotion /\ Lists(q)
    BY <1>2, <1>4, SubstituteLists
  <1>6. Folded(p, m, f, g) => Folded(q, m, f, g)
    BY <1>2, <1>4, SubstituteFolds
  <1>7. q.step = p.step
    BY <1>2, <1>4 DEF Promotion
  <1>8. SurvivalInv => (~strayed => Folded(promotion', made, names, LastNames))
    BY <1>1, <1>3, <1>6 DEF SurvivalInv
  <1>9. promotion.step # "idle" /\ promotion'.step # "idle"
    BY <1>1, <1>2, <1>7
  <1> QED
    BY <1>1, <1>2, <1>5, <1>8, <1>9, TurnInv

LEMMA StreamDoneInv ==
    ASSUME TypeInv, StreamDone
    PROVE  TypeInv' /\ (SurvivalInv => SurvivalInv')
  <1>1. PICK p, q, o : p = promotion /\ q = promotion' /\ o = overrides
    OBVIOUS
  <1>2. /\ p.step = "stream" /\ p.rest = << >>
        /\ q = [step |-> "overrides", rest |-> o, kept |-> << >>, at |-> 1, stream |-> p.kept]
        /\ UNCHANGED <<base, current, drawn, tracks, overrides, names, made, strayed>>
    BY <1>1 DEF StreamDone, Idle
  <1>3. p.kept \in Seq(Constraint) /\ o \in Seq(ResourceConstraint)
    BY <1>1, PromotionFields DEF TypeInv, TypeOK
  <1>4. << >> \in Seq(ResourceConstraint) /\ << >> \in Seq(Constraint) /\ 1 \in Nat \ {0}
    BY EmptySeq
  <1>5. o \in Seq(Constraint)
    BY <1>3, SeqMonotonic, Classes
  <1>6. q \in Promotion /\ Lists(q) /\ q.step = "overrides"
    BY <1>2, <1>3, <1>4, <1>5 DEF Promotion, Lists
  <1>7. p.kept \o p.rest = p.kept /\ << >> \o o = o
    BY <1>2, <1>3, ConcatEmptySeq
  <1>8. ASSUME SurvivalInv, ~strayed PROVE Folded(promotion', made, names, LastNames)
    <2>1. Chain(p.kept, names, LastNames) /\ Holds(o, made, names)
      BY <1>1, <1>2, <1>7, <1>8 DEF SurvivalInv, Folded
    <2>2. q.kept \o q.rest = o /\ q.stream = p.kept
      BY <1>2, <1>7
    <2> QED
      BY <1>1, <1>6, <2>1, <2>2 DEF Folded
  <1>9. promotion.step # "idle" /\ promotion'.step # "idle"
    BY <1>1, <1>2, <1>6
  <1> QED
    BY <1>1, <1>2, <1>6, <1>8, <1>9, TurnInv

LEMMA OverridesDoneInv ==
    ASSUME TypeInv, OverridesDone
    PROVE  TypeInv' /\ (SurvivalInv => SurvivalInv')
  <1>1. PICK p, q : p = promotion /\ q = promotion'
    OBVIOUS
  <1>2. /\ p.step = "overrides" /\ p.rest = << >>
        /\ q = [p EXCEPT !.step = "names", !.rest = p.stream]
        /\ UNCHANGED <<base, current, drawn, tracks, overrides, names, made, strayed>>
    BY <1>1 DEF OverridesDone
  <1>3. p \in Promotion /\ Lists(p) /\ names \in Naming
    BY <1>1, TurnFields
  <1>4. q.step = "names" /\ q.rest = p.stream /\ q.kept = p.kept
    BY <1>2, <1>3 DEF Promotion
  <1>5. q \in Promotion
    BY <1>2, <1>3 DEF Promotion
  <1>6. p.kept \in Seq(ResourceConstraint) /\ Lists(q)
    BY <1>2, <1>3, <1>4 DEF Lists
  <1>7. p.kept \o p.rest = p.kept
    BY <1>2, <1>6, ConcatEmptySeq
  <1>8. ASSUME SurvivalInv, ~strayed PROVE Folded(promotion', made, names, LastNames)
    <2>1. Chain(p.stream, names, LastNames) /\ Holds(p.kept, made, names)
      BY <1>1, <1>2, <1>7, <1>8 DEF SurvivalInv, Folded
    <2> QED
      BY <1>1, <1>3, <1>4, <2>1 DEF Folded
  <1>9. promotion.step # "idle" /\ promotion'.step # "idle"
    BY <1>1, <1>2, <1>4
  <1> QED
    BY <1>1, <1>2, <1>5, <1>6, <1>8, <1>9, TurnInv

LEMMA RefusedInv ==
    ASSUME TypeInv, Refused
    PROVE  TypeInv' /\ (SurvivalInv => SurvivalInv')
  <1>1. /\ base' = base /\ current' = current /\ drawn' = drawn /\ tracks' = tracks
        /\ overrides' = overrides /\ names' = names /\ made' = made /\ strayed' = strayed
        /\ promotion' = Idle
    BY DEF Refused
  <1>2. TypeOK'
    BY <1>1, IdleFields DEF TypeInv, TypeOK
  <1>3. BaseInv'
    BY <1>1 DEF TypeInv, BaseInv
  <1>4. TypeInv'
    BY <1>1, <1>2, <1>3, IdleFields DEF TypeInv
  <1>5. SurvivalInv => SurvivalInv'
    BY <1>1, IdleFields DEF SurvivalInv
  <1> QED
    BY <1>4, <1>5

(* Nothing is left of the stream, so the names the overrides hold what counts *)
(* by are those of the base, and these are the names from now on.             *)
LEMMA PromotedInv ==
    ASSUME TypeInv, Promoted
    PROVE  TypeInv' /\ (SurvivalInv => SurvivalInv')
  <1>1. /\ base' = base /\ current' = current /\ drawn' = drawn /\ tracks' = current
        /\ overrides' = promotion.kept /\ names' = BaseNames /\ made' = made
        /\ strayed' = strayed /\ promotion' = Idle
        /\ promotion.step = "names" /\ promotion.rest = << >>
    BY DEF Promoted
  <1>2. promotion.kept \in Seq(ResourceConstraint) /\ current \in Hash /\ BaseNames \in Naming
    BY <1>1, BaseFields DEF TypeInv, TypeOK, Lists
  <1>3. TypeOK'
    BY <1>1, <1>2, IdleFields DEF TypeInv, TypeOK
  <1>4. BaseInv'
    <2>1. current <= drawn
      BY BaseFields DEF TypeInv, BaseInv, History
    <2>2. ASSUME NEW i \in DOMAIN base, base[i].hash = current PROVE BaseNames = base[i].names
      BY <2>2, IndexIs, BaseFields
    <2> QED
      BY <1>1, <2>1, <2>2 DEF TypeInv, BaseInv
  <1>5. TypeInv'
    BY <1>1, <1>3, <1>4, IdleFields DEF TypeInv
  <1>6. ASSUME SurvivalInv PROVE SurvivalInv'
    <2> SUFFICES ASSUME ~strayed PROVE Holds(promotion.kept, made, BaseNames)
      BY <1>1, IdleFields DEF SurvivalInv
    <2>1. PICK e \in Naming : Chain(promotion.rest, e, LastNames) /\ Holds(promotion.kept, made, e)
      BY <1>1, <1>6 DEF SurvivalInv, Folded
    <2>2. PICK g : g = LastNames
      OBVIOUS
    <2>3. e = g
      BY <1>1, <2>1, <2>2, ChainEmpty
    <2>4. base[Len(base)].hash = current
      BY <1>1, <1>6 DEF SurvivalInv
    <2>5. IndexOf(current) = Len(base)
      BY <2>4, BaseFields, IndexIs
    <2>6. BaseNames = LastNames
      BY <2>5 DEF BaseNames, LastNames
    <2> QED
      BY <2>1, <2>2, <2>3, <2>6
  <1> QED
    BY <1>5, <1>6

LEMMA NextInv == TypeInv /\ [Next]_vars => TypeInv' /\ (SurvivalInv => SurvivalInv')
  <1> SUFFICES ASSUME TypeInv, [Next]_vars PROVE TypeInv' /\ (SurvivalInv => SurvivalInv')
    OBVIOUS
  <1>1. ASSUME UNCHANGED vars PROVE TypeInv' /\ (SurvivalInv => SurvivalInv')
    <2>1. /\ base' = base /\ current' = current /\ drawn' = drawn /\ tracks' = tracks
          /\ overrides' = overrides /\ names' = names /\ made' = made /\ strayed' = strayed
          /\ promotion' = promotion
      BY <1>1 DEF vars
    <2>2. TypeOK'
      BY <2>1 DEF TypeInv, TypeOK
    <2>3. BaseInv'
      BY <2>1 DEF TypeInv, BaseInv
    <2>4. TypeInv'
      BY <2>1, <2>2, <2>3 DEF TypeInv
    <2>5. SurvivalInv => SurvivalInv'
      BY <2>1 DEF SurvivalInv, LastNames
    <2> QED
      BY <2>4, <2>5
  <1>2. CASE Over
    BY <1>1, <1>2 DEF Over
  <1>3. CASE \E r \in Resource, n \in Name : Rename(r, n)
    BY <1>3, RenameInv
  <1>4. CASE \E r \in Resource, op \in Operator, p \in Property, v \in Value : Configure(r, op, p, v)
    BY <1>4, ConfigureInv
  <1>5. CASE \E r \in Resource, op \in Operator, p \in Property, v \in Value : Override(r, op, p, v)
    BY <1>5, OverrideInv
  <1>6. CASE Undo
    BY <1>6, UndoInv
  <1>7. CASE Promote
    BY <1>7, PromoteInv
  <1>8. CASE Walk
    BY <1>8, WalkInv
  <1>9. CASE Keep
    BY <1>9, KeepInv
  <1>10. CASE StreamDone
    BY <1>10, StreamDoneInv
  <1>11. CASE OverridesDone
    BY <1>11, OverridesDoneInv
  <1>12. CASE SubstituteNext
    BY <1>12, SubstituteInv
  <1>13. CASE Promoted
    BY <1>13, PromotedInv
  <1>14. CASE Refused
    BY <1>14, RefusedInv
  <1> QED
    BY <1>1, <1>2, <1>3, <1>4, <1>5, <1>6, <1>7, <1>8, <1>9, <1>10, <1>11, <1>12, <1>13, <1>14
       DEF Next

LEMMA InvHolds == Spec => [](TypeInv /\ SurvivalInv)
  <1>1. Init => TypeInv /\ SurvivalInv
    BY InitInv
  <1>2. TypeInv /\ SurvivalInv /\ [Next]_vars => TypeInv' /\ SurvivalInv'
    BY NextInv
  <1> QED
    BY <1>1, <1>2, PTL DEF Spec

(* The variables keep their types; in particular the constraints that replace *)
(* the overrides of an environment (EnvironmentManager.promote) are resource  *)
(* constraints, whatever the stream of the base was.                          *)
THEOREM TypeCorrect == Spec => []TypeOK
  <1>1. TypeInv => TypeOK
    BY DEF TypeInv
  <1> QED
    BY <1>1, InvHolds, PTL

(* Promotion preserves what was overridden: what counts of all that was ever  *)
(* made in the environment counts in its overrides now, in its order and by   *)
(* the present names, although the loops of promote take elements out of the  *)
(* list they walk over, and whatever the base renamed.                        *)
THEOREM OverridesAlwaysSurvive == Spec => []OverridesSurvive
  <1>1. SurvivalInv => OverridesSurvive
    <2> SUFFICES ASSUME SurvivalInv, ~strayed PROVE SameStanding(Under(names), overrides)
      BY DEF OverridesSurvive
    <2>1. SameStanding(ByName(made, names), overrides)
      BY DEF SurvivalInv, Holds
    <2>2. Under(names) = ByName(made, names)
      BY DEF Under, ByName
    <2> QED
      BY <2>1, <2>2
  <1> QED
    BY <1>1, InvHolds, PTL
=============================================================================
