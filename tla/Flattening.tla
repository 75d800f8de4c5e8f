------------------------------- MODULE Flattening -------------------------------
(***************************************************************************)
(* Facts about FlattenSeq, which joins sequences: what a path's text, an   *)
(* option's list and the messages on their way are made with.  Its         *)
(* definition is recursive: the facts are proved by the least              *)
(* counterexample.                                                         *)
(***************************************************************************)
EXTENDS Integers, SequencesExt, SequenceTheorems, WellFoundedInduction, TLAPS

-----------------------------------------------------------------------------
(* Induction over the numbers, as the least counterexample.                *)

Less == {ss \in Nat \X Nat : ss[1] < ss[2]}

LEMMA LeastNat ==
    ASSUME NEW T, T \subseteq Nat, T # {}
    PROVE  \E n \in T : \A m \in T : n <= m
  <1>1. IsWellFoundedOn(Less, Nat)
    BY NatLessThanWellFounded, Zenon DEF OpToRel, Less
  <1>2. IsWellFoundedOn(Less, Nat) => \E n \in T : \A m \in T : ~(<<m, n>> \in Less)
    BY WFMin
  <1>3. \A n, m \in T : ~(<<m, n>> \in Less) => n <= m
    BY DEF Less
  <1> QED
    BY <1>1, <1>2, <1>3

-----------------------------------------------------------------------------
(* What FlattenSeq builds.                                                 *)

\* f holds what the first parts of s make together.
Rec(s, n, f) ==
    f = [i \in 1..n |-> IF i = 1 THEN s[i] ELSE f[i - 1] \o s[i]]

LEMMA RecExists == ASSUME NEW s, NEW n \in Nat PROVE \E f : Rec(s, n, f)
  <1> DEFINE Bad == {m \in Nat : ~\E f : Rec(s, m, f)}
  <1>1. ASSUME Bad # {} PROVE FALSE
    <2>1. PICK m \in Bad : \A k \in Bad : m <= k
      BY <1>1, LeastNat
    <2>2. CASE m = 0
      <3> DEFINE f == [i \in 1..0 |-> s[i]]
      <3>1. 1..0 = {}
        OBVIOUS
      <3>2. f = [i \in 1..0 |-> IF i = 1 THEN s[i] ELSE f[i - 1] \o s[i]]
        BY <3>1
      <3>3. Rec(s, 0, f)
        BY <3>2 DEF Rec
      <3> QED
        BY <2>2, <3>3
    <2>3. CASE m # 0
      <3>1. m - 1 \in Nat /\ m - 1 \notin Bad /\ m \in Nat
        BY <2>1, <2>3
      <3>2. PICK f : Rec(s, m - 1, f)
        BY <3>1
      <3> DEFINE g == [i \in 1..m |-> IF i < m THEN f[i]
                                     ELSE IF m = 1 THEN s[m] ELSE f[m - 1] \o s[m]]
      <3>3. ASSUME NEW i \in 1..m
            PROVE  g[i] = IF i = 1 THEN s[i] ELSE g[i - 1] \o s[i]
        <4>1. CASE i = m
          BY <3>1, <4>1
        <4>2. CASE i < m
          <5>1. i \in 1..m - 1
            BY <3>1, <4>2
          <5>2. f[i] = IF i = 1 THEN s[i] ELSE f[i - 1] \o s[i]
            BY <3>2, <5>1 DEF Rec
          <5>3. i # 1 => i - 1 \in 1..m /\ i - 1 < m
            BY <3>1, <4>2
          <5> QED
            BY <4>2, <5>2, <5>3
        <4> QED
          BY <3>1, <4>1, <4>2
      <3>4. g = [i \in 1..m |-> IF i = 1 THEN s[i] ELSE g[i - 1] \o s[i]]
        <4>1. g = [i \in 1..m |-> g[i]]
          OBVIOUS
        <4> HIDE DEF g
        <4> QED
          BY <3>3, <4>1
      <3>5. Rec(s, m, g)
        BY <3>4 DEF Rec
      <3> QED
        BY <2>1, <3>5
    <2> QED
      BY <2>2, <2>3
  <1> QED
    BY <1>1

\* The parts are sequences of S; f[i] is what the first i of them make.
Parts(S, s, n) == n \in Nat /\ \A i \in 1..n : s[i] \in Seq(S)
Made(S, s, n, f) ==
    /\ Parts(S, s, n)
    /\ \A i \in 1..n : f[i] = IF i = 1 THEN s[i] ELSE f[i - 1] \o s[i]
Wholes(S, n, f) == \A i \in 1..n : f[i] \in Seq(S)

\* Each part begins where the ones before it end.
Joined(s, n, f) ==
    \A i \in 2..n :
      /\ Len(f[i]) = Len(f[i - 1]) + Len(s[i])
      /\ \A j \in 1..Len(f[i - 1]) : f[i][j] = f[i - 1][j]
      /\ \A j \in 1..Len(s[i]) : f[i][Len(f[i - 1]) + j] = s[i][j]

\* What is made of the first parts stays as others are added.
Stays(n, f, i) ==
    \A m \in i..n : /\ Len(f[i]) <= Len(f[m])
                    /\ \A j \in 1..Len(f[i]) : f[m][j] = f[i][j]

LEMMA RecMade ==
    ASSUME NEW S, NEW s, NEW n, NEW f, Parts(S, s, n), Rec(s, n, f)
    PROVE  Made(S, s, n, f)
  BY DEF Rec, Made, Parts

LEMMA MadeWholes ==
    ASSUME NEW S, NEW s, NEW n, NEW f, Made(S, s, n, f)
    PROVE  Wholes(S, n, f)
  <1> DEFINE Bad == {i \in 1..n : f[i] \notin Seq(S)}
  <1>0. n \in Nat
    BY DEF Made, Parts
  <1>1. ASSUME Bad # {} PROVE FALSE
    <2>1. PICK i \in Bad : \A k \in Bad : i <= k
      <3>1. Bad \subseteq Nat
        BY <1>0
      <3> HIDE DEF Bad
      <3> QED
        BY <1>1, <3>1, LeastNat
    <2>2. i \in 1..n /\ f[i] \notin Seq(S)
      BY <2>1
    <2>3. f[i] = (IF i = 1 THEN s[i] ELSE f[i - 1] \o s[i]) /\ s[i] \in Seq(S)
      BY <2>2 DEF Made, Parts
    <2>4. i # 1
      BY <2>2, <2>3
    <2>5. i - 1 \in 1..n /\ i - 1 \notin Bad
      BY <1>0, <2>1, <2>2, <2>4
    <2>6. f[i - 1] \in Seq(S)
      BY <2>5
    <2> QED
      BY <2>2, <2>3, <2>4, <2>6, ConcatProperties
  <1> QED
    BY <1>1 DEF Wholes

LEMMA MadeJoined ==
    ASSUME NEW S, NEW s, NEW n, NEW f, Made(S, s, n, f)
    PROVE  Joined(s, n, f)
  <1> SUFFICES ASSUME NEW i \in 2..n
               PROVE  /\ Len(f[i]) = Len(f[i - 1]) + Len(s[i])
                      /\ \A j \in 1..Len(f[i - 1]) : f[i][j] = f[i - 1][j]
                      /\ \A j \in 1..Len(s[i]) : f[i][Len(f[i - 1]) + j] = s[i][j]
    BY DEF Joined
  <1>0. n \in Nat
    BY DEF Made, Parts
  <1>1. i \in 1..n /\ i - 1 \in 1..n /\ i # 1
    BY <1>0
  <1>2. \A k \in 1..n : f[k] \in Seq(S)
    BY MadeWholes DEF Wholes
  <1>3. f[i] = f[i - 1] \o s[i] /\ s[i] \in Seq(S)
    BY <1>1 DEF Made, Parts
  <1>4. \A u, v \in Seq(S) :
          /\ Len(u \o v) = Len(u) + Len(v)
          /\ \A j \in 1..Len(u) : (u \o v)[j] = u[j]
          /\ \A j \in 1..Len(v) : (u \o v)[Len(u) + j] = v[j]
    BY ConcatProperties
  <1> DEFINE u == f[i - 1]
             v == s[i]
             w == f[i]
  <1>5. u \in Seq(S) /\ v \in Seq(S) /\ w = u \o v
    BY <1>1, <1>2, <1>3
  <1> HIDE DEF u, v, w
  <1>6. /\ Len(w) = Len(u) + Len(v)
        /\ \A j \in 1..Len(u) : w[j] = u[j]
        /\ \A j \in 1..Len(v) : w[Len(u) + j] = v[j]
    BY <1>4, <1>5
  <1> QED
    BY <1>6 DEF u, v, w

LEMMA MadeLengths ==
    ASSUME NEW S, NEW s, NEW n, NEW f, Made(S, s, n, f)
    PROVE  n \in Nat /\ \A m \in 1..n : Len(f[m]) \in Nat /\ Len(s[m]) \in Nat
  <1>1. \A m \in 1..n : f[m] \in Seq(S)
    BY MadeWholes DEF Wholes
  <1> QED
    BY <1>1, LenProperties DEF Made, Parts

LEMMA MadeStays ==
    ASSUME NEW S, NEW s, NEW n, NEW f, Made(S, s, n, f), NEW i \in 1..n
    PROVE  Stays(n, f, i)
  <1> DEFINE Kept(m) == /\ Len(f[i]) <= Len(f[m])
                        /\ \A j \in 1..Len(f[i]) : f[m][j] = f[i][j]
             Bad == {m \in i..n : ~Kept(m)}
  <1>1. n \in Nat /\ \A m \in 1..n : Len(f[m]) \in Nat /\ Len(s[m]) \in Nat
    BY MadeLengths
  <1>2. ASSUME Bad # {} PROVE FALSE
    <2>1. PICK m \in Bad : \A k \in Bad : m <= k
      <3>1. Bad \subseteq Nat
        BY <1>1
      <3> HIDE DEF Bad
      <3> QED
        BY <1>2, <3>1, LeastNat
    <2>2. m \in i..n /\ ~Kept(m)
      BY <2>1
    <2>3. m # i
      BY <1>1, <2>2
    <2>4. m \in 2..n /\ m \in 1..n /\ m - 1 \in i..n /\ m - 1 \in 1..n /\ m - 1 \notin Bad
      BY <1>1, <2>1, <2>2, <2>3
    <2>5. Kept(m - 1)
      BY <2>4
    <2>6. /\ Len(f[m]) = Len(f[m - 1]) + Len(s[m])
          /\ \A j \in 1..Len(f[m - 1]) : f[m][j] = f[m - 1][j]
      <3>1. Joined(s, n, f)
        BY MadeJoined
      <3> QED
        BY <2>4, <3>1 DEF Joined
    <2> DEFINE a == Len(f[i])
               b == Len(f[m - 1])
               c == Len(f[m])
               d == Len(s[m])
    <2>7. a \in Nat /\ b \in Nat /\ c \in Nat /\ d \in Nat /\ a <= b /\ c = b + d
      BY <1>1, <2>4, <2>5, <2>6
    <2> HIDE DEF a, b, c, d
    <2>8. a <= c /\ \A j \in 1..a : j \in 1..b
      BY <2>7
    <2>9. ASSUME NEW j \in 1..a PROVE f[m][j] = f[i][j]
      BY <2>5, <2>6, <2>8 DEF a, b
    <2> QED
      BY <2>2, <2>8, <2>9 DEF a, c
  <1> QED
    BY <1>2 DEF Stays

LEMMA FlattenBuilds ==
    ASSUME NEW S, NEW s \in Seq(Seq(S)), s # <<>>
    PROVE  \E f : Rec(s, Len(s), f) /\ FlattenSeq(s) = f[Len(s)]
  <1> DEFINE flat == CHOOSE f : Rec(s, Len(s), f)
  <1>1. Len(s) \in Nat /\ Len(s) # 0
    OBVIOUS
  <1>2. Rec(s, Len(s), flat)
    BY <1>1, RecExists
  <1>3. FlattenSeq(s) = flat[Len(s)]
    BY <1>1 DEF FlattenSeq, Rec
  <1> QED
    BY <1>2, <1>3

-----------------------------------------------------------------------------
(* FlattenSeq at the ends of a sequence.                                   *)

LEMMA FlattenEmpty == FlattenSeq(<<>>) = <<>>
  BY DEF FlattenSeq

LEMMA FlattenType ==
    ASSUME NEW S, NEW s \in Seq(Seq(S))
    PROVE  FlattenSeq(s) \in Seq(S)
  <1>1. CASE s = <<>>
    <2>1. FlattenSeq(s) = <<>> /\ <<>> \in Seq(S)
      BY <1>1, FlattenEmpty, EmptySeq
    <2> QED
      BY <2>1
  <1>2. ASSUME s # <<>> PROVE FlattenSeq(s) \in Seq(S)
    <2>1. Len(s) \in Nat \ {0} /\ Parts(S, s, Len(s))
      BY <1>2 DEF Parts
    <2>2. PICK f : Rec(s, Len(s), f) /\ FlattenSeq(s) = f[Len(s)]
      BY <1>2, FlattenBuilds
    <2>3. Made(S, s, Len(s), f)
      BY <2>1, <2>2, RecMade
    <2>4. Wholes(S, Len(s), f)
      BY <2>3, MadeWholes
    <2> QED
      BY <2>1, <2>2, <2>4 DEF Wholes
  <1> QED
    BY <1>1, <1>2

\* What the first parts make does not depend on the others.
LEMMA MadeAgree ==
    ASSUME NEW S, NEW s, NEW n, NEW f, Made(S, s, n, f),
           NEW t, NEW m, NEW g, Made(S, t, m, g),
           n <= m, \A i \in 1..n : s[i] = t[i]
    PROVE  \A i \in 1..n : f[i] = g[i]
  <1> DEFINE Bad == {i \in 1..n : f[i] # g[i]}
  <1>0. n \in Nat /\ m \in Nat
    BY DEF Made, Parts
  <1>1. ASSUME Bad # {} PROVE FALSE
    <2>1. PICK i \in Bad : \A k \in Bad : i <= k
      <3>1. Bad \subseteq Nat
        BY <1>0
      <3> HIDE DEF Bad
      <3> QED
        BY <1>1, <3>1, LeastNat
    <2>2. i \in 1..n /\ i \in 1..m /\ f[i] # g[i]
      BY <1>0, <2>1
    <2>3. f[i] = IF i = 1 THEN s[i] ELSE f[i - 1] \o s[i]
      BY <2>2 DEF Made
    <2>4. g[i] = IF i = 1 THEN t[i] ELSE g[i - 1] \o t[i]
      BY <2>2 DEF Made
    <2>5. i # 1
      BY <2>2, <2>3, <2>4
    <2>6. i - 1 \in 1..n /\ i - 1 \notin Bad
      BY <1>0, <2>1, <2>2, <2>5
    <2>7. f[i - 1] = g[i - 1]
      BY <2>6
    <2> QED
      BY <2>2, <2>3, <2>4, <2>5, <2>7
  <1> QED
    BY <1>1

LEMMA FlattenAppend ==
    ASSUME NEW S, NEW s \in Seq(Seq(S)), NEW x \in Seq(S)
    PROVE  FlattenSeq(Append(s, x)) = FlattenSeq(s) \o x
  <1> DEFINE n == Len(s)
             t == Append(s, x)
  <1>1. /\ n \in Nat /\ t \in Seq(Seq(S)) /\ t # <<>> /\ Len(t) = n + 1
        /\ \A i \in 1..n : t[i] = s[i]
        /\ t[n + 1] = x
    BY AppendProperties
  <1>2. s \in Seq(Seq(S)) /\ DOMAIN s = 1..n /\ \A i \in 1..n : s[i] \in Seq(S)
    OBVIOUS
  <1>3. s # <<>> => n # 0
    OBVIOUS
  <1>4. s = <<>> => n = 0
    OBVIOUS
  <1> HIDE DEF n, t
  <1>5. PICK g : Rec(t, Len(t), g) /\ FlattenSeq(t) = g[Len(t)]
    BY <1>1, FlattenBuilds
  <1>6. Parts(S, t, n + 1)
    <2>1. \A i \in 1..n + 1 : t[i] \in Seq(S)
      BY <1>1
    <2> QED
      BY <1>1, <2>1 DEF Parts
  <1>7. Made(S, t, n + 1, g)
    BY <1>1, <1>5, <1>6, RecMade
  <1>8. FlattenSeq(t) = g[n + 1]
    BY <1>1, <1>5
  <1>9. CASE s = <<>>
    <2>1. n + 1 = 1 /\ 1 \in 1..n + 1
      BY <1>4, <1>9
    <2>2. g[1] = t[1] /\ t[1] = x
      BY <1>1, <1>7, <2>1 DEF Made
    <2>3. <<>> \o x = x
      BY ConcatEmptySeq
    <2> QED
      BY <1>8, <1>9, <2>1, <2>2, <2>3, FlattenEmpty DEF t
  <1>10. ASSUME s # <<>> PROVE FlattenSeq(t) = FlattenSeq(s) \o x
    <2>1. n \in 1..n /\ n + 1 \in 1..n + 1 /\ n + 1 # 1 /\ n <= n + 1
      BY <1>1, <1>3, <1>10
    <2>2. PICK f : Rec(s, n, f) /\ FlattenSeq(s) = f[n]
      BY <1>10, FlattenBuilds DEF n
    <2>3. Made(S, s, n, f)
      <3>1. Parts(S, s, n)
        BY <1>1, <1>2 DEF Parts
      <3> QED
        BY <2>2, <3>1, RecMade
    <2>4. \A i \in 1..n : s[i] = t[i]
      BY <1>1
    <2>5. \A i \in 1..n : f[i] = g[i]
      <3> DEFINE m == n + 1
      <3>1. Made(S, t, m, g) /\ n <= m
        BY <1>7, <2>1
      <3> HIDE DEF m
      <3> QED
        BY <2>3, <2>4, <3>1, MadeAgree
    <2>6. g[n + 1] = g[n] \o t[n + 1]
      <3>1. \A k \in 1..n + 1 : g[k] = IF k = 1 THEN t[k] ELSE g[k - 1] \o t[k]
        BY <1>7 DEF Made
      <3> DEFINE k == n + 1
      <3>2. k \in 1..n + 1 /\ k # 1 /\ k - 1 = n
        BY <1>1, <2>1
      <3> HIDE DEF k
      <3>3. g[k] = g[k - 1] \o t[k]
        BY <3>1, <3>2
      <3> QED
        BY <3>2, <3>3 DEF k
    <2> QED
      BY <1>1, <1>8, <2>1, <2>2, <2>5, <2>6
  <1> QED
    BY <1>9, <1>10 DEF t

\* How joined sequences are regrouped.
LEMMA Regroup ==
    ASSUME NEW S
    PROVE  /\ \A a, b, c \in Seq(S) : (a \o b) \o c = a \o (b \o c)
           /\ \A a, b \in Seq(S) : a \o b \in Seq(S)
           /\ \A a \in Seq(S) : a \o <<>> = a /\ <<>> \o a = a
  <1>1. ASSUME NEW a \in Seq(S), NEW b \in Seq(S), NEW c \in Seq(S)
        PROVE  (a \o b) \o c = a \o (b \o c)
    BY ConcatAssociative, SMTT(60)
  <1>2. ASSUME NEW a \in Seq(S), NEW b \in Seq(S) PROVE a \o b \in Seq(S)
    BY ConcatProperties
  <1>3. ASSUME NEW a \in Seq(S) PROVE a \o <<>> = a /\ <<>> \o a = a
    BY ConcatEmptySeq
  <1> QED
    BY <1>1, <1>2, <1>3

LEMMA FlattenHead ==
    ASSUME NEW S, NEW s \in Seq(Seq(S)), s # <<>>
    PROVE  FlattenSeq(s) = Head(s) \o FlattenSeq(Tail(s))
  <1> DEFINE n == Len(s)
             t == Tail(s)
             h == Head(s)
  <1>1. /\ n \in Nat \ {0} /\ t \in Seq(Seq(S)) /\ Len(t) = n - 1
        /\ \A i \in 1..n - 1 : t[i] = s[i + 1]
        /\ h = s[1] /\ h \in Seq(S)
    BY HeadTailProperties
  <1>2. \A i \in 1..n : s[i] \in Seq(S)
    BY ElementOfSeq
  <1>0. ASSUME NEW a \in Seq(S), NEW b \in Seq(S), NEW c \in Seq(S)
        PROVE  (a \o b) \o c = a \o (b \o c)
    BY Regroup, SMTT(60)
  <1>3. t = <<>> <=> n = 1
    <2>1. t = <<>> => n - 1 = 0
      BY <1>1, EmptySeq
    <2>2. t # <<>> => n - 1 # 0
      BY <1>1, EmptySeq
    <2> QED
      BY <1>1, <2>1, <2>2, SMTT(30)
  <1> HIDE DEF n, t, h
  <1>4. PICK f : Rec(s, n, f) /\ FlattenSeq(s) = f[n]
    BY FlattenBuilds DEF n
  <1>5. Made(S, s, n, f)
    <2>1. Parts(S, s, n)
      BY <1>1, <1>2 DEF Parts
    <2> QED
      BY <1>4, <2>1, RecMade
  <1>6. CASE n = 1
    <2>1. f[1] = s[1]
      BY <1>5, <1>6 DEF Made
    <2>2. h \o <<>> = h
      BY <1>1, ConcatEmptySeq
    <2> QED
      BY <1>1, <1>3, <1>4, <1>6, <2>1, <2>2, FlattenEmpty DEF t, h
  <1>7. ASSUME n # 1 PROVE FlattenSeq(s) = h \o FlattenSeq(t)
    <2>1. n - 1 \in Nat \ {0}
      BY <1>1, <1>7
    <2>2. PICK g : Rec(t, n - 1, g) /\ FlattenSeq(t) = g[n - 1]
      <3>1. t # <<>>
        BY <1>3, <1>7
      <3>2. \E g : Rec(t, Len(t), g) /\ FlattenSeq(t) = g[Len(t)]
        BY <1>1, <3>1, FlattenBuilds
      <3> QED
        BY <1>1, <3>2
    <2>3. Made(S, t, n - 1, g)
      <3>1. \A i \in 1..n - 1 : t[i] \in Seq(S)
        BY <1>1, <1>2
      <3>2. Parts(S, t, n - 1)
        BY <2>1, <3>1 DEF Parts
      <3> QED
        BY <2>2, <3>2, RecMade
    <2>4. \A i \in 1..n - 1 : g[i] \in Seq(S)
      BY <2>3, MadeWholes DEF Wholes
    <2> DEFINE Bad == {i \in 1..n - 1 : f[i + 1] # h \o g[i]}
    <2>5. ASSUME Bad # {} PROVE FALSE
      <3>1. PICK i \in Bad : \A k \in Bad : i <= k
        <4>1. Bad \subseteq Nat
          BY <2>1
        <4> HIDE DEF Bad
        <4> QED
          BY <2>5, <4>1, LeastNat
      <3>2. /\ i \in 1..n - 1 /\ i \in Nat /\ f[i + 1] # h \o g[i]
            /\ i + 1 \in 1..n /\ i + 1 # 1 /\ i + 1 - 1 = i
        <4>1. i \in 1..n - 1 /\ f[i + 1] # h \o g[i]
          BY <3>1
        <4>2. \A k \in 1..n - 1 : /\ k \in Nat /\ k + 1 \in 1..n /\ k + 1 # 1
                                  /\ k + 1 - 1 = k
          BY <1>1
        <4> QED
          BY <4>1, <4>2
      <3>3. f[i + 1] = f[i] \o t[i]
        <4>1. \A k \in 1..n : f[k] = IF k = 1 THEN s[k] ELSE f[k - 1] \o s[k]
          BY <1>5 DEF Made
        <4>2. f[i + 1] = f[i] \o s[i + 1]
          <5> DEFINE k == i + 1
          <5>1. k \in 1..n /\ k # 1 /\ k - 1 = i
            BY <3>2
          <5> HIDE DEF k
          <5>2. f[k] = f[k - 1] \o s[k]
            BY <4>1, <5>1
          <5> QED
            BY <5>1, <5>2 DEF k
        <4> QED
          BY <1>1, <3>2, <4>2
      <3>4. g[i] = IF i = 1 THEN t[i] ELSE g[i - 1] \o t[i]
        BY <2>3, <3>2 DEF Made
      <3>5. CASE i = 1
        <4>1. f[1] = s[1]
          BY <1>1, <1>5 DEF Made
        <4> QED
          BY <1>1, <3>2, <3>3, <3>4, <3>5, <4>1
      <3>6. CASE i # 1
        <4>1. i - 1 \in 1..n - 1 /\ i - 1 \notin Bad /\ i - 1 + 1 = i
          <5>1. i - 1 \in 1..n - 1 /\ i - 1 + 1 = i /\ ~(i <= i - 1)
            BY <1>1, <3>2, <3>6
          <5> QED
            BY <3>1, <5>1
        <4>2. f[i] = h \o g[i - 1]
          BY <4>1
        <4>3. h \in Seq(S) /\ g[i - 1] \in Seq(S) /\ t[i] \in Seq(S)
          <5>1. t[i] = s[i + 1]
            BY <1>1, <3>2
          <5>2. s[i + 1] \in Seq(S)
            BY <1>2, <3>2
          <5> QED
            BY <1>1, <2>4, <4>1, <5>1, <5>2
        <4>4. (h \o g[i - 1]) \o t[i] = h \o (g[i - 1] \o t[i])
          BY <1>0, <4>3
        <4> QED
          BY <3>2, <3>3, <3>4, <3>6, <4>2, <4>4
      <3> QED
        BY <3>5, <3>6
    <2>6. n - 1 \in 1..n - 1 /\ n - 1 + 1 = n
      BY <1>1, <2>1
    <2>7. f[n - 1 + 1] = h \o g[n - 1]
      BY <2>5, <2>6
    <2> QED
      BY <1>4, <2>2, <2>6, <2>7
  <1> QED
    BY <1>6, <1>7 DEF t, h

-----------------------------------------------------------------------------
(* What is read out of a sequence, element by element.                     *)

\* Each element of s gives a sequence: F's, and these one after the other.
Of(F, s)   == [i \in DOMAIN s |-> F[s[i]]]
Each(F, s) == FlattenSeq(Of(F, s))

LEMMA EachEmpty == ASSUME NEW F PROVE Each(F, <<>>) = <<>>
  <1>1. [i \in DOMAIN <<>> |-> F[<<>>[i]]] = <<>>
    OBVIOUS
  <1> QED
    BY <1>1, FlattenEmpty DEF Each, Of

Gives(S, F, s) ==
    /\ Of(F, s) \in Seq(Seq(S)) /\ Len(Of(F, s)) = Len(s)
    /\ \A i \in 1..Len(s) : Of(F, s)[i] = F[s[i]]

LEMMA OfSeq ==
    ASSUME NEW E, NEW S, NEW F \in [E -> Seq(S)], NEW s \in Seq(E)
    PROVE  Gives(S, F, s)
  <1> DEFINE n == Len(s)
             of == [i \in 1..n |-> F[s[i]]]
  <1>1. n \in Nat /\ DOMAIN s = 1..n /\ \A i \in 1..n : s[i] \in E
    OBVIOUS
  <1>2. \A i \in 1..n : F[s[i]] \in Seq(S)
    BY <1>1
  <1> HIDE DEF n
  <1>3. of \in [1..n -> Seq(S)]
    BY <1>2
  <1>4. of \in Seq(Seq(S)) /\ Len(of) = n
    BY <1>1, <1>3
  <1>5. Of(F, s) = of
    BY <1>1 DEF Of
  <1>6. \A i \in 1..n : of[i] = F[s[i]]
    OBVIOUS
  <1> HIDE DEF of
  <1> QED
    BY <1>4, <1>5, <1>6 DEF n, Gives

LEMMA EachType ==
    ASSUME NEW E, NEW S, NEW F \in [E -> Seq(S)], NEW s \in Seq(E)
    PROVE  Each(F, s) \in Seq(S)
  <1>1. Gives(S, F, s)
    BY OfSeq
  <1> QED
    BY <1>1, FlattenType DEF Each, Gives

LEMMA EachAppend ==
    ASSUME NEW E, NEW S, NEW F \in [E -> Seq(S)], NEW s \in Seq(E), NEW e \in E
    PROVE  Each(F, Append(s, e)) = Each(F, s) \o F[e]
  <1> DEFINE n == Len(s)
             t == Append(s, e)
             u == Append(Of(F, s), F[e])
  <1>1. /\ Of(F, s) \in Seq(Seq(S)) /\ Len(Of(F, s)) = n
        /\ \A i \in 1..n : Of(F, s)[i] = F[s[i]]
    <2>1. Gives(S, F, s)
      BY OfSeq
    <2> QED
      BY <2>1 DEF Gives
  <1>2. /\ n \in Nat /\ t \in Seq(E) /\ Len(t) = n + 1
        /\ \A i \in 1..n : t[i] = s[i]
        /\ t[n + 1] = e
    BY AppendProperties
  <1>3. F[e] \in Seq(S)
    OBVIOUS
  <1>4. /\ u \in Seq(Seq(S)) /\ Len(u) = n + 1
        /\ \A i \in 1..n : u[i] = F[s[i]]
        /\ u[n + 1] = F[e]
    BY <1>1, <1>3, AppendProperties
  <1> HIDE DEF n, t, u
  <1>5. /\ Of(F, t) \in Seq(Seq(S)) /\ Len(Of(F, t)) = n + 1
        /\ \A i \in 1..n + 1 : Of(F, t)[i] = F[t[i]]
    <2>1. Gives(S, F, t)
      BY <1>2, OfSeq
    <2> QED
      BY <1>2, <2>1 DEF Gives
  <1>6. ASSUME NEW i \in 1..n + 1 PROVE Of(F, t)[i] = u[i]
    <2>1. i = n + 1 \/ i \in 1..n
      BY <1>2
    <2>2. Of(F, t)[i] = F[t[i]]
      BY <1>5
    <2> QED
      BY <1>2, <1>4, <2>1, <2>2
  <1>7. Of(F, t) = u
    BY <1>4, <1>5, <1>6, SeqEqual
  <1>8. FlattenSeq(u) = FlattenSeq(Of(F, s)) \o F[e]
    BY <1>1, <1>3, FlattenAppend DEF u
  <1> QED
    BY <1>7, <1>8 DEF Each, t

LEMMA EachHead ==
    ASSUME NEW E, NEW S, NEW F \in [E -> Seq(S)], NEW s \in Seq(E), s # <<>>
    PROVE  Each(F, s) = F[Head(s)] \o Each(F, Tail(s))
  <1> DEFINE n == Len(s)
             t == Tail(s)
             u == Tail(Of(F, s))
  <1>1. /\ Of(F, s) \in Seq(Seq(S)) /\ Len(Of(F, s)) = n
        /\ \A i \in 1..n : Of(F, s)[i] = F[s[i]]
    <2>1. Gives(S, F, s)
      BY OfSeq
    <2> QED
      BY <2>1 DEF Gives
  <1>2. /\ n \in Nat \ {0} /\ t \in Seq(E) /\ Len(t) = n - 1
        /\ \A i \in 1..n - 1 : t[i] = s[i + 1]
        /\ Head(s) = s[1]
    BY HeadTailProperties
  <1> HIDE DEF n, t
  <1>3. Of(F, s) # <<>>
    BY <1>1, <1>2, EmptySeq
  <1>4. /\ u \in Seq(Seq(S)) /\ Len(u) = n - 1
        /\ \A i \in 1..n - 1 : u[i] = Of(F, s)[i + 1]
        /\ Head(Of(F, s)) = Of(F, s)[1]
    BY <1>1, <1>3, HeadTailProperties
  <1> HIDE DEF u
  <1>5. /\ Of(F, t) \in Seq(Seq(S)) /\ Len(Of(F, t)) = n - 1
        /\ \A i \in 1..n - 1 : Of(F, t)[i] = F[t[i]]
    <2>1. Gives(S, F, t)
      BY <1>2, OfSeq
    <2> QED
      BY <1>2, <2>1 DEF Gives
  <1>6. ASSUME NEW i \in 1..n - 1 PROVE Of(F, t)[i] = u[i]
    <2>1. i + 1 \in 1..n
      BY <1>2
    <2>2. u[i] = F[s[i + 1]] /\ Of(F, t)[i] = F[t[i]] /\ t[i] = s[i + 1]
      BY <1>1, <1>2, <1>4, <1>5, <2>1
    <2> QED
      BY <2>2
  <1>7. Of(F, t) = u
    BY <1>4, <1>5, <1>6, SeqEqual
  <1>8. Head(Of(F, s)) = F[Head(s)]
    <2>1. 1 \in 1..n /\ Head(s) = s[1]
      BY <1>1, <1>2
    <2>2. Of(F, s)[1] = F[s[1]]
      BY <1>1, <2>1
    <2> QED
      BY <1>4, <2>1, <2>2
  <1>9. FlattenSeq(Of(F, s)) = Head(Of(F, s)) \o FlattenSeq(u)
    BY <1>1, <1>3, FlattenHead DEF u
  <1> QED
    BY <1>7, <1>8, <1>9 DEF Each, t
-----------------------------------------------------------------------------
(* What is at the front of a joined sequence, and what is put in between.  *)

LEMMA FrontOfJoin ==
    ASSUME NEW S, NEW a \in Seq(S), NEW b \in Seq(S)
    PROVE  /\ Len(a) \in 0..Len(a \o b)
           /\ SubSeq(a \o b, 1, Len(a)) = a
  <1> DEFINE p == a \o b
             n == Len(a)
  <1>1. /\ p \in Seq(S) /\ n \in Nat /\ Len(b) \in Nat /\ Len(p) = n + Len(b)
        /\ \A j \in 1..n : p[j] = a[j] /\ a[j] \in S
    BY ConcatProperties, LenProperties
  <1>2. n - 1 + 1 = n /\ \A j \in 1..n : 1 + j - 1 = j
    BY <1>1
  <1>3. n = IF 1 <= n THEN n - 1 + 1 ELSE 0
    BY <1>1
  <1>4. n \in 0..Len(p)
    BY <1>1
  <1> HIDE DEF p, n
  <1>5. /\ SubSeq(p, 1, n) \in Seq(S) /\ Len(SubSeq(p, 1, n)) = n
        /\ \A j \in 1..n : SubSeq(p, 1, n)[j] = a[j]
    BY <1>1, <1>2, <1>3, SubSeqProperties
  <1>6. SubSeq(p, 1, n) = a
    BY <1>5, SeqEqual DEF n
  <1> QED
    BY <1>4, <1>6 DEF p, n

LEMMA BackOfJoin ==
    ASSUME NEW S, NEW a \in Seq(S), NEW b \in Seq(S)
    PROVE  SubSeq(a \o b, Len(a) + 1, Len(a \o b)) = b
  <1> DEFINE p == a \o b
             i == Len(a) + 1
             n == Len(p)
  <1>1. /\ Len(a) \in Nat /\ Len(b) \in Nat /\ p \in Seq(S)
        /\ n = Len(a) + Len(b)
        /\ \A j \in 1..Len(a) + Len(b) :
             p[j] = IF j <= Len(a) THEN a[j] ELSE b[j - Len(a)]
    BY ConcatProperties, LenProperties
  <1>2. \A j \in i..n : p[j] = b[j - Len(a)] /\ j - Len(a) \in 1..Len(b)
    BY <1>1
  <1>3. \A j \in i..n : p[j] \in S
    BY <1>2
  <1>4. /\ i \in Int /\ n \in Int /\ n - i + 1 = Len(b)
        /\ \A j \in 1..Len(b) : i + j - 1 \in i..n /\ i + j - 1 - Len(a) = j
        /\ (IF i <= n THEN n - i + 1 ELSE 0) = Len(b)
    BY <1>1
  <1> HIDE DEF p, i, n
  <1>5. /\ SubSeq(p, i, n) \in Seq(S)
        /\ Len(SubSeq(p, i, n)) = IF i <= n THEN n - i + 1 ELSE 0
        /\ \A j \in 1..n - i + 1 : SubSeq(p, i, n)[j] = p[i + j - 1]
    BY <1>3, <1>4, SubSeqProperties
  <1>6. ASSUME NEW j \in 1..Len(b) PROVE SubSeq(p, i, n)[j] = b[j]
    <2> DEFINE k == i + j - 1
    <2>1. k \in i..n /\ k - Len(a) = j
      BY <1>4
    <2>2. SubSeq(p, i, n)[j] = p[k]
      BY <1>4, <1>5
    <2> HIDE DEF k
    <2> QED
      BY <1>2, <2>1, <2>2
  <1>7. SubSeq(p, i, n) = b
    BY <1>4, <1>5, <1>6, SeqEqual
  <1> QED
    BY <1>7 DEF p, i, n

LEMMA InsertBetween ==
    ASSUME NEW S, NEW a \in Seq(S), NEW b \in Seq(S), NEW x
    PROVE  /\ Len(a) + 1 \in 1..Len(a \o b) + 1
           /\ InsertAt(a \o b, Len(a) + 1, x) = (a \o <<x>>) \o b
  <1>1. Len(a) \in Nat /\ Len(a \o b) \in Nat /\ Len(a) \in 0..Len(a \o b)
    BY FrontOfJoin, ConcatProperties, LenProperties
  <1>2. Len(a) + 1 \in 1..Len(a \o b) + 1 /\ Len(a) + 1 - 1 = Len(a)
    BY <1>1
  <1> DEFINE p == a \o b
             i == Len(a) + 1
  <1>3. SubSeq(p, 1, i - 1) = a /\ SubSeq(p, i, Len(p)) = b
    BY <1>2, FrontOfJoin, BackOfJoin
  <1> HIDE DEF p, i
  <1>4. InsertAt(p, i, x) = (a \o <<x>>) \o b
    BY <1>3 DEF InsertAt
  <1> QED
    BY <1>2, <1>4 DEF p, i
=============================================================================
