--------------------------- MODULE Permissions_proofs ---------------------------
(***************************************************************************)
(* Proofs about Permissions for every set of components, paths, bases and  *)
(* policies, however long the paths and the chains: type correctness, the  *)
(* first opinion decides, an allow carries the input it allows, and        *)
(* cwd_policy's comparison of texts lets no write out of the allowed       *)
(* directories.                                                            *)
(***************************************************************************)
EXTENDS Permissions, Flattening

-----------------------------------------------------------------------------
(* Where the components of a path are in its text.                         *)

Letters == (UNION {ToSet(c) : c \in Components}) \union {Sep}

LEMMA ComponentLetters ==
    ASSUME NEW c \in Components
    PROVE  /\ c \in Seq(Letters) /\ Len(c) \in Nat \ {0}
           /\ \A i \in 1..Len(c) : c[i] # Sep
  <1>1. /\ c \in Seq(ToSet(c)) /\ c # <<>>
        /\ \A i \in DOMAIN c : c[i] # Sep
    BY ComponentsAssumption
  <1>2. ToSet(c) \subseteq Letters
    BY DEF Letters
  <1>3. c \in Seq(Letters)
    BY <1>1, <1>2
  <1> QED
    BY <1>1, <1>3

LEMMA PathSeq ==
    ASSUME NEW a \in Paths
    PROVE  a \in Seq(Components)
  BY DEF Paths, BoundedSeq, SeqOf

\* The i-th component begins after the separator at start[i] + 1.
Layout(a, text, start) ==
    /\ text \in Seq(Letters)
    /\ start \in [1..Len(a) + 1 -> Nat]
    /\ start[1] = 0 /\ start[Len(a) + 1] = Len(text)
    /\ \A i \in 1..Len(a) :
         /\ start[i + 1] = start[i] + 1 + Len(a[i])
         /\ start[i + 1] <= Len(text)
         /\ text[start[i] + 1] = Sep
         /\ \A j \in 1..Len(a[i]) : text[start[i] + 1 + j] = a[i][j]

Pieces(a) == [i \in DOMAIN a |-> <<Sep>> \o a[i]]

LEMMA PieceLetters ==
    ASSUME NEW c \in Components
    PROVE  /\ <<Sep>> \o c \in Seq(Letters) /\ Len(<<Sep>> \o c) = 1 + Len(c)
           /\ (<<Sep>> \o c)[1] = Sep
           /\ \A j \in 1..Len(c) : (<<Sep>> \o c)[1 + j] = c[j]
  <1>1. c \in Seq(Letters) /\ <<Sep>> \in Seq(Letters) /\ Len(<<Sep>>) = 1
    BY ComponentLetters DEF Letters
  <1> QED
    BY <1>1, ConcatProperties

LEMMA PathLayout ==
    ASSUME NEW a \in Paths, a # <<>>
    PROVE  \E start : Layout(a, PathText(a), start)
  <1> DEFINE s == Pieces(a)
             n == Len(a)
  <1>1. /\ a \in Seq(Components) /\ n \in Nat \ {0} /\ DOMAIN a = 1..n
        /\ \A i \in 1..n : a[i] \in Components
    BY PathSeq
  <1>2. s \in Seq(Seq(Letters)) /\ Len(s) = n /\ \A i \in 1..n : s[i] = <<Sep>> \o a[i]
    <2>1. \A i \in 1..n : <<Sep>> \o a[i] \in Seq(Letters)
      BY <1>1, PieceLetters
    <2> QED
      BY <1>1, <2>1 DEF Pieces
  <1>3. \A i \in 1..n : s[i] \in Seq(Letters) /\ Len(s[i]) \in Nat
    BY <1>1, <1>2, PieceLetters
  <1>4. PathText(a) = FlattenSeq(s)
    BY DEF PathText, Pieces
  <1> HIDE DEF s
  <1>5. PICK f : Rec(s, n, f) /\ FlattenSeq(s) = f[n]
    <2>1. s # <<>>
      BY <1>1, <1>2
    <2> QED
      BY <1>2, <2>1, FlattenBuilds
  <1>6. Made(Letters, s, n, f)
    BY <1>1, <1>5, <1>3, RecMade DEF Parts
  <1>7. \A i \in 1..n : f[i] \in Seq(Letters) /\ Len(f[i]) \in Nat
    BY <1>6, MadeWholes, MadeLengths DEF Wholes
  <1>8. f[1] = s[1]
    BY <1>1, <1>6 DEF Made
  <1> HIDE DEF n
  <1> DEFINE text == f[n]
             start == [i \in 1..n + 1 |-> IF i = 1 THEN 0 ELSE Len(f[i - 1])]
  <1>9. ASSUME NEW i \in 1..n
        PROVE  /\ start[i + 1] = start[i] + 1 + Len(a[i])
               /\ start[i + 1] <= Len(text)
               /\ text[start[i] + 1] = Sep
               /\ \A j \in 1..Len(a[i]) : text[start[i] + 1 + j] = a[i][j]
    <2>1. /\ i \in 1..n + 1 /\ i + 1 \in 1..n + 1 /\ i + 1 # 1 /\ (i + 1) - 1 = i
          /\ n \in i..n /\ n \in 1..n
      BY <1>1
    <2>2. start[i + 1] = Len(f[i]) /\ start[i] = IF i = 1 THEN 0 ELSE Len(f[i - 1])
      BY <2>1
    <2>3. /\ Len(s[i]) = 1 + Len(a[i]) /\ s[i][1] = Sep /\ Len(a[i]) \in Nat
          /\ \A j \in 1..Len(a[i]) : s[i][1 + j] = a[i][j]
      BY <1>1, <1>2, PieceLetters, ComponentLetters
    <2>4. start[i] \in Nat
      <3>1. i # 1 => i - 1 \in 1..n
        BY <1>1
      <3> QED
        BY <1>7, <2>2, <3>1
    <2> HIDE DEF start
    <2>5. /\ Len(f[i]) = start[i] + Len(s[i])
          /\ \A j \in 1..Len(s[i]) : f[i][start[i] + j] = s[i][j]
      <3>1. CASE i = 1
        <4>1. f[i] = s[i] /\ start[i] = 0
          BY <1>8, <2>2, <3>1
        <4>2. /\ 0 + Len(s[i]) = Len(s[i])
              /\ \A j \in 1..Len(s[i]) : 0 + j = j
          BY <1>3
        <4> QED
          BY <3>1, <4>1, <4>2
      <3>2. CASE i # 1
        <4>1. i \in 2..n /\ start[i] = Len(f[i - 1])
          BY <1>1, <2>2, <3>2
        <4>2. Joined(s, n, f)
          BY <1>6, MadeJoined
        <4> QED
          BY <4>1, <4>2 DEF Joined
      <3> QED
        BY <3>1, <3>2
    <2>6. /\ Len(f[i]) <= Len(f[n])
          /\ \A j \in 1..Len(f[i]) : f[n][j] = f[i][j]
      BY <1>6, <2>1, MadeStays DEF Stays
    <2>7. \A j \in 1..Len(s[i]) :
            start[i] + j \in 1..Len(f[i]) /\ text[start[i] + j] = s[i][j]
      <3>1. \A j \in 1..Len(s[i]) : start[i] + j \in 1..Len(f[i])
        BY <1>3, <2>3, <2>4, <2>5
      <3> QED
        BY <2>5, <2>6, <3>1
    <2>8. text[start[i] + 1] = Sep
      BY <2>3, <2>7
    <2>9. ASSUME NEW j \in 1..Len(a[i]) PROVE text[start[i] + 1 + j] = a[i][j]
      <3>1. \A u, v, k \in Nat : k \in 1..v => /\ 1 + k \in 1..1 + v
                                              /\ u + (1 + k) = u + 1 + k
        OBVIOUS
      <3>2. 1 + j \in 1..Len(s[i]) /\ start[i] + (1 + j) = start[i] + 1 + j
        BY <2>3, <2>4, <3>1, j \in Nat
      <3> QED
        BY <2>3, <2>7, <3>2
    <2>10. start[i + 1] = start[i] + 1 + Len(a[i])
      <3>1. \A u, v \in Nat : u + (1 + v) = u + 1 + v
        OBVIOUS
      <3> QED
        BY <2>2, <2>3, <2>4, <2>5, <3>1
    <2>11. start[i + 1] <= Len(text)
      BY <2>2, <2>6
    <2> QED
      BY <2>8, <2>9, <2>10, <2>11
  <1>10. /\ start \in [1..n + 1 -> Nat] /\ start[1] = 0 /\ start[n + 1] = Len(text)
    <2>1. \A i \in 1..n + 1 : i # 1 => i - 1 \in 1..n
      BY <1>1
    <2>2. \A i \in 1..n : Len(f[i]) \in Nat
      BY <1>7
    <2>3. 1 \in 1..n + 1 /\ n + 1 \in 1..n + 1 /\ n + 1 # 1 /\ (n + 1) - 1 = n
      BY <1>1
    <2> QED
      BY <2>1, <2>2, <2>3
  <1>11. text \in Seq(Letters) /\ PathText(a) = text
    BY <1>1, <1>4, <1>5, <1>7
  <1> HIDE DEF start, text
  <1>12. Layout(a, text, start)
    BY <1>9, <1>10, <1>11 DEF Layout, n
  <1> QED
    BY <1>11, <1>12

\* Texts that agree as far as one of them goes, up to a separator of the
\* other, are texts of a path and one beneath it.
LEMMA LayoutsAgree ==
    ASSUME NEW a \in Paths, NEW b \in Paths,
           NEW u, NEW v, NEW sa, NEW sb, Layout(a, u, sa), Layout(b, v, sb),
           Len(u) < Len(v), \A k \in 1..Len(u) : v[k] = u[k], v[Len(u) + 1] = Sep
    PROVE  Len(a) <= Len(b) /\ \A i \in 1..Len(a) : a[i] = b[i]
  <1> DEFINE n == Len(a)
             m == Len(b)
             Good(i) == /\ i <= m + 1 /\ sa[i] = sb[i]
                        /\ i # 1 => a[i - 1] = b[i - 1]
             Bad == {i \in 1..n + 1 : ~Good(i)}
  <1>1. /\ n \in Nat /\ m \in Nat /\ Len(u) \in Nat /\ Len(v) \in Nat
        /\ \A i \in 1..n : a[i] \in Components
        /\ \A i \in 1..m : b[i] \in Components
    BY PathSeq, LenProperties DEF Layout
  <1>2. /\ sa \in [1..n + 1 -> Nat] /\ sa[1] = 0 /\ sa[n + 1] = Len(u)
        /\ \A i \in 1..n : /\ sa[i + 1] = sa[i] + 1 + Len(a[i])
                           /\ sa[i + 1] <= Len(u) /\ u[sa[i] + 1] = Sep
                           /\ \A j \in 1..Len(a[i]) : u[sa[i] + 1 + j] = a[i][j]
    BY DEF Layout
  <1>3. /\ sb \in [1..m + 1 -> Nat] /\ sb[1] = 0 /\ sb[m + 1] = Len(v)
        /\ \A i \in 1..m : /\ sb[i + 1] = sb[i] + 1 + Len(b[i])
                           /\ sb[i + 1] <= Len(v) /\ v[sb[i] + 1] = Sep
                           /\ \A j \in 1..Len(b[i]) : v[sb[i] + 1 + j] = b[i][j]
    BY DEF Layout
  <1> HIDE DEF n, m
  <1>4. ASSUME NEW k \in 1..n, k <= m + 1, sa[k] = sb[k]
        PROVE  Good(k + 1)
    <2> DEFINE s == sa[k]
               x == Len(a[k])
               y == Len(b[k])
    <2>1. /\ s \in Nat /\ x \in Nat /\ s + 1 + x = sa[k + 1] /\ s + 1 + x <= Len(u)
          /\ a[k] \in Components /\ k + 1 \in 1..n + 1
      BY <1>1, <1>2, ComponentLetters
    <2>2. k \in 1..m
      <3>1. \A p, q, g, h \in Nat : p + 1 + q <= g /\ g < h => p # h
        OBVIOUS
      <3>2. s # Len(v)
        BY <1>1, <2>1, <3>1
      <3>3. k # m + 1
        BY <1>3, <1>4, <3>2
      <3> QED
        BY <1>1, <1>4, <3>3
    <2>3. /\ y \in Nat /\ s + 1 + y = sb[k + 1] /\ s + 1 + y <= Len(v)
          /\ b[k] \in Components
      BY <1>1, <1>3, <1>4, <2>2, ComponentLetters
    <2>4. \A j \in 1..x : u[s + 1 + j] = a[k][j]
      BY <1>2
    <2>5. \A j \in 1..y : v[s + 1 + j] = b[k][j]
      BY <1>3, <1>4, <2>2
    <2>6. /\ \A j \in 1..x : a[k][j] # Sep
          /\ \A j \in 1..y : b[k][j] # Sep
      BY <2>1, <2>3, ComponentLetters
    <2> HIDE DEF s, x, y
    <2>7. v[s + 1 + x + 1] = Sep
      <3>1. CASE k = n
        BY <1>2, <2>1, <3>1
      <3>2. CASE k # n
        <4>1. k + 1 \in 1..n
          BY <1>1, <3>2
        <4>2. /\ u[sa[k + 1] + 1] = Sep /\ sa[(k + 1) + 1] = sa[k + 1] + 1 + Len(a[k + 1])
              /\ sa[(k + 1) + 1] <= Len(u) /\ a[k + 1] \in Components
          BY <1>1, <1>2, <4>1
        <4>3. Len(a[k + 1]) \in Nat
          BY <4>2, ComponentLetters
        <4>4. s + 1 + x + 1 \in 1..Len(u)
          <5>1. \A p, q, g \in Nat : p + 1 + q <= g => p + 1 \in 1..g
            OBVIOUS
          <5>2. sa[k + 1] \in Nat /\ sa[k + 1] = s + 1 + x
            BY <2>1
          <5>3. sa[k + 1] + 1 + Len(a[k + 1]) <= Len(u)
            BY <4>2
          <5>4. sa[k + 1] + 1 \in 1..Len(u)
            BY <1>1, <4>3, <5>1, <5>2, <5>3
          <5> QED
            BY <5>2, <5>4
        <4> QED
          BY <2>1, <4>2, <4>4
      <3> QED
        BY <3>1, <3>2
    <2>8. y > x => v[s + 1 + x + 1] = b[k][x + 1]
      <3>1. y > x => x + 1 \in 1..y /\ s + 1 + (x + 1) = s + 1 + x + 1
        BY <2>1, <2>3
      <3> QED
        BY <2>5, <3>1
    <2>9. ~(y > x)
      <3>1. y > x => x + 1 \in 1..y
        BY <2>1, <2>3
      <3> QED
        BY <2>6, <2>7, <2>8, <3>1
    <2>10. ~(x > y)
      <3>1. SUFFICES ASSUME x > y PROVE FALSE
        OBVIOUS
      <3>2. /\ y + 1 \in 1..x /\ s + 1 + (y + 1) = s + 1 + y + 1
            /\ s + 1 + y + 1 \in 1..Len(u) /\ s + 1 + y < Len(v)
        BY <1>1, <2>1, <2>3, <3>1
      <3>3. u[s + 1 + y + 1] # Sep
        BY <2>4, <2>6, <3>2
      <3>4. k # m
        BY <1>3, <2>3, <3>2
      <3>5. k + 1 \in 1..m
        BY <1>1, <2>2, <3>4
      <3>6. v[sb[k + 1] + 1] = Sep
        BY <1>3, <3>5
      <3> QED
        BY <2>3, <3>2, <3>3, <3>6
    <2>11. x = y
      BY <2>1, <2>3, <2>9, <2>10
    <2>12. a[k] = b[k]
      <3>1. a[k] \in Seq(Letters) /\ b[k] \in Seq(Letters)
        BY <2>1, <2>3, ComponentLetters
      <3>2. ASSUME NEW j \in 1..x PROVE a[k][j] = b[k][j]
        <4>1. s + 1 + j \in 1..Len(u)
          BY <1>1, <2>1
        <4> QED
          BY <2>4, <2>5, <2>11, <4>1
      <3> QED
        BY <2>11, <3>1, <3>2, SeqEqual DEF x, y
    <2>13. sa[k + 1] = sb[k + 1]
      BY <2>1, <2>3, <2>11
    <2>14. k + 1 <= m + 1 /\ (k + 1) - 1 = k
      BY <1>1, <2>2
    <2> QED
      BY <2>12, <2>13, <2>14
  <1>5. ASSUME Bad # {} PROVE FALSE
    <2>1. PICK i \in Bad : \A k \in Bad : i <= k
      <3>1. Bad \subseteq Nat
        BY <1>1
      <3> HIDE DEF Bad
      <3> QED
        BY <1>5, <3>1, LeastNat
    <2>2. i \in 1..n + 1 /\ ~Good(i)
      BY <2>1
    <2>3. i # 1
      <3>1. Good(1)
        BY <1>1, <1>2, <1>3
      <3> HIDE DEF Good
      <3> QED
        BY <2>2, <3>1
    <2>4. i - 1 \in 1..n /\ i - 1 \in 1..n + 1 /\ i - 1 \notin Bad /\ (i - 1) + 1 = i
      BY <1>1, <2>1, <2>2, <2>3
    <2>5. i - 1 <= m + 1 /\ sa[i - 1] = sb[i - 1]
      BY <2>4
    <2>6. Good((i - 1) + 1)
      <3> HIDE DEF Good
      <3> QED
        BY <1>4, <2>4, <2>5
    <2> HIDE DEF Good
    <2> QED
      BY <2>2, <2>4, <2>6
  <1>6. \A i \in 1..n + 1 : Good(i)
    BY <1>5
  <1>7. n <= m
    <2>1. n + 1 \in 1..n + 1
      BY <1>1
    <2>2. n + 1 <= m + 1
      BY <1>6, <2>1
    <2> QED
      BY <1>1, <2>2
  <1>8. ASSUME NEW i \in 1..n PROVE a[i] = b[i]
    <2>1. i + 1 \in 1..n + 1 /\ i + 1 # 1 /\ (i + 1) - 1 = i
      BY <1>1
    <2> QED
      BY <1>6, <2>1
  <1> QED
    BY <1>7, <1>8 DEF n, m

LEMMA PrefixPoints ==
    ASSUME NEW S, NEW s \in Seq(S), NEW t \in Seq(S)
    PROVE  IsPrefix(s, t) <=> Len(s) <= Len(t) /\ \A i \in 1..Len(s) : t[i] = s[i]
  <1>1. Len(s) \in Nat /\ Len(t) \in Nat
    OBVIOUS
  <1>2. /\ SubSeq(s, 1, Len(s)) \in Seq(S) /\ Len(SubSeq(s, 1, Len(s))) = Len(s)
        /\ \A i \in 1..Len(s) : SubSeq(s, 1, Len(s))[i] = s[i]
    OBVIOUS
  <1>3. Len(s) <= Len(t) =>
          /\ SubSeq(t, 1, Len(s)) \in Seq(S) /\ Len(SubSeq(t, 1, Len(s))) = Len(s)
          /\ \A i \in 1..Len(s) : SubSeq(t, 1, Len(s))[i] = t[i]
    BY <1>1
  <1>4. CASE Len(s) <= Len(t)
    <2> DEFINE x == SubSeq(s, 1, Len(s))
               y == SubSeq(t, 1, Len(s))
    <2>1. /\ x \in Seq(S) /\ y \in Seq(S) /\ Len(x) = Len(s) /\ Len(y) = Len(s)
          /\ \A i \in 1..Len(s) : x[i] = s[i] /\ y[i] = t[i]
      BY <1>2, <1>3, <1>4
    <2>2. IsPrefix(s, t) <=> x = y
      BY <1>4 DEF IsPrefix
    <2> HIDE DEF x, y
    <2>3. (\A i \in 1..Len(s) : t[i] = s[i]) => x = y
      BY <2>1, SeqEqual
    <2> QED
      BY <1>4, <2>1, <2>2, <2>3
  <1>5. CASE ~(Len(s) <= Len(t))
    BY <1>5 DEF IsPrefix
  <1> QED
    BY <1>4, <1>5

LEMMA TextBeneath ==
    ASSUME NEW base \in Paths, NEW real \in Paths, InBase(base, real)
    PROVE  IsPrefix(base, real)
  <1>1. base \in Seq(Components) /\ real \in Seq(Components)
    BY PathSeq
  <1>2. CASE base = <<>> \/ real = base
    <2>1. Len(base) <= Len(real) /\ \A i \in 1..Len(base) : real[i] = base[i]
      <3>1. Len(base) \in Nat /\ Len(real) \in Nat
        BY <1>1
      <3> QED
        BY <1>2, <3>1
    <2> QED
      BY <1>1, <2>1, PrefixPoints
  <1>3. CASE base # <<>> /\ real # base
    <2> DEFINE u == PathText(base)
               v == PathText(real)
    <2>1. PICK sa : Layout(base, u, sa)
      BY <1>3, PathLayout
    <2>2. u \in Seq(Letters) /\ Len(u) \in Nat \ {0}
      <3>1. /\ u \in Seq(Letters) /\ sa \in [1..Len(base) + 1 -> Nat]
            /\ \A i \in 1..Len(base) : /\ sa[i + 1] = sa[i] + 1 + Len(base[i])
                                       /\ sa[i + 1] <= Len(u)
        BY <2>1 DEF Layout
      <3>2. 1 \in 1..Len(base) /\ 1 \in 1..Len(base) + 1 /\ base[1] \in Components
        BY <1>1, <1>3
      <3>3. Len(base[1]) \in Nat
        BY <3>2, ComponentLetters
      <3>4. sa[1] \in Nat /\ sa[1] + 1 + Len(base[1]) <= Len(u) /\ Len(u) \in Nat
        BY <3>1, <3>2
      <3> QED
        BY <3>1, <3>3, <3>4
    <2>3. v \in Seq(Letters)
      <3>1. CASE real = <<>>
        BY <3>1 DEF PathText, Letters
      <3>2. CASE real # <<>>
        BY <3>2, PathLayout DEF Layout
      <3> QED
        BY <3>1, <3>2
    <2>4. IsPrefix(u \o <<Sep>>, v)
      BY <1>3 DEF InBase
    <2> HIDE DEF u, v
    <2>5. /\ u \o <<Sep>> \in Seq(Letters) /\ Len(u \o <<Sep>>) = Len(u) + 1
          /\ \A i \in 1..Len(u) : (u \o <<Sep>>)[i] = u[i]
          /\ (u \o <<Sep>>)[Len(u) + 1] = Sep
      <3>1. <<Sep>> \in Seq(Letters)
        BY DEF Letters
      <3> QED
        BY <2>2, <3>1
    <2>6. /\ Len(u \o <<Sep>>) <= Len(v)
          /\ \A i \in 1..Len(u \o <<Sep>>) : v[i] = (u \o <<Sep>>)[i]
      BY <2>3, <2>4, <2>5, PrefixPoints
    <2>7. Len(u) < Len(v) /\ v[Len(u) + 1] = Sep /\ \A k \in 1..Len(u) : v[k] = u[k]
      <3>1. Len(u) + 1 \in 1..Len(u) + 1 /\ \A k \in 1..Len(u) : k \in 1..Len(u) + 1
        BY <2>2
      <3>2. Len(v) \in Nat
        BY <2>3
      <3> QED
        BY <2>2, <2>5, <2>6, <3>1, <3>2
    <2>8. real # <<>>
      <3>1. Len(v) > 1
        BY <2>2, <2>3, <2>7
      <3>2. real = <<>> => v = <<Sep>>
        BY DEF v, PathText
      <3>3. Len(<<Sep>>) = 1 /\ ~(1 > 1)
        OBVIOUS
      <3>4. v # <<Sep>>
        BY <3>1, <3>3
      <3> QED
        BY <3>2, <3>4
    <2>9. PICK sb : Layout(real, v, sb)
      BY <2>8, PathLayout DEF v
    <2>10. Len(base) <= Len(real) /\ \A i \in 1..Len(base) : base[i] = real[i]
      BY <2>1, <2>7, <2>9, LayoutsAgree
    <2> QED
      BY <1>1, <2>10, PrefixPoints
  <1> QED
    BY <1>2, <1>3

-----------------------------------------------------------------------------
(* The policies.                                                           *)

LEMMA RealPathIsPath ==
    ASSUME NEW c \in ToolCall
    PROVE  RealPath(c.path) \in Paths
  BY PathsAssumption DEF RealPath, ToolCall

CallFields == {"tool", "path", "questions", "answers"}

LEMMA CallTypes ==
    /\ NoCall \in ToolCall
    /\ Calls \subseteq ToolCall /\ HandlerInputs \subseteq ToolCall
    /\ \A c \in ToolCall : DOMAIN c = CallFields
    /\ NoOpinion \in Opinions /\ Deny \in Opinions /\ Allow \in Opinions
    /\ \A c \in ToolCall : Opinion("allow", c) \in Opinions
  <1>1. NoCall \in ToolCall
    <2>1. NoAnswers \in [{} -> 1..Len(Patterns)]
      BY DEF NoAnswers
    <2>2. NoAnswers \in Answers
      BY <2>1 DEF Answers
    <2> QED
      BY <2>2 DEF NoCall, ToolCall, Tools
  <1>2. Calls \subseteq ToolCall
    <2>1. NoAnswers \in Answers
      BY <1>1 DEF NoCall, ToolCall
    <2>2. ASSUME NEW p \in Paths \union {NoPath}
          PROVE  [NoCall EXCEPT !.tool = WriteTool, !.path = p] \in ToolCall
      BY <2>1 DEF NoCall, ToolCall, Tools
    <2>3. ASSUME NEW t \in Tools PROVE [NoCall EXCEPT !.tool = t] \in ToolCall
      BY <2>1 DEF NoCall, ToolCall
    <2>4. ASSUME NEW Q \in SUBSET Questions
          PROVE  [NoCall EXCEPT !.tool = "AskUserQuestion", !.questions = Q]
                   \in ToolCall
      BY <2>1 DEF NoCall, ToolCall, Tools
    <2> QED
      BY <2>2, <2>3, <2>4 DEF Calls
  <1>3. \A c \in ToolCall : DOMAIN c = CallFields
    BY DEF ToolCall, CallFields
  <1>4. NoOpinion \in Opinions /\ Deny \in Opinions /\ Allow \in Opinions
    BY DEF NoOpinion, Deny, Allow, Opinion, Opinions
  <1>5. \A c \in ToolCall : Opinion("allow", c) \in Opinions
    BY DEF Opinion, Opinions
  <1>6. HandlerInputs \subseteq ToolCall
    BY <1>2 DEF HandlerInputs, ToolCall
  <1> QED
    BY <1>1, <1>2, <1>3, <1>4, <1>5, <1>6

\* What a policy may answer for the call c: nothing, deny, or an allow of the
\* call itself.
Answered(o, c) ==
    \/ o \in {NoOpinion, Deny, Allow}
    \/ /\ o.behavior = "allow" /\ o = Opinion("allow", o.input)
       /\ o.input \in ToolCall
       /\ [o.input EXCEPT !.answers = c.answers] = c

\* What a handler may: an allow of any input as well.
Fits(o, p, c) ==
    \/ Answered(o, c)
    \/ Awaits(p, c) /\ \E i \in ToolCall : o = Opinion("allow", i)

LEMMA AutoAnswers ==
    ASSUME NEW c \in ToolCall
    PROVE  Answered(AutoAnswer(c), c)
  <1> DEFINE least(q) == CHOOSE i \in Matching(q) : \A j \in Matching(q) : i <= j
             f == [q \in c.questions |-> least(q)]
             d == [c EXCEPT !.answers = f]
  <1>1. CASE c.tool # "AskUserQuestion" \/ \E q \in c.questions : Matching(q) = {}
    BY <1>1 DEF AutoAnswer, Answered
  <1>2. CASE ~(c.tool # "AskUserQuestion" \/ \E q \in c.questions : Matching(q) = {})
    <2>1. ASSUME NEW q \in c.questions PROVE least(q) \in 1..Len(Patterns)
      <3>1. Matching(q) # {}
        BY <1>2
      <3>2. Matching(q) \subseteq 1..Len(Patterns) /\ Matching(q) \subseteq Nat
        <4>1. DOMAIN Patterns = 1..Len(Patterns) /\ Len(Patterns) \in Nat
          BY PatternsAssumption
        <4> QED
          BY <4>1 DEF Matching
      <3>3. \E i \in Matching(q) : \A j \in Matching(q) : i <= j
        BY <3>1, <3>2, LeastNat
      <3>4. least(q) \in Matching(q)
        BY <3>3
      <3> QED
        BY <3>2, <3>4
    <2>2. c.questions \in SUBSET Questions /\ DOMAIN c = CallFields
      BY CallTypes DEF ToolCall
    <2> HIDE DEF least
    <2>3. f \in [c.questions -> 1..Len(Patterns)]
      BY <2>1
    <2>4. f \in Answers
      BY <2>2, <2>3 DEF Answers
    <2>5. AutoAnswer(c) = Opinion("allow", d)
      BY <1>2 DEF AutoAnswer, least
    <2> HIDE DEF f
    <2>6. d \in ToolCall
      BY <2>4 DEF ToolCall
    <2>7. [d EXCEPT !.answers = c.answers] = c
      BY <2>2 DEF CallFields, ToolCall
    <2> HIDE DEF d
    <2> QED
      BY <2>5, <2>6, <2>7 DEF Answered, Opinion
  <1> QED
    BY <1>1, <1>2

LEMMA SyncAnswers ==
    ASSUME NEW p, NEW c \in ToolCall
    PROVE  /\ Answered(Sync(p, c), c)
           /\ p.kind = "cwd" => Sync(p, c) = CwdPolicy(c)
  <1>1. Answered(CwdPolicy(c), c)
    BY DEF CwdPolicy, Answered
  <1>2. Answered(NoOpinion, c) /\ Answered(Deny, c) /\ Answered(Allow, c)
    BY DEF Answered
  <1>3. Answered(AutoAnswer(c), c)
    BY AutoAnswers
  <1> QED
    BY <1>1, <1>2, <1>3 DEF Sync

LEMMA AnsweredTypes ==
    ASSUME NEW c, NEW p, NEW o, Fits(o, p, c)
    PROVE  o \in Opinions /\ (o # NoOpinion => o.behavior # "none")
  BY CallTypes DEF Fits, Answered, Deny, Allow, Opinion, Opinions

\* cwd_policy has an opinion on every write, and allows one only beneath a
\* base.
LEMMA CwdOpinion ==
    ASSUME NEW c \in ToolCall, c.tool = WriteTool
    PROVE  /\ CwdPolicy(c) \in {Allow, Deny} /\ CwdPolicy(c) # NoOpinion
           /\ CwdPolicy(c).behavior = "allow" =>
                \E base \in Bases : IsPrefix(base, RealPath(c.path))
  <1>1. Allow # NoOpinion /\ Deny # NoOpinion /\ Deny.behavior # "allow"
    BY DEF Allow, Deny, NoOpinion, Opinion
  <1>2. \A base \in Bases : InBase(base, RealPath(c.path)) =>
                              IsPrefix(base, RealPath(c.path))
    BY PathsAssumption, RealPathIsPath, TextBeneath
  <1> QED
    BY <1>1, <1>2 DEF CwdPolicy

-----------------------------------------------------------------------------
(* The chain.                                                              *)

\* While the chain is walked, its policies up to here were asked, in order,
\* and none had an opinion; the one a handler is asked for is one that awaits.
Walk ==
    /\ at = "start" => said = <<>> /\ next = 0
    /\ at \in {"checking", "awaiting"} =>
         /\ next = Len(said) + 1 /\ Len(said) <= Len(chain)
         /\ \A i \in DOMAIN said : said[i] = NoOpinion
         /\ result = NoOpinion
    /\ at \in {"checking", "awaiting", "decided"} => response = NoOpinion
    /\ at = "awaiting" => next <= Len(chain) /\ Awaits(chain[next], call)
    /\ Len(said) <= Len(chain)

\* A policy that does not wait said what it says of this call.
CwdSaid ==
    \A i \in DOMAIN said : chain[i].kind = "cwd" => said[i] = CwdPolicy(call)

\* What the last policy said is something it may say of this call.
LastFits == said # <<>> => Fits(Last(said), chain[Len(said)], call)

Carried == LastFits /\ AllowCarriesInput

PolicyInv == PolicyTypeOK /\ Walk /\ FirstOpinionWins /\ CwdSaid /\ Carried

LEMMA PolicyInitInv == PolicyInit => PolicyInv
  <1> SUFFICES ASSUME PolicyInit PROVE PolicyInv
    OBVIOUS
  <1>1. PolicyTypeOK
    BY CallTypes DEF PolicyInit, PolicyTypeOK
  <1>2. /\ Len(<<>>) = 0 /\ DOMAIN <<>> = {}
    OBVIOUS
  <1>3. Walk /\ CwdSaid /\ FirstOpinionWins
    BY <1>2 DEF PolicyInit, Walk, CwdSaid, FirstOpinionWins
  <1>4. Carried
    BY DEF PolicyInit, Carried, LastFits, AllowCarriesInput, NoOpinion, Opinion
  <1> QED
    BY <1>1, <1>3, <1>4 DEF PolicyInv

LEMMA ConcludeInv ==
    ASSUME PolicyInv, NEW o, Fits(o, chain[next], call), Conclude(o),
           at \in {"checking", "awaiting"}, next <= Len(chain),
           chain[next].kind = "cwd" => o = CwdPolicy(call)
    PROVE  PolicyInv'
  <1>1. /\ chain \in Seq(Policies) /\ said \in Seq(Opinions) /\ call \in ToolCall
        /\ result = NoOpinion /\ response \in Opinions /\ next = Len(said) + 1
        /\ \A i \in 1..Len(said) : said[i] = NoOpinion
        /\ Len(said) \in Nat /\ Len(chain) \in Nat /\ DOMAIN said = 1..Len(said)
    BY DEF PolicyInv, PolicyTypeOK, Walk
  <1>2. o \in Opinions /\ (o # NoOpinion => o.behavior # "none")
    BY AnsweredTypes
  <1>3. /\ said' = Append(said, o) /\ UNCHANGED <<chain, call, response>>
    BY DEF Conclude
  <1>4. /\ said' \in Seq(Opinions) /\ Len(said') = Len(said) + 1
        /\ DOMAIN said' = 1..Len(said) + 1
        /\ \A i \in 1..Len(said) : said'[i] = said[i]
        /\ said'[Len(said) + 1] = o
    BY <1>1, <1>2, <1>3
  <1>5. CwdSaid'
    <2>1. CwdPolicy(call)' = CwdPolicy(call)
      BY <1>3 DEF CwdPolicy
    <2>2. ASSUME NEW i \in DOMAIN said', chain[i].kind = "cwd"
          PROVE  said'[i] = CwdPolicy(call)
      <3>1. CASE i \in 1..Len(said)
        BY <1>1, <1>4, <2>2, <3>1 DEF PolicyInv, CwdSaid
      <3>2. CASE i = Len(said) + 1
        BY <1>1, <1>4, <2>2, <3>2
      <3> QED
        BY <1>1, <1>4, <3>1, <3>2
    <2> QED
      BY <1>3, <2>1, <2>2 DEF CwdSaid
  <1>6. \A i \in 1..Len(said') - 1 : said'[i] = NoOpinion
    BY <1>1, <1>4
  <1>7. Carried'
    <2>1. response' = NoOpinion
      BY <1>3 DEF PolicyInv, Walk
    <2>2. AllowCarriesInput'
      BY <2>1 DEF AllowCarriesInput, NoOpinion, Opinion
    <2>3. Last(said') = o /\ chain'[Len(said')] = chain[next] /\ call' = call
      BY <1>1, <1>3, <1>4 DEF Last
    <2>4. LastFits'
      BY <2>3 DEF LastFits, Fits, Answered, Awaits
    <2> QED
      BY <2>2, <2>4 DEF Carried
  <1>8. CASE o = NoOpinion
    <2>1. at' = "checking" /\ next' = next + 1 /\ result' = result
      BY <1>8 DEF Conclude
    <2>2. \A i \in DOMAIN said' : said'[i] = NoOpinion
      BY <1>1, <1>4, <1>8
    <2>3. next' = Len(said') + 1 /\ Len(said') <= Len(chain') /\ next' \in 0..Len(chain') + 1
      BY <1>1, <1>3, <1>4, <2>1
    <2>4. PolicyTypeOK'
      BY <1>1, <1>3, <1>4, <2>1, <2>3, CallTypes DEF PolicyTypeOK
    <2>5. Walk'
      BY <1>1, <1>3, <2>1, <2>2, <2>3 DEF Walk, PolicyInv
    <2>6. FirstOpinionWins'
      BY <1>6, <2>1 DEF FirstOpinionWins
    <2> QED
      BY <1>5, <1>7, <2>4, <2>5, <2>6 DEF PolicyInv
  <1>9. CASE o # NoOpinion
    <2>1. at' = "decided" /\ next' = next /\ result' = o
      BY <1>9 DEF Conclude
    <2>2. Len(said') <= Len(chain') /\ next' \in 0..Len(chain') + 1
      BY <1>1, <1>3, <1>4, <2>1
    <2>3. PolicyTypeOK'
      BY <1>1, <1>2, <1>3, <1>4, <1>9, <2>1, <2>2 DEF PolicyTypeOK
    <2>4. Walk'
      BY <1>3, <2>1, <2>2 DEF Walk, PolicyInv
    <2>5. said' # <<>> /\ Last(said') = o
      BY <1>1, <1>4 DEF Last
    <2>6. FirstOpinionWins'
      BY <1>6, <1>9, <2>1, <2>5 DEF FirstOpinionWins
    <2> QED
      BY <1>5, <1>7, <2>3, <2>4, <2>6 DEF PolicyInv
  <1> QED
    BY <1>8, <1>9

LEMMA CarriedStays ==
    ASSUME Carried, UNCHANGED <<chain, call, response, said>> PROVE Carried'
  BY DEF Carried, LastFits, Fits, Answered, Awaits, AllowCarriesInput, Given

LEMMA PolicyStep == ASSUME PolicyInv, [PolicyNext]_policyVars PROVE PolicyInv'
  <1>0. /\ chain \in Seq(Policies) /\ said \in Seq(Opinions) /\ call \in ToolCall
        /\ result \in Opinions /\ response \in Opinions /\ next \in 0..Len(chain) + 1
        /\ at \in {"start", "ready", "checking", "awaiting", "decided"}
        /\ Len(said) \in Nat /\ Len(chain) \in Nat /\ DOMAIN said = 1..Len(said)
    BY DEF PolicyInv, PolicyTypeOK
  <1>1. ASSUME NEW c \in Chains, Compose(c) PROVE PolicyInv'
    <2>1. c \in Seq(Policies)
      BY DEF Chains, BoundedSeq, SeqOf
    <2>2. /\ said = <<>> /\ next = 0 /\ at' = "ready" /\ chain' = c
          /\ UNCHANGED <<next, call, result, response, said>>
      BY <1>1 DEF Compose, PolicyInv, Walk
    <2>7. ~Given
      BY <2>2 DEF Given
    <2>3. /\ Len(<<>>) = 0 /\ DOMAIN <<>> = {} /\ Len(c) \in Nat
      BY <2>1
    <2>4. PolicyTypeOK'
      BY <1>0, <2>1, <2>2, <2>3 DEF PolicyTypeOK
    <2>5. Walk' /\ CwdSaid' /\ FirstOpinionWins'
      BY <2>2, <2>3 DEF Walk, CwdSaid, FirstOpinionWins
    <2>6. Carried'
      BY <2>2, <2>7 DEF PolicyInv, Carried, LastFits, AllowCarriesInput, Given
    <2> QED
      BY <2>4, <2>5, <2>6 DEF PolicyInv
  <1>2. ASSUME NEW c \in Calls, CanUseTool(c) PROVE PolicyInv'
    <2>1. c \in ToolCall
      BY CallTypes
    <2>2. /\ call' = c /\ at' = "checking" /\ next' = 1 /\ said' = <<>>
          /\ result' = NoOpinion /\ response' = NoOpinion /\ chain' = chain
      BY <1>2 DEF CanUseTool
    <2>3. /\ Len(<<>>) = 0 /\ DOMAIN <<>> = {} /\ <<>> \in Seq(Opinions)
      OBVIOUS
    <2>4. PolicyTypeOK'
      BY <1>0, <2>1, <2>2, <2>3, CallTypes DEF PolicyTypeOK
    <2>5. Walk' /\ CwdSaid' /\ FirstOpinionWins'
      BY <1>0, <2>2, <2>3 DEF Walk, CwdSaid, FirstOpinionWins
    <2>6. Carried'
      BY <2>2 DEF Carried, LastFits, AllowCarriesInput, NoOpinion, Opinion
    <2> QED
      BY <2>4, <2>5, <2>6 DEF PolicyInv
  <1>3. CASE Check
    <2>1. /\ at = "checking" /\ next <= Len(chain)
          /\ Conclude(Sync(chain[next], call))
      BY <1>3 DEF Check
    <2>2. Fits(Sync(chain[next], call), chain[next], call)
      BY <1>0, SyncAnswers DEF Fits
    <2> QED
      BY <1>0, <2>1, <2>2, SyncAnswers, ConcludeInv
  <1>4. CASE Ask
    <2>1. /\ at = "checking" /\ next <= Len(chain) /\ Awaits(chain[next], call)
          /\ at' = "awaiting" /\ UNCHANGED <<chain, next, call, result, response, said>>
      BY <1>4 DEF Ask
    <2>2. PolicyTypeOK'
      BY <1>0, <2>1 DEF PolicyTypeOK
    <2>3. Walk'
      BY <2>1 DEF PolicyInv, Walk, Awaits
    <2>4. CwdSaid' /\ FirstOpinionWins' /\ Carried'
      BY <2>1, CarriedStays DEF PolicyInv, CwdSaid, CwdPolicy, FirstOpinionWins
    <2> QED
      BY <2>2, <2>3, <2>4 DEF PolicyInv
  <1>5. CASE HandlerReturns
    <2>1. /\ at = "awaiting" /\ next <= Len(chain) /\ chain[next].kind # "cwd"
          /\ Awaits(chain[next], call)
      BY <1>5 DEF HandlerReturns, PolicyInv, Walk, Awaits
    <2>2. ASSUME NEW o \in {NoOpinion, Deny, Allow}, Conclude(o) PROVE PolicyInv'
      <3>1. Fits(o, chain[next], call)
        BY <2>2 DEF Fits, Answered
      <3> QED
        BY <2>1, <2>2, <3>1, ConcludeInv
    <2>3. ASSUME NEW i \in HandlerInputs, Conclude(Opinion("allow", i))
          PROVE  PolicyInv'
      <3>1. Fits(Opinion("allow", i), chain[next], call)
        BY <2>1, <2>3, CallTypes DEF Fits
      <3> QED
        BY <2>1, <2>3, <3>1, ConcludeInv
    <2> QED
      BY <1>5, <2>2, <2>3 DEF HandlerReturns
  <1>6. CASE HandlerRaises
    <2>1. at' = "ready" /\ UNCHANGED <<chain, next, call, result, response, said>>
      BY <1>6 DEF HandlerRaises
    <2>2. PolicyTypeOK'
      BY <1>0, <2>1 DEF PolicyTypeOK
    <2>3. Walk' /\ CwdSaid' /\ FirstOpinionWins' /\ Carried'
      BY <2>1, CarriedStays DEF PolicyInv, Walk, CwdSaid, CwdPolicy, FirstOpinionWins
    <2> QED
      BY <2>2, <2>3 DEF PolicyInv
  <1>7. CASE NobodyObjects
    <2>1. /\ at = "checking" /\ next > Len(chain) /\ at' = "decided"
          /\ result' = Allow /\ UNCHANGED <<chain, next, call, response, said>>
      BY <1>7 DEF NobodyObjects
    <2>2. PolicyTypeOK'
      BY <1>0, <2>1, CallTypes DEF PolicyTypeOK, Allow, Opinion
    <2>3. Walk' /\ CwdSaid'
      BY <2>1 DEF PolicyInv, Walk, CwdSaid, CwdPolicy
    <2>4. Len(said) = Len(chain) /\ \A i \in DOMAIN said : said[i] = NoOpinion
      BY <1>0, <2>1 DEF PolicyInv, Walk
    <2>5. FirstOpinionWins'
      BY <2>1, <2>4 DEF PolicyInv, FirstOpinionWins
    <2>6. Carried'
      BY <2>1, CarriedStays DEF PolicyInv
    <2> QED
      BY <2>2, <2>3, <2>5, <2>6 DEF PolicyInv
  <1>8. CASE Respond
    <2>1. /\ at = "decided" /\ at' = "ready" /\ response' = WithInput(result, call)
          /\ UNCHANGED <<chain, next, call, result, said>>
      BY <1>8 DEF Respond
    <2>2. [call EXCEPT !.answers = call.answers] = call
      BY <1>0, CallTypes DEF CallFields, ToolCall
    <2>3. response' \in Opinions
      BY <1>0, <2>1, CallTypes DEF WithInput
    <2>4. PolicyTypeOK'
      BY <1>0, <2>1, <2>3 DEF PolicyTypeOK
    <2>5. Walk' /\ CwdSaid' /\ FirstOpinionWins'
      BY <2>1 DEF PolicyInv, Walk, CwdSaid, CwdPolicy, FirstOpinionWins
    <2>6. AllowCarriesInput'
      <3> SUFFICES ASSUME response'.behavior = "allow"
                   PROVE  /\ response'.input = IF Given THEN Last(said).input ELSE call
                          /\ \/ [response'.input EXCEPT !.answers = call.answers] = call
                             \/ said # <<>> /\ Awaits(chain[Len(said)], call)
        BY <2>1 DEF AllowCarriesInput, Given, Awaits
      <3>1. result.behavior = "allow"
        BY <2>1 DEF WithInput, Opinion
      <3>2. CASE result = Allow
        <4>1. Allow.input = NoInput /\ NoOpinion.input = NoInput
          BY DEF Allow, NoOpinion, Opinion
        <4>2. ~Given
          <5>1. said # <<>> => Last(said) \in {Allow, NoOpinion}
            BY <1>0, <2>1, <3>2 DEF PolicyInv, FirstOpinionWins, Last
          <5> QED
            BY <4>1, <5>1 DEF Given
        <4>3. response'.input = call
          BY <2>1, <3>1, <3>2, <4>1 DEF WithInput, Opinion
        <4> QED
          BY <2>2, <4>2, <4>3
      <3>3. CASE result # Allow
        <4>1. said # <<>> /\ result = Last(said)
          BY <2>1, <3>3 DEF PolicyInv, FirstOpinionWins
        <4>2. result \notin {NoOpinion, Deny, Allow}
          BY <3>1, <3>3 DEF NoOpinion, Deny, Opinion
        <4>3. Fits(result, chain[Len(said)], call)
          BY <4>1 DEF PolicyInv, Carried, LastFits
        <4>4. /\ result.input \in ToolCall
              /\ \/ [result.input EXCEPT !.answers = call.answers] = call
                 \/ Awaits(chain[Len(said)], call)
          BY <4>2, <4>3 DEF Fits, Answered, Opinion
        <4>5. result.input # NoInput
          <5>1. NoInput.tool = "none"
            BY DEF NoInput, NoCall
          <5> QED
            BY <4>4, <5>1 DEF ToolCall, Tools, WriteTool
        <4>6. response' = result
          BY <2>1, <4>5 DEF WithInput
        <4> QED
          BY <4>1, <4>4, <4>5, <4>6 DEF Given
      <3> QED
        BY <3>2, <3>3
    <2>7. Carried'
      BY <2>1, <2>6 DEF PolicyInv, Carried, LastFits, Fits, Answered, Awaits
    <2> QED
      BY <2>4, <2>5, <2>7 DEF PolicyInv
  <1>9. CASE UNCHANGED policyVars
    BY <1>9, CarriedStays
       DEF policyVars, PolicyInv, PolicyTypeOK, Walk, Awaits, CwdSaid, CwdPolicy,
           FirstOpinionWins
  <1> QED
    BY <1>1, <1>2, <1>3, <1>4, <1>5, <1>6, <1>7, <1>8, <1>9 DEF PolicyNext

\* The decisions of a chain of policies (compose) and what is sent for them.
THEOREM PolicySafe == PolicySpec => []PolicyInv
  <1> QED
    BY PolicyInitInv, PolicyStep, PTL DEF PolicySpec

\* Every variable keeps its type, and what is decided is an allow or a deny.
THEOREM PolicyTypeCorrect == PolicySpec => []PolicyTypeOK
  <1>1. PolicyInv => PolicyTypeOK
    BY DEF PolicyInv
  <1> QED
    BY <1>1, PolicySafe, PTL

\* Of chains of any length: the first policy with an opinion decides, no
\* policy after it is asked, and only a chain without one allows by default.
THEOREM FirstDecides == PolicySpec => []FirstOpinionWins
  <1>1. PolicyInv => FirstOpinionWins
    BY DEF PolicyInv
  <1> QED
    BY <1>1, PolicySafe, PTL

\* Whatever handlers answer, the control_response of an allow carries what the
\* policy that decided put there, or the input of the call it answers
\* (_handle_can_use_tool); only a handler's differs in more than the answers.
THEOREM AllowsCarryInput == PolicySpec => []AllowCarriesInput
  <1>1. PolicyInv => AllowCarriesInput
    BY DEF PolicyInv, Carried
  <1> QED
    BY <1>1, PolicySafe, PTL

LEMMA InsideStep == ASSUME PolicyInv PROVE WritesStayInside
  <1> SUFFICES ASSUME CwdDecides, result.behavior = "allow" PROVE BeneathSomeBase
    BY DEF WritesStayInside
  <1> DEFINE n == Len(said)
  <1>1. /\ call \in ToolCall /\ call.tool = WriteTool /\ at = "decided"
        /\ said \in Seq(Opinions) /\ said # <<>> /\ chain[n].kind = "cwd"
    BY DEF PolicyInv, PolicyTypeOK, CwdDecides
  <1>2. n \in DOMAIN said
    BY <1>1
  <1>3. said[n] = CwdPolicy(call)
    BY <1>1, <1>2 DEF PolicyInv, CwdSaid
  <1>4. CwdPolicy(call) # NoOpinion
    BY <1>1, CwdOpinion
  <1>5. result = CwdPolicy(call)
    BY <1>1, <1>2, <1>3, <1>4 DEF PolicyInv, FirstOpinionWins, Last
  <1> QED
    BY <1>1, <1>5, CwdOpinion DEF BeneathSomeBase

\* Whatever the directories are called and however deep they are, a write
\* that cwd_policy decides on is allowed only beneath an allowed directory:
\* comparing texts with a separator after the base follows the tree.
THEOREM NoWriteOutside == PolicySpec => []WritesStayInside
  <1>1. PolicyInv => WritesStayInside
    BY InsideStep
  <1> QED
    BY <1>1, PolicySafe, PTL
=============================================================================
