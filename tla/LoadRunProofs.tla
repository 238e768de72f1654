------------------------------ MODULE LoadRunProofs ------------------------------
(***************************************************************************)
(* Theorems about a run of the load generator: what is indexed and taken   *)
(* (MessagesInTurn), and what the statistics say (StatisticsExact), for    *)
(* any archives, limits and clients.  First come texts and numbers, then   *)
(* the index and the generators, and last the ring of slots.               *)
(***************************************************************************)
EXTENDS LoadRun, SequenceTheorems, FiniteSetTheorems, WellFoundedInduction, TLAPS
-----------------------------------------------------------------------------
(* Sequences that are joined. *)

\* A set of numbers has a least element.
LEMMA LeastElement ==
  ASSUME NEW T \in SUBSET Nat, T # {}
  PROVE  \E m \in T : \A i \in T : m <= i
<1>1. PICK m \in T : \A i \in T : ~(<<i, m>> \in OpToRel(<, Nat))
  BY NatLessThanWellFounded, WFMin
<1>2. ASSUME NEW i \in T PROVE m <= i
  <2>1. i \in Nat /\ m \in Nat  OBVIOUS
  <2>2. ~(i < m)  BY <1>1, <2>1 DEF OpToRel
  <2> QED  BY <2>1, <2>2
<1> QED  BY <1>2

LEMMA LeastIsMin ==
  ASSUME NEW T \in SUBSET Nat, T # {}
  PROVE  Min(T) \in T /\ \A i \in T : Min(T) <= i
<1>1. \E m \in T : \A i \in T : m <= i  BY LeastElement
<1> QED  BY <1>1, Zenon DEF Min

\* What holds of 0 and goes over to the successor, up to n, holds up to n: the
\* least counterexample would be neither.
LEMMA Induction ==
  ASSUME NEW n \in Nat, NEW T \in SUBSET Nat, 0 \in T, \A k \in T : k < n => k + 1 \in T
  PROVE  \A k \in 0 .. n : k \in T
<1> DEFINE Bad == (0 .. n) \ T
<1> SUFFICES ASSUME Bad # {} PROVE FALSE
  OBVIOUS
<1>1. PICK m \in Bad : \A i \in Bad : m <= i
  <2>1. Bad \in SUBSET Nat  OBVIOUS
  <2> HIDE DEF Bad
  <2> QED  BY <2>1, LeastElement
<1>2. m # 0 /\ m - 1 \in Nat /\ m - 1 < n /\ m - 1 \in 0 .. n  OBVIOUS
<1>3. m - 1 \in T  BY <1>1, <1>2
<1> QED  BY <1>2, <1>3

\* Sequences joined, one more at each place.
Joins(f, w) ==
  /\ f[0] = <<>>
  /\ \A k \in 1 .. Len(w) : f[k] = f[k - 1] \o w[k]

LEMMA JoinsExist ==
  ASSUME NEW S, NEW w \in Seq(Seq(S))
  PROVE  \E f : Joins(f, w)
<1> DEFINE Upto(f, n) == f[0] = <<>> /\ \A k \in 1 .. n : f[k] = f[k - 1] \o w[k]
           T == {n \in Nat : \E f : Upto(f, n)}
<1>1. Len(w) \in Nat  BY LenProperties
<1>2. 0 \in T
  <2> DEFINE f == [k \in {0} |-> <<>>]
  <2>1. Upto(f, 0)  OBVIOUS
  <2> QED  BY <2>1
<1>3. ASSUME NEW n \in T PROVE n + 1 \in T
  <2>1. PICK f : Upto(f, n)  OBVIOUS
  <2> DEFINE m == n + 1
             g == [k \in 0 .. m |-> IF k = m THEN f[n] \o w[m] ELSE f[k]]
  <2>2. m \in Nat /\ m # 0 /\ m - 1 = n /\ n \in Nat  OBVIOUS
  <2>6. \A j \in 0 .. m : g[j] = IF j = m THEN f[n] \o w[m] ELSE f[j]  OBVIOUS
  <2> HIDE DEF g, m
  <2>3. g[0] = <<>>  BY <2>1, <2>2, <2>6
  <2>4. ASSUME NEW k \in 1 .. m PROVE g[k] = g[k - 1] \o w[k]
    <3>1. CASE k = m
      <4>1. k \in 0 .. m /\ n \in 0 .. m /\ n # m /\ k - 1 = n  BY <3>1, <2>2
      <4> QED  BY <3>1, <4>1, <2>6
    <3>2. CASE k # m
      <4>1. k \in 1 .. n /\ k \in 0 .. m /\ k - 1 \in 0 .. m /\ k - 1 # m
        BY <3>2, <2>2
      <4>2. g[k] = f[k] /\ g[k - 1] = f[k - 1]  BY <4>1, <3>2, <2>6
      <4> QED  BY <4>1, <4>2, <2>1
    <3> QED  BY <3>1, <3>2
  <2>5. Upto(g, m)  BY <2>3, <2>4
  <2> HIDE DEF Upto
  <2> QED  BY <2>5, <2>2 DEF m
<1>4. Len(w) \in T
  <2>1. T \in SUBSET Nat  OBVIOUS
  <2> HIDE DEF T
  <2>2. \A k \in 0 .. Len(w) : k \in T  BY <2>1, <1>1, <1>2, <1>3, Induction
  <2> QED  BY <2>2, <1>1
<1>5. PICK f : Upto(f, Len(w))  BY <1>4
<1> QED  BY <1>5 DEF Joins

\* The first k of a sequence.
First(w, k) == [i \in 1 .. k |-> w[i]]

LEMMA JoinedUpTo ==
  ASSUME NEW S, NEW w \in Seq(Seq(S)), NEW f, Joins(f, w), NEW n \in 0 .. Len(w)
  PROVE  FlattenSeq(First(w, n)) = f[n]
<1>1. Len(w) \in Nat /\ n \in Nat /\ \A k \in 1 .. n : k \in 1 .. Len(w)
  BY LenProperties
<1>2. CASE n = 0
  <2>1. First(w, n) = <<>>  BY <1>2 DEF First
  <2>2. FlattenSeq(<<>>) = <<>>  BY DEF FlattenSeq
  <2> QED  BY <2>1, <2>2, <1>2 DEF Joins
<1>3. CASE n # 0
  <2> DEFINE s == First(w, n)
             IsJoin(g) == g = [i \in 1 .. Len(s) |-> IF i = 1 THEN s[i] ELSE g[i - 1] \o s[i]]
             h == [i \in 1 .. n |-> f[i]]
             g == CHOOSE g : IsJoin(g)
  <2>1. Len(s) = n /\ (\A i \in 1 .. n : s[i] = w[i]) /\ 1 \in 1 .. n
    BY <1>1, <1>3 DEF First
  <2>2. FlattenSeq(s) = g[Len(s)]
    <3> HIDE DEF s
    <3>1. Len(s) # 0  BY <2>1, <1>3
    <3> QED  BY <3>1 DEF FlattenSeq
  <2> HIDE DEF s
  <2>3. f[1] = s[1]
    <3>1. w[1] \in Seq(S) /\ 1 \in 1 .. Len(w) /\ 1 - 1 = 0  BY <2>1, <1>1
    <3>2. f[1] = <<>> \o w[1]  BY <3>1 DEF Joins
    <3> QED  BY <3>1, <3>2, <2>1, ConcatEmptySeq
  <2>4. IsJoin(h)
    <3>1. \A k \in 1 .. n : h[k] = IF k = 1 THEN s[k] ELSE h[k - 1] \o s[k]
      <4> TAKE k \in 1 .. n
      <4>1. CASE k = 1
        BY <4>1, <2>3
      <4>2. CASE k # 1
        <5>1. k - 1 \in 1 .. n /\ k \in 1 .. Len(w)  BY <4>2, <1>1
        <5>2. h[k] = f[k] /\ h[k - 1] = f[k - 1]  BY <5>1
        <5>3. f[k] = f[k - 1] \o w[k]  BY <5>1 DEF Joins
        <5> QED  BY <4>2, <5>2, <5>3, <2>1
      <4> QED  BY <4>1, <4>2
    <3>2. h = [i \in 1 .. n |-> h[i]]  OBVIOUS
    <3> HIDE DEF h
    <3> QED  BY <3>1, <3>2, <2>1
  <2>5. IsJoin(g)
    <3> HIDE DEF IsJoin, h
    <3> QED  BY <2>4
  <2> HIDE DEF g
  <2>6. \A k \in 1 .. n : g[k] = IF k = 1 THEN s[k] ELSE g[k - 1] \o s[k]
    BY <2>1, <2>5
  <2> DEFINE T == {k \in Nat : k + 1 <= n => g[k + 1] = f[k + 1]}
  <2>7. 0 \in T
    <3>1. g[1] = f[1] /\ 0 + 1 = 1  BY <2>1, <2>3, <2>6
    <3> QED  BY <3>1
  <2>8. ASSUME NEW k \in T PROVE k + 1 \in T
    <3> SUFFICES ASSUME k + 1 + 1 <= n PROVE g[k + 1 + 1] = f[k + 1 + 1]
      OBVIOUS
    <3> DEFINE j == k + 1
               m == k + 1 + 1
    <3>1. k \in Nat /\ k + 1 <= n /\ g[j] = f[j]  BY <1>1
    <3>2. m \in 1 .. n /\ m # 1 /\ m - 1 = j /\ m \in 1 .. Len(w)  BY <3>1, <1>1
    <3> HIDE DEF m, j
    <3>3. g[m] = g[j] \o s[m]  BY <3>2, <2>6
    <3>4. f[m] = f[j] \o w[m]  BY <3>2 DEF Joins
    <3>5. g[m] = f[m]  BY <3>1, <3>2, <3>3, <3>4, <2>1
    <3> QED  BY <3>5 DEF m
  <2>9. g[n] = f[n]
    <3> DEFINE k == n - 1
    <3>1. k \in 0 .. n /\ k + 1 = n  BY <1>1, <1>3
    <3>2. k \in T
      <4>1. T \in SUBSET Nat  OBVIOUS
      <4> HIDE DEF T, k
      <4> QED  BY <4>1, <3>1, <1>1, <2>7, <2>8, Induction
    <3> HIDE DEF k
    <3>3. k + 1 <= n => g[k + 1] = f[k + 1]  BY <3>2
    <3> QED  BY <3>1, <3>3, <1>1
  <2> QED  BY <2>1, <2>2, <2>9 DEF s
<1> QED  BY <1>2, <1>3

LEMMA JoinedElements ==
  ASSUME NEW S
  PROVE  \A s, t \in Seq(S) :
           /\ s \o t \in Seq(S) /\ Len(s \o t) = Len(s) + Len(t)
           /\ Len(s) \in Nat /\ Len(t) \in Nat
           /\ \A i \in 1 .. Len(s) + Len(t) :
                (s \o t)[i] = IF i <= Len(s) THEN s[i] ELSE t[i - Len(s)]
BY ConcatProperties, LenProperties

LEMMA JoinsType ==
  ASSUME NEW S, NEW w \in Seq(Seq(S)), NEW f, Joins(f, w)
  PROVE  \A k \in 0 .. Len(w) : f[k] \in Seq(S)
<1> DEFINE T == {k \in Nat : k <= Len(w) => f[k] \in Seq(S)}
<1>1. Len(w) \in Nat /\ \A k \in 1 .. Len(w) : w[k] \in Seq(S)  BY LenProperties
<1>2. 0 \in T  BY EmptySeq DEF Joins
<1>3. ASSUME NEW k \in T PROVE k + 1 \in T
  <2> SUFFICES ASSUME k + 1 <= Len(w) PROVE f[k + 1] \in Seq(S)
    OBVIOUS
  <2> DEFINE m == k + 1
  <2>1. m \in 1 .. Len(w) /\ m - 1 = k /\ f[k] \in Seq(S)  BY <1>1
  <2> HIDE DEF m
  <2>2. f[m] = f[k] \o w[m] /\ w[m] \in Seq(S)  BY <2>1, <1>1 DEF Joins
  <2>3. f[m] \in Seq(S)  BY <2>1, <2>2, JoinedElements
  <2> QED  BY <2>3 DEF m
<1>4. \A k \in 0 .. Len(w) : k \in T
  <2>1. T \in SUBSET Nat  OBVIOUS
  <2> HIDE DEF T
  <2> QED  BY <2>1, <1>1, <1>2, <1>3, Induction
<1> QED  BY <1>4

\* t begins with s.
Begins(t, s) == Len(s) <= Len(t) /\ \A i \in 1 .. Len(s) : t[i] = s[i]

LEMMA BeginsFurther ==
  ASSUME NEW S
  PROVE  \A s, t, u \in Seq(S) : Begins(s, u) => Begins(s \o t, u)
<1> TAKE s, t, u \in Seq(S)
<1> SUFFICES ASSUME Begins(s, u) PROVE Begins(s \o t, u)
  OBVIOUS
<1>1. /\ Len(s \o t) = Len(s) + Len(t) /\ Len(s) \in Nat /\ Len(t) \in Nat /\ Len(u) \in Nat
      /\ \A i \in 1 .. Len(s) + Len(t) :
           (s \o t)[i] = IF i <= Len(s) THEN s[i] ELSE t[i - Len(s)]
  BY JoinedElements, LenProperties
<1>2. Len(u) <= Len(s) /\ \A i \in 1 .. Len(u) : s[i] = u[i]  BY DEF Begins
<1>3. ASSUME NEW i \in 1 .. Len(u) PROVE (s \o t)[i] = u[i]
  <2>1. i \in 1 .. Len(s) + Len(t) /\ i <= Len(s)  BY <1>1, <1>2
  <2> QED  BY <2>1, <1>1, <1>2
<1>4. Len(u) <= Len(s \o t)  BY <1>1, <1>2
<1> QED  BY <1>3, <1>4 DEF Begins

LEMMA JoinsGrow ==
  ASSUME NEW S, NEW w \in Seq(Seq(S)), NEW f, Joins(f, w),
         NEW k \in 0 .. Len(w), NEW m \in k .. Len(w)
  PROVE  Begins(f[m], f[k])
<1> DEFINE n == Len(w)
           Good(d) == Begins(f[k + d], f[k])
           T == {d \in Nat : k + d <= n => Good(d)}
<1>1. n \in Nat /\ k \in Nat /\ k <= n /\ \A j \in 1 .. n : w[j] \in Seq(S)  BY LenProperties
<1>2. \A j \in 0 .. n : f[j] \in Seq(S)  BY JoinsType
<1>3. 0 \in T
  <2>1. k + 0 = k  BY <1>1
  <2>2. Len(f[k]) \in Nat  BY <1>1, <1>2, LenProperties
  <2>3. Begins(f[k], f[k])  BY <2>2 DEF Begins
  <2> QED  BY <2>1, <2>3
<1>4. ASSUME NEW d \in T PROVE d + 1 \in T
  <2> SUFFICES ASSUME k + (d + 1) <= n PROVE Good(d + 1)
    OBVIOUS
  <2> DEFINE i == k + d
             j == k + (d + 1)
  <2>1. j \in 1 .. n /\ j - 1 = i /\ i \in 0 .. n /\ k + d <= n /\ d \in Nat  BY <1>1
  <2>2. Begins(f[i], f[k])  BY <2>1
  <2> HIDE DEF i, j, n
  <2>3. f[j] = f[i] \o w[j] /\ w[j] \in Seq(S) /\ f[i] \in Seq(S) /\ f[k] \in Seq(S)
    BY <2>1, <1>1, <1>2 DEF Joins, n
  <2>4. Begins(f[j], f[k])
    <3> DEFINE s == f[i]
               t == w[j]
               u == f[k]
    <3>1. s \in Seq(S) /\ t \in Seq(S) /\ u \in Seq(S) /\ Begins(s, u)  BY <2>2, <2>3
    <3> HIDE DEF s, t, u
    <3>2. Begins(s \o t, u)  BY <3>1, BeginsFurther, Zenon
    <3> QED  BY <3>2, <2>3 DEF s, t, u
  <2> QED  BY <2>4 DEF j
<1>5. \A d \in 0 .. n - k : d \in T
  <2>1. T \in SUBSET Nat /\ n - k \in Nat  BY <1>1
  <2> HIDE DEF T, n
  <2> QED  BY <2>1, <1>3, <1>4, Induction
<1> DEFINE d == m - k
<1>6. d \in 0 .. n - k /\ k + d = m /\ m <= n  BY <1>1
<1>7. d \in T  BY <1>5, <1>6
<1> HIDE DEF d
<1>8. Begins(f[k + d], f[k])  BY <1>6, <1>7
<1> QED  BY <1>6, <1>8

\* Where w[k] stands in what they are all joined to.
Stands(f, w, k) ==
  /\ Len(f[k - 1]) \in Nat /\ Len(f[k]) = Len(f[k - 1]) + Len(w[k])
  /\ Len(f[k]) <= Len(f[Len(w)])
  /\ \A i \in 1 .. Len(w[k]) : f[Len(w)][Len(f[k - 1]) + i] = w[k][i]

LEMMA StandsAt ==
  ASSUME NEW S, NEW w \in Seq(Seq(S)), NEW f, Joins(f, w), NEW k \in 1 .. Len(w)
  PROVE  Stands(f, w, k)
<1> DEFINE a == f[k - 1]
           v == w[k]
           u == f[k]
           all == f[Len(w)]
<1>1. /\ Len(w) \in Nat /\ k - 1 \in 0 .. Len(w) /\ k \in 0 .. Len(w) /\ Len(w) \in k .. Len(w)
      /\ v \in Seq(S)
  BY LenProperties
<1>2. a \in Seq(S) /\ u \in Seq(S) /\ all \in Seq(S)  BY <1>1, JoinsType
<1>3. u = a \o v  BY DEF Joins
<1>4. Begins(all, u)  BY <1>1, JoinsGrow
<1> HIDE DEF a, v, u, all
<1>5. /\ Len(u) = Len(a) + Len(v) /\ Len(a) \in Nat /\ Len(v) \in Nat
      /\ \A i \in 1 .. Len(a) + Len(v) : u[i] = IF i <= Len(a) THEN a[i] ELSE v[i - Len(a)]
  BY <1>1, <1>2, <1>3, JoinedElements
<1>6. ASSUME NEW i \in 1 .. Len(v) PROVE all[Len(a) + i] = v[i]
  <2> DEFINE j == Len(a) + i
  <2>1. j \in 1 .. Len(u) /\ ~(j <= Len(a)) /\ j - Len(a) = i  BY <1>5
  <2> HIDE DEF j
  <2>2. all[j] = u[j] /\ u[j] = v[i]  BY <2>1, <1>4, <1>5 DEF Begins
  <2> QED  BY <2>2 DEF j
<1>7. Len(u) <= Len(all)  BY <1>4 DEF Begins
<1> QED  BY <1>5, <1>6, <1>7 DEF Stands, a, v, u, all

\* What is known of the archive, which does not change.
ArchiveInv ==
  /\ archive \in Seq(Messages) /\ archive # <<>>
  /\ \A k \in 1 .. Len(archive) : WellFormed(archive[k])
  /\ header \in Seq({Other} \cup 0 .. 9)
  /\ header = <<>> \/ header[1] = Other
  /\ cut \in Nat /\ cut <= Len(archive[Len(archive)].text)
  /\ limits \in Nat \X Nat

LEMMA CharsJoined ==
  \A s, t \in Seq(Chars) :
    /\ s \o t \in Seq(Chars) /\ Len(s \o t) = Len(s) + Len(t)
    /\ Len(s) \in Nat /\ Len(t) \in Nat
    /\ \A i \in 1 .. Len(s) + Len(t) :
         (s \o t)[i] = IF i <= Len(s) THEN s[i] ELSE t[i - Len(s)]
BY JoinedElements

\* What an archive holds, and what is on a line.
LEMMA ArchiveType ==
  ASSUME ArchiveInv
  PROVE  /\ Len(archive) \in Nat /\ Len(archive) # 0
         /\ \A k \in 1 .. Len(archive) :
              /\ archive[k] \in Messages /\ WellFormed(archive[k])
              /\ Len(archive[k].text) \in Nat /\ Len(archive[k].digits) \in Nat
         /\ Len(header) \in Nat /\ header \in Seq(Chars)
         /\ \A i \in 1 .. Len(header) : header[i] \in {Other} \cup 0 .. 9
         /\ Len(header) > 0 => header[1] = Other
<1>1. archive \in Seq(Messages) /\ archive # <<>> /\ header \in Seq({Other} \cup 0 .. 9)
  BY DEF ArchiveInv
<1>2. Len(archive) \in Nat /\ Len(archive) # 0  BY <1>1, LenProperties, EmptySeq
<1>3. ASSUME NEW k \in 1 .. Len(archive)
      PROVE  /\ archive[k] \in Messages /\ WellFormed(archive[k])
             /\ Len(archive[k].text) \in Nat /\ Len(archive[k].digits) \in Nat
  <2>1. archive[k] \in Messages  BY <1>1, ElementOfSeq
  <2>2. archive[k].text \in Seq(Chars) /\ archive[k].digits \in Seq(0 .. 9)
    BY <2>1 DEF Messages
  <2> QED  BY <2>1, <2>2, LenProperties DEF ArchiveInv
<1>4. Len(header) \in Nat /\ \A i \in 1 .. Len(header) : header[i] \in {Other} \cup 0 .. 9
  BY <1>1, LenProperties, ElementOfSeq
<1>5. header \in Seq(Chars)
  <2>1. {Other} \cup 0 .. 9 \subseteq Chars  BY DEF Chars
  <2> QED  BY <2>1, <1>1, SeqMonotonic
<1>6. Len(header) > 0 => header[1] = Other
  <2>1. header = <<>> => Len(header) = 0  BY EmptySeq
  <2> QED  BY <2>1 DEF ArchiveInv
<1> QED  BY <1>2, <1>3, <1>4, <1>5, <1>6

\* A message and the line in front of it, from the place behind p.
LineIn(file, p, m) ==
  LET d == Len(m.digits)
      h == Len(header)
  IN  /\ \A i \in 1 .. d : file[p + i] = m.digits[i]
      /\ \A i \in 1 .. h : file[p + d + i] = header[i]
      /\ file[p + d + h + 1] = NL

LEMMA LineOf ==
  ASSUME NEW m \in Messages, header \in Seq(Chars)
  PROVE  /\ Written(m) \in Seq(Chars)
         /\ Len(Written(m)) = Len(m.digits) + Len(header) + 1 + Len(m.text)
         /\ LineIn(Written(m), 0, m)
<1> DEFINE h == Len(header)
           d == Len(m.digits)
           l == Len(m.text)
           digits == m.digits
           text == m.text
           nl == <<NL>>
           a == digits \o header
           b == a \o nl
           c == b \o text
<1>1. nl \in Seq(Chars) /\ Len(nl) = 1 /\ nl[1] = NL
  BY DEF Chars
<1>2. digits \in Seq(Chars) /\ text \in Seq(Chars) /\ d \in Nat /\ h \in Nat /\ l \in Nat
  <2>1. digits \in Seq(0 .. 9) /\ text \in Seq(Chars)  BY DEF Messages
  <2>2. (0 .. 9) \subseteq Chars  BY DEF Chars
  <2>3. digits \in Seq(Chars)  BY <2>1, <2>2, SeqMonotonic
  <2> QED  BY <2>1, <2>3, LenProperties
<1>3. Len(digits) = d /\ Len(text) = l /\ Len(header) = h  OBVIOUS
<1>9. Written(m) = c  BY DEF Written
<1> HIDE DEF digits, text, nl, a, b, c, h, d, l
<1>4. /\ a \in Seq(Chars) /\ Len(a) = d + h
      /\ \A i \in 1 .. d + h : a[i] = IF i <= d THEN digits[i] ELSE header[i - d]
  <2>1. digits \in Seq(Chars) /\ header \in Seq(Chars)  BY <1>2
  <2>2. /\ a \in Seq(Chars) /\ Len(a) = Len(digits) + Len(header)
        /\ \A i \in 1 .. Len(digits) + Len(header) :
             a[i] = IF i <= Len(digits) THEN digits[i] ELSE header[i - Len(digits)]
    BY <2>1, CharsJoined DEF a
  <2> QED  BY <2>2, <1>3
<1>5. /\ b \in Seq(Chars) /\ Len(b) = d + h + 1
      /\ \A i \in 1 .. d + h + 1 : b[i] = IF i <= d + h THEN a[i] ELSE nl[i - (d + h)]
  <2>1. a \in Seq(Chars) /\ nl \in Seq(Chars)  BY <1>1, <1>4
  <2>2. /\ b \in Seq(Chars) /\ Len(b) = Len(a) + Len(nl)
        /\ \A i \in 1 .. Len(a) + Len(nl) : b[i] = IF i <= Len(a) THEN a[i] ELSE nl[i - Len(a)]
    BY <2>1, CharsJoined DEF b
  <2> QED  BY <2>2, <1>1, <1>4
<1>6. /\ c \in Seq(Chars) /\ Len(c) = d + h + 1 + l
      /\ \A i \in 1 .. d + h + 1 + l :
           c[i] = IF i <= d + h + 1 THEN b[i] ELSE text[i - (d + h + 1)]
  <2>1. b \in Seq(Chars) /\ text \in Seq(Chars)  BY <1>2, <1>5
  <2>2. /\ c \in Seq(Chars) /\ Len(c) = Len(b) + Len(text)
        /\ \A i \in 1 .. Len(b) + Len(text) :
             c[i] = IF i <= Len(b) THEN b[i] ELSE text[i - Len(b)]
    BY <2>1, CharsJoined DEF c
  <2> QED  BY <2>2, <1>3, <1>5
<1>7. ASSUME NEW i \in 1 .. d PROVE c[0 + i] = digits[i]
  <2>1. /\ i \in 1 .. d + h + 1 + l /\ i \in 1 .. d + h + 1 /\ i \in 1 .. d + h
        /\ i <= d + h /\ i <= d + h + 1 /\ i <= d /\ 0 + i = i
    BY <1>2
  <2> QED  BY <2>1, <1>4, <1>5, <1>6
<1>8. ASSUME NEW i \in 1 .. h PROVE c[0 + d + i] = header[i]
  <2> DEFINE j == 0 + d + i
  <2>1. /\ j \in 1 .. d + h + 1 + l /\ j \in 1 .. d + h + 1 /\ j \in 1 .. d + h
        /\ j <= d + h /\ j <= d + h + 1 /\ ~(j <= d) /\ j - d = i
    BY <1>2
  <2> HIDE DEF j
  <2>2. c[j] = b[j] /\ b[j] = a[j]  BY <2>1, <1>5, <1>6
  <2>3. a[j] = header[j - d]  BY <2>1, <1>4
  <2> QED  BY <2>1, <2>2, <2>3 DEF j
<1>10. c[0 + d + h + 1] = NL
  <2> DEFINE j == 0 + d + h + 1
  <2>1. j \in 1 .. d + h + 1 + l /\ j \in 1 .. d + h + 1
        /\ ~(j <= d + h) /\ j <= d + h + 1 /\ j - (d + h) = 1
    BY <1>2
  <2> HIDE DEF j
  <2>2. c[j] = b[j] /\ b[j] = nl[1]  BY <2>1, <1>5, <1>6
  <2> QED  BY <2>2, <1>1 DEF j
<1>11. LineIn(c, 0, m)
  BY <1>7, <1>8, <1>10 DEF LineIn, digits, d, h
<1> QED  BY <1>6, <1>9, <1>11 DEF d, h, l

\* Message k ends at o[k], and its line begins at o[k - 1].
LineAt(k, o) ==
  LET m == archive[k]
      line == Len(m.digits) + Len(header) + 1
  IN  /\ o[k - 1] \in Nat /\ o[k] = o[k - 1] + line + Len(m.text)
      /\ o[k] <= Len(WholeFile)
      /\ PlaceOf(k) = o[k - 1] + line
      /\ LineIn(WholeFile, o[k - 1], m)

\* The lines of the file end at o.
LinesAt(o) ==
  /\ o[0] = 0 /\ o[Len(archive)] = Len(WholeFile)
  /\ WholeFile \in Seq(Chars)
  /\ \A k \in 1 .. Len(archive) : LineAt(k, o)

\* A line stays the same within a longer text.
LEMMA LineWithin ==
  ASSUME NEW v, NEW whole, NEW p \in Nat, NEW m \in Messages, NEW l \in Nat,
         LineIn(v, 0, m), Len(header) \in Nat,
         Len(v) = Len(m.digits) + Len(header) + 1 + l,
         \A i \in 1 .. Len(v) : whole[p + i] = v[i]
  PROVE  LineIn(whole, p, m)
<1> DEFINE d == Len(m.digits)
           h == Len(header)
           n == Len(v)
<1>1. d \in Nat /\ h \in Nat /\ n = d + h + 1 + l
  <2>1. m.digits \in Seq(0 .. 9)  BY DEF Messages
  <2> QED  BY <2>1, LenProperties
<1>2. /\ \A i \in 1 .. d : v[0 + i] = m.digits[i]
      /\ \A i \in 1 .. h : v[0 + d + i] = header[i]
      /\ v[0 + d + h + 1] = NL
  BY DEF LineIn
<1>3. \A i \in 1 .. n : whole[p + i] = v[i]  OBVIOUS
<1> HIDE DEF d, h, n
<1>4. ASSUME NEW i \in 1 .. d PROVE whole[p + i] = m.digits[i]
  <2>1. i \in 1 .. n /\ 0 + i = i  BY <1>1
  <2> QED  BY <2>1, <1>2, <1>3
<1>5. ASSUME NEW i \in 1 .. h PROVE whole[p + d + i] = header[i]
  <2> DEFINE j == d + i
  <2>1. j \in 1 .. n /\ 0 + d + i = j /\ p + d + i = p + j  BY <1>1
  <2> HIDE DEF j
  <2>2. v[j] = header[i] /\ whole[p + j] = v[j]  BY <2>1, <1>2, <1>3
  <2> QED  BY <2>1, <2>2
<1>6. whole[p + d + h + 1] = NL
  <2> DEFINE j == d + h + 1
  <2>1. j \in 1 .. n /\ 0 + d + h + 1 = j /\ p + d + h + 1 = p + j  BY <1>1
  <2> HIDE DEF j
  <2>2. v[j] = NL /\ whole[p + j] = v[j]  BY <2>1, <1>2, <1>3
  <2> QED  BY <2>1, <2>2
<1> QED  BY <1>4, <1>5, <1>6 DEF LineIn, d, h

\* The file consists of such lines.
LEMMA LinesOfFile == ArchiveInv => \E o : LinesAt(o)
<1> SUFFICES ASSUME ArchiveInv PROVE \E o : LinesAt(o)
  OBVIOUS
<1> DEFINE n == Len(archive)
           h == Len(header)
           w == [i \in 1 .. n |-> Written(archive[i])]
<1>1. /\ n \in Nat /\ n # 0 /\ h \in Nat
      /\ \A k \in 1 .. n : /\ archive[k] \in Messages
                           /\ Len(archive[k].text) \in Nat /\ Len(archive[k].digits) \in Nat
      /\ header \in Seq(Chars)
  BY ArchiveType
<1>2. \A k \in 1 .. n :
        /\ Written(archive[k]) \in Seq(Chars)
        /\ Len(Written(archive[k])) = Len(archive[k].digits) + h + 1 + Len(archive[k].text)
        /\ LineIn(Written(archive[k]), 0, archive[k])
  BY <1>1, LineOf
<1>3. w \in Seq(Seq(Chars)) /\ Len(w) = n /\ \A k \in 1 .. n : w[k] = Written(archive[k])
  <2>1. w \in [1 .. n -> Seq(Chars)]  BY <1>2
  <2> QED  BY <2>1, <1>1
<1>4. \A k \in 0 .. n : First(w, k) = [i \in 1 .. k |-> Written(archive[i])]
  BY <1>1 DEF First
<1> HIDE DEF n, w, h
<1>5. PICK f : Joins(f, w)  BY <1>3, JoinsExist
<1>6. \A k \in 0 .. n : FlattenSeq([i \in 1 .. k |-> Written(archive[i])]) = f[k]
  <2> TAKE k \in 0 .. n
  <2>1. FlattenSeq(First(w, k)) = f[k]  BY <1>3, <1>5, JoinedUpTo
  <2> QED  BY <2>1, <1>4
<1>7. WholeFile = f[n]
  <2>1. n \in 0 .. n  BY <1>1
  <2> QED  BY <2>1, <1>6 DEF WholeFile, n
<1>8. f[n] \in Seq(Chars) /\ f[0] = <<>> /\ Len(f[0]) = 0
  <2>1. n \in 0 .. n  BY <1>1
  <2> QED  BY <2>1, <1>3, <1>5, JoinsType, EmptySeq DEF Joins
<1> DEFINE o == [k \in 0 .. n |-> Len(f[k])]
<1>9. ASSUME NEW k \in 1 .. n PROVE LineAt(k, o)
  <2> DEFINE before == f[k - 1]
             v == w[k]
             all == f[n]
             d == Len(archive[k].digits)
             l == Len(archive[k].text)
             p == Len(before)
  <2>1. /\ p \in Nat /\ Len(f[k]) = p + Len(v)
        /\ Len(f[k]) <= Len(all)
        /\ \A i \in 1 .. Len(v) : all[p + i] = v[i]
    <3>1. k \in 1 .. Len(w) /\ w \in Seq(Seq(Chars)) /\ Len(w) = n  BY <1>3
    <3>2. Stands(f, w, k)  BY <3>1, <1>5, StandsAt, Zenon
    <3> QED  BY <3>1, <3>2 DEF Stands
  <2>2. o[k] = Len(f[k]) /\ o[k - 1] = p  BY <1>1
  <2>3. Len(v) = d + h + 1 + l /\ LineIn(v, 0, archive[k]) /\ d \in Nat /\ l \in Nat
        /\ archive[k] \in Messages
    BY <1>1, <1>2, <1>3
  <2>4. PlaceOf(k) = p + Len(v) - l
    <3>1. k - 1 \in 0 .. n  BY <1>1
    <3>2. FlattenSeq([i \in 1 .. k - 1 |-> Written(archive[i])]) = f[k - 1]
      BY <3>1, <1>6
    <3> QED  BY <3>2, <1>3 DEF PlaceOf
  <2>5. LineIn(all, p, archive[k])
    <3>1. Len(v) = Len(archive[k].digits) + Len(header) + 1 + l  BY <2>3 DEF h
    <3>2. Len(header) \in Nat  BY <1>1 DEF h
    <3> HIDE DEF v, all, l, p
    <3> QED  BY <2>1, <2>3, <3>1, <3>2, LineWithin
  <2> HIDE DEF before, v, all, o, d, l, p
  <2>6. PlaceOf(k) = o[k - 1] + (d + h + 1)  BY <1>1, <2>1, <2>2, <2>3, <2>4
  <2>7. o[k - 1] \in Nat /\ o[k] = o[k - 1] + (d + h + 1) + l
    BY <1>1, <2>1, <2>2, <2>3
  <2>8. o[k] <= Len(WholeFile)  BY <2>1, <2>2, <1>7 DEF all
  <2>9. LineIn(WholeFile, o[k - 1], archive[k])  BY <1>7, <2>2, <2>5 DEF all
  <2> QED  BY <2>6, <2>7, <2>8, <2>9 DEF LineAt, h, d, l
<1>10. o[0] = 0 /\ o[n] = Len(WholeFile)  BY <1>1, <1>7, <1>8
<1> HIDE DEF o
<1>11. LinesAt(o)  BY <1>7, <1>8, <1>9, <1>10 DEF LinesAt, n
<1> QED  BY <1>11

\* How long a line is, and where it ends.
LEMMA LineType ==
  ASSUME ArchiveInv, NEW o, LinesAt(o), NEW k \in 1 .. Len(archive)
  PROVE  LET line == Len(archive[k].digits) + Len(header) + 1
             size == Len(archive[k].text)
         IN  /\ line \in Nat /\ size \in Nat /\ o[k - 1] \in Nat /\ o[k] \in Nat
             /\ o[k] = o[k - 1] + line + size
             /\ LineIn(WholeFile, o[k - 1], archive[k])
<1> DEFINE d == Len(archive[k].digits)
           h == Len(header)
           l == Len(archive[k].text)
           p == o[k - 1]
<1>1. d \in Nat /\ h \in Nat /\ l \in Nat  BY ArchiveType
<1>2. p \in Nat /\ o[k] = p + (d + h + 1) + l /\ LineIn(WholeFile, p, archive[k])
  BY DEF LinesAt, LineAt
<1> HIDE DEF d, h, l, p
<1>3. d + h + 1 \in Nat /\ o[k] \in Nat  BY <1>1, <1>2
<1> QED  BY <1>1, <1>2, <1>3 DEF d, h, l, p

LEMMA PlacesGrow ==
  ASSUME ArchiveInv, NEW o, LinesAt(o), NEW k \in 0 .. Len(archive), NEW m \in k .. Len(archive)
  PROVE  o[k] \in Nat /\ o[m] \in Nat /\ o[k] <= o[m]
<1> DEFINE n == Len(archive)
           Good(d) == o[k + d] \in Nat /\ o[k] <= o[k + d]
           T == {d \in Nat : k + d <= n => Good(d)}
<1>1. n \in Nat  BY ArchiveType
<1>2. \A j \in 1 .. n : o[j - 1] \in Nat /\ o[j] \in Nat /\ o[j - 1] <= o[j]
  <2> TAKE j \in 1 .. n
  <2> DEFINE line == Len(archive[j].digits) + Len(header) + 1
             size == Len(archive[j].text)
  <2>1. line \in Nat /\ size \in Nat /\ o[j - 1] \in Nat /\ o[j] = o[j - 1] + line + size
    BY LineType
  <2> HIDE DEF line, size
  <2> QED  BY <2>1
<1> HIDE DEF n
<1>3. k \in Nat /\ k <= n /\ m <= n /\ m - k \in Nat  BY <1>1 DEF n
<1>4. o[k] \in Nat
  <2>1. CASE k = 0
    BY <2>1 DEF LinesAt
  <2>2. CASE k # 0
    <3>1. k \in 1 .. n  BY <2>2, <1>1, <1>3
    <3> QED  BY <3>1, <1>2
  <2> QED  BY <2>1, <2>2
<1>5. 0 \in T
  <2>1. k + 0 = k  BY <1>3
  <2> QED  BY <2>1, <1>4
<1>6. ASSUME NEW d \in T PROVE d + 1 \in T
  <2> SUFFICES ASSUME k + (d + 1) <= n PROVE Good(d + 1)
    OBVIOUS
  <2> DEFINE i == k + d
             j == k + (d + 1)
  <2>1. j \in 1 .. n /\ j - 1 = i /\ k + d <= n /\ d \in Nat  BY <1>1, <1>3
  <2>2. o[i] \in Nat /\ o[k] <= o[i]  BY <2>1
  <2> HIDE DEF i, j
  <2>3. o[j] \in Nat /\ o[i] <= o[j]  BY <2>1, <1>2
  <2>4. o[j] \in Nat /\ o[k] <= o[j]  BY <2>2, <2>3, <1>4
  <2> QED  BY <2>4 DEF j
<1>7. \A d \in 0 .. m - k : d \in T
  <2>1. T \in SUBSET Nat  OBVIOUS
  <2> HIDE DEF T
  <2> QED  BY <2>1, <1>3, <1>5, <1>6, Induction
<1> DEFINE d == m - k
<1>8. d \in 0 .. m - k /\ k + d = m  BY <1>3
<1>9. d \in T  BY <1>7, <1>8
<1> HIDE DEF d
<1>10. Good(d)  BY <1>3, <1>8, <1>9
<1> QED  BY <1>4, <1>8, <1>10

\* The lines are all there, and all messages but for the last.
LEMMA InFile ==
  ASSUME ArchiveInv, NEW o, LinesAt(o)
  PROVE  /\ File \in Seq(Chars) /\ Len(File) = o[Len(archive)] - cut /\ Len(File) \in Nat
         /\ \A i \in 1 .. Len(File) : File[i] = WholeFile[i]
         /\ \A k \in 1 .. Len(archive) :
              /\ o[k - 1] + (Len(archive[k].digits) + Len(header) + 1) <= Len(File)
              /\ k < Len(archive) => o[k] <= Len(File)
<1> DEFINE n == Len(archive)
           line(k) == Len(archive[k].digits) + Len(header) + 1
           whole == Len(WholeFile)
           size == Len(archive[n].text)
           last == n - 1
           e == line(n)
<1>1. /\ n \in Nat /\ n # 0 /\ n \in 1 .. n /\ last \in 0 .. n /\ n \in 0 .. n
      /\ cut \in Nat /\ cut <= size /\ size \in Nat
  BY ArchiveType DEF ArchiveInv
<1>2. WholeFile \in Seq(Chars) /\ whole = o[n] /\ whole \in Nat
  BY LenProperties DEF LinesAt
<1>3. e \in Nat /\ o[last] \in Nat /\ o[n] = o[last] + e + size
  BY <1>1, LineType
<1> DEFINE end == whole - cut
<1> HIDE DEF whole, size, e
<1>5. end \in Nat /\ o[last] + e <= end /\ end <= whole /\ end = o[n] - cut
  <2> DEFINE a == o[last]
             b == o[n]
  <2>1. /\ e \in Nat /\ a \in Nat /\ b = a + e + size /\ size \in Nat
        /\ cut \in Nat /\ cut <= size /\ whole = b
    BY <1>1, <1>2, <1>3
  <2> HIDE DEF a, b, n, last
  <2>2. end \in Nat /\ a + e <= end /\ end <= whole /\ end = b - cut
    BY <2>1
  <2> QED  BY <2>2 DEF a, b
<1>6. /\ File \in Seq(Chars) /\ Len(File) = end
      /\ \A i \in 1 .. end : File[i] = WholeFile[i]
  <2>1. File = SubSeq(WholeFile, 1, end)  BY DEF File, whole
  <2> HIDE DEF end
  <2>2. \A i \in 1 .. end : WholeFile[i] \in Chars
    <3> TAKE i \in 1 .. end
    <3>1. i \in 1 .. Len(WholeFile)  BY <1>2, <1>5 DEF whole
    <3> QED  BY <3>1, <1>2, ElementOfSeq
  <2>3. /\ SubSeq(WholeFile, 1, end) \in Seq(Chars)
        /\ Len(SubSeq(WholeFile, 1, end)) = IF 1 <= end THEN end - 1 + 1 ELSE 0
        /\ \A i \in 1 .. end - 1 + 1 : SubSeq(WholeFile, 1, end)[i] = WholeFile[1 + i - 1]
    BY <2>2, <1>5, SubSeqProperties
  <2>4. \A i \in 1 .. end : i \in 1 .. end - 1 + 1 /\ 1 + i - 1 = i  BY <1>5
  <2> QED  BY <2>1, <2>3, <2>4, <1>5
<1> HIDE DEF end
<1>7. ASSUME NEW k \in 1 .. n PROVE o[k - 1] + line(k) <= end /\ (k < n => o[k] <= end)
  <2>1. CASE k = n
    BY <2>1, <1>5 DEF e
  <2>2. CASE k # n
    <3>1. k \in 0 .. n /\ last \in k .. n  BY <2>2, <1>1
    <3>2. o[k] \in Nat /\ o[last] \in Nat /\ o[k] <= o[last]  BY <3>1, PlacesGrow DEF n
    <3> DEFINE s == Len(archive[k].text)
               a == o[last]
               b == o[k]
               c == o[k - 1]
               g == line(k)
    <3>3. c \in Nat /\ g \in Nat /\ s \in Nat /\ b = c + g + s
      BY LineType
    <3>4. a \in Nat /\ b \in Nat /\ b <= a /\ e \in Nat /\ end \in Nat /\ a + e <= end
      BY <3>2, <1>3, <1>5
    <3> HIDE DEF a, b, c, g, s, n, last
    <3>7. c + g <= end /\ b <= end  BY <3>3, <3>4
    <3> QED  BY <3>7 DEF b, c, g
  <2> QED  BY <2>1, <2>2
<1> QED  BY <1>5, <1>6, <1>7

\* skip stops at the first character that is not to be skipped.
LEMMA SkipTo ==
  ASSUME NEW file, Len(file) \in Nat, NEW p \in Nat, NEW q \in Nat, p <= q, q < Len(file), NEW S,
         \A i \in p + 1 .. q : file[i] \in S, file[q + 1] \notin S
  PROVE  Skip(file, p, S) = q
<1> DEFINE T == {i \in p .. Len(file) : i = Len(file) \/ file[i + 1] \notin S}
<1>1. T \in SUBSET Nat /\ q \in T  OBVIOUS
<1>2. ASSUME NEW i \in T PROVE q <= i
  <2> DEFINE j == i + 1
  <2>1. i < q => j \in p + 1 .. q /\ i # Len(file)  OBVIOUS
  <2>2. i = Len(file) \/ file[j] \notin S  OBVIOUS
  <2>3. i \in Nat  BY <1>1
  <2> HIDE DEF j, T
  <2> QED  BY <2>1, <2>2, <2>3
<1>3. Skip(file, p, S) = Min(T)  BY DEF Skip
<1> HIDE DEF T
<1>4. Min(T) \in T /\ Min(T) <= q  BY <1>1, LeastIsMin
<1>5. q <= Min(T) /\ Min(T) \in Nat  BY <1>1, <1>2, <1>4
<1> QED  BY <1>3, <1>4, <1>5

\* The digits of a number, from the place behind p.
Numbers(g, file, p, q) ==
  g = [k \in p .. q |-> IF k = p THEN 0 ELSE 10 * g[k - 1] + file[k]]

LEMMA NumberExists ==
  ASSUME NEW file, NEW p \in Nat, NEW n \in Nat
  PROVE  \E g : Numbers(g, file, p, p + n)
<1> DEFINE T == {i \in Nat : \E g : Numbers(g, file, p, p + i)}
<1>1. 0 \in T
  <2> DEFINE g == [k \in p .. p + 0 |-> 0]
  <2>1. \A k \in p .. p + 0 : k = p  OBVIOUS
  <2>2. Numbers(g, file, p, p + 0)  BY <2>1 DEF Numbers
  <2> HIDE DEF g
  <2> QED  BY <2>2
<1>2. ASSUME NEW i \in T PROVE i + 1 \in T
  <2>1. i \in Nat /\ \E g : Numbers(g, file, p, p + i)  OBVIOUS
  <2>2. PICK g : Numbers(g, file, p, p + i)  BY <2>1
  <2> DEFINE q == p + i
             r == p + (i + 1)
             next == 10 * g[q] + file[r]
             f == [k \in p .. r |-> IF k = r THEN next ELSE g[k]]
  <2>3. q \in Nat /\ r = q + 1 /\ p <= q /\ r # p /\ r - 1 = q  BY <2>1
  <2>4. \A k \in p .. q : g[k] = IF k = p THEN 0 ELSE 10 * g[k - 1] + file[k]
    <3>1. g = [k \in p .. q |-> IF k = p THEN 0 ELSE 10 * g[k - 1] + file[k]]
      BY <2>2 DEF Numbers
    <3> HIDE DEF q
    <3> QED  BY <3>1
  <2> HIDE DEF q, r, next
  <2>5. ASSUME NEW k \in p .. r
        PROVE  f[k] = IF k = p THEN 0 ELSE 10 * f[k - 1] + file[k]
    <3>1. CASE k = r
      <4>1. f[k] = next /\ f[k - 1] = g[q]  BY <3>1, <2>3
      <4> QED  BY <3>1, <4>1, <2>3 DEF next
    <3>2. CASE k # r
      <4>1. k \in p .. q /\ f[k] = g[k]  BY <3>2, <2>3
      <4>2. k # p => f[k - 1] = g[k - 1]  BY <4>1, <2>3
      <4> QED  BY <4>1, <4>2, <2>4
    <3> QED  BY <3>1, <3>2
  <2>6. Numbers(f, file, p, r)
    <3>1. f = [k \in p .. r |-> f[k]]  OBVIOUS
    <3> HIDE DEF f
    <3> QED  BY <3>1, <2>5 DEF Numbers
  <2> HIDE DEF f
  <2>7. i + 1 \in Nat  BY <2>1
  <2> QED  BY <2>6, <2>7 DEF r
<1>3. T \in SUBSET Nat  OBVIOUS
<1>4. n \in 0 .. n  OBVIOUS
<1>5. n \in T
  <2> HIDE DEF T
  <2> QED  BY <1>1, <1>2, <1>3, <1>4, Induction
<1> QED  BY <1>5

Holds(file, p, digits, n) == \A i \in 1 .. n : file[p + i] = digits[i]

\* Number reads the same digits as the same number, wherever they are.
LEMMA NumberMoves ==
  ASSUME NEW file, NEW digits, NEW p \in Nat, NEW n \in Nat,
         Holds(file, p, digits, n)
  PROVE  Number(file, p, p + n) = Number(digits, 0, n)
<1> DEFINE q == p + n
           f == CHOOSE g : Numbers(g, file, p, q)
           e == CHOOSE g : Numbers(g, digits, 0, n)
<1>1. Number(file, p, q) = f[q] /\ Number(digits, 0, n) = e[n]
  BY DEF Number, Numbers
<1>2. Numbers(f, file, p, q)
  <2>1. \E g : Numbers(g, file, p, q)  BY NumberExists
  <2> HIDE DEF q
  <2> QED  BY <2>1
<1>3. Numbers(e, digits, 0, n)
  <2>1. \E g : Numbers(g, digits, 0, 0 + n)  BY NumberExists
  <2>2. 0 + n = n  OBVIOUS
  <2> QED  BY <2>1, <2>2
<1> HIDE DEF f, e
<1>4. \A k \in p .. q : f[k] = IF k = p THEN 0 ELSE 10 * f[k - 1] + file[k]
  <2>1. f = [k \in p .. q |-> IF k = p THEN 0 ELSE 10 * f[k - 1] + file[k]]
    BY <1>2 DEF Numbers
  <2> HIDE DEF q
  <2> QED  BY <2>1
<1>5. \A k \in 0 .. n : e[k] = IF k = 0 THEN 0 ELSE 10 * e[k - 1] + digits[k]
  <2>1. e = [k \in 0 .. n |-> IF k = 0 THEN 0 ELSE 10 * e[k - 1] + digits[k]]
    BY <1>3 DEF Numbers
  <2> QED  BY <2>1
<1> DEFINE T == {i \in 0 .. n : f[p + i] = e[i]}
<1>6. 0 \in T
  <2>1. p + 0 = p /\ p \in p .. q /\ 0 \in 0 .. n  OBVIOUS
  <2> QED  BY <2>1, <1>4, <1>5
<1>7. ASSUME NEW i \in T, i < n PROVE i + 1 \in T
  <2> DEFINE j == i + 1
             k == p + j
  <2>1. /\ i \in Nat /\ f[p + i] = e[i] /\ j \in 1 .. n /\ j \in 0 .. n /\ j # 0 /\ j - 1 = i
        /\ k \in p .. q /\ k # p /\ k - 1 = p + i
    BY <1>7
  <2> HIDE DEF j, k
  <2>2. f[k] = 10 * f[p + i] + file[k] /\ e[j] = 10 * e[i] + digits[j]
    <3>1. f[k] = 10 * f[k - 1] + file[k]  BY <2>1, <1>4
    <3>2. e[j] = 10 * e[j - 1] + digits[j]  BY <2>1, <1>5
    <3> QED  BY <2>1, <3>1, <3>2
  <2>3. file[k] = digits[j]  BY <2>1 DEF k, Holds
  <2>4. f[k] = e[j]  BY <2>1, <2>2, <2>3
  <2> QED  BY <2>1, <2>4 DEF j, k
<1>8. T \in SUBSET Nat /\ n \in 0 .. n  OBVIOUS
<1>9. n \in T
  <2> HIDE DEF T
  <2> QED  BY <1>6, <1>7, <1>8, Induction
<1> QED  BY <1>1, <1>9

\* parse finds the size, the place and the end of a message.
LEMMA ParseLine ==
  ASSUME ArchiveInv, NEW o, LinesAt(o), NEW k \in 1 .. Len(archive)
  PROVE  Parse(File, o[k - 1]) =
           [size |-> Len(archive[k].text), addr |-> PlaceOf(k), pos |-> o[k]]
<1> DEFINE p == o[k - 1]
           digits == archive[k].digits
           d == Len(digits)
           h == Len(header)
           size == Len(archive[k].text)
           number == p + d
           blank == p + d + h
           l == Len(File)
           m == archive[k]
<1>1. /\ h \in Nat /\ d \in Nat /\ p \in Nat /\ size \in Nat
      /\ o[k] = p + (d + h + 1) + size /\ PlaceOf(k) = p + (d + h + 1)
      /\ LineIn(WholeFile, p, m)
  <2>1. h \in Nat /\ d \in Nat /\ size \in Nat  BY ArchiveType
  <2>2. LineAt(k, o)  BY DEF LinesAt
  <2> QED  BY <2>1, <2>2 DEF LineAt
<1>2. /\ l \in Nat /\ p + (d + h + 1) <= l
      /\ \A i \in 1 .. l : File[i] = WholeFile[i]
  BY InFile
<1>3. d <= MaxDigits /\ Number(digits, 0, d) = size
  BY ArchiveType DEF WellFormed
<1>4. /\ \A i \in 1 .. d : digits[i] \in 0 .. 9
      /\ \A i \in 1 .. h : header[i] \in {Other} \cup 0 .. 9
      /\ h > 0 => header[1] = Other
  <2>1. digits \in Seq(0 .. 9)  BY ArchiveType DEF Messages
  <2> QED  BY <2>1, ElementOfSeq, ArchiveType
<1>5. /\ \A i \in 1 .. d : WholeFile[p + i] = digits[i]
      /\ \A i \in 1 .. h : WholeFile[p + d + i] = header[i]
      /\ WholeFile[p + d + h + 1] = NL
  BY <1>1 DEF LineIn
<1> HIDE DEF p, digits, d, h, size, l, m
<1>6. ASSUME NEW i \in 1 .. d PROVE File[p + i] = digits[i]
  <2>1. p + i \in 1 .. l  BY <1>1, <1>2
  <2> QED  BY <2>1, <1>2, <1>5
<1>7. ASSUME NEW i \in 1 .. h PROVE File[number + i] = header[i]
  <2>1. number + i \in 1 .. l  BY <1>1, <1>2
  <2> QED  BY <2>1, <1>2, <1>5
<1>8. File[blank + 1] = NL
  <2>1. blank + 1 \in 1 .. l  BY <1>1, <1>2
  <2> QED  BY <2>1, <1>2, <1>5
<1>9. /\ number \in Nat /\ blank \in Nat /\ p <= number /\ number <= blank
      /\ number < l /\ blank < l /\ blank = number + h
  BY <1>1, <1>2
<1>10. Skip(File, p, 0 .. 9) = number
  <2> DEFINE S == 0 .. 9
  <2>1. \A i \in p + 1 .. number : File[i] \in S
    <3> TAKE i \in p + 1 .. number
    <3> DEFINE j == i - p
    <3>1. j \in 1 .. d /\ p + j = i  BY <1>1
    <3> HIDE DEF j
    <3>2. File[p + j] = digits[j] /\ digits[j] \in S  BY <3>1, <1>4, <1>6
    <3> QED  BY <3>1, <3>2
  <2>2. File[number + 1] \notin S
    <3>1. CASE h = 0
      <4>1. blank + 1 = number + 1  BY <3>1, <1>9
      <4> QED  BY <4>1, <1>8 DEF NL
    <3>2. CASE h # 0
      <4>1. 1 \in 1 .. h /\ h > 0  BY <3>2, <1>1
      <4> QED  BY <4>1, <1>4, <1>7 DEF Other
    <3> QED  BY <3>1, <3>2
  <2> HIDE DEF S, number, blank
  <2>3. Skip(File, p, S) = number  BY <2>1, <2>2, <1>1, <1>2, <1>9, SkipTo DEF l
  <2> QED  BY <2>3 DEF S
<1>11. Skip(File, number, (0 .. 9) \cup {Other}) = blank
  <2> DEFINE S == (0 .. 9) \cup {Other}
  <2>1. \A i \in number + 1 .. blank : File[i] \in S
    <3> TAKE i \in number + 1 .. blank
    <3> DEFINE j == i - number
    <3>1. j \in 1 .. h /\ number + j = i  BY <1>1, <1>9
    <3> HIDE DEF j, number
    <3>2. File[number + j] = header[j] /\ header[j] \in S  BY <3>1, <1>4, <1>7
    <3> QED  BY <3>1, <3>2
  <2>2. File[blank + 1] \notin S  BY <1>8 DEF NL, Other
  <2> HIDE DEF S, number, blank
  <2>3. Skip(File, number, S) = blank  BY <2>1, <2>2, <1>2, <1>9, SkipTo DEF l
  <2> QED  BY <2>3 DEF S
<1>12. Min({number, p + MaxDigits}) = number
  <2> DEFINE T == {number, p + MaxDigits}
  <2>1. T \in SUBSET Nat /\ T # {} /\ number \in T /\ \A i \in T : number <= i
    <3> DEFINE most == p + MaxDigits
    <3>1. most \in Nat /\ number \in Nat /\ number <= most  BY <1>1, <1>3, <1>9 DEF MaxDigits
    <3> HIDE DEF most, number
    <3>2. {number, most} \in SUBSET Nat /\ \A i \in {number, most} : number <= i  BY <3>1
    <3> QED  BY <3>2 DEF most
  <2> DEFINE min == Min(T)
  <2> HIDE DEF T, number
  <2>2. min \in T /\ min <= number  BY <2>1, LeastIsMin
  <2> HIDE DEF min
  <2>3. min \in Nat /\ min <= number /\ number <= min  BY <2>1, <2>2
  <2>4. min = number  BY <2>3, <1>9
  <2> QED  BY <2>4 DEF min, T
<1>13. Number(File, p, number) = size
  <2>1. Holds(File, p, digits, d)  BY <1>6 DEF Holds
  <2>2. p \in Nat /\ d \in Nat  BY <1>1
  <2>3. Number(File, p, p + d) = Number(digits, 0, d)
    <3> DEFINE file == File
               ds == digits
    <3> HIDE DEF file, ds, p, d
    <3>1. Holds(file, p, ds, d)  BY <2>1 DEF file, ds
    <3>2. Number(file, p, p + d) = Number(ds, 0, d)  BY <2>2, <3>1, NumberMoves
    <3> QED  BY <3>2 DEF file, ds
  <2> QED  BY <2>3, <1>3
<1>14. blank + 1 = p + (d + h + 1)
  BY <1>1
<1> HIDE DEF blank, number
<1>15. Parse(File, p) = [size |-> size, addr |-> blank + 1, pos |-> blank + 1 + size]
  BY <1>10, <1>11, <1>12, <1>13 DEF Parse
<1> QED  BY <1>1, <1>14, <1>15 DEF p, size
-----------------------------------------------------------------------------
(* The index. *)

\* What parse returns, and what a multimap keeps.
Entries == [size : Nat, addr : Nat]

Sorted(s) == \A i, j \in 1 .. Len(s) : i <= j => s[i].size <= s[j].size

\* A set of places that has no gap is as many of the first as it has places.
LEMMA FirstPlaces ==
  ASSUME NEW n \in Nat, NEW A \in SUBSET (1 .. n), \A i \in A : \A j \in 1 .. i : j \in A
  PROVE  Cardinality(A) \in 0 .. n /\ A = 1 .. Cardinality(A)
<1> DEFINE T == {m \in 0 .. n : m + 1 \notin A}
<1>1. T \in SUBSET Nat /\ n \in T  OBVIOUS
<1>2. PICK m \in T : \A i \in T : m <= i
  <2> HIDE DEF T
  <2> QED  BY <1>1, LeastElement
<1>3. m \in 0 .. n /\ m + 1 \notin A  OBVIOUS
<1>4. ASSUME NEW j \in 1 .. m PROVE j \in A
  <2> DEFINE i == j - 1
  <2>1. i \in 0 .. n /\ i + 1 = j /\ ~(m <= i)  BY <1>3
  <2>2. i \notin T  BY <2>1, <1>2
  <2>3. i + 1 \in A  BY <2>1, <2>2
  <2> QED  BY <2>1, <2>3
<1>5. ASSUME NEW j \in A PROVE j \in 1 .. m
  <2>1. j \in 1 .. n  OBVIOUS
  <2>2. ~(m < j)
    <3> SUFFICES ASSUME m < j PROVE FALSE
      OBVIOUS
    <3>1. m + 1 \in 1 .. j  BY <1>3, <2>1
    <3>2. m + 1 \in A  BY <3>1
    <3> QED  BY <3>2, <1>3
  <2> QED  BY <2>1, <2>2, <1>3
<1> HIDE DEF T
<1>6. A = 1 .. m  BY <1>4, <1>5
<1>7. Cardinality(1 .. m) = m
  <2>1. Cardinality(1 .. m) = IF 1 > m THEN 0 ELSE m - 1 + 1  BY <1>3, FS_Interval
  <2> QED  BY <2>1, <1>3
<1> QED  BY <1>3, <1>6, <1>7

\* The bounds are where the sizes pass the number.
LEMMA Bounds ==
  ASSUME NEW s \in Seq(Entries), Sorted(s), NEW n \in Nat
  PROVE  /\ LowerBound(s, n) \in 0 .. Len(s) /\ UpperBound(s, n) \in 0 .. Len(s)
         /\ \A i \in 1 .. Len(s) : /\ i <= LowerBound(s, n) <=> s[i].size < n
                                   /\ i <= UpperBound(s, n) <=> s[i].size <= n
<1> DEFINE len == Len(s)
           A == {i \in 1 .. len : s[i].size < n}
           B == {i \in 1 .. len : s[i].size <= n}
<1>1. len \in Nat /\ \A i \in 1 .. len : s[i].size \in Nat
  <2>1. \A i \in 1 .. len : s[i] \in Entries  BY ElementOfSeq
  <2> QED  BY <2>1, LenProperties DEF Entries
<1>2. \A i \in 1 .. len : \A j \in 1 .. i : j \in 1 .. len /\ s[j].size <= s[i].size
  BY <1>1 DEF Sorted
<1>3. \A i \in A : \A j \in 1 .. i : j \in A
  <2> TAKE i \in A
  <2> TAKE j \in 1 .. i
  <2>1. i \in 1 .. len /\ s[i].size < n /\ s[i].size \in Nat  BY <1>1
  <2>2. j \in 1 .. len /\ s[j].size <= s[i].size /\ s[j].size \in Nat  BY <2>1, <1>1, <1>2
  <2> QED  BY <2>1, <2>2
<1>4. \A i \in B : \A j \in 1 .. i : j \in B
  <2> TAKE i \in B
  <2> TAKE j \in 1 .. i
  <2>1. i \in 1 .. len /\ s[i].size <= n /\ s[i].size \in Nat  BY <1>1
  <2>2. j \in 1 .. len /\ s[j].size <= s[i].size /\ s[j].size \in Nat  BY <2>1, <1>1, <1>2
  <2> QED  BY <2>1, <2>2
<1>5. A \in SUBSET (1 .. len) /\ B \in SUBSET (1 .. len)  OBVIOUS
<1>6. \A i \in 1 .. len : (i \in A <=> s[i].size < n) /\ (i \in B <=> s[i].size <= n)
  OBVIOUS
<1>7. LowerBound(s, n) = Cardinality(A) /\ UpperBound(s, n) = Cardinality(B)
  BY DEF LowerBound, UpperBound
<1> HIDE DEF A, B, len
<1>8. Cardinality(A) \in 0 .. len /\ A = 1 .. Cardinality(A)
  BY <1>1, <1>3, <1>5, FirstPlaces
<1>9. Cardinality(B) \in 0 .. len /\ B = 1 .. Cardinality(B)
  BY <1>1, <1>4, <1>5, FirstPlaces
<1> DEFINE a == Cardinality(A)
           b == Cardinality(B)
<1>10. a \in 0 .. len /\ A = 1 .. a /\ b \in 0 .. len /\ B = 1 .. b  BY <1>8, <1>9
<1> HIDE DEF a, b
<1>11. \A i \in 1 .. len : (i <= a <=> i \in A) /\ (i <= b <=> i \in B)
  BY <1>1, <1>10
<1>12. LowerBound(s, n) = a /\ UpperBound(s, n) = b  BY <1>7 DEF a, b
<1> QED  BY <1>6, <1>10, <1>11, <1>12 DEF len

\* t is s with e behind the first k.
Inserted(t, s, k, e) ==
  /\ Len(t) = Len(s) + 1
  /\ \A i \in 1 .. k : t[i] = s[i]
  /\ t[k + 1] = e
  /\ \A i \in k + 1 .. Len(s) : t[i + 1] = s[i]

LEMMA InsertedAt ==
  ASSUME NEW S, NEW s \in Seq(S), NEW k \in 0 .. Len(s), NEW e \in S
  PROVE  LET t == InsertAt(s, k + 1, e)
         IN  t \in Seq(S) /\ Inserted(t, s, k, e)
<1> DEFINE n == Len(s)
           a == SubSeq(s, 1, k)
           one == <<e>>
           c == SubSeq(s, k + 1, n)
           b == a \o one
           t == b \o c
<1>1. n \in Nat /\ k \in Nat /\ k <= n /\ \A i \in 1 .. n : s[i] \in S
  BY LenProperties
<1>2. InsertAt(s, k + 1, e) = t
  <2> DEFINE i == k + 1
  <2>1. InsertAt(s, i, e) = (SubSeq(s, 1, i - 1) \o <<e>>) \o SubSeq(s, i, Len(s))
    BY Zenon DEF InsertAt
  <2>2. i - 1 = k  BY <1>1
  <2> HIDE DEF i
  <2>3. InsertAt(s, i, e) = (SubSeq(s, 1, k) \o <<e>>) \o SubSeq(s, i, Len(s))
    BY <2>1, <2>2, Zenon
  <2> QED  BY <2>3, Zenon DEF i
<1>3. a \in Seq(S) /\ Len(a) = k /\ \A i \in 1 .. k : a[i] = s[i]
  <2>1. /\ SubSeq(s, 1, k) \in Seq(S)
        /\ Len(SubSeq(s, 1, k)) = IF 1 <= k THEN k - 1 + 1 ELSE 0
        /\ \A i \in 1 .. k - 1 + 1 : SubSeq(s, 1, k)[i] = s[1 + i - 1]
    <3>1. \A i \in 1 .. k : s[i] \in S  BY <1>1
    <3> QED  BY <3>1, <1>1, SubSeqProperties
  <2>2. \A i \in 1 .. k : i \in 1 .. k - 1 + 1 /\ 1 + i - 1 = i  BY <1>1
  <2> QED  BY <2>1, <2>2, <1>1
<1>4. c \in Seq(S) /\ Len(c) = n - k /\ \A i \in 1 .. n - k : c[i] = s[k + i]
  <2> DEFINE m == k + 1
  <2>1. m \in Int /\ n \in Int /\ m <= n + 1 /\ \A i \in m .. n : s[i] \in S  BY <1>1
  <2>2. \A i \in 1 .. n - k : i \in 1 .. n - m + 1 /\ m + i - 1 = k + i  BY <1>1
  <2>3. (IF m <= n THEN n - m + 1 ELSE 0) = n - k  BY <1>1
  <2> HIDE DEF m
  <2>4. /\ SubSeq(s, m, n) \in Seq(S)
        /\ Len(SubSeq(s, m, n)) = IF m <= n THEN n - m + 1 ELSE 0
        /\ \A i \in 1 .. n - m + 1 : SubSeq(s, m, n)[i] = s[m + i - 1]
    BY <2>1, SubSeqProperties
  <2>5. c = SubSeq(s, m, n)  BY DEF m
  <2> HIDE DEF c
  <2> QED  BY <2>2, <2>3, <2>4, <2>5
<1>5. one \in Seq(S) /\ Len(one) = 1 /\ one[1] = e  OBVIOUS
<1> HIDE DEF a, one, c, b, t, n
<1>6. /\ b \in Seq(S) /\ Len(b) = k + 1
      /\ \A i \in 1 .. k + 1 : b[i] = IF i <= k THEN a[i] ELSE one[i - k]
  <2>1. a \in Seq(S) /\ one \in Seq(S)  BY <1>3, <1>5
  <2>2. /\ a \o one \in Seq(S) /\ Len(a \o one) = Len(a) + Len(one)
        /\ \A i \in 1 .. Len(a) + Len(one) :
             (a \o one)[i] = IF i <= Len(a) THEN a[i] ELSE one[i - Len(a)]
    BY <2>1, JoinedElements
  <2>3. Len(a) = k /\ Len(one) = 1  BY <1>3, <1>5
  <2>4. b = a \o one  BY DEF b
  <2> QED  BY <2>2, <2>3, <2>4
<1>7. /\ t \in Seq(S) /\ Len(t) = Len(b) + Len(c)
      /\ \A i \in 1 .. Len(b) + Len(c) : t[i] = IF i <= Len(b) THEN b[i] ELSE c[i - Len(b)]
  BY <1>4, <1>6, JoinedElements DEF t
<1>8. Len(t) = n + 1  BY <1>1, <1>4, <1>6, <1>7
<1>9. ASSUME NEW i \in 1 .. k PROVE t[i] = s[i]
  <2>1. i \in 1 .. Len(b) + Len(c) /\ i <= Len(b) /\ i \in 1 .. k + 1 /\ i <= k
    BY <1>1, <1>4, <1>6
  <2> QED  BY <2>1, <1>3, <1>6, <1>7
<1>10. t[k + 1] = e
  <2> DEFINE j == k + 1
  <2>1. j \in 1 .. Len(b) + Len(c) /\ j <= Len(b) /\ j \in 1 .. k + 1 /\ ~(j <= k) /\ j - k = 1
    BY <1>1, <1>4, <1>6
  <2> HIDE DEF j
  <2>2. t[j] = b[j] /\ b[j] = one[1]  BY <2>1, <1>6, <1>7
  <2> QED  BY <2>2, <1>5 DEF j
<1>11. ASSUME NEW i \in k + 1 .. n PROVE t[i + 1] = s[i]
  <2> DEFINE j == i + 1
             d == i - k
  <2>1. /\ j \in 1 .. Len(b) + Len(c) /\ ~(j <= Len(b)) /\ j - Len(b) = d
        /\ d \in 1 .. n - k /\ k + d = i
    BY <1>1, <1>4, <1>6
  <2> HIDE DEF j, d
  <2>2. t[j] = c[d] /\ c[d] = s[k + d]  BY <2>1, <1>4, <1>7
  <2> QED  BY <2>1, <2>2 DEF j
<1> QED  BY <1>2, <1>7, <1>8, <1>9, <1>10, <1>11 DEF n, Inserted

\* A multimap of sizes stays sorted and has one entry more.
LEMMA EmplacedOne ==
  ASSUME NEW s \in Seq(Entries), Sorted(s), NEW m, m.size \in Nat, m.addr \in Nat
  PROVE  LET t == Emplaced(s, m)
         IN  /\ t \in Seq(Entries) /\ Sorted(t) /\ Len(t) = Len(s) + 1
             /\ Range(t) = Range(s) \cup {[size |-> m.size, addr |-> m.addr]}
<1> DEFINE n == Len(s)
           e == [size |-> m.size, addr |-> m.addr]
           k == UpperBound(s, m.size)
           t == InsertAt(s, k + 1, e)
<1>1. e \in Entries /\ e.size = m.size  BY DEF Entries
<1>2. /\ n \in Nat /\ DOMAIN s = 1 .. n
      /\ \A i \in 1 .. n : s[i] \in Entries /\ s[i].size \in Nat
  <2>1. \A i \in 1 .. n : s[i] \in Entries  BY ElementOfSeq
  <2> QED  BY <2>1, LenProperties DEF Entries
<1>3. k \in 0 .. n /\ \A i \in 1 .. n : i <= k <=> s[i].size <= m.size  BY Bounds
<1>4. Emplaced(s, m) = t  BY DEF Emplaced, UpperBound
<1> HIDE DEF e, k
<1>5. /\ t \in Seq(Entries) /\ Len(t) = n + 1
      /\ \A i \in 1 .. k : t[i] = s[i]
      /\ t[k + 1] = e
      /\ \A i \in k + 1 .. n : t[i + 1] = s[i]
  <2>1. k \in 0 .. Len(s)  BY <1>3
  <2>2. t \in Seq(Entries) /\ Inserted(t, s, k, e)  BY <1>1, <2>1, InsertedAt, Zenon
  <2> QED  BY <2>2 DEF Inserted
<1> HIDE DEF t, n
<1>6. DOMAIN t = 1 .. n + 1  BY <1>5, LenProperties
<1> DEFINE j == k + 1
<1>7. j \in 1 .. n + 1 /\ t[j] = e /\ k \in Nat /\ k <= n /\ j = k + 1  BY <1>2, <1>3, <1>5
<1> HIDE DEF j
<1>8. ASSUME NEW i \in 1 .. n + 1, i > j PROVE i - 1 \in 1 .. n /\ i - 1 > k /\ t[i] = s[i - 1]
  <2> DEFINE d == i - 1
  <2>1. d \in k + 1 .. n /\ d + 1 = i /\ d \in 1 .. n /\ d > k  BY <1>2, <1>7, <1>8
  <2> HIDE DEF d
  <2>2. t[d + 1] = s[d]  BY <2>1, <1>5
  <2> QED  BY <2>1, <2>2 DEF d
<1>9. ASSUME NEW i \in 1 .. n + 1, i < j PROVE i \in 1 .. n /\ i <= k /\ t[i] = s[i]
  <2>1. i \in 1 .. k /\ i \in 1 .. n /\ i <= k  BY <1>2, <1>7, <1>9
  <2> QED  BY <2>1, <1>5
<1>10. Range(t) = Range(s) \cup {e}
  <2>1. ASSUME NEW i \in 1 .. n + 1 PROVE t[i] \in Range(s) \cup {e}
    <3>1. CASE i = j
      BY <3>1, <1>7
    <3>2. CASE i > j
      BY <3>2, <1>8, <1>2 DEF Range
    <3>3. CASE i < j
      BY <3>3, <1>9, <1>2 DEF Range
    <3> QED  BY <3>1, <3>2, <3>3, <1>7
  <2>2. ASSUME NEW i \in 1 .. n PROVE s[i] \in Range(t)
    <3>1. CASE i <= k
      <4>1. i \in 1 .. k /\ i \in 1 .. n + 1  BY <3>1, <1>2, <1>7
      <4>2. t[i] = s[i]  BY <4>1, <1>5
      <4> QED  BY <4>1, <4>2, <1>6 DEF Range
    <3>2. CASE ~(i <= k)
      <4> DEFINE d == i + 1
      <4>1. i \in k + 1 .. n /\ d \in 1 .. n + 1  BY <3>2, <1>2, <1>7
      <4>2. t[d] = s[i]  BY <4>1, <1>5
      <4> HIDE DEF d
      <4> QED  BY <4>1, <4>2, <1>6 DEF Range
    <3> QED  BY <3>1, <3>2
  <2>3. e \in Range(t)  BY <1>6, <1>7 DEF Range
  <2>4. Range(t) = {t[i] : i \in 1 .. n + 1} /\ Range(s) = {s[i] : i \in 1 .. n}
    BY <1>2, <1>6 DEF Range
  <2> QED  BY <2>1, <2>2, <2>3, <2>4
<1>11. \A i \in 1 .. n : (i <= k => s[i].size <= e.size) /\ (i > k => e.size <= s[i].size)
  BY <1>1, <1>2, <1>3, <1>7
<1>12. ASSUME NEW p \in 1 .. n + 1, NEW q \in 1 .. n + 1, p <= q PROVE t[p].size <= t[q].size
  <2>1. \A i, l \in 1 .. n : i <= l => s[i].size <= s[l].size  BY DEF Sorted, n
  <2>2. e.size <= e.size  BY <1>1
  <2>3. CASE q < j
    <3>1. p < j  BY <2>3, <1>7, <1>12
    <3>2. p \in 1 .. n /\ q \in 1 .. n /\ t[p] = s[p] /\ t[q] = s[q]  BY <2>3, <3>1, <1>9
    <3> QED  BY <3>2, <2>1, <1>12
  <2>4. CASE q = j /\ p < j
    BY <2>4, <1>7, <1>9, <1>11
  <2>5. CASE q = j /\ p = j
    BY <2>5, <1>7, <2>2
  <2>6. CASE q > j /\ p < j
    <3> DEFINE d == q - 1
    <3>1. d \in 1 .. n /\ d > k /\ t[q] = s[d]  BY <2>6, <1>8
    <3>2. p \in 1 .. n /\ p <= k /\ t[p] = s[p]  BY <2>6, <1>9
    <3>3. p <= d  BY <3>1, <3>2, <1>7
    <3> HIDE DEF d
    <3> QED  BY <3>1, <3>2, <3>3, <2>1
  <2>7. CASE q > j /\ p = j
    <3> DEFINE d == q - 1
    <3>1. d \in 1 .. n /\ d > k /\ t[q] = s[d]  BY <2>7, <1>8
    <3> HIDE DEF d
    <3> QED  BY <3>1, <2>7, <1>7, <1>11
  <2>8. CASE q > j /\ p > j
    <3> DEFINE d == q - 1
               c == p - 1
    <3>1. d \in 1 .. n /\ t[q] = s[d] /\ c \in 1 .. n /\ t[p] = s[c]  BY <2>8, <1>8
    <3>2. c <= d  BY <1>12
    <3> HIDE DEF c, d
    <3> QED  BY <3>1, <3>2, <2>1
  <2> QED  BY <2>3, <2>4, <2>5, <2>6, <2>7, <2>8, <1>7, <1>12
<1>13. Sorted(t)  BY <1>5, <1>12 DEF Sorted
<1> QED  BY <1>4, <1>5, <1>10, <1>13 DEF n, e
-----------------------------------------------------------------------------
(* The invariant of the index and the generators. *)

\* What the index should have, and what a client should be sent.
Entry(k) == [size |-> Len(archive[k].text), addr |-> PlaceOf(k)]

All == {Entry(k) : k \in 1 .. Len(archive)}

Wanted == {m \in All : m.size >= limits[1] /\ (limits[2] = 0 \/ m.size <= limits[2])}

\* Where message k ends.
EndOf(k) == IF k = 0 THEN 0 ELSE PlaceOf(k) + Len(archive[k].text)

\* The index has the messages in front of the place that was reached, by size.
IndexInv ==
  /\ index \in Seq(Entries) /\ Sorted(index) /\ Len(index) <= Len(archive)
  /\ pos = EndOf(Len(index))
  /\ Range(index) = {Entry(k) : k \in 1 .. Len(index)}

\* Which entry a generator gave d messages before the one it gives next.
Before(i, d, n) == IF d < i THEN i - d ELSE i - d + n

After(i, n) == IF i = n THEN 1 ELSE i + 1

\* Of n that are taken one after the other none is taken twice.
InTurn(t, n) == \A i, j \in 1 .. Len(t) : i < j /\ j < i + n => t[i] # t[j]

\* The last that were taken are those the generator gave.
LastTaken(t, s, i, n) ==
  \A d \in 1 .. n : d <= Len(t) => t[Len(t) + 1 - d] = s[Before(i, d, n)]

Distinct(s, n) == \A i, j \in 1 .. n : i # j => s[i] # s[j]

Generators == [shuffled : Seq(Entries), i : Nat]

\* The next that a generator gives is the one not taken for longest.
ClientInv(c) ==
  LET s == gen[c].shuffled
      n == Cardinality(Wanted)
      t == taken[c]
  IN  /\ s \in SetToSeqs(Wanted) /\ n \in Nat /\ gen[c].i \in 1 .. n
      /\ t \in Seq(Wanted) /\ InTurn(t, n) /\ LastTaken(t, s, gen[c].i, n)

RunInv ==
  /\ gen \in [Clients -> Generators]
  /\ IF stage = "running"
     THEN Len(index) = Len(archive) /\ \A c \in Clients : ClientInv(c)
     ELSE taken = [c \in Clients |-> <<>>]

\* The inductive invariant of the index and the generators.
LoadInv ==
  /\ DOMAIN taken = Clients
  /\ ArchiveInv /\ IndexInv /\ RunInv

LEMMA EndsThere ==
  ASSUME ArchiveInv, NEW o, LinesAt(o), NEW k \in 0 .. Len(archive)
  PROVE  EndOf(k) = o[k]
<1>1. CASE k = 0
  BY <1>1 DEF EndOf, LinesAt
<1>2. CASE k # 0
  <2>1. k \in 1 .. Len(archive)  BY <1>2, ArchiveType
  <2>2. LineAt(k, o)  BY <2>1 DEF LinesAt
  <2> DEFINE a == o[k - 1]
             b == o[k]
             l == Len(archive[k].text)
             line == Len(archive[k].digits) + Len(header) + 1
  <2>3. line \in Nat /\ l \in Nat /\ a \in Nat /\ b = a + line + l
    BY <2>1, LineType
  <2>4. PlaceOf(k) = a + line /\ EndOf(k) = PlaceOf(k) + l
    BY <1>2, <2>2 DEF EndOf, LineAt
  <2> HIDE DEF a, b, l, line
  <2>5. EndOf(k) = b  BY <2>3, <2>4
  <2> QED  BY <2>5 DEF b
<1> QED  BY <1>1, <1>2

\* An entry is a message, and its end is the end of the message.
LEMMA EntryType ==
  ASSUME ArchiveInv, NEW k \in 1 .. Len(archive)
  PROVE  /\ Entry(k) \in Entries /\ Entry(k).size = Len(archive[k].text)
         /\ Entry(k).size \in Nat /\ Entry(k).addr \in Nat
         /\ Entry(k).addr + Entry(k).size = EndOf(k)
<1>1. PICK o : LinesAt(o)  BY LinesOfFile
<1>2. LineAt(k, o) /\ Len(archive[k].text) \in Nat  BY <1>1, ArchiveType DEF LinesAt
<1>3. PlaceOf(k) \in Nat
  <2> DEFINE a == o[k - 1]
             line == Len(archive[k].digits) + Len(header) + 1
  <2>1. line \in Nat /\ a \in Nat  BY <1>1, LineType
  <2>2. PlaceOf(k) = a + line  BY <1>2 DEF LineAt
  <2> HIDE DEF a, line
  <2> QED  BY <2>1, <2>2
<1>4. k # 0  OBVIOUS
<1> QED  BY <1>2, <1>3, <1>4 DEF Entry, EndOf, Entries

\* What is behind the end of the file is in the last message.
LEMMA EndsInFile ==
  ASSUME ArchiveInv, NEW k \in 0 .. Len(archive)
  PROVE  LET n == Len(archive)
         IN  /\ EndOf(k) \in Nat /\ Len(File) \in Nat
             /\ k < n => EndOf(k) < Len(File)
             /\ EndOf(n) = Len(File) + cut
<1>1. PICK o : LinesAt(o)  BY LinesOfFile
<1> DEFINE n == Len(archive)
           l == Len(File)
<1>2. n \in Nat /\ n > 0 /\ cut \in Nat  BY ArchiveType DEF ArchiveInv
<1>3. o[k] \in Nat /\ o[n] \in Nat
  <2>1. k \in 0 .. n /\ n \in k .. n  BY <1>2
  <2> QED  BY <1>1, <2>1, PlacesGrow
<1>4. l = o[n] - cut /\ l \in Nat  BY <1>1, InFile
<1>5. EndOf(k) = o[k] /\ EndOf(n) = o[n]
  <2>1. n \in 0 .. n  BY <1>2
  <2> QED  BY <1>1, <2>1, EndsThere
<1>6. ASSUME k < n PROVE o[k] < l
  <2> DEFINE j == k + 1
             line == Len(archive[j].digits) + Len(header) + 1
  <2>1. j \in 1 .. n /\ j - 1 = k  BY <1>2, <1>6
  <2>2. line \in Nat /\ line > 0
    <3>1. Len(archive[j].digits) \in Nat /\ Len(header) \in Nat  BY <2>1, ArchiveType
    <3> QED  BY <3>1
  <2> HIDE DEF j
  <2>3. o[j - 1] + line <= l  BY <1>1, <2>1, InFile
  <2> HIDE DEF line
  <2> QED  BY <1>3, <1>4, <2>1, <2>2, <2>3
<1> HIDE DEF l
<1>7. o[n] = l + cut  BY <1>2, <1>3, <1>4
<1> QED  BY <1>3, <1>4, <1>5, <1>6, <1>7 DEF l

\* Init.
LEMMA InitSound == Init => LoadInv
<1> SUFFICES ASSUME Init PROVE LoadInv
  OBVIOUS
<1>1. ArchiveInv
  <2>1. archive \in Archives /\ header \in Headers /\ cut \in 0 .. MaxCut /\ limits \in Limits
        /\ cut <= Len(archive[Len(archive)].text)
    BY DEF Init
  <2>2. /\ archive \in Seq(Messages) /\ archive # <<>>
        /\ \A k \in 1 .. Len(archive) : WellFormed(archive[k])
    BY <2>1, ArchivesAssumption
  <2>3. /\ header \in Seq({Other} \cup 0 .. 9) /\ (header = <<>> \/ header[1] = Other)
        /\ limits \in Nat \X Nat
    BY <2>1, ArchivesAssumption
  <2>4. cut \in Nat
    BY <2>1, LoadBounds
  <2> QED  BY <2>1, <2>2, <2>3, <2>4 DEF ArchiveInv
<1>2. IndexInv
  <2>1. index = <<>> /\ pos = 0  BY DEF Init
  <2>2. index \in Seq(Entries) /\ Len(index) = 0 /\ DOMAIN index = {}
    BY <2>1
  <2>3. Sorted(index)  BY <2>2 DEF Sorted
  <2>4. Len(archive) \in Nat  BY <1>1, LenProperties DEF ArchiveInv
  <2>5. pos = EndOf(Len(index))  BY <2>1, <2>2 DEF EndOf
  <2>6. Range(index) = {} /\ {Entry(k) : k \in 1 .. Len(index)} = {}  BY <2>2 DEF Range
  <2> QED  BY <2>2, <2>3, <2>4, <2>5, <2>6 DEF IndexInv
<1>3. RunInv /\ DOMAIN taken = Clients
  <2>1. NoGenerator \in Generators
    BY DEF NoGenerator, NewGenerator, Generators
  <2>2. /\ gen = [c \in Clients |-> NoGenerator] /\ stage = "opening"
        /\ taken = [c \in Clients |-> <<>>]
    BY DEF Init
  <2>3. gen \in [Clients -> Generators]  BY <2>1, <2>2
  <2>4. stage # "running"  BY <2>2
  <2> QED  BY <2>2, <2>3, <2>4 DEF RunInv
<1> QED  BY <1>1, <1>2, <1>3 DEF LoadInv

\* What is said of an archive says the same while it stays.
LEMMA SameArchive ==
  ASSUME UNCHANGED <<archive, header, cut, limits>>
  PROVE  /\ ArchiveInv' = ArchiveInv /\ All' = All /\ Wanted' = Wanted
         /\ \A k : EndOf(k)' = EndOf(k) /\ Entry(k)' = Entry(k)
         /\ Len(archive)' = Len(archive)
<1>1. \A k : PlaceOf(k)' = PlaceOf(k)  BY DEF PlaceOf, Written
<1>2. \A k : EndOf(k)' = EndOf(k) /\ Entry(k)' = Entry(k)  BY <1>1 DEF EndOf, Entry
<1>3. All' = All  BY <1>2 DEF All
<1>4. Wanted' = Wanted  BY <1>3 DEF Wanted
<1>5. ArchiveInv' = ArchiveInv  BY DEF ArchiveInv
<1> QED  BY <1>2, <1>3, <1>4, <1>5

LEMMA SameRun ==
  ASSUME RunInv, UNCHANGED <<archive, header, cut, limits, gen, taken, stage>>,
         stage = "running" => UNCHANGED index
  PROVE  RunInv'
<1>1. Wanted' = Wanted /\ Len(archive)' = Len(archive)  BY SameArchive
<1>2. \A c : ClientInv(c)' = ClientInv(c)  BY <1>1 DEF ClientInv
<1> QED  BY <1>1, <1>2 DEF RunInv

LEMMA IndexStays ==
  ASSUME IndexInv, UNCHANGED <<archive, header, cut, limits, pos, index>>
  PROVE  IndexInv'
<1>1. /\ \A k : EndOf(k)' = EndOf(k) /\ Entry(k)' = Entry(k)
      /\ Len(archive)' = Len(archive)
  BY SameArchive
<1>2. (EndOf(Len(index)))' = EndOf(Len(index))  BY DEF EndOf, PlaceOf, Written
<1>3. {Entry(i) : i \in 1 .. Len(index)}' = {Entry(i) : i \in 1 .. Len(index)}
  BY <1>1
<1> QED  BY <1>1, <1>2, <1>3 DEF IndexInv

\* IndexMessage: the entry of the next message is put into the index.
LEMMA IndexMessageKeeps == LoadInv /\ IndexMessage => LoadInv'
<1> SUFFICES ASSUME LoadInv, IndexMessage PROVE LoadInv'
  OBVIOUS
<1>1. ArchiveInv /\ IndexInv /\ RunInv /\ DOMAIN taken = Clients  BY DEF LoadInv
<1>2. /\ stage = "opening" /\ pos < Len(File)
      /\ pos' = Parse(File, pos).pos /\ index' = Emplaced(index, Parse(File, pos))
      /\ UNCHANGED <<archive, header, cut, limits, gen, taken, stage>>
  BY DEF IndexMessage, runVars
<1> DEFINE n == Len(archive)
           k == Len(index)
           j == k + 1
           m == Parse(File, pos)
<1>3. index \in Seq(Entries) /\ Sorted(index) /\ k <= n /\ pos = EndOf(k)
      /\ Range(index) = {Entry(i) : i \in 1 .. k}
  BY <1>1 DEF IndexInv
<1>4. n \in Nat /\ k \in Nat /\ k \in 0 .. n
  <2>1. n \in Nat  BY <1>1, LenProperties DEF ArchiveInv
  <2>2. k \in Nat  BY <1>3, LenProperties
  <2> QED  BY <1>3, <2>1, <2>2
<1>5. k # n
  <2> DEFINE l == Len(File)
  <2>1. EndOf(n) = l + cut /\ l \in Nat  BY <1>1, <1>4, EndsInFile
  <2>2. cut \in Nat /\ pos < l  BY <1>1, <1>2 DEF ArchiveInv
  <2> HIDE DEF l
  <2> QED  BY <1>3, <2>1, <2>2
<1>6. j \in 1 .. n /\ j - 1 = k /\ j \in Nat /\ j # 0  BY <1>3, <1>4, <1>5
<1> HIDE DEF j
<1>7. m = [size |-> Len(archive[j].text), addr |-> PlaceOf(j), pos |-> EndOf(j)]
  <2>1. PICK o : LinesAt(o)  BY <1>1, LinesOfFile
  <2>2. Parse(File, o[j - 1]) = [size |-> Len(archive[j].text), addr |-> PlaceOf(j), pos |-> o[j]]
    BY <1>1, <1>6, <2>1, ParseLine
  <2>3. j \in 0 .. n  BY <1>4, <1>6
  <2>4. EndOf(j) = o[j]  BY <1>1, <2>1, <2>3, EndsThere
  <2>5. EndOf(k) = o[k]  BY <1>1, <1>4, <2>1, EndsThere
  <2>6. pos = o[j - 1]  BY <1>3, <1>6, <2>5
  <2> QED  BY <2>2, <2>4, <2>6
<1> HIDE DEF m
<1>8. /\ m.size = Len(archive[j].text) /\ m.addr = PlaceOf(j) /\ m.pos = EndOf(j)
      /\ [size |-> m.size, addr |-> m.addr] = Entry(j)
  BY <1>7 DEF Entry
<1>9. m.size \in Nat /\ m.addr \in Nat
  <2>1. Entry(j).size \in Nat /\ Entry(j).addr \in Nat  BY <1>1, <1>6, EntryType
  <2> QED  BY <1>8, <2>1
<1>10. /\ index' \in Seq(Entries) /\ Sorted(index') /\ Len(index') = j
       /\ Range(index') = Range(index) \cup {Entry(j)}
  <2>1. index' = Emplaced(index, m)  BY <1>2 DEF m
  <2> QED  BY <1>3, <1>8, <1>9, <2>1, EmplacedOne DEF j
<1>11. Range(index') = {Entry(i) : i \in 1 .. j}
  <2>1. 1 .. j = (1 .. k) \cup {j}  BY <1>4, <1>6
  <2> QED  BY <1>3, <1>10, <2>1
<1>12. /\ ArchiveInv' /\ Len(archive)' = n
       /\ \A i : EndOf(i)' = EndOf(i) /\ Entry(i)' = Entry(i)
  BY <1>1, <1>2, SameArchive
<1>13. IndexInv'
  <2>1. pos' = EndOf(j)  BY <1>2, <1>8 DEF m
  <2>2. (EndOf(Len(index)))' = EndOf(j)
    <3>1. (EndOf(Len(index)))' = EndOf(Len(index'))  BY <1>2 DEF EndOf, PlaceOf, Written
    <3> QED  BY <3>1, <1>10
  <2>3. {Entry(i) : i \in 1 .. Len(index)}' = {Entry(i) : i \in 1 .. j}
    <3>1. {Entry(i) : i \in 1 .. Len(index)}' = {Entry(i)' : i \in 1 .. Len(index')}
      OBVIOUS
    <3> QED  BY <3>1, <1>10, <1>12
  <2>4. (Sorted(index))'  BY <1>10 DEF Sorted
  <2>5. (Range(index))' = {Entry(i) : i \in 1 .. j}  BY <1>11 DEF Range
  <2>6. j <= n  BY <1>4, <1>6
  <2> QED  BY <1>10, <1>12, <2>1, <2>2, <2>3, <2>4, <2>5, <2>6 DEF IndexInv
<1>14. RunInv'
  <2>1. stage # "running"  BY <1>2
  <2> QED  BY <1>1, <1>2, <2>1, SameRun
<1> QED  BY <1>1, <1>2, <1>12, <1>13, <1>14 DEF LoadInv

\* What is wanted is finitely many messages.
LEMMA WantedType ==
  ASSUME ArchiveInv
  PROVE  IsFiniteSet(Wanted) /\ Wanted \subseteq All /\ All \subseteq Entries
<1> DEFINE n == Len(archive)
           f == [k \in 1 .. n |-> Entry(k)]
<1>1. n \in Int /\ 1 \in Int  BY LenProperties DEF ArchiveInv
<1>2. f \in Surjection(1 .. n, All)  BY DEF Surjection, All
<1>3. IsFiniteSet(1 .. n)  BY <1>1, FS_Interval
<1>4. IsFiniteSet(All)  BY <1>2, <1>3, FS_Surjection
<1>5. Wanted \subseteq All  BY DEF Wanted
<1>6. IsFiniteSet(Wanted)  BY <1>4, <1>5, FS_Subset
<1>7. All \subseteq Entries  BY EntryType DEF All
<1> QED  BY <1>5, <1>6, <1>7

\* When all is indexed, what is selected is what is wanted.
LEMMA SelectedWanted ==
  ASSUME ArchiveInv, IndexInv, Len(index) = Len(archive)
  PROVE  {index[i] : i \in Selected} = Wanted /\ Range(index) = All
<1> DEFINE k == Len(index)
           low == limits[1]
           high == limits[2]
           last == IF high = 0 THEN k ELSE UpperBound(index, high)
<1>1. index \in Seq(Entries) /\ Sorted(index) /\ low \in Nat /\ high \in Nat
  BY DEF IndexInv, ArchiveInv
<1>2. /\ k \in Nat /\ DOMAIN index = 1 .. k
      /\ \A i \in 1 .. k : index[i].size \in Nat
  <2>1. \A i \in 1 .. k : index[i] \in Entries  BY <1>1, ElementOfSeq
  <2> QED  BY <1>1, <2>1, LenProperties DEF Entries
<1>3. Range(index) = All  BY DEF IndexInv, All
<1> HIDE DEF low, high
<1>4. /\ LowerBound(index, low) \in 0 .. k
      /\ \A i \in 1 .. k : i <= LowerBound(index, low) <=> index[i].size < low
  BY <1>1, Bounds
<1>5. /\ UpperBound(index, high) \in 0 .. k
      /\ \A i \in 1 .. k : i <= UpperBound(index, high) <=> index[i].size <= high
  BY <1>1, Bounds
<1>6. Selected = {i \in 1 .. k : LowerBound(index, low) < i /\ i <= last}
  BY DEF Selected, low, high
<1> DEFINE a == LowerBound(index, low)
           b == UpperBound(index, high)
<1> HIDE DEF k
<1>7. ASSUME NEW i \in 1 .. k
      PROVE  i \in Selected <=>
               index[i].size >= low /\ (high = 0 \/ index[i].size <= high)
  <2>1. a \in 0 .. k /\ b \in 0 .. k /\ (i <= a <=> index[i].size < low)
        /\ (i <= b <=> index[i].size <= high) /\ index[i].size \in Nat
    BY <1>2, <1>4, <1>5
  <2>2. i \in Selected <=> a < i /\ (high = 0 \/ i <= b)
    <3>1. last = IF high = 0 THEN k ELSE b  OBVIOUS
    <3> HIDE DEF a, b, last
    <3>2. i \in Selected <=> a < i /\ i <= last  BY <1>6 DEF a
    <3> QED  BY <3>1, <3>2, <1>2
  <2> HIDE DEF a, b, last
  <2> QED  BY <1>1, <1>2, <2>1, <2>2
<1>8. Selected \subseteq 1 .. k  BY <1>6
<1>9. Range(index) = {index[i] : i \in 1 .. k}  BY <1>2 DEF Range
<1>10. Wanted = {m \in Range(index) : m.size >= low /\ (high = 0 \/ m.size <= high)}
  BY <1>3 DEF Wanted, low, high
<1> HIDE DEF last
<1> QED  BY <1>3, <1>7, <1>8, <1>9, <1>10

\* CreateClients: each client has a generator of all that is wanted, and has
\* taken nothing.
LEMMA CreateClientsKeeps == LoadInv /\ CreateClients => LoadInv'
<1> SUFFICES ASSUME LoadInv, CreateClients PROVE LoadInv'
  OBVIOUS
<1>1. ArchiveInv /\ IndexInv /\ RunInv /\ DOMAIN taken = Clients  BY DEF LoadInv
<1>2. /\ stage = "opening" /\ pos >= Len(File)
      /\ UNCHANGED <<archive, header, cut, limits, pos, index, taken>>
  BY DEF CreateClients, archiveVars
<1>3. Len(index) = Len(archive)
  <2> DEFINE n == Len(archive)
             k == Len(index)
             l == Len(File)
  <2>1. n \in Nat /\ k \in Nat /\ k <= n /\ pos = EndOf(k)
    BY <1>1, LenProperties DEF ArchiveInv, IndexInv
  <2>2. k \in 0 .. n  BY <2>1
  <2>3. EndOf(k) \in Nat /\ l \in Nat /\ (k < n => EndOf(k) < l)  BY <1>1, <2>2, EndsInFile
  <2>4. pos >= l  BY <1>2
  <2> HIDE DEF n, k, l
  <2>5. k = n  BY <2>1, <2>3, <2>4
  <2> QED  BY <2>5 DEF k, n
<1>4. ArchiveInv' /\ Wanted' = Wanted  BY <1>1, <1>2, SameArchive
<1>5. IndexInv'  BY <1>1, <1>2, IndexStays
<1>6. taken = [c \in Clients |-> <<>>] /\ gen \in [Clients -> Generators]
  BY <1>1, <1>2 DEF RunInv
<1>7. RunInv'
  <2>1. CASE Selected = {}
    <3>1. stage' = "undefined" /\ gen' = gen  BY <2>1 DEF CreateClients
    <3> QED  BY <1>2, <1>6, <3>1 DEF RunInv
  <2>2. CASE Selected # {}
    <3> DEFINE n == Cardinality(Wanted)
    <3>1. {index[i] : i \in Selected} = Wanted  BY <1>1, <1>3, SelectedWanted
    <3>2. stage' = "running" /\ \E order \in SetToSeqs({index[i] : i \in Selected}) :
            gen' = [c \in Clients |-> NewGenerator(order)]
      BY <2>2 DEF CreateClients
    <3>3. PICK order \in SetToSeqs(Wanted) : gen' = [c \in Clients |-> NewGenerator(order)]
      BY <3>1, <3>2
    <3>4. n \in Nat /\ n # 0
      <4>1. Wanted # {}  BY <2>2, <3>1
      <4>2. IsFiniteSet(Wanted)  BY <1>1, WantedType
      <4> QED  BY <4>1, <4>2, FS_CardinalityType, FS_EmptySet
    <3>5. order \in [1 .. n -> Wanted]  BY DEF SetToSeqs
    <3>6. order \in Seq(Entries)
      <4>1. Wanted \subseteq Entries  BY <1>1, WantedType
      <4> HIDE DEF n
      <4>2. order \in [1 .. n -> Entries]  BY <3>5, <4>1
      <4> QED  BY <3>4, <4>2
    <3>7. NewGenerator(order) \in Generators /\ NewGenerator(order).shuffled = order
          /\ NewGenerator(order).i = 1
      BY <3>6 DEF NewGenerator, Generators
    <3>8. gen' \in [Clients -> Generators]  BY <3>3, <3>7
    <3>9. ASSUME NEW c \in Clients PROVE ClientInv(c)'
      <4>1. gen'[c].shuffled = order /\ gen'[c].i = 1  BY <3>3, <3>7
      <4>2. taken'[c] = <<>>  BY <1>2, <1>6
      <4>3. taken'[c] \in Seq(Wanted) /\ Len(taken'[c]) = 0  BY <4>2
      <4>4. 1 \in 1 .. n  BY <3>4
      <4>5. InTurn(taken'[c], n)  BY <4>3 DEF InTurn
      <4> HIDE DEF n
      <4>6. LastTaken(taken'[c], order, 1, n)
        <5>1. \A d \in 1 .. n : ~(d <= 0)  BY <3>4
        <5> QED  BY <4>3, <5>1 DEF LastTaken
      <4>7. Cardinality(Wanted)' = n  BY <1>4 DEF n
      <4> QED  BY <1>4, <3>4, <4>1, <4>3, <4>4, <4>5, <4>6, <4>7 DEF ClientInv
    <3>10. (Len(index) = Len(archive))'  BY <1>2, <1>3
    <3> QED  BY <3>2, <3>8, <3>9, <3>10 DEF RunInv
  <2> QED  BY <2>1, <2>2
<1> QED  BY <1>1, <1>2, <1>4, <1>5, <1>7 DEF LoadInv

\* A generator goes round.
Turned(i, j, n) ==
  /\ Before(j, 1, n) = i
  /\ \A d \in 1 .. n - 1 : /\ Before(i, d, n) \in 1 .. n /\ Before(i, d, n) # i
                           /\ Before(j, d + 1, n) = Before(i, d, n)

LEMMA GoesRound ==
  ASSUME NEW n \in Nat, NEW i \in 1 .. n, NEW j, j = After(i, n)
  PROVE  j \in 1 .. n /\ Turned(i, j, n)
<1>1. n >= 1  OBVIOUS
<1>2. j \in 1 .. n  BY DEF After
<1>3. Before(j, 1, n) = i
  <2>1. CASE i = n
    BY <2>1 DEF Before, After
  <2>2. CASE i # n
    BY <2>2 DEF Before, After
  <2> QED  BY <2>1, <2>2
<1>4. ASSUME NEW d \in 1 .. n - 1
      PROVE  /\ Before(i, d, n) \in 1 .. n /\ Before(i, d, n) # i
             /\ Before(j, d + 1, n) = Before(i, d, n)
  <2>1. Before(i, d, n) \in 1 .. n /\ Before(i, d, n) # i
    BY DEF Before
  <2>2. CASE i = n
    BY <2>2 DEF Before, After
  <2>3. CASE i # n
    BY <2>3 DEF Before, After
  <2> QED  BY <2>1, <2>2, <2>3
<1> QED  BY <1>2, <1>3, <1>4 DEF Turned

\* TakeMessage, for the client that takes one.
LEMMA TakesNext ==
  ASSUME NEW S, NEW n \in Nat, NEW s \in [1 .. n -> S],
         Distinct(s, n), NEW i \in 1 .. n,
         NEW t \in Seq(S), InTurn(t, n), LastTaken(t, s, i, n),
         NEW j, j = After(i, n), NEW u, u = Append(t, s[i])
  PROVE  j \in 1 .. n /\ u \in Seq(S) /\ InTurn(u, n) /\ LastTaken(u, s, j, n)
<1> DEFINE l == Len(t)
<1>1. l \in Nat  BY LenProperties
<1>2. s[i] \in S  OBVIOUS
<1>3. /\ u \in Seq(S) /\ Len(u) = l + 1 /\ u[l + 1] = s[i]
      /\ \A k \in 1 .. l : u[k] = t[k]
  BY <1>2, AppendProperties
<1>4. /\ j \in 1 .. n /\ Before(j, 1, n) = i
      /\ \A d \in 1 .. n - 1 : /\ Before(i, d, n) \in 1 .. n /\ Before(i, d, n) # i
                               /\ Before(j, d + 1, n) = Before(i, d, n)
  <2>1. n \in Nat /\ i \in 1 .. n /\ j = After(i, n)  OBVIOUS
  <2>2. j \in 1 .. n /\ Turned(i, j, n)  BY <2>1, GoesRound, Zenon
  <2> QED  BY <2>2 DEF Turned
<1>5. \A d \in 1 .. n : d <= l => t[l + 1 - d] = s[Before(i, d, n)]
  BY DEF LastTaken
<1> HIDE DEF l
<1>6. ASSUME NEW d \in 1 .. n, d <= l + 1
      PROVE  u[l + 1 + 1 - d] = s[Before(j, d, n)]
  <2>1. CASE d = 1
    <3>1. l + 1 + 1 - d = l + 1  BY <2>1, <1>1
    <3> QED  BY <3>1, <2>1, <1>3, <1>4
  <2>2. CASE d # 1
    <3> DEFINE e == d - 1
               k == l + 1 - e
               a == Before(i, e, n)
    <3>1. /\ e \in 1 .. n - 1 /\ e \in 1 .. n /\ e <= l /\ e + 1 = d
          /\ l + 1 + 1 - d = k /\ k \in 1 .. l
      BY <2>2, <1>1, <1>6
    <3>2. t[k] = s[a]  BY <3>1, <1>5
    <3>3. Before(j, e + 1, n) = a  BY <3>1, <1>4
    <3> HIDE DEF e, k, a
    <3>4. u[k] = t[k]  BY <3>1, <1>3
    <3>5. Before(j, d, n) = a  BY <3>1, <3>3
    <3> QED  BY <3>1, <3>2, <3>4, <3>5
  <2> QED  BY <2>1, <2>2
<1>7. ASSUME NEW p \in 1 .. l + 1, NEW q \in 1 .. l + 1, p < q, q < p + n
      PROVE  u[p] # u[q]
  <2>1. CASE q # l + 1
    <3>1. p \in 1 .. l /\ q \in 1 .. l  BY <2>1, <1>1, <1>7
    <3>2. t[p] # t[q]  BY <3>1, <1>7 DEF InTurn, l
    <3> QED  BY <3>1, <3>2, <1>3
  <2>2. CASE q = l + 1
    <3> DEFINE d == l + 1 - p
               a == Before(i, d, n)
    <3>1. /\ d \in 1 .. n - 1 /\ d \in 1 .. n /\ d <= l
          /\ l + 1 - d = p /\ p \in 1 .. l
      BY <2>2, <1>1, <1>7
    <3>2. t[p] = s[a]
      <4>1. t[l + 1 - d] = s[a]  BY <3>1, <1>5
      <4> QED  BY <4>1, <3>1
    <3>3. a \in 1 .. n /\ a # i  BY <3>1, <1>4
    <3> HIDE DEF d, a
    <3>4. s[a] # s[i]  BY <3>3 DEF Distinct
    <3> QED  BY <2>2, <3>1, <3>2, <3>4, <1>3
  <2> QED  BY <2>1, <2>2
<1>8. InTurn(u, n)
  <2>1. Len(u) = l + 1  BY <1>3
  <2>2. \A p, q \in 1 .. Len(u) : p < q /\ q < p + n => u[p] # u[q]
    BY <1>7, <2>1
  <2> QED  BY <2>2, Zenon DEF InTurn
<1>9. LastTaken(u, s, j, n)
  <2>1. Len(u) = l + 1  BY <1>3
  <2>2. \A d \in 1 .. n : d <= Len(u) => u[Len(u) + 1 - d] = s[Before(j, d, n)]
    BY <1>6, <2>1
  <2> QED  BY <2>2, Zenon DEF LastTaken
<1> QED  BY <1>3, <1>4, <1>8, <1>9

LEMMA TakeMessageKeeps ==
  ASSUME LoadInv, NEW c \in Clients, TakeMessage(c)
  PROVE  LoadInv'
<1>1. ArchiveInv /\ IndexInv /\ RunInv /\ DOMAIN taken = Clients  BY DEF LoadInv
<1> DEFINE m == gen[c].shuffled[gen[c].i]
           n == Cardinality(Wanted)
<1>2. /\ stage = "running"
      /\ taken' = [taken EXCEPT ![c] = Append(@, m)]
      /\ gen' = [gen EXCEPT ![c] = Advanced(@)]
      /\ UNCHANGED <<archive, header, cut, limits, pos, index, stage>>
  BY DEF TakeMessage, archiveVars
<1>3. ArchiveInv' /\ Wanted' = Wanted  BY <1>1, <1>2, SameArchive
<1>4. IndexInv'  BY <1>1, <1>2, IndexStays
<1>5. /\ gen \in [Clients -> Generators] /\ Len(index) = Len(archive)
      /\ \A d \in Clients : ClientInv(d)
  BY <1>1, <1>2 DEF RunInv
<1>6. ClientInv(c)'
  <2> DEFINE s == gen[c].shuffled
             i == gen[c].i
             t == taken[c]
             j == After(i, n)
             u == Append(t, s[i])
  <2>1. /\ s \in SetToSeqs(Wanted) /\ n \in Nat /\ i \in 1 .. n
        /\ t \in Seq(Wanted) /\ InTurn(t, n) /\ LastTaken(t, s, i, n)
    BY <1>5 DEF ClientInv
  <2>2. s \in [1 .. n -> Wanted] /\ Distinct(s, n)
    BY <2>1 DEF SetToSeqs, Distinct
  <2>3. Len(s) = n
    <3> HIDE DEF n, s
    <3>1. s \in Seq(Wanted) /\ DOMAIN s = 1 .. n  BY <2>1, <2>2
    <3> QED  BY <3>1, <2>1, LenProperties
  <2>4. gen'[c].shuffled = s /\ gen'[c].i = j
    <3>1. gen[c] \in Generators /\ gen'[c] = Advanced(gen[c])  BY <1>2, <1>5
    <3> QED  BY <3>1, <2>3 DEF Advanced, After, Generators
  <2>5. taken'[c] = u  BY <1>1, <1>2
  <2> HIDE DEF n, s, i, t, j, u
  <2>6. j \in 1 .. n /\ u \in Seq(Wanted) /\ InTurn(u, n) /\ LastTaken(u, s, j, n)
    <3>1. u = Append(t, s[i]) /\ j = After(i, n)  BY DEF u, j
    <3> QED  BY <2>1, <2>2, <3>1, TakesNext, Zenon
  <2>7. Cardinality(Wanted)' = n  BY <1>3 DEF n
  <2> QED  BY <1>3, <2>1, <2>4, <2>5, <2>6, <2>7 DEF ClientInv
<1>7. ASSUME NEW d \in Clients, d # c PROVE ClientInv(d)'
  <2>1. gen'[d] = gen[d] /\ taken'[d] = taken[d]  BY <1>1, <1>2, <1>5, <1>7
  <2>2. ClientInv(d)  BY <1>5
  <2> QED  BY <1>3, <2>1, <2>2 DEF ClientInv
<1>8. gen' \in [Clients -> Generators]
  <2>1. gen[c] \in Generators  BY <1>5
  <2>2. Advanced(gen[c]) \in Generators  BY <2>1 DEF Advanced, Generators
  <2> QED  BY <1>2, <1>5, <2>2
<1>9. RunInv'  BY <1>2, <1>5, <1>6, <1>7, <1>8 DEF RunInv
<1> QED  BY <1>1, <1>2, <1>3, <1>4, <1>9 DEF LoadInv

LEMMA OthersKeep ==
  ASSUME LoadInv, UNCHANGED <<archiveVars, stage, gen, taken>>
  PROVE  LoadInv'
<1>1. ArchiveInv /\ IndexInv /\ RunInv /\ DOMAIN taken = Clients  BY DEF LoadInv
<1>2. UNCHANGED <<archive, header, cut, limits, pos, index>>  BY DEF archiveVars
<1>3. ArchiveInv'  BY <1>1, <1>2, SameArchive
<1>4. IndexInv'  BY <1>1, <1>2, IndexStays
<1>5. RunInv'  BY <1>1, <1>2, SameRun
<1> QED  BY <1>1, <1>3, <1>4, <1>5 DEF LoadInv

LEMMA StepKeeps == LoadInv /\ [Next]_vars => LoadInv'
<1> SUFFICES ASSUME LoadInv, [Next]_vars PROVE LoadInv'
  OBVIOUS
<1>1. CASE IndexMessage
  BY <1>1, IndexMessageKeeps
<1>2. CASE CreateClients
  BY <1>2, CreateClientsKeeps
<1>3. CASE Tick
  BY <1>3, OthersKeep DEF Tick, runVars
<1>4. ASSUME NEW c \in Clients, TakeMessage(c) PROVE LoadInv'
  BY <1>4, TakeMessageKeeps
<1>5. ASSUME NEW c \in Clients, NEW late \in BOOLEAN, LogSample(c, late) PROVE LoadInv'
  BY <1>5, OthersKeep DEF LogSample
<1>6. CASE UNCHANGED vars
  BY <1>6, OthersKeep DEF vars, runVars
<1> QED  BY <1>1, <1>2, <1>3, <1>4, <1>5, <1>6 DEF Next

\* What reaches past the end of the file.
LEMMA PastTheEnd ==
  ASSUME ArchiveInv
  PROVE  {m \in All : m.addr + m.size > Len(File)}
           = IF cut > 0 THEN {Entry(Len(archive))} ELSE {}
<1> DEFINE n == Len(archive)
           l == Len(File)
<1>1. n \in Nat /\ n \in 1 .. n /\ n \in 0 .. n /\ cut \in Nat
  BY ArchiveType DEF ArchiveInv
<1>2. l \in Nat /\ EndOf(n) = l + cut  BY <1>1, EndsInFile
<1>3. ASSUME NEW k \in 1 .. n
      PROVE  /\ Entry(k).addr + Entry(k).size = EndOf(k)
             /\ EndOf(k) \in Nat /\ (k # n => EndOf(k) < l)
  <2>1. k \in 0 .. n /\ (k # n => k < n)  BY <1>1
  <2>2. EndOf(k) \in Nat /\ (k < n => EndOf(k) < l)  BY <2>1, EndsInFile
  <2> QED  BY <2>1, <2>2, EntryType
<1> HIDE DEF n, l
<1>4. ASSUME NEW k \in 1 .. n
      PROVE  Entry(k).addr + Entry(k).size > l <=> k = n /\ cut > 0
  <2>1. CASE k = n
    BY <2>1, <1>1, <1>2, <1>3
  <2>2. CASE k # n
    BY <2>2, <1>2, <1>3
  <2> QED  BY <2>1, <2>2
<1>5. All = {Entry(k) : k \in 1 .. n}  BY DEF All, n
<1>6. {m \in All : m.addr + m.size > l} = IF cut > 0 THEN {Entry(n)} ELSE {}
  <2>1. CASE cut > 0
    <3>1. \A m \in All : m.addr + m.size > l => m = Entry(n)  BY <1>4, <1>5
    <3>2. Entry(n) \in All /\ Entry(n).addr + Entry(n).size > l  BY <1>1, <1>4, <1>5, <2>1
    <3> QED  BY <2>1, <3>1, <3>2
  <2>2. CASE ~(cut > 0)
    <3>1. \A m \in All : ~(m.addr + m.size > l)  BY <1>4, <1>5, <2>2
    <3> QED  BY <2>2, <3>1
  <2> QED  BY <2>1, <2>2
<1> QED  BY <1>6 DEF n, l

\* All is indexed when the clients run, and each takes it in turn.
LEMMA InvImpliesTurns == LoadInv => MessagesInTurn
<1> SUFFICES ASSUME LoadInv, stage = "running" PROVE MessagesInTurn
  BY DEF MessagesInTurn
<1>1. ArchiveInv /\ IndexInv /\ RunInv  BY DEF LoadInv
<1>2. Len(index) = Len(archive) /\ \A c \in Clients : ClientInv(c)  BY <1>1 DEF RunInv
<1>3. Range(index) = All  BY <1>1, <1>2, SelectedWanted
<1>4. {m \in All : m.addr + m.size > Len(File)}
        = IF cut > 0 THEN {Entry(Len(archive))} ELSE {}
  BY <1>1, PastTheEnd
<1>5. ASSUME NEW c \in Clients
      PROVE  /\ Range(taken[c]) \subseteq Wanted
             /\ InTurn(taken[c], Cardinality(Wanted))
  <2>1. taken[c] \in Seq(Wanted) /\ InTurn(taken[c], Cardinality(Wanted))
    BY <1>2 DEF ClientInv
  <2>2. Range(taken[c]) \subseteq Wanted
    <3> DEFINE t == taken[c]
    <3>1. DOMAIN t = 1 .. Len(t) /\ \A i \in 1 .. Len(t) : t[i] \in Wanted
      BY <2>1, LenProperties, ElementOfSeq
    <3> QED  BY <3>1 DEF Range
  <2> QED  BY <2>1, <2>2
<1> QED  BY <1>2, <1>3, <1>4, <1>5 DEF MessagesInTurn, All, Wanted, Entry, InTurn

\* The index has every message of the archive at its place, and each client takes
\* all messages within the limits before it takes one again (index.h:85-106,
\* message_generator.h:54-63).
THEOREM TurnsAreKept == Spec => []MessagesInTurn
<1>1. Init => LoadInv  BY InitSound
<1>2. LoadInv /\ [Next]_vars => LoadInv'  BY StepKeeps
<1>3. LoadInv => MessagesInTurn  BY InvImpliesTurns
<1> QED  BY <1>1, <1>2, <1>3, PTL DEF Spec
-----------------------------------------------------------------------------
(* The statistics: what log does to the ring. *)

\* The types of a slot and of the statistics.
SlotType == [count : Nat, size : Nat]

StatType ==
  [samples : Seq(SlotType), last : Int, start : Int, messages : Nat, size : Nat]

\* A time that was measured is not before the last slot: the difference does not
\* wrap, and is so many slots and a part of one.
LEMMA SlotsSince ==
  ASSUME NEW t \in Nat, NEW u \in Nat, u <= t, t <= MaxTime
  PROVE  LET n == Slots(Wrapped(t - u))
         IN  /\ n \in 0 .. MaxSlots /\ n * Delta \in Nat /\ n * Delta <= t - u
             /\ n = MaxSlots \/ t - u < n * Delta + Delta
<1> DEFINE e == t - u
           n == Slots(e)
           q == e \div Delta
<1>1. /\ Half \in Nat \ {0} /\ Delta \in Nat \ {0} /\ MaxSlots \in Nat \ {0}
      /\ MaxTime \in Nat /\ MaxTime + Delta <= Half
  BY StatisticsAssumption, LoadBounds, ClockAssumption
<1>2. e \in Nat /\ e < Half  BY <1>1
<1>3. Wrapped(e) = e
  <2> HIDE DEF e
  <2>1. e \in 0 .. 2 * Half - 1  BY <1>1, <1>2
  <2>2. e % (2 * Half) = e  BY <2>1, <1>1, SMT
  <2> QED  BY <2>2, <1>1, <1>2 DEF Wrapped
<1> HIDE DEF e
<1>4. q \in Nat /\ q * Delta <= e /\ e < q * Delta + Delta /\ q * Delta \in Nat
  BY <1>1, <1>2, SMT
<1>5. n = IF q > MaxSlots THEN MaxSlots ELSE q
  <2> HIDE DEF q
  <2>1. e >= 0 /\ ~(q < 0)  BY <1>2, <1>4
  <2> QED  BY <2>1 DEF Slots, q
<1> HIDE DEF q
<1>6. /\ n \in 0 .. MaxSlots /\ n * Delta \in Nat /\ n * Delta <= e
      /\ n = MaxSlots \/ e < n * Delta + Delta
  <2>1. CASE q > MaxSlots
    <3>1. MaxSlots * Delta \in Nat /\ MaxSlots * Delta <= q * Delta
      BY <2>1, <1>1, <1>4, SMT
    <3>2. n = MaxSlots  BY <2>1, <1>5
    <3> HIDE DEF n
    <3> DEFINE x == q * Delta
               y == MaxSlots * Delta
    <3>3. x <= e /\ y <= x /\ y \in Nat /\ x \in Nat  BY <3>1, <1>4
    <3> HIDE DEF x, y
    <3>4. y <= e  BY <3>3, <1>2
    <3> QED  BY <3>1, <3>2, <3>4, <1>1 DEF y
  <2>2. CASE ~(q > MaxSlots)
    <3>1. n = q  BY <2>2, <1>5
    <3>2. q \in 0 .. MaxSlots  BY <2>2, <1>1, <1>4
    <3> QED  BY <3>1, <3>2, <1>4
  <2> QED  BY <2>1, <2>2
<1> QED  BY <1>3, <1>6 DEF e

\* Before the first message the difference wraps, and a slot is opened.
LEMMA SlotsAtFirst ==
  ASSUME NEW t \in Nat, t <= MaxTime
  PROVE  Slots(Wrapped(t - Earliest)) # 0
<1> DEFINE e == t - Earliest
           w == t - Half
           q == (-w) \div Delta
<1>1. /\ Half \in Nat \ {0} /\ Delta \in Nat \ {0} /\ MaxSlots \in Nat \ {0}
      /\ MaxTime \in Nat /\ MaxTime + Delta <= Half
  BY StatisticsAssumption, LoadBounds, ClockAssumption
<1>2. e \in 0 .. 2 * Half - 1 /\ e >= Half /\ e - 2 * Half = w /\ w \in Int
      /\ -w \in Nat /\ -w >= Delta /\ ~(w >= 0)
  BY <1>1 DEF Earliest
<1> HIDE DEF e, w
<1>3. Wrapped(e) = w
  <2>1. e % (2 * Half) = e  BY <1>1, <1>2, SMT
  <2> QED  BY <2>1, <1>2 DEF Wrapped
<1>4. q \in Nat /\ q > 0
  <2> DEFINE x == -w
             y == x \div Delta
  <2>1. x \in Nat /\ x >= Delta  BY <1>2
  <2> HIDE DEF x
  <2>2. y \in Nat /\ x < y * Delta + Delta  BY <2>1, <1>1, SMT
  <2> HIDE DEF y
  <2>3. y # 0
    <3> SUFFICES ASSUME y = 0 PROVE FALSE
      OBVIOUS
    <3>1. y * Delta = 0  BY <1>1
    <3> QED  BY <3>1, <2>1, <2>2, <1>1
  <2> QED  BY <2>2, <2>3 DEF x, y
<1>5. Slots(w) = IF -q < 0 \/ -q > MaxSlots THEN MaxSlots ELSE -q
  BY <1>2 DEF Slots
<1> HIDE DEF q
<1>6. Slots(w) # 0  BY <1>1, <1>4, <1>5
<1> QED  BY <1>3, <1>6 DEF e

\* A ring is pushed on by n empty slots.
LEMMA RingPushed ==
  ASSUME NEW s \in Seq(SlotType), NEW n \in 1 .. MaxSlots
  PROVE  LET t == RInsert(s, n)
         IN  /\ t \in Seq(SlotType)
             /\ Len(t) = IF n + Len(s) < MaxSlots THEN n + Len(s) ELSE MaxSlots
             /\ \A k \in 1 .. Len(t) : t[k] = IF k <= n THEN EmptySlot ELSE s[k - n]
<1> DEFINE a == [i \in 1 .. n |-> EmptySlot]
           all == a \o s
           l == IF Len(all) < MaxSlots THEN Len(all) ELSE MaxSlots
<1>1. n \in Nat /\ n >= 1 /\ MaxSlots \in Nat /\ n <= MaxSlots  BY StatisticsAssumption
<1>2. a \in Seq(SlotType) /\ Len(a) = n /\ \A i \in 1 .. n : a[i] = EmptySlot
  <2>1. EmptySlot \in SlotType  BY DEF EmptySlot, SlotType
  <2>2. a \in [1 .. n -> SlotType]  BY <2>1
  <2> QED  BY <2>2, <1>1
<1> HIDE DEF a
<1>3. /\ all \in Seq(SlotType) /\ Len(all) = n + Len(s) /\ Len(s) \in Nat
      /\ \A i \in 1 .. n + Len(s) : all[i] = IF i <= n THEN a[i] ELSE s[i - n]
  <2>1. a \in Seq(SlotType) /\ s \in Seq(SlotType)  BY <1>2
  <2>2. /\ all \in Seq(SlotType) /\ Len(all) = Len(a) + Len(s) /\ Len(s) \in Nat
        /\ \A i \in 1 .. Len(a) + Len(s) :
             all[i] = IF i <= Len(a) THEN a[i] ELSE s[i - Len(a)]
    BY <2>1, JoinedElements
  <2> HIDE DEF all
  <2> QED  BY <2>2, <1>2
<1>4. RInsert(s, n) = SubSeq(all, 1, l)  BY DEF RInsert, a
<1>5. l \in Nat /\ l >= 1 /\ l <= Len(all) /\ l <= n + Len(s)
      /\ l = IF n + Len(s) < MaxSlots THEN n + Len(s) ELSE MaxSlots
  <2> HIDE DEF all
  <2> QED  BY <1>1, <1>3
<1> HIDE DEF all, l
<1>6. /\ SubSeq(all, 1, l) \in Seq(SlotType) /\ Len(SubSeq(all, 1, l)) = l
      /\ \A i \in 1 .. l : SubSeq(all, 1, l)[i] = all[i]
  <2>1. \A i \in 1 .. l : all[i] \in SlotType
    <3> TAKE i \in 1 .. l
    <3>1. i \in 1 .. Len(all)  BY <1>3, <1>5
    <3> QED  BY <3>1, <1>3, ElementOfSeq
  <2>2. /\ SubSeq(all, 1, l) \in Seq(SlotType)
        /\ Len(SubSeq(all, 1, l)) = IF 1 <= l THEN l - 1 + 1 ELSE 0
        /\ \A i \in 1 .. l - 1 + 1 : SubSeq(all, 1, l)[i] = all[1 + i - 1]
    BY <2>1, <1>5, SubSeqProperties
  <2>3. \A i \in 1 .. l : i \in 1 .. l - 1 + 1 /\ 1 + i - 1 = i  BY <1>5
  <2> QED  BY <2>2, <2>3, <1>5
<1>7. ASSUME NEW k \in 1 .. l
      PROVE  SubSeq(all, 1, l)[k] = IF k <= n THEN EmptySlot ELSE s[k - n]
  <2>1. k \in 1 .. n + Len(s) /\ (k <= n => k \in 1 .. n)  BY <1>1, <1>3, <1>5
  <2> QED  BY <2>1, <1>2, <1>3, <1>6
<1> QED  BY <1>4, <1>5, <1>6, <1>7

\* What log makes of the statistics: when it stays in its slot, when it rolls,
\* and the first time.
Stayed(r, st) ==
  /\ r.last = st.last /\ r.start = st.start /\ r.messages = st.messages
  /\ Len(r.samples) = Len(st.samples)
  /\ \A k \in 1 .. Len(st.samples) :
       r.samples[k].count = st.samples[k].count + IF k = 1 THEN 1 ELSE 0

RolledBy(r, st, n, t) ==
  LET s == st.samples
  IN  /\ r.last = t /\ r.start = st.start
      /\ \/ r.messages = st.messages + s[1].count
         \/ t - st.start <= Deferred /\ r.messages = st.messages
      /\ Len(r.samples) = IF n + Len(s) < MaxSlots THEN n + Len(s) ELSE MaxSlots
      /\ \A k \in 1 .. Len(r.samples) :
           r.samples[k].count = IF k = 1 THEN 1 ELSE IF k <= n THEN 0 ELSE s[k - n].count

Begun(r, t) ==
  /\ r.last = t /\ r.start = t /\ r.messages = 0
  /\ Len(r.samples) = 1 /\ r.samples[1].count = 1

\* One message more is counted in the first slot.
Counted(st, size) == [st EXCEPT !.samples[1].count = @ + 1, !.samples[1].size = @ + size]

LEMMA CountedOne ==
  ASSUME NEW st \in StatType, Len(st.samples) > 0, NEW size \in Nat
  PROVE  LET r == Counted(st, size)
         IN  /\ r \in StatType
             /\ r.last = st.last /\ r.start = st.start /\ r.messages = st.messages
             /\ Len(r.samples) = Len(st.samples)
             /\ \A k \in 1 .. Len(st.samples) :
                  r.samples[k].count = st.samples[k].count + IF k = 1 THEN 1 ELSE 0
<1> DEFINE s == st.samples
           e == [s[1] EXCEPT !.count = @ + 1, !.size = @ + size]
           t == [s EXCEPT ![1] = e]
           r == [st EXCEPT !.samples = t]
<1>1. s \in Seq(SlotType) /\ Len(s) \in Nat /\ Len(s) > 0 /\ DOMAIN s = 1 .. Len(s)
  BY LenProperties DEF StatType
<1>2. \A k \in 1 .. Len(s) : s[k] \in SlotType  BY <1>1, ElementOfSeq
<1>3. 1 \in 1 .. Len(s)  BY <1>1
<1>4. e \in SlotType /\ e.count = s[1].count + 1
  <2> DEFINE a == s[1]
  <2>1. a \in SlotType  BY <1>2, <1>3
  <2> HIDE DEF a
  <2>2. a \in [count : Nat, size : Nat]  BY <2>1 DEF SlotType
  <2> DEFINE c == a.count + 1
             z == a.size + size
             f == [a EXCEPT !.count = c, !.size = z]
  <2>3. c \in Nat /\ z \in Nat  BY <2>2
  <2> HIDE DEF c, z
  <2>4. f \in [count : Nat, size : Nat]  BY <2>2, <2>3, Zenon
  <2>5. f.count = c  BY <2>2
  <2>6. e = f  BY DEF a, c, z
  <2> HIDE DEF f, e
  <2> QED  BY <2>4, <2>5, <2>6 DEF a, c, SlotType
<1>5. Counted(st, size) = r
  <2>1. s[1] \in SlotType  BY <1>2, <1>3
  <2>2. [st EXCEPT !.samples[1].count = @ + 1] = [st EXCEPT !.samples = [s EXCEPT ![1] = [s[1] EXCEPT !.count = @ + 1]]]
    OBVIOUS
  <2> QED  BY <2>1, <1>1, <1>3 DEF Counted, StatType, SlotType
<1> HIDE DEF e
<1>6. t \in Seq(SlotType) /\ Len(t) = Len(s)
      /\ \A k \in 1 .. Len(s) : t[k] = IF k = 1 THEN e ELSE s[k]
  BY <1>1, <1>2, <1>3, <1>4, ExceptSeq
<1> HIDE DEF t
<1>7. r \in StatType /\ r.samples = t
      /\ r.last = st.last /\ r.start = st.start /\ r.messages = st.messages
  BY <1>6 DEF StatType
<1> HIDE DEF r
<1>8. ASSUME NEW k \in 1 .. Len(s)
      PROVE  r.samples[k].count = s[k].count + IF k = 1 THEN 1 ELSE 0
  <2>1. CASE k = 1
    BY <2>1, <1>4, <1>6, <1>7
  <2>2. CASE k # 1
    <3>1. r.samples[k] = s[k]  BY <2>2, <1>6, <1>7
    <3>2. s[k].count \in Nat  BY <1>2 DEF SlotType
    <3> QED  BY <2>2, <3>1, <3>2
  <2> QED  BY <2>1, <2>2
<1> QED  BY <1>5, <1>6, <1>7, <1>8

LEMMA LogStays ==
  ASSUME NEW st \in StatType, Len(st.samples) > 0, NEW size \in Nat, NEW t, NEW late,
         Slots(Wrapped(t - st.last)) = 0
  PROVE  Log(st, t, late, size) \in StatType /\ Stayed(Log(st, t, late, size), st)
<1>1. RollAcc(st, t, late) = st  BY DEF RollAcc
<1>2. Log(st, t, late, size) = Counted(st, size)  BY <1>1 DEF Log, Counted
<1> QED  BY <1>2, CountedOne DEF Stayed

LEMMA LogBegins ==
  ASSUME NEW t \in Nat, t <= MaxTime, NEW size \in Nat, NEW late
  PROVE  Log(NoStatistics, t, late, size) \in StatType
         /\ Begun(Log(NoStatistics, t, late, size), t)
<1> DEFINE st == NoStatistics
           r == [samples |-> <<EmptySlot>>, last |-> t, start |-> t, messages |-> 0, size |-> 0]
<1>1. /\ st.samples = <<>> /\ st.last = Earliest /\ st.start = Unknown
      /\ st.messages = 0 /\ st.size = 0
  BY DEF NoStatistics
<1>2. Slots(Wrapped(t - st.last)) # 0  BY <1>1, SlotsAtFirst
<1>3. EmptySlot \in SlotType /\ EmptySlot.count = 0 /\ EmptySlot.size = 0
  BY DEF EmptySlot, SlotType
<1>4. RollAcc(st, t, late) = r
  <2> DEFINE n == Slots(Wrapped(t - st.last))
  <2>1. n # 0 /\ Rolled(st, n) = <<EmptySlot>>  BY <1>1, <1>2 DEF Rolled
  <2> HIDE DEF n, st
  <2>2. RollAcc(st, t, late) =
          [samples |-> Rolled(st, n), last |-> t, start |-> t, messages |-> 0 + EmptySlot.count,
           size |-> 0 + EmptySlot.size]
    BY <1>1, <2>1 DEF RollAcc, n
  <2> QED  BY <2>1, <2>2, <1>3
<1>5. Log(st, t, late, size) = Counted(r, size)
  <2> HIDE DEF r, st
  <2> QED  BY <1>4 DEF Log, Counted
<1>6. /\ r \in StatType /\ Len(r.samples) = 1 /\ r.samples[1].count = 0
      /\ r.last = t /\ r.start = t /\ r.messages = 0
  BY <1>3 DEF StatType
<1> HIDE DEF r, st
<1>7. Len(r.samples) > 0 /\ 1 \in 1 .. Len(r.samples)  BY <1>6
<1>8. Counted(r, size) \in StatType /\ Begun(Counted(r, size), t)
  <2> DEFINE c == Counted(r, size)
  <2>1. /\ c \in StatType
        /\ c.last = r.last /\ c.start = r.start /\ c.messages = r.messages
        /\ Len(c.samples) = Len(r.samples)
        /\ \A k \in 1 .. Len(r.samples) :
             c.samples[k].count = r.samples[k].count + IF k = 1 THEN 1 ELSE 0
    BY <1>6, <1>7, CountedOne
  <2> HIDE DEF c
  <2>2. c.samples[1].count = 1  BY <2>1, <1>6, <1>7
  <2>3. c.last = t /\ c.start = t /\ c.messages = 0 /\ Len(c.samples) = 1
    BY <2>1, <1>6
  <2>4. Begun(c, t)  BY <2>2, <2>3 DEF Begun
  <2> QED  BY <2>1, <2>4 DEF c
<1> QED  BY <1>5, <1>8 DEF st

LEMMA LogRolls ==
  ASSUME NEW st \in StatType, Len(st.samples) > 0, st.start \in Nat,
         NEW t \in Nat, NEW size \in Nat, NEW late \in BOOLEAN,
         NEW n \in 1 .. MaxSlots, n = Slots(Wrapped(t - st.last))
  PROVE  Log(st, t, late, size) \in StatType /\ RolledBy(Log(st, t, late, size), st, n, t)
<1> DEFINE s == st.samples
           adds == t - st.start > Deferred \/ (t - st.start = Deferred /\ late)
           first == IF adds THEN s[1] ELSE EmptySlot
           r == [samples |-> RInsert(s, n), last |-> t, start |-> st.start,
                 messages |-> st.messages + first.count, size |-> st.size + first.size]
<1>1. /\ s \in Seq(SlotType) /\ Len(s) \in Nat /\ Len(s) > 0 /\ s # <<>>
      /\ st.messages \in Nat /\ st.size \in Nat /\ st.start \in Nat
  <2>1. s \in Seq(SlotType) /\ st.messages \in Nat /\ st.size \in Nat  BY DEF StatType
  <2> QED  BY <2>1, LenProperties, EmptySeq
<1>2. s[1] \in SlotType /\ EmptySlot \in SlotType
  <2>1. 1 \in 1 .. Len(s)  BY <1>1
  <2> QED  BY <2>1, <1>1, ElementOfSeq DEF EmptySlot, SlotType
<1>3. n # 0 /\ st.start # Unknown  BY <1>1, StatisticsAssumption DEF Unknown
<1>4. RollAcc(st, t, late) = r
  <2>1. Rolled(st, n) = RInsert(s, n)  BY <1>1 DEF Rolled
  <2>2. RollAcc(st, t, late) =
          [samples |-> Rolled(st, n), last |-> t, start |-> st.start,
           messages |-> st.messages + first.count, size |-> st.size + first.size]
    BY <1>1, <1>3 DEF RollAcc
  <2> QED  BY <2>1, <2>2
<1>5. Log(st, t, late, size) = Counted(r, size)
  <2> HIDE DEF r
  <2> QED  BY <1>4 DEF Log, Counted
<1>6. /\ RInsert(s, n) \in Seq(SlotType)
      /\ Len(RInsert(s, n)) = IF n + Len(s) < MaxSlots THEN n + Len(s) ELSE MaxSlots
      /\ \A k \in 1 .. Len(RInsert(s, n)) :
           RInsert(s, n)[k] = IF k <= n THEN EmptySlot ELSE s[k - n]
  BY <1>1, RingPushed
<1>7. first \in SlotType /\ (first.count = s[1].count \/ (t - st.start <= Deferred /\ first.count = 0))
  <2>1. t - st.start \in Int /\ Deferred \in Nat  BY <1>1, StatisticsAssumption
  <2>2. CASE adds
    <3>1. first = s[1]  BY <2>2
    <3> HIDE DEF adds, first, s
    <3> QED  BY <3>1, <1>2, Zenon
  <2>3. CASE ~adds
    <3>1. first = EmptySlot  BY <2>3
    <3>2. t - st.start <= Deferred  BY <2>1, <2>3
    <3> QED  BY <3>1, <3>2, <1>2 DEF EmptySlot
  <2> QED  BY <2>2, <2>3
<1> HIDE DEF first
<1>8. /\ r \in StatType /\ r.samples = RInsert(s, n) /\ r.last = t /\ r.start = st.start
      /\ r.messages = st.messages + first.count
  <2>1. first.count \in Nat /\ first.size \in Nat  BY <1>7 DEF SlotType
  <2> DEFINE ring == RInsert(s, n)
             m == st.messages + first.count
             z == st.size + first.size
  <2>2. ring \in Seq(SlotType) /\ m \in Nat /\ z \in Nat /\ t \in Int /\ st.start \in Int
    <3>1. ring \in Seq(SlotType)  BY <1>6
    <3>2. m \in Nat /\ z \in Nat
      <4> HIDE DEF first
      <4> QED  BY <2>1, <1>1
    <3>3. t \in Int /\ st.start \in Int  BY <1>1
    <3> QED  BY <3>1, <3>2, <3>3
  <2>3. r = [samples |-> ring, last |-> t, start |-> st.start, messages |-> m, size |-> z]
    OBVIOUS
  <2> HIDE DEF r, ring, m, z
  <2>4. r \in StatType  BY <2>2, <2>3, Zenon DEF StatType
  <2>5. r.samples = ring /\ r.last = t /\ r.start = st.start /\ r.messages = m  BY <2>3
  <2> QED  BY <2>4, <2>5 DEF ring, m
<1> HIDE DEF r
<1>9. Len(r.samples) > 0
  <2> DEFINE l == Len(s)
             m == Len(r.samples)
  <2>1. m = IF n + l < MaxSlots THEN n + l ELSE MaxSlots  BY <1>6, <1>8
  <2>2. l \in Nat /\ MaxSlots \in Nat /\ n >= 1 /\ n <= MaxSlots  BY <1>1, StatisticsAssumption
  <2> HIDE DEF l, m
  <2>3. m > 0  BY <2>1, <2>2
  <2> QED  BY <2>3 DEF m
<1> DEFINE c == Counted(r, size)
<1>10. /\ c \in StatType
       /\ c.last = r.last /\ c.start = r.start /\ c.messages = r.messages
       /\ Len(c.samples) = Len(r.samples)
       /\ \A k \in 1 .. Len(r.samples) :
            c.samples[k].count = r.samples[k].count + IF k = 1 THEN 1 ELSE 0
  BY <1>8, <1>9, CountedOne
<1> HIDE DEF c
<1>11. ASSUME NEW k \in 1 .. Len(c.samples)
       PROVE  c.samples[k].count = IF k = 1 THEN 1 ELSE IF k <= n THEN 0 ELSE s[k - n].count
  <2>1. k \in 1 .. Len(r.samples) /\ r.samples[k] \in SlotType
    <3>1. k \in 1 .. Len(r.samples)  BY <1>10
    <3> QED  BY <3>1, <1>8, ElementOfSeq DEF StatType
  <2>2. /\ c.samples[k].count = r.samples[k].count + (IF k = 1 THEN 1 ELSE 0)
        /\ r.samples[k] = IF k <= n THEN EmptySlot ELSE s[k - n]
        /\ r.samples[k].count \in Nat
    BY <2>1, <1>6, <1>8, <1>10 DEF SlotType
  <2>3. EmptySlot.count = 0  BY DEF EmptySlot
  <2>4. CASE k = 1
    <3>1. k <= n  BY <2>4
    <3> QED  BY <2>4, <3>1, <2>2, <2>3
  <2>5. CASE k # 1
    <3>1. c.samples[k].count = r.samples[k].count  BY <2>2, <2>5
    <3> QED  BY <2>5, <3>1, <2>2, <2>3
  <2> QED  BY <2>4, <2>5
<1>12. c.messages = st.messages + s[1].count
       \/ (t - st.start <= Deferred /\ c.messages = st.messages)
  BY <1>1, <1>7, <1>8, <1>10
<1>13. Len(c.samples) = IF n + Len(s) < MaxSlots THEN n + Len(s) ELSE MaxSlots
  BY <1>6, <1>8, <1>10
<1>14. RolledBy(c, st, n, t)
  BY <1>8, <1>10, <1>11, <1>12, <1>13 DEF RolledBy
<1> QED  BY <1>5, <1>10, <1>14 DEF c
-----------------------------------------------------------------------------
(* What the ring and the total have of what was logged. *)

\* How many messages were logged at a time or later, and how many before it.
LogType == [time : Nat, size : Nat]

From(lg, t) == Cardinality({i \in 1 .. Len(lg) : lg[i].time >= t})

UpTo(lg, t) == Cardinality({i \in 1 .. Len(lg) : lg[i].time < t})

\* The slots have begun at the times b, and have what was logged in between.
RingInv(st, lg, b) ==
  LET s == st.samples
      l == Len(s)
  IN  /\ l \in 1 .. MaxSlots /\ b \in [1 .. l -> 0 .. st.last] /\ b[1] = st.last
      /\ \A k \in 1 .. l :
           /\ st.last <= b[k] + 2 * ((k - 1) * Delta)
           /\ s[k].count = From(lg, b[k]) - IF k = 1 THEN 0 ELSE From(lg, b[k - 1])
           /\ \A i \in 1 .. Len(lg) :
                lg[i].time < b[k] => lg[i].time + (k - 1) * Delta < st.last
      /\ l < MaxSlots => \A i \in 1 .. Len(lg) : lg[i].time >= b[l]

\* All is in the first slot, or it has been closed, and was added or not.
TotalInv(st, lg) ==
  \/ st.last = st.start /\ st.messages = 0 /\ \A i \in 1 .. Len(lg) : lg[i].time >= st.last
  \/ /\ st.last >= st.start + Delta
     /\ \/ st.messages + From(lg, st.last) = Len(lg)
        \/ st.messages + From(lg, st.last) = Len(lg) - UpTo(lg, st.start + Delta)

\* The statistics agree with what was logged, the first slot too.
StatSound(st, lg) ==
  /\ st \in StatType /\ st.start \in Nat /\ st.last \in Nat
  /\ \A i \in 1 .. Len(lg) : lg[i].time < st.last + Delta
  /\ \E b \in [1 .. Len(st.samples) -> 0 .. st.last] : RingInv(st, lg, b)
  /\ TotalInv(st, lg)

\* The inductive invariant of the statistics.
StatInv ==
  /\ now \in Nat /\ now <= MaxTime /\ logged \in Seq(LogType)
  /\ IF logged = <<>> THEN stats = NoStatistics
     ELSE StatSound(stats, logged) /\ stats.last <= now

\* What was logged can be counted.
LEMMA SomeOfLog ==
  ASSUME NEW lg \in Seq(LogType)
  PROVE  /\ Len(lg) \in Nat /\ \A i \in 1 .. Len(lg) : lg[i].time \in Nat
         /\ \A A \in SUBSET (1 .. Len(lg)) : IsFiniteSet(A) /\ Cardinality(A) \in Nat
         /\ \A A, B \in SUBSET (1 .. Len(lg)) : A \subseteq B => Cardinality(A) <= Cardinality(B)
         /\ \A t : From(lg, t) \in Nat /\ UpTo(lg, t) \in Nat
         /\ Cardinality(1 .. Len(lg)) = Len(lg)
<1> DEFINE D == 1 .. Len(lg)
<1>1. Len(lg) \in Nat /\ \A i \in D : lg[i].time \in Nat
  <2>1. \A i \in D : lg[i] \in LogType  BY ElementOfSeq
  <2> QED  BY <2>1, LenProperties DEF LogType
<1>2. IsFiniteSet(D) /\ Cardinality(D) = Len(lg)
  <2> DEFINE n == Len(lg)
  <2>1. n \in Nat  BY <1>1
  <2> HIDE DEF n
  <2>2. IsFiniteSet(1 .. n) /\ Cardinality(1 .. n) = IF 1 > n THEN 0 ELSE n - 1 + 1
    BY <2>1, FS_Interval
  <2>3. Cardinality(1 .. n) = n  BY <2>1, <2>2
  <2> QED  BY <2>2, <2>3 DEF n
<1> HIDE DEF D
<1>3. \A A \in SUBSET D : IsFiniteSet(A) /\ Cardinality(A) \in Nat
  BY <1>2, FS_Subset, FS_CardinalityType
<1>4. \A A, B \in SUBSET D : A \subseteq B => Cardinality(A) <= Cardinality(B)
  BY <1>3, FS_Subset
<1>5. \A t : From(lg, t) \in Nat /\ UpTo(lg, t) \in Nat
  <2> TAKE t
  <2>1. {i \in D : lg[i].time >= t} \in SUBSET D /\ {i \in D : lg[i].time < t} \in SUBSET D
    OBVIOUS
  <2> QED  BY <2>1, <1>3 DEF From, UpTo, D
<1> QED  BY <1>1, <1>2, <1>3, <1>4, <1>5 DEF D

\* One more entry is one more from each time that it is not before.
LEMMA LogGrows ==
  ASSUME NEW lg \in Seq(LogType), NEW e \in LogType
  PROVE  LET more == Append(lg, e)
         IN  /\ more \in Seq(LogType) /\ Len(more) = Len(lg) + 1
             /\ \A i \in 1 .. Len(lg) : more[i] = lg[i]
             /\ more[Len(lg) + 1] = e
             /\ \A t : e.time >= t => From(more, t) = From(lg, t) + 1
             /\ \A t : ~(e.time < t) => UpTo(more, t) = UpTo(lg, t)
<1> DEFINE more == Append(lg, e)
           n == Len(lg)
           m == n + 1
<1>1. n \in Nat /\ \A A \in SUBSET (1 .. n) : IsFiniteSet(A) /\ Cardinality(A) \in Nat
  BY SomeOfLog
<1>2. /\ more \in Seq(LogType) /\ Len(more) = m /\ more[m] = e
      /\ \A i \in 1 .. n : more[i] = lg[i]
  BY AppendProperties
<1>3. 1 .. m = (1 .. n) \cup {m} /\ m \notin 1 .. n  BY <1>1
<1> HIDE DEF more, m, n
<1>4. ASSUME NEW t, e.time >= t PROVE From(more, t) = From(lg, t) + 1
  <2> DEFINE A == {i \in 1 .. n : lg[i].time >= t}
             B == {i \in 1 .. m : more[i].time >= t}
  <2>1. B = A \cup {m}  BY <1>2, <1>3, <1>4
  <2>2. A \in SUBSET (1 .. n) /\ m \notin A  BY <1>3
  <2>3. From(more, t) = Cardinality(B) /\ From(lg, t) = Cardinality(A)  BY <1>2 DEF From, n
  <2> HIDE DEF A, B
  <2>4. IsFiniteSet(A)  BY <1>1, <2>2
  <2>5. Cardinality(A \cup {m}) = IF m \in A THEN Cardinality(A) ELSE Cardinality(A) + 1
    BY <2>4, FS_AddElement
  <2> QED  BY <2>1, <2>2, <2>3, <2>5
<1>5. ASSUME NEW t, ~(e.time < t) PROVE UpTo(more, t) = UpTo(lg, t)
  <2> DEFINE A == {i \in 1 .. n : lg[i].time < t}
             B == {i \in 1 .. m : more[i].time < t}
  <2>1. B = A  BY <1>2, <1>3, <1>5
  <2>2. UpTo(more, t) = Cardinality(B) /\ UpTo(lg, t) = Cardinality(A)  BY <1>2 DEF UpTo, n
  <2> QED  BY <2>1, <2>2
<1> QED  BY <1>2, <1>4, <1>5 DEF more, m, n

\* A message is logged in the slot that is being filled.
LEMMA RingStays ==
  ASSUME NEW st, NEW r, NEW lg \in Seq(LogType), NEW e \in LogType, NEW b,
         RingInv(st, lg, b), Stayed(r, st), st.last \in Nat, e.time >= st.last
  PROVE  RingInv(r, Append(lg, e), b)
<1> DEFINE more == Append(lg, e)
           s == st.samples
           l == Len(s)
<1>1. /\ Len(lg) \in Nat /\ \A i \in 1 .. Len(lg) : lg[i].time \in Nat
      /\ \A t : From(lg, t) \in Nat
  BY SomeOfLog
<1>2. /\ Len(more) = Len(lg) + 1 /\ \A i \in 1 .. Len(lg) : more[i] = lg[i]
      /\ more[Len(lg) + 1] = e
      /\ \A t : e.time >= t => From(more, t) = From(lg, t) + 1
  BY LogGrows
<1>3. /\ l \in 1 .. MaxSlots /\ b \in [1 .. l -> 0 .. st.last] /\ b[1] = st.last
      /\ \A k \in 1 .. l :
           /\ st.last <= b[k] + 2 * ((k - 1) * Delta)
           /\ s[k].count = From(lg, b[k]) - (IF k = 1 THEN 0 ELSE From(lg, b[k - 1]))
           /\ \A i \in 1 .. Len(lg) :
                lg[i].time < b[k] => lg[i].time + (k - 1) * Delta < st.last
      /\ l < MaxSlots => \A i \in 1 .. Len(lg) : lg[i].time >= b[l]
  BY DEF RingInv
<1>4. /\ r.last = st.last /\ Len(r.samples) = l
      /\ \A k \in 1 .. l : r.samples[k].count = s[k].count + IF k = 1 THEN 1 ELSE 0
  BY DEF Stayed
<1>5. e.time \in Nat  BY DEF LogType
<1> HIDE DEF more, s, l
<1>6. l \in Nat /\ l >= 1 /\ \A k \in 1 .. l : b[k] \in Nat /\ b[k] <= st.last /\ e.time >= b[k]
  <2>1. l \in Nat /\ l >= 1  BY <1>3, StatisticsAssumption
  <2>2. ASSUME NEW k \in 1 .. l PROVE b[k] \in Nat /\ b[k] <= st.last /\ e.time >= b[k]
    <3>1. b[k] \in 0 .. st.last  BY <1>3
    <3> QED  BY <3>1, <1>5
  <2> QED  BY <2>1, <2>2
<1>7. ASSUME NEW k \in 1 .. l
      PROVE  r.samples[k].count = From(more, b[k]) - (IF k = 1 THEN 0 ELSE From(more, b[k - 1]))
  <2>1. From(more, b[k]) = From(lg, b[k]) + 1 /\ From(lg, b[k]) \in Nat  BY <1>1, <1>2, <1>6
  <2>2. CASE k = 1
    <3>1. s[k].count = From(lg, b[k])  BY <1>1, <1>3, <2>2
    <3>2. r.samples[k].count = s[k].count + 1  BY <1>4, <2>2
    <3> QED  BY <2>1, <2>2, <3>1, <3>2
  <2>3. CASE k # 1
    <3> DEFINE j == k - 1
    <3>1. j \in 1 .. l  BY <2>3, <1>6
    <3>2. s[k].count = From(lg, b[k]) - From(lg, b[j])  BY <1>3, <2>3
    <3> HIDE DEF j
    <3>3. From(more, b[j]) = From(lg, b[j]) + 1 /\ From(lg, b[j]) \in Nat  BY <3>1, <1>1, <1>2, <1>6
    <3>4. r.samples[k].count = s[k].count + 0  BY <1>4, <2>3
    <3>5. r.samples[k].count = From(more, b[k]) - From(more, b[j])
      BY <2>1, <3>2, <3>3, <3>4
    <3> QED  BY <2>3, <3>5 DEF j
  <2> QED  BY <2>2, <2>3
<1>8. ASSUME NEW i \in 1 .. Len(more)
      PROVE  (i \in 1 .. Len(lg) /\ more[i] = lg[i]) \/ more[i] = e
  BY <1>1, <1>2
<1>9. ASSUME NEW k \in 1 .. l, NEW i \in 1 .. Len(more), more[i].time < b[k]
      PROVE  more[i].time + (k - 1) * Delta < st.last
  <2>1. CASE i \in 1 .. Len(lg) /\ more[i] = lg[i]
    BY <2>1, <1>3, <1>9
  <2>2. CASE more[i] = e
    BY <2>2, <1>5, <1>6, <1>9
  <2> QED  BY <2>1, <2>2, <1>8
<1>10. ASSUME l < MaxSlots, NEW i \in 1 .. Len(more) PROVE more[i].time >= b[l]
  <2>1. CASE i \in 1 .. Len(lg) /\ more[i] = lg[i]
    BY <2>1, <1>3, <1>10
  <2>2. CASE more[i] = e
    <3>1. l \in 1 .. l  BY <1>6
    <3> QED  BY <2>2, <3>1, <1>6
  <2> QED  BY <2>1, <2>2, <1>8
<1> QED  BY <1>3, <1>4, <1>7, <1>9, <1>10 DEF RingInv, more, l

\* Products with Delta.
LEMMA DeltaTimes ==
  /\ Delta \in Nat /\ Delta > 0
  /\ \A i \in Nat : i * Delta \in Nat
  /\ \A i, j \in Nat : (i + j) * Delta = i * Delta + j * Delta /\ (i <= j => i * Delta <= j * Delta)
  /\ \A i \in Nat : (i + 1) * Delta = i * Delta + Delta
<1>1. Delta \in Nat /\ Delta > 0  BY StatisticsAssumption
<1>2. \A i \in Nat : i * Delta \in Nat  BY <1>1, SMT
<1>3. \A i, j \in Nat : (i + j) * Delta = i * Delta + j * Delta  BY <1>1, SMT
<1>4. \A i, j \in Nat : i <= j => i * Delta <= j * Delta  BY <1>1, SMT
<1>5. \A i \in Nat : (i + 1) * Delta = i * Delta + Delta  BY <1>1, SMT
<1> QED  BY <1>1, <1>2, <1>3, <1>4, <1>5

\* When the ring is pushed on, what was in slot j is in slot n + j.
LEMMA RingRolls ==
  ASSUME NEW st, NEW r, NEW lg \in Seq(LogType), NEW e \in LogType, NEW b,
         NEW n \in 1 .. MaxSlots,
         RingInv(st, lg, b), RolledBy(r, st, n, e.time), st.last \in Nat,
         \A i \in 1 .. Len(lg) : lg[i].time < st.last + Delta,
         n * Delta <= e.time - st.last,
         n = MaxSlots \/ e.time - st.last < n * Delta + Delta
  PROVE  \E c \in [1 .. Len(r.samples) -> 0 .. e.time] : RingInv(r, Append(lg, e), c)
<1> DEFINE more == Append(lg, e)
           s == st.samples
           l == Len(s)
           m == Len(r.samples)
           t == e.time
           c == [k \in 1 .. m |-> IF k <= n THEN t ELSE b[k - n]]
           u == st.last
           nd == n * Delta
<1>1. /\ Len(lg) \in Nat /\ \A i \in 1 .. Len(lg) : lg[i].time \in Nat
      /\ \A v : From(lg, v) \in Nat
  BY SomeOfLog
<1>2. /\ Len(more) = Len(lg) + 1 /\ \A i \in 1 .. Len(lg) : more[i] = lg[i]
      /\ more[Len(lg) + 1] = e
      /\ \A v : t >= v => From(more, v) = From(lg, v) + 1
  BY LogGrows
<1>3. /\ l \in 1 .. MaxSlots /\ b \in [1 .. l -> 0 .. u] /\ b[1] = u
      /\ \A k \in 1 .. l :
           /\ u <= b[k] + 2 * ((k - 1) * Delta)
           /\ s[k].count = From(lg, b[k]) - (IF k = 1 THEN 0 ELSE From(lg, b[k - 1]))
           /\ \A i \in 1 .. Len(lg) :
                lg[i].time < b[k] => lg[i].time + (k - 1) * Delta < u
      /\ l < MaxSlots => \A i \in 1 .. Len(lg) : lg[i].time >= b[l]
  BY DEF RingInv
<1>4. /\ r.last = t /\ m = (IF n + l < MaxSlots THEN n + l ELSE MaxSlots)
      /\ \A k \in 1 .. m :
           r.samples[k].count = IF k = 1 THEN 1 ELSE IF k <= n THEN 0 ELSE s[k - n].count
  BY DEF RolledBy
<1>5. /\ t \in Nat /\ u \in Nat /\ nd \in Nat /\ nd <= t - u /\ Delta \in Nat /\ Delta > 0
      /\ Delta <= nd /\ n \in Nat /\ n >= 1 /\ MaxSlots \in Nat /\ n <= MaxSlots
      /\ n = MaxSlots \/ t - u < nd + Delta
      /\ \A i \in 1 .. Len(lg) : lg[i].time < u + Delta
  <2>1. t \in Nat  BY DEF LogType
  <2>2. n \in Nat /\ n >= 1 /\ n <= MaxSlots /\ MaxSlots \in Nat  BY StatisticsAssumption
  <2>3. Delta \in Nat /\ Delta > 0 /\ nd \in Nat  BY <2>2, DeltaTimes
  <2>4. Delta <= nd
    <3>1. 1 * Delta <= n * Delta  BY <2>2, DeltaTimes
    <3>2. 1 * Delta = Delta  BY <2>3
    <3> QED  BY <3>1, <3>2
  <2> QED  BY <2>1, <2>2, <2>3, <2>4
<1> HIDE DEF more, s, l, m, t, u, nd
<1>6. m \in 1 .. MaxSlots /\ n <= m /\ l \in Nat /\ m <= n + l /\ m \in Nat
      /\ (m < MaxSlots => m = n + l)
  BY <1>3, <1>4, <1>5
<1>7. ASSUME NEW k \in 1 .. m, ~(k <= n)
      PROVE  LET j == k - n
             IN  /\ j \in 1 .. l /\ c[k] = b[j] /\ b[j] \in 0 .. u /\ t >= b[j]
                 /\ n # MaxSlots /\ (k - 1) * Delta = nd + (j - 1) * Delta
                 /\ (j - 1) * Delta \in Nat
  <2> DEFINE j == k - n
             i == j - 1
  <2>1. j \in 1 .. l /\ n # MaxSlots /\ i \in Nat /\ n + i = k - 1  BY <1>5, <1>6, <1>7
  <2>2. c[k] = b[j]  BY <1>7
  <2> HIDE DEF j, c
  <2>3. b[j] \in 0 .. u  BY <2>1, <1>3
  <2>4. t >= b[j]  BY <2>3, <1>5
  <2> HIDE DEF i
  <2>5. (n + i) * Delta = n * Delta + i * Delta /\ i * Delta \in Nat  BY <2>1, <1>5, DeltaTimes
  <2> QED  BY <2>1, <2>2, <2>3, <2>4, <2>5 DEF i, j, nd
<1>8. ASSUME NEW k \in 1 .. m, k <= n PROVE c[k] = t
  BY <1>8
<1>9. c \in [1 .. m -> 0 .. t] /\ c[1] = t
  <2>1. ASSUME NEW k \in 1 .. m PROVE c[k] \in 0 .. t
    <3>1. CASE k <= n
      BY <3>1, <1>5, <1>8
    <3>2. CASE ~(k <= n)
      <4>1. c[k] \in 0 .. u /\ t >= c[k]  BY <3>2, <1>7
      <4> HIDE DEF c
      <4> QED  BY <4>1, <1>5
    <3> QED  BY <3>1, <3>2
  <2>2. c = [k \in 1 .. m |-> c[k]]  OBVIOUS
  <2>3. 1 \in 1 .. m /\ 1 <= n  BY <1>5, <1>6
  <2>4. c[1] = t  BY <2>3, <1>8
  <2> HIDE DEF c
  <2> QED  BY <2>1, <2>2, <2>4
<1> HIDE DEF c
<1>10. ASSUME NEW k \in 1 .. m PROVE t <= c[k] + 2 * ((k - 1) * Delta)
  <2>1. CASE k <= n
    <3> DEFINE x == (k - 1) * Delta
    <3>1. k - 1 \in Nat  BY <1>6
    <3>2. x \in Nat  BY <3>1, DeltaTimes
    <3> HIDE DEF x
    <3>3. t <= t + 2 * x  BY <3>2, <1>5
    <3> QED  BY <2>1, <3>3, <1>8 DEF x
  <2>2. CASE ~(k <= n)
    <3> DEFINE j == k - n
               x == (j - 1) * Delta
               y == (k - 1) * Delta
               v == b[j]
    <3>1. j \in 1 .. l /\ c[k] = v /\ v \in 0 .. u /\ n # MaxSlots /\ y = nd + x /\ x \in Nat
      BY <2>2, <1>7
    <3>2. u <= v + 2 * x  BY <3>1, <1>3
    <3> HIDE DEF j, x, y, v
    <3>3. v \in Nat /\ t - u < nd + Delta /\ Delta <= nd  BY <3>1, <1>5
    <3>4. t <= v + 2 * y  BY <3>1, <3>2, <3>3, <1>5
    <3> QED  BY <3>1, <3>4 DEF y
  <2> QED  BY <2>1, <2>2
<1>11. From(lg, t) = 0
  <2>1. \A i \in 1 .. Len(lg) : ~(lg[i].time >= t)  BY <1>1, <1>5
  <2>2. {i \in 1 .. Len(lg) : lg[i].time >= t} = {}  BY <2>1
  <2> QED  BY <2>2, FS_EmptySet DEF From
<1>12. \A k \in 1 .. m : From(more, c[k]) = From(lg, c[k]) + 1 /\ From(lg, c[k]) \in Nat
  <2> TAKE k \in 1 .. m
  <2>1. c[k] \in 0 .. t  BY <1>9
  <2>2. t >= c[k]  BY <2>1, <1>5
  <2> QED  BY <2>2, <1>1, <1>2
<1>13. ASSUME NEW k \in 1 .. m
       PROVE  r.samples[k].count = From(more, c[k]) - (IF k = 1 THEN 0 ELSE From(more, c[k - 1]))
  <2> DEFINE p == k - 1
             q == From(more, c[k])
             w == From(more, c[p])
  <2>1. CASE k = 1
    <3>1. q = From(lg, t) + 1  BY <2>1, <1>9, <1>12
    <3>2. r.samples[k].count = 1  BY <2>1, <1>4
    <3> QED  BY <2>1, <3>1, <3>2, <1>11
  <2>2. CASE k # 1 /\ k <= n
    <3>1. p \in 1 .. m /\ p <= n  BY <2>2, <1>5, <1>6
    <3>2. c[p] = t /\ c[k] = t  BY <2>2, <3>1, <1>8
    <3>3. q \in Nat /\ w = q  BY <3>2, <1>12, <1>1
    <3>4. r.samples[k].count = 0  BY <2>2, <1>4
    <3> HIDE DEF q, w
    <3>5. r.samples[k].count = q - w  BY <3>3, <3>4
    <3> QED  BY <2>2, <3>5 DEF q, w
  <2>3. CASE k # 1 /\ ~(k <= n)
    <3> DEFINE j == k - n
    <3>1. j \in 1 .. l /\ c[k] = b[j]  BY <2>3, <1>7
    <3>2. r.samples[k].count = s[j].count  BY <2>3, <1>4
    <3>3. q = From(lg, b[j]) + 1 /\ From(lg, b[j]) \in Nat  BY <3>1, <1>12
    <3>4. p \in 1 .. m  BY <2>3, <1>5, <1>6
    <3>5. CASE j = 1
      <4>1. p <= n  BY <3>5, <1>5, <1>6
      <4>2. c[p] = t  BY <4>1, <3>4, <1>8
      <4>3. w = From(lg, t) + 1  BY <4>2, <3>4, <1>12
      <4>4. s[j].count = From(lg, b[j])  BY <3>1, <3>3, <3>5, <1>3
      <4> HIDE DEF j, q, w
      <4>5. s[j].count = q - w  BY <3>3, <4>3, <4>4, <1>11
      <4> QED  BY <2>3, <3>2, <4>5 DEF q, w
    <3>6. CASE j # 1
      <4> DEFINE h == j - 1
      <4>1. ~(p <= n) /\ p - n = h  BY <3>1, <3>6, <1>5, <1>6
      <4>2. c[p] = b[h]  BY <4>1, <3>4, <1>7
      <4>3. w = From(lg, b[h]) + 1 /\ From(lg, b[h]) \in Nat  BY <4>2, <3>4, <1>12
      <4>4. s[j].count = From(lg, b[j]) - From(lg, b[h])  BY <3>1, <3>6, <1>3
      <4> HIDE DEF j, h, q, w
      <4>5. s[j].count = q - w  BY <3>3, <4>3, <4>4
      <4> QED  BY <2>3, <3>2, <4>5 DEF q, w
    <3> QED  BY <3>5, <3>6
  <2> QED  BY <2>1, <2>2, <2>3
<1>14. ASSUME NEW i \in 1 .. Len(more)
       PROVE  (i \in 1 .. Len(lg) /\ more[i] = lg[i]) \/ more[i] = e
  BY <1>1, <1>2
<1>15. ASSUME NEW k \in 1 .. m, NEW i \in 1 .. Len(more), more[i].time < c[k]
       PROVE  more[i].time + (k - 1) * Delta < t
  <2>1. i \in 1 .. Len(lg) /\ more[i] = lg[i]
    <3>1. more[i] # e
      <4>1. c[k] \in 0 .. t  BY <1>9
      <4>2. ~(t < c[k])  BY <4>1, <1>5
      <4> QED  BY <4>2, <1>15 DEF t
    <3> QED  BY <3>1, <1>14
  <2> DEFINE a == lg[i].time
             y == (k - 1) * Delta
  <2>2. a \in Nat /\ a < u + Delta /\ a < c[k] /\ more[i].time = a  BY <2>1, <1>1, <1>5, <1>15
  <2>3. CASE k <= n
    <3>1. k - 1 \in Nat /\ n - 1 \in Nat /\ k - 1 <= n - 1 /\ n - 1 + 1 = n  BY <2>3, <1>5, <1>6
    <3>2. y <= (n - 1) * Delta /\ nd = (n - 1) * Delta + Delta /\ y \in Nat /\ (n - 1) * Delta \in Nat
      <4> DEFINE x == n - 1
                 z == k - 1
      <4>1. x \in Nat /\ z \in Nat /\ z <= x /\ x + 1 = n  BY <3>1
      <4> HIDE DEF x, z
      <4>2. z * Delta <= x * Delta /\ (x + 1) * Delta = x * Delta + Delta
            /\ z * Delta \in Nat /\ x * Delta \in Nat
        BY <4>1, DeltaTimes
      <4> QED  BY <4>1, <4>2 DEF x, z, nd
    <3> DEFINE x == (n - 1) * Delta
    <3> HIDE DEF a, y, x
    <3>3. a + y < t  BY <2>2, <3>2, <1>5 DEF x
    <3> QED  BY <2>2, <3>3 DEF y
  <2>4. CASE ~(k <= n)
    <3> DEFINE j == k - n
               x == (j - 1) * Delta
    <3>1. j \in 1 .. l /\ c[k] = b[j] /\ y = nd + x /\ x \in Nat  BY <2>4, <1>7
    <3>2. a < b[j] => a + x < u  BY <2>1, <3>1, <1>3
    <3> HIDE DEF a, j, x, y
    <3>3. /\ a \in Nat /\ a + x < u /\ y = nd + x /\ x \in Nat
          /\ t \in Nat /\ u \in Nat /\ nd \in Nat /\ nd <= t - u
      BY <2>2, <3>1, <3>2, <1>5
    <3>4. a + y < t  BY <3>3
    <3> QED  BY <2>2, <3>4 DEF y
  <2> QED  BY <2>3, <2>4
<1>16. ASSUME m < MaxSlots, NEW i \in 1 .. Len(more) PROVE more[i].time >= c[m]
  <2>1. m = n + l /\ l < MaxSlots /\ l \in 1 .. l /\ m \in 1 .. m /\ ~(m <= n) /\ m - n = l
    BY <1>3, <1>5, <1>6, <1>16
  <2>2. c[m] = b[l] /\ t >= b[l]  BY <2>1, <1>7
  <2>3. CASE i \in 1 .. Len(lg) /\ more[i] = lg[i]
    BY <2>1, <2>2, <2>3, <1>3
  <2>4. CASE more[i] = e
    BY <2>2, <2>4 DEF t
  <2> QED  BY <2>3, <2>4, <1>14
<1>17. ASSUME NEW k \in 1 .. m
       PROVE  /\ t <= c[k] + 2 * ((k - 1) * Delta)
              /\ r.samples[k].count = From(more, c[k]) - (IF k = 1 THEN 0 ELSE From(more, c[k - 1]))
              /\ \A i \in 1 .. Len(more) :
                   more[i].time < c[k] => more[i].time + (k - 1) * Delta < t
  BY <1>10, <1>13, <1>15
<1>18. r.last = t  BY <1>4
<1>19. m < MaxSlots => \A i \in 1 .. Len(more) : more[i].time >= c[m]
  BY <1>16
<1>20. \A k \in 1 .. m :
         /\ r.last <= c[k] + 2 * ((k - 1) * Delta)
         /\ r.samples[k].count = From(more, c[k]) - (IF k = 1 THEN 0 ELSE From(more, c[k - 1]))
         /\ \A i \in 1 .. Len(more) :
              more[i].time < c[k] => more[i].time + (k - 1) * Delta < r.last
  BY <1>17, <1>18
<1>21. /\ m \in 1 .. MaxSlots /\ c \in [1 .. m -> 0 .. r.last] /\ c[1] = r.last
  BY <1>6, <1>9, <1>18
<1>22. RingInv(r, more, c)
  BY <1>19, <1>20, <1>21, Zenon DEF RingInv, m
<1> QED  BY <1>9, <1>22 DEF more, m, t

\* The first message begins a ring of one slot.
LEMMA RingBegins ==
  ASSUME NEW r, NEW e \in LogType, Begun(r, e.time)
  PROVE  /\ \E c \in [1 .. Len(r.samples) -> 0 .. e.time] : RingInv(r, <<e>>, c)
         /\ TotalInv(r, <<e>>)
<1> DEFINE t == e.time
           lg == <<e>>
           c == [k \in 1 .. 1 |-> t]
<1>1. t \in Nat /\ MaxSlots \in Nat /\ MaxSlots >= 1  BY StatisticsAssumption DEF LogType
<1>2. lg \in Seq(LogType) /\ Len(lg) = 1 /\ lg[1] = e  OBVIOUS
<1>3. r.last = t /\ r.start = t /\ r.messages = 0 /\ Len(r.samples) = 1 /\ r.samples[1].count = 1
  BY DEF Begun
<1> HIDE DEF lg, t
<1>4. \A i \in 1 .. Len(lg) : lg[i].time = t
  <2>1. \A i \in 1 .. Len(lg) : i = 1  BY <1>2
  <2> QED  BY <2>1, <1>2 DEF t
<1>5. From(lg, t) = 1
  <2>1. {i \in 1 .. Len(lg) : lg[i].time >= t} = 1 .. Len(lg)  BY <1>1, <1>4
  <2>2. Cardinality(1 .. Len(lg)) = Len(lg)  BY <1>2, SomeOfLog
  <2> QED  BY <2>1, <2>2, <1>2 DEF From
<1>6. c \in [1 .. 1 -> 0 .. t] /\ c[1] = t
  BY <1>1
<1> HIDE DEF c
<1>7. 0 * Delta = 0  BY DeltaTimes
<1>8. ASSUME NEW k \in 1 .. 1
      PROVE  /\ r.last <= c[k] + 2 * ((k - 1) * Delta)
             /\ r.samples[k].count = From(lg, c[k]) - (IF k = 1 THEN 0 ELSE From(lg, c[k - 1]))
             /\ \A i \in 1 .. Len(lg) :
                  lg[i].time < c[k] => lg[i].time + (k - 1) * Delta < r.last
  <2>1. k = 1 /\ k - 1 = 0  OBVIOUS
  <2>2. r.last <= c[k] + 2 * ((k - 1) * Delta)  BY <2>1, <1>1, <1>3, <1>6, <1>7
  <2>3. r.samples[k].count = From(lg, c[k]) - (IF k = 1 THEN 0 ELSE From(lg, c[k - 1]))
    BY <2>1, <1>3, <1>5, <1>6
  <2>4. ASSUME NEW i \in 1 .. Len(lg) PROVE ~(lg[i].time < c[k])
    BY <2>1, <1>1, <1>4, <1>6
  <2> QED  BY <2>2, <2>3, <2>4
<1>9. 1 < MaxSlots => \A i \in 1 .. Len(lg) : lg[i].time >= c[1]
  BY <1>1, <1>4, <1>6
<1>10. 1 \in 1 .. MaxSlots  BY <1>1
<1>11. RingInv(r, lg, c)
  <2> DEFINE l == Len(r.samples)
  <2>1. l = 1  BY <1>3
  <2> HIDE DEF l
  <2>2. l \in 1 .. MaxSlots /\ c \in [1 .. l -> 0 .. r.last] /\ c[1] = r.last
    BY <2>1, <1>3, <1>6, <1>10
  <2>3. \A k \in 1 .. l :
             /\ r.last <= c[k] + 2 * ((k - 1) * Delta)
             /\ r.samples[k].count = From(lg, c[k]) - (IF k = 1 THEN 0 ELSE From(lg, c[k - 1]))
             /\ \A i \in 1 .. Len(lg) :
                  lg[i].time < c[k] => lg[i].time + (k - 1) * Delta < r.last
    BY <2>1, <1>8, Zenon
  <2>4. l < MaxSlots => \A i \in 1 .. Len(lg) : lg[i].time >= c[l]
    BY <2>1, <1>9, Zenon
  <2> QED  BY <2>2, <2>3, <2>4, Zenon DEF RingInv, l
<1>12. TotalInv(r, lg)
  <2>1. \A i \in 1 .. Len(lg) : lg[i].time >= r.last  BY <1>1, <1>3, <1>4
  <2> QED  BY <2>1, <1>3 DEF TotalInv
<1> QED  BY <1>3, <1>6, <1>11, <1>12 DEF lg, t

\* The total, when the slot stays and when the ring is pushed on.
LEMMA TotalStays ==
  ASSUME NEW st, NEW r, NEW lg \in Seq(LogType), NEW e \in LogType,
         st.last \in Nat, st.start \in Nat, st.messages \in Nat,
         TotalInv(st, lg), Stayed(r, st), e.time >= st.last
  PROVE  TotalInv(r, Append(lg, e))
<1> DEFINE more == Append(lg, e)
           u == st.last
           v == st.start + Delta
           x == From(lg, u)
           y == UpTo(lg, v)
<1>1. /\ r.last = u /\ r.start = st.start /\ r.messages = st.messages /\ e.time \in Nat
      /\ Delta \in Nat /\ e.time >= u /\ u \in Nat
  BY StatisticsAssumption DEF Stayed, LogType
<1>2. x \in Nat /\ y \in Nat /\ Len(lg) \in Nat  BY SomeOfLog
<1>3. /\ Len(more) = Len(lg) + 1 /\ From(more, u) = x + 1
      /\ \A i \in 1 .. Len(lg) : more[i] = lg[i]
      /\ more[Len(lg) + 1] = e
      /\ (~(e.time < v) => UpTo(more, v) = y)
  BY <1>1, LogGrows
<1> HIDE DEF more
<1>4. CASE u = st.start /\ st.messages = 0 /\ \A i \in 1 .. Len(lg) : lg[i].time >= u
  <2>1. ASSUME NEW i \in 1 .. Len(more) PROVE more[i].time >= u
    <3>1. i \in 1 .. Len(lg) \/ i = Len(lg) + 1  BY <1>2, <1>3
    <3> QED  BY <3>1, <1>1, <1>3, <1>4
  <2> QED  BY <2>1, <1>1, <1>4 DEF TotalInv, more
<1>5. CASE /\ u >= v
           /\ st.messages + x = Len(lg) \/ st.messages + x = Len(lg) - y
  <2>1. UpTo(more, v) = y
    <3>1. v \in Nat  BY <1>1
    <3> HIDE DEF u, v, x, y
    <3>2. ~(e.time < v)  BY <3>1, <1>1, <1>5
    <3> QED  BY <3>2, <1>3
  <2> HIDE DEF x, y
  <2> DEFINE m == st.messages
             l == Len(lg)
  <2>2. /\ m \in Nat /\ l \in Nat /\ Len(more) = l + 1 /\ From(more, u) = x + 1
        /\ x \in Nat /\ y \in Nat /\ (m + x = l \/ m + x = l - y)
    BY <1>2, <1>3, <1>5
  <2> HIDE DEF m, l
  <2>3. m + From(more, u) = Len(more) \/ m + From(more, u) = Len(more) - UpTo(more, v)
    BY <2>1, <2>2
  <2> QED  BY <2>3, <1>1, <1>5 DEF TotalInv, more, m
<1>6. \/ u = st.start /\ st.messages = 0 /\ \A i \in 1 .. Len(lg) : lg[i].time >= u
      \/ u >= v /\ (st.messages + x = Len(lg) \/ st.messages + x = Len(lg) - y)
  BY DEF TotalInv
<1> QED  BY <1>4, <1>5, <1>6

LEMMA TotalRolls ==
  ASSUME NEW st, NEW r, NEW lg \in Seq(LogType), NEW e \in LogType, NEW n,
         st.last \in Nat, st.start \in Nat, st.messages \in Nat,
         TotalInv(st, lg), RolledBy(r, st, n, e.time),
         st.samples[1].count = From(lg, st.last),
         \A i \in 1 .. Len(lg) : lg[i].time < st.last + Delta,
         st.last + Delta <= e.time
  PROVE  TotalInv(r, Append(lg, e))
<1> DEFINE more == Append(lg, e)
           t == e.time
           u == st.last
           v == st.start + Delta
           x == From(lg, u)
           y == UpTo(lg, v)
<1>1. /\ r.last = t /\ r.start = st.start /\ t \in Nat /\ u \in Nat /\ v \in Nat
      /\ Delta \in Nat /\ Delta > 0 /\ Deferred \in Nat /\ Deferred < 2 * Delta
      /\ u + Delta <= t
      /\ \/ r.messages = st.messages + x
         \/ t - st.start <= Deferred /\ r.messages = st.messages
  <2>1. /\ Delta \in Nat /\ Delta > 0 /\ Deferred \in Nat /\ Deferred < 2 * Delta
    BY StatisticsAssumption
  <2>2. t \in Nat /\ u \in Nat /\ v \in Nat  BY <2>1 DEF LogType
  <2>3. /\ r.last = t /\ r.start = st.start
        /\ \/ r.messages = st.messages + st.samples[1].count
           \/ t - st.start <= Deferred /\ r.messages = st.messages
    BY DEF RolledBy
  <2> QED  BY <2>1, <2>2, <2>3
<1>2. x \in Nat /\ y \in Nat /\ Len(lg) \in Nat /\ \A i \in 1 .. Len(lg) : lg[i].time \in Nat
  BY SomeOfLog
<1>3. /\ Len(more) = Len(lg) + 1 /\ From(more, t) = From(lg, t) + 1
      /\ (~(t < v) => UpTo(more, v) = y)
  BY <1>1, LogGrows
<1>4. From(lg, t) = 0
  <2>1. \A i \in 1 .. Len(lg) : ~(lg[i].time >= t)  BY <1>1, <1>2
  <2>2. {i \in 1 .. Len(lg) : lg[i].time >= t} = {}  BY <2>1
  <2> QED  BY <2>2, FS_EmptySet DEF From
<1>5. t >= v /\ UpTo(more, v) = y
      /\ \/ r.messages = Len(lg)
         \/ r.messages = Len(lg) - y
  <2>1. CASE u = st.start /\ st.messages = 0 /\ \A i \in 1 .. Len(lg) : lg[i].time >= u
    <3>1. v = u + Delta  BY <2>1
    <3>2. x = Len(lg)
      <4>1. {i \in 1 .. Len(lg) : lg[i].time >= u} = 1 .. Len(lg)  BY <2>1
      <4> QED  BY <4>1, SomeOfLog DEF From
    <3>3. y = Len(lg)
      <4>1. {i \in 1 .. Len(lg) : lg[i].time < v} = 1 .. Len(lg)  BY <3>1
      <4> QED  BY <4>1, SomeOfLog DEF UpTo
    <3> HIDE DEF x, y, v
    <3>4. t >= v /\ ~(t < v)  BY <3>1, <1>1
    <3>5. r.messages = Len(lg) \/ r.messages = Len(lg) - y
      BY <2>1, <1>1, <1>2, <3>2, <3>3
    <3> QED  BY <3>4, <3>5, <1>3
  <2>2. CASE u >= v /\ (st.messages + x = Len(lg) \/ st.messages + x = Len(lg) - y)
    <3>1. t >= v /\ ~(t < v) /\ ~(t - st.start <= Deferred)  BY <2>2, <1>1
    <3> HIDE DEF x, y, v
    <3>2. r.messages = Len(lg) \/ r.messages = Len(lg) - y
      BY <2>2, <3>1, <1>1
    <3> QED  BY <3>1, <3>2, <1>3
  <2>3. \/ u = st.start /\ st.messages = 0 /\ \A i \in 1 .. Len(lg) : lg[i].time >= u
        \/ u >= v /\ (st.messages + x = Len(lg) \/ st.messages + x = Len(lg) - y)
    BY DEF TotalInv
  <2> QED  BY <2>1, <2>2, <2>3
<1> HIDE DEF more, x, y
<1>6. r.messages + From(more, t) = Len(more) \/ r.messages + From(more, t) = Len(more) - UpTo(more, v)
  BY <1>2, <1>3, <1>4, <1>5
<1> QED  BY <1>1, <1>5, <1>6 DEF TotalInv, more

\* log keeps the statistics sound.
LEMMA LogKeepsSound ==
  ASSUME NEW st, NEW lg \in Seq(LogType), StatSound(st, lg), NEW t \in Nat, t <= MaxTime,
         st.last <= t, NEW size \in Nat, NEW late \in BOOLEAN
  PROVE  LET r == Log(st, t, late, size)
         IN  StatSound(r, Append(lg, [time |-> t, size |-> size])) /\ r.last <= t
<1> DEFINE r == Log(st, t, late, size)
           e == [time |-> t, size |-> size]
           more == Append(lg, e)
           n == Slots(Wrapped(t - st.last))
<1>1. /\ st \in StatType /\ st.start \in Nat /\ st.last \in Nat /\ TotalInv(st, lg)
      /\ \A i \in 1 .. Len(lg) : lg[i].time < st.last + Delta
  BY DEF StatSound
<1>2. PICK b \in [1 .. Len(st.samples) -> 0 .. st.last] : RingInv(st, lg, b)
  BY DEF StatSound
<1>3. /\ Len(st.samples) > 0 /\ st.messages \in Nat
      /\ st.samples[1].count = From(lg, st.last)
  <2>1. Len(st.samples) \in 1 .. MaxSlots /\ b[1] = st.last
        /\ \A k \in 1 .. Len(st.samples) :
             st.samples[k].count = From(lg, b[k]) - (IF k = 1 THEN 0 ELSE From(lg, b[k - 1]))
    BY <1>2 DEF RingInv
  <2>2. 1 \in 1 .. Len(st.samples) /\ Len(st.samples) > 0  BY <2>1, StatisticsAssumption
  <2>3. From(lg, st.last) \in Nat  BY SomeOfLog
  <2>4. st.samples[1].count = From(lg, st.last)  BY <2>1, <2>2, <2>3
  <2> QED  BY <2>2, <2>4, <1>1 DEF StatType
<1>4. e \in LogType /\ e.time = t  BY DEF LogType
<1>5. /\ n \in 0 .. MaxSlots /\ n * Delta \in Nat /\ n * Delta <= t - st.last
      /\ n = MaxSlots \/ t - st.last < n * Delta + Delta
  BY <1>1, SlotsSince
<1>6. /\ Len(lg) \in Nat /\ Len(more) = Len(lg) + 1 /\ \A i \in 1 .. Len(lg) : more[i] = lg[i]
      /\ more[Len(lg) + 1] = e
  BY <1>4, SomeOfLog, LogGrows
<1>7. ASSUME NEW i \in 1 .. Len(more)
      PROVE  (i \in 1 .. Len(lg) /\ more[i] = lg[i]) \/ more[i] = e
  BY <1>6
<1> HIDE DEF r, e, more, n
<1>8. CASE n = 0
  <2>1. Slots(Wrapped(t - st.last)) = 0  BY <1>8 DEF n
  <2>2. r \in StatType /\ Stayed(r, st)  BY <2>1, <1>1, <1>3, LogStays DEF r
  <2>3. e.time >= st.last  BY <1>1, <1>4
  <2>4. RingInv(r, more, b)
    BY <2>2, <2>3, <1>1, <1>2, <1>4, RingStays DEF more
  <2>5. TotalInv(r, more)
    BY <2>2, <2>3, <1>1, <1>3, <1>4, TotalStays DEF more
  <2>6. r.last = st.last /\ r.start = st.start /\ Len(r.samples) = Len(st.samples)
    BY <2>2 DEF Stayed
  <2>7. t < st.last + Delta
    <3>1. n * Delta = 0 /\ n # MaxSlots /\ Delta \in Nat  BY <1>8, StatisticsAssumption
    <3> QED  BY <3>1, <1>1, <1>5
  <2>8. \A i \in 1 .. Len(more) : more[i].time < r.last + Delta
    BY <2>6, <2>7, <1>1, <1>4, <1>7
  <2>9. b \in [1 .. Len(r.samples) -> 0 .. r.last]  BY <2>6
  <2>10. StatSound(r, more)
    BY <2>2, <2>4, <2>5, <2>6, <2>8, <2>9, <1>1 DEF StatSound
  <2> QED  BY <2>6, <2>10 DEF r, more, e
<1>9. CASE n # 0
  <2>1. n \in 1 .. MaxSlots /\ n \in Nat /\ n >= 1  BY <1>5, <1>9, StatisticsAssumption
  <2>2. r \in StatType /\ RolledBy(r, st, n, t)
    BY <2>1, <1>1, <1>3, LogRolls DEF r, n
  <2>3. \E c \in [1 .. Len(r.samples) -> 0 .. e.time] : RingInv(r, Append(lg, e), c)
    BY <2>1, <2>2, <1>1, <1>2, <1>4, <1>5, RingRolls
  <2>4. st.last + Delta <= t
    <3>1. 1 * Delta <= n * Delta /\ 1 * Delta = Delta /\ Delta \in Nat  BY <2>1, DeltaTimes
    <3> QED  BY <3>1, <1>1, <1>5
  <2>5. TotalInv(r, more)
    BY <2>2, <2>4, <1>1, <1>3, <1>4, TotalRolls DEF more
  <2>6. r.last = t /\ r.start = st.start  BY <2>2 DEF RolledBy
  <2>7. \A i \in 1 .. Len(more) : more[i].time < r.last + Delta
    <3> TAKE i \in 1 .. Len(more)
    <3>1. Delta \in Nat /\ Delta > 0  BY StatisticsAssumption
    <3>2. CASE more[i] = e
      BY <3>1, <3>2, <2>6, <1>4
    <3>3. CASE i \in 1 .. Len(lg) /\ more[i] = lg[i]
      <4>1. lg[i].time < st.last + Delta /\ lg[i].time \in Nat  BY <3>3, <1>1, SomeOfLog
      <4> QED  BY <4>1, <3>1, <3>3, <2>4, <2>6, <1>1
    <3> QED  BY <3>2, <3>3, <1>7
  <2>8. StatSound(r, more)
    BY <2>2, <2>3, <2>5, <2>6, <2>7, <1>1, <1>4 DEF StatSound, more
  <2> QED  BY <2>6, <2>8 DEF r, more, e
<1> QED  BY <1>8, <1>9

\* So does the first message.
LEMMA LogBeginsSound ==
  ASSUME NEW t \in Nat, t <= MaxTime, NEW size \in Nat, NEW late \in BOOLEAN
  PROVE  LET r == Log(NoStatistics, t, late, size)
         IN  StatSound(r, Append(<<>>, [time |-> t, size |-> size])) /\ r.last <= t
<1> DEFINE r == Log(NoStatistics, t, late, size)
           e == [time |-> t, size |-> size]
<1>1. r \in StatType /\ Begun(r, t)  BY LogBegins
<1>2. e \in LogType /\ e.time = t  BY DEF LogType
<1>3. Append(<<>>, e) = <<e>> /\ Len(<<e>>) = 1 /\ <<e>>[1] = e  OBVIOUS
<1> HIDE DEF r, e
<1>4. /\ \E c \in [1 .. Len(r.samples) -> 0 .. t] : RingInv(r, <<e>>, c)
      /\ TotalInv(r, <<e>>)
  BY <1>1, <1>2, RingBegins
<1>5. r.last = t /\ r.start = t  BY <1>1 DEF Begun
<1>6. \A i \in 1 .. Len(<<e>>) : <<e>>[i].time < r.last + Delta
  <2> TAKE i \in 1 .. Len(<<e>>)
  <2>1. <<e>>[i] = e  BY <1>3
  <2>2. t < t + Delta  BY StatisticsAssumption
  <2> QED  BY <2>1, <2>2, <1>2, <1>5
<1>7. StatSound(r, <<e>>)  BY <1>1, <1>4, <1>5, <1>6 DEF StatSound
<1> QED  BY <1>3, <1>5, <1>7 DEF r, e
-----------------------------------------------------------------------------
(* What the windows have. *)

\* The sums of the first slots of a ring.
Sums(g, s, n) ==
  g = [k \in 0 .. n |-> IF k = 0 THEN EmptySlot
                        ELSE [count |-> g[k - 1].count + s[k].count,
                              size  |-> g[k - 1].size + s[k].size]]

\* There are such sums.
LEMMA SumsExist ==
  ASSUME NEW s, NEW n \in Nat
  PROVE  \E g : Sums(g, s, n)
<1> DEFINE T == {i \in Nat : \E g : Sums(g, s, i)}
<1>1. 0 \in T
  <2> DEFINE g == [k \in 0 .. 0 |-> EmptySlot]
  <2>1. \A k \in 0 .. 0 : k = 0  OBVIOUS
  <2>2. Sums(g, s, 0)  BY <2>1 DEF Sums
  <2> HIDE DEF g
  <2> QED  BY <2>2
<1>2. ASSUME NEW i \in T PROVE i + 1 \in T
  <2>1. i \in Nat /\ \E g : Sums(g, s, i)  OBVIOUS
  <2>2. PICK g : Sums(g, s, i)  BY <2>1
  <2> DEFINE r == i + 1
             Sum(p, k) == [count |-> p.count + s[k].count, size |-> p.size + s[k].size]
             next == Sum(g[i], r)
             f == [k \in 0 .. r |-> IF k = r THEN next ELSE g[k]]
  <2>3. r \in Nat /\ r = i + 1 /\ r # 0 /\ r - 1 = i  BY <2>1
  <2>4. \A k \in 0 .. i : g[k] = IF k = 0 THEN EmptySlot ELSE Sum(g[k - 1], k)
    <3>1. g = [k \in 0 .. i |-> IF k = 0 THEN EmptySlot ELSE Sum(g[k - 1], k)]
      BY <2>2 DEF Sums
    <3> HIDE DEF Sum
    <3> QED  BY <3>1
  <2> HIDE DEF r, next, Sum
  <2>5. ASSUME NEW k \in 0 .. r
        PROVE  f[k] = IF k = 0 THEN EmptySlot ELSE Sum(f[k - 1], k)
    <3>1. CASE k = r
      <4>1. f[k] = next /\ f[k - 1] = g[i]  BY <3>1, <2>1, <2>3
      <4> QED  BY <3>1, <4>1, <2>3 DEF next
    <3>2. CASE k # r
      <4>1. k \in 0 .. i /\ f[k] = g[k]  BY <3>2, <2>1, <2>3
      <4>2. k # 0 => f[k - 1] = g[k - 1]  BY <4>1, <2>1, <2>3
      <4> QED  BY <4>1, <4>2, <2>4
    <3> QED  BY <3>1, <3>2
  <2>6. Sums(f, s, r)
    <3>1. f = [k \in 0 .. r |-> f[k]]  OBVIOUS
    <3> HIDE DEF f
    <3> QED  BY <3>1, <2>5 DEF Sums, Sum
  <2> HIDE DEF f
  <2> QED  BY <2>3, <2>6 DEF r
<1>3. T \in SUBSET Nat /\ n \in 0 .. n  OBVIOUS
<1>4. n \in T
  <2> HIDE DEF T
  <2> QED  BY <1>1, <1>2, <1>3, Induction
<1> QED  BY <1>4

\* A window has what was logged since its last slot began.
LEMMA WindowSince ==
  ASSUME NEW st, NEW lg \in Seq(LogType), NEW b, RingInv(st, lg, b), NEW d \in 1 .. MaxSlots
  PROVE  Window(st, d).count =
           From(lg, b[IF d < Len(st.samples) THEN d ELSE Len(st.samples)])
<1> DEFINE s == st.samples
           l == Len(s)
           n == IF d < l THEN d ELSE l
           f == CHOOSE g : Sums(g, s, n)
<1>1. /\ l \in 1 .. MaxSlots
      /\ \A k \in 1 .. l : s[k].count = From(lg, b[k]) - (IF k = 1 THEN 0 ELSE From(lg, b[k - 1]))
  BY DEF RingInv
<1>2. \A v : From(lg, v) \in Nat  BY SomeOfLog
<1>3. Window(st, d) = f[n]  BY DEF Window, Sums
<1> HIDE DEF l
<1>4. n \in Nat /\ n >= 1 /\ n <= l /\ l \in Nat  BY <1>1, StatisticsAssumption
<1> HIDE DEF n, s
<1>5. Sums(f, s, n)
  <2>1. \E g : Sums(g, s, n)  BY <1>4, SumsExist
  <2> QED  BY <2>1
<1> HIDE DEF f
<1>6. /\ f[0] = EmptySlot
      /\ \A k \in 1 .. n : f[k].count = f[k - 1].count + s[k].count
  <2>1. \A k \in 0 .. n : f[k] = IF k = 0 THEN EmptySlot
                                 ELSE [count |-> f[k - 1].count + s[k].count,
                                       size  |-> f[k - 1].size + s[k].size]
    <3>1. f = [k \in 0 .. n |-> IF k = 0 THEN EmptySlot
                                ELSE [count |-> f[k - 1].count + s[k].count,
                                      size  |-> f[k - 1].size + s[k].size]]
      BY <1>5 DEF Sums
    <3> QED  BY <3>1
  <2>2. 0 \in 0 .. n /\ \A k \in 1 .. n : k \in 0 .. n /\ k # 0  BY <1>4
  <2>3. ASSUME NEW k \in 1 .. n PROVE f[k].count = f[k - 1].count + s[k].count
    <3> DEFINE x == f[k - 1].count + s[k].count
               y == f[k - 1].size + s[k].size
    <3>1. f[k] = [count |-> x, size |-> y]  BY <2>1, <2>2
    <3> HIDE DEF x, y
    <3>2. f[k].count = x  BY <3>1
    <3> QED  BY <3>2 DEF x
  <2>4. f[0] = EmptySlot  BY <2>1, <2>2
  <2> QED  BY <2>3, <2>4
<1> DEFINE T == {k \in 0 .. n : k # 0 => f[k].count = From(lg, b[k])}
<1>7. 0 \in T  BY <1>4
<1>8. ASSUME NEW k \in T, k < n PROVE k + 1 \in T
  <2> DEFINE j == k + 1
             x == From(lg, b[j])
             y == From(lg, b[k])
  <2>1. k \in Nat /\ j \in 1 .. n /\ j \in 1 .. l /\ j - 1 = k /\ j \in 0 .. n  BY <1>4, <1>8
  <2>2. f[j].count = f[k].count + s[j].count  BY <2>1, <1>6
  <2>3. x \in Nat /\ y \in Nat  BY <1>2
  <2>4. CASE k = 0
    <3>1. s[j].count = x  BY <2>1, <2>3, <2>4, <1>1
    <3>2. f[k].count = 0  BY <2>4, <1>6 DEF EmptySlot
    <3>3. f[j].count = x  BY <2>2, <2>3, <3>1, <3>2
    <3> QED  BY <2>1, <3>3
  <2>5. CASE k # 0
    <3>1. s[j].count = x - y  BY <2>1, <2>5, <1>1
    <3>2. f[k].count = y  BY <2>5
    <3>3. f[j].count = x
      <4> HIDE DEF x, y
      <4> QED  BY <2>2, <2>3, <3>1, <3>2
    <3> QED  BY <2>1, <3>3
  <2> QED  BY <2>4, <2>5
<1>9. T \in SUBSET Nat /\ n \in 0 .. n  BY <1>4
<1>10. n \in T
  <2> HIDE DEF T
  <2> QED  BY <1>4, <1>7, <1>8, <1>9, Induction
<1>11. Window(st, d).count = From(lg, b[n])  BY <1>3, <1>4, <1>10
<1> QED  BY <1>11 DEF n, l, s

\* What was logged is before a time or not.
LEMMA BeforeOrSince ==
  ASSUME NEW lg \in Seq(LogType), NEW t \in Int
  PROVE  UpTo(lg, t) + From(lg, t) = Len(lg)
<1> DEFINE D == 1 .. Len(lg)
           A == {i \in D : lg[i].time < t}
           B == {i \in D : lg[i].time >= t}
<1>1. \A i \in D : lg[i].time \in Nat  BY SomeOfLog
<1>2. A \cup B = D /\ A \cap B = {} /\ A \in SUBSET D /\ B \in SUBSET D  BY <1>1
<1>3. IsFiniteSet(A) /\ IsFiniteSet(B) /\ Cardinality(D) = Len(lg)
  <2> HIDE DEF A, B
  <2> QED  BY <1>2, SomeOfLog
<1>4. UpTo(lg, t) = Cardinality(A) /\ From(lg, t) = Cardinality(B)  BY DEF UpTo, From
<1> HIDE DEF A, B, D
<1>5. Cardinality(A \cup B) = Cardinality(A) + Cardinality(B) - Cardinality(A \cap B)
  BY <1>3, FS_Union
<1>6. Cardinality(A \cap B) = 0  BY <1>2, FS_EmptySet
<1>7. Cardinality(A) \in Nat /\ Cardinality(B) \in Nat  BY <1>3, FS_CardinalityType
<1> DEFINE x == Cardinality(A)
           y == Cardinality(B)
<1>8. Cardinality(D) = x + y - 0  BY <1>2, <1>5, <1>6
<1> HIDE DEF x, y
<1>9. Cardinality(D) = x + y  BY <1>7, <1>8 DEF x, y
<1> QED  BY <1>3, <1>4, <1>9 DEF x, y

\* What a client is sending has a size.
SampledInv == sampled \in [Clients -> Nat]

LEMMA StatInit == Init => StatInv /\ SampledInv
<1> SUFFICES ASSUME Init PROVE StatInv /\ SampledInv
  OBVIOUS
<1>1. now = 0 /\ stats = NoStatistics /\ logged = <<>> /\ sampled = [c \in Clients |-> 0]
  BY DEF Init
<1>2. 0 <= MaxTime /\ logged \in Seq(LogType)  BY <1>1, LoadBounds
<1> QED  BY <1>1, <1>2 DEF StatInv, SampledInv

LEMMA StatSame == StatInv /\ UNCHANGED statVars => StatInv'
<1> SUFFICES ASSUME StatInv, now' = now, stats' = stats, logged' = logged PROVE StatInv'
  BY DEF statVars
<1> QED  BY DEF StatInv

LEMMA TickKeepsStat == StatInv /\ Tick => StatInv'
<1> SUFFICES ASSUME StatInv, Tick PROVE StatInv'
  OBVIOUS
<1>1. now < MaxTime /\ now' = now + 1 /\ stats' = stats /\ logged' = logged  BY DEF Tick
<1>2. now \in Nat /\ MaxTime \in Nat /\ logged \in Seq(LogType)  BY LoadBounds DEF StatInv
<1>3. now' \in Nat /\ now' <= MaxTime  BY <1>1, <1>2
<1>4. CASE logged = <<>>
  <2>1. stats = NoStatistics  BY <1>4 DEF StatInv
  <2> QED  BY <2>1, <1>1, <1>2, <1>3, <1>4 DEF StatInv
<1>5. CASE logged # <<>>
  <2>1. StatSound(stats, logged) /\ stats.last <= now /\ stats.last \in Nat
    BY <1>5 DEF StatInv, StatSound
  <2>2. stats.last <= now'  BY <2>1, <1>1, <1>2
  <2>3. StatSound(stats', logged')  BY <2>1, <1>1
  <2> QED  BY <2>2, <2>3, <1>1, <1>2, <1>3, <1>5 DEF StatInv
<1> QED  BY <1>4, <1>5

LEMMA LogSampleKeepsStat ==
  ASSUME StatInv, SampledInv, NEW c \in Clients, NEW late \in BOOLEAN, LogSample(c, late)
  PROVE  StatInv' /\ SampledInv'
<1> DEFINE z == sampled[c]
           e == [time |-> now, size |-> z]
<1>1. /\ stats' = Log(stats, now, late, z) /\ logged' = Append(logged, e) /\ now' = now
      /\ sampled' = [sampled EXCEPT ![c] = 0]
  BY DEF LogSample
<1>2. now \in Nat /\ now <= MaxTime /\ logged \in Seq(LogType) /\ z \in Nat
  BY DEF StatInv, SampledInv
<1>3. e \in LogType /\ Append(<<>>, e) = <<e>>  BY <1>2 DEF LogType
<1> HIDE DEF z, e
<1>4. logged' \in Seq(LogType) /\ logged' # <<>>
  <2>1. Len(logged) \in Nat /\ Len(logged') = Len(logged) + 1 /\ logged' \in Seq(LogType)
    BY <1>1, <1>2, <1>3, SomeOfLog, LogGrows
  <2>2. Len(logged') # 0  BY <2>1
  <2> QED  BY <2>1, <2>2
<1>5. StatSound(stats', logged') /\ stats'.last <= now
  <2>1. CASE logged = <<>>
    <3>1. stats = NoStatistics  BY <2>1 DEF StatInv
    <3> QED  BY <2>1, <3>1, <1>1, <1>2, LogBeginsSound DEF e
  <2>2. CASE logged # <<>>
    <3>1. StatSound(stats, logged) /\ stats.last <= now  BY <2>2 DEF StatInv
    <3> QED  BY <3>1, <1>1, <1>2, LogKeepsSound DEF e
  <2> QED  BY <2>1, <2>2
<1>6. StatInv'  BY <1>1, <1>2, <1>4, <1>5 DEF StatInv
<1>7. SampledInv'  BY <1>1 DEF SampledInv
<1> QED  BY <1>6, <1>7

LEMMA TakeMessageSamples ==
  ASSUME LoadInv, SampledInv, NEW c \in Clients, TakeMessage(c)
  PROVE  SampledInv'
<1> DEFINE s == gen[c].shuffled
           i == gen[c].i
           n == Cardinality(Wanted)
<1>1. stage = "running" /\ sampled' = [sampled EXCEPT ![c] = s[i].size]
  BY DEF TakeMessage
<1>2. ArchiveInv /\ ClientInv(c)  BY <1>1 DEF LoadInv, RunInv
<1>3. s \in SetToSeqs(Wanted) /\ n \in Nat /\ i \in 1 .. n  BY <1>2 DEF ClientInv
<1>4. s \in [1 .. n -> Wanted]  BY <1>3 DEF SetToSeqs
<1>5. s[i] \in Entries  BY <1>2, <1>3, <1>4, WantedType
<1>6. s[i].size \in Nat  BY <1>5 DEF Entries
<1> HIDE DEF s, i
<1> QED  BY <1>1, <1>6 DEF SampledInv

\* Each step keeps the invariant.
LEMMA StatKept ==
  ASSUME LoadInv, StatInv, SampledInv, [Next]_vars
  PROVE  StatInv' /\ SampledInv'
<1>1. CASE IndexMessage
  BY <1>1, StatSame DEF IndexMessage, runVars, SampledInv
<1>2. CASE CreateClients
  BY <1>2, StatSame DEF CreateClients, SampledInv
<1>3. CASE Tick
  BY <1>3, TickKeepsStat DEF Tick, runVars, SampledInv
<1>4. ASSUME NEW c \in Clients, TakeMessage(c) PROVE StatInv' /\ SampledInv'
  BY <1>4, StatSame, TakeMessageSamples DEF TakeMessage
<1>5. ASSUME NEW c \in Clients, NEW late \in BOOLEAN, LogSample(c, late)
      PROVE  StatInv' /\ SampledInv'
  BY <1>5, LogSampleKeepsStat
<1>6. CASE UNCHANGED vars
  BY <1>6, StatSame DEF vars, runVars, SampledInv
<1> QED  BY <1>1, <1>2, <1>3, <1>4, <1>5, <1>6 DEF Next

\* What was logged since a slot began is all of the last slots of time, and at
\* most all of twice that.
LEMMA WindowBounds ==
  ASSUME NEW st, NEW lg \in Seq(LogType), st.last \in Nat, NEW b, RingInv(st, lg, b),
         NEW d \in 1 .. MaxSlots
  PROVE  /\ Window(st, d).count >= From(lg, st.last - (d - 1) * Delta)
         /\ Window(st, d).count <= From(lg, st.last - 2 * ((d - 1) * Delta))
<1> DEFINE l == Len(st.samples)
           n == IF d < l THEN d ELSE l
           D == 1 .. Len(lg)
           u == st.last
           x == (d - 1) * Delta
           y == (n - 1) * Delta
           W == {i \in D : lg[i].time >= b[n]}
           N == {i \in D : lg[i].time >= u - x}
           O == {i \in D : lg[i].time >= u - 2 * x}
<1>1. /\ l \in 1 .. MaxSlots /\ b \in [1 .. l -> 0 .. u]
      /\ \A k \in 1 .. l :
           /\ u <= b[k] + 2 * ((k - 1) * Delta)
           /\ \A i \in D : lg[i].time < b[k] => lg[i].time + (k - 1) * Delta < u
      /\ l < MaxSlots => \A i \in D : lg[i].time >= b[l]
  BY DEF RingInv
<1>2. Window(st, d).count = Cardinality(W)  BY WindowSince DEF From
<1>3. From(lg, u - x) = Cardinality(N) /\ From(lg, u - 2 * x) = Cardinality(O)  BY DEF From
<1>4. \A i \in D : lg[i].time \in Nat  BY SomeOfLog
<1> HIDE DEF l, D
<1>5. n \in Nat /\ n \in 1 .. l /\ n <= d /\ (n # d => n = l /\ l < MaxSlots)
  BY <1>1, StatisticsAssumption
<1> HIDE DEF n
<1>6. x \in Nat /\ y \in Nat /\ y <= x
  <2> DEFINE i == d - 1
             j == n - 1
  <2>1. i \in Nat /\ j \in Nat /\ j <= i  BY <1>5, StatisticsAssumption
  <2> HIDE DEF i, j
  <2>2. i * Delta \in Nat /\ j * Delta \in Nat /\ j * Delta <= i * Delta  BY <2>1, DeltaTimes
  <2> QED  BY <2>2 DEF i, j
<1>7. b[n] \in Nat /\ u <= b[n] + 2 * y /\ \A i \in D : lg[i].time < b[n] => lg[i].time + y < u
  <2>1. b[n] \in 0 .. u  BY <1>1, <1>5
  <2> QED  BY <2>1, <1>1, <1>5
<1>8. n = d => y = x  OBVIOUS
<1> HIDE DEF x, y
<1>9. N \subseteq W
  <2> SUFFICES ASSUME NEW i \in D, lg[i].time >= u - x, ~(lg[i].time >= b[n]) PROVE FALSE
    OBVIOUS
  <2> DEFINE a == lg[i].time
  <2>1. a \in Nat  BY <1>4
  <2> HIDE DEF a
  <2>2. a < b[n]  BY <2>1, <1>7 DEF a
  <2>3. a + y < u  BY <2>2, <1>7 DEF a
  <2>4. n = d
    <3>1. ~(\A k \in D : lg[k].time >= b[n])  OBVIOUS
    <3> QED  BY <3>1, <1>1, <1>5
  <2>5. a >= u - x  BY DEF a
  <2> HIDE DEF u
  <2>6. u \in Nat  BY DEF u
  <2> QED  BY <2>1, <2>3, <2>4, <2>5, <2>6, <1>6, <1>8
<1>10. W \subseteq O
  <2> SUFFICES ASSUME NEW i \in D, lg[i].time >= b[n] PROVE lg[i].time >= u - 2 * x
    OBVIOUS
  <2> DEFINE a == lg[i].time
             v == b[n]
  <2>1. a \in Nat /\ a >= v /\ v \in Nat /\ u <= v + 2 * y /\ u \in Nat  BY <1>4, <1>7
  <2> HIDE DEF a, u, v
  <2>2. a >= u - 2 * x  BY <2>1, <1>6
  <2> QED  BY <2>2 DEF a
<1>11. /\ N \in SUBSET D /\ W \in SUBSET D /\ O \in SUBSET D
  OBVIOUS
<1> HIDE DEF N, W, O
<1>12. /\ Cardinality(N) \in Nat /\ Cardinality(W) \in Nat /\ Cardinality(O) \in Nat
       /\ Cardinality(N) <= Cardinality(W) /\ Cardinality(W) <= Cardinality(O)
  BY <1>9, <1>10, <1>11, SomeOfLog DEF D
<1>13. Cardinality(W) >= Cardinality(N)
  <2> DEFINE p == Cardinality(W)
             q == Cardinality(N)
  <2>1. p \in Nat /\ q \in Nat /\ q <= p  BY <1>12
  <2> HIDE DEF p, q
  <2>2. p >= q  BY <2>1
  <2> QED  BY <2>2 DEF p, q
<1> QED  BY <1>2, <1>3, <1>12, <1>13 DEF x, u

\* What the total and the windows have follows from the invariant.
LEMMA InvImpliesExact == StatInv => StatisticsExact
<1> SUFFICES ASSUME StatInv, logged # <<>> PROVE StatisticsExact
  BY DEF StatisticsExact
<1> DEFINE st == stats
           lg == logged
<1>1. lg \in Seq(LogType) /\ StatSound(st, lg)  BY DEF StatInv
<1>2. st.last \in Nat /\ st.start \in Nat /\ st.messages \in Nat /\ TotalInv(st, lg) /\ Delta \in Nat
  BY <1>1, StatisticsAssumption DEF StatSound, StatType
<1>3. PICK b : RingInv(st, lg, b)  BY <1>1 DEF StatSound
<1> DEFINE x == From(lg, st.last)
           y == From(lg, st.start + Delta)
           z == UpTo(lg, st.start + Delta)
<1>4. x \in Nat /\ y \in Nat /\ z \in Nat /\ Len(lg) \in Nat  BY <1>1, SomeOfLog
<1>5. z + y = Len(lg)
  <2>1. st.start + Delta \in Int  BY <1>2
  <2> QED  BY <2>1, <1>1, BeforeOrSince
<1>6. Window(st, 1).count = x
  <2> DEFINE l == Len(st.samples)
  <2>1. l \in 1 .. MaxSlots /\ b[1] = st.last  BY <1>3 DEF RingInv
  <2>2. 1 \in 1 .. MaxSlots  BY StatisticsAssumption
  <2>3. Window(st, 1).count = From(lg, b[IF 1 < l THEN 1 ELSE l])
    BY <2>2, <1>1, <1>3, WindowSince
  <2> HIDE DEF l
  <2>4. (IF 1 < l THEN 1 ELSE l) = 1  BY <2>1, StatisticsAssumption
  <2> QED  BY <2>1, <2>3, <2>4
<1>7. \/ st.messages + x = Len(lg)
      \/ x # Len(lg) /\ st.messages + x = y
  <2>1. CASE st.last = st.start /\ st.messages = 0 /\ \A i \in 1 .. Len(lg) : lg[i].time >= st.last
    <3>1. {i \in 1 .. Len(lg) : lg[i].time >= st.last} = 1 .. Len(lg)  BY <2>1
    <3>2. x = Len(lg)  BY <3>1, <1>1, SomeOfLog DEF From
    <3> HIDE DEF x
    <3> QED  BY <2>1, <3>2, <1>4
  <2>2. CASE st.messages + x = Len(lg) \/ st.messages + x = Len(lg) - z
    <3> DEFINE m == st.messages
               l == Len(lg)
    <3>1. m \in Nat /\ x \in Nat /\ y \in Nat /\ z \in Nat /\ l \in Nat /\ z + y = l
          /\ (m + x = l \/ m + x = l - z)
      BY <2>2, <1>2, <1>4, <1>5
    <3> HIDE DEF m, x, y, z, l
    <3>2. m + x = l \/ (x # l /\ m + x = y)  BY <3>1
    <3> QED  BY <3>2 DEF m, l
  <2> QED  BY <2>1, <2>2, <1>2 DEF TotalInv
<1>8. \A d \in 1 .. MaxSlots :
        /\ Window(st, d).count >= From(lg, st.last - (d - 1) * Delta)
        /\ Window(st, d).count <= From(lg, st.last - 2 * ((d - 1) * Delta))
  BY <1>1, <1>2, <1>3, WindowBounds
<1>9. st.messages + Window(st, 1).count \in {Len(lg)} \cup (IF x = Len(lg) THEN {} ELSE {y})
  <2> HIDE DEF x, y, st, lg
  <2> QED  BY <1>6, <1>7
<1> QED  BY <1>8, <1>9 DEF StatisticsExact, From

\* The total and the slot that is being filled have all that was logged, but for the
\* first slot, and the windows have what they should, whenever messages end, however
\* long the pauses are and whatever the two clocks say (stats.h:227-264).
THEOREM StatisticsAreExact == Spec => []StatisticsExact
<1>1. Init => LoadInv /\ StatInv /\ SampledInv  BY InitSound, StatInit
<1>2. LoadInv /\ StatInv /\ SampledInv /\ [Next]_vars => (LoadInv /\ StatInv /\ SampledInv)'
  BY StepKeeps, StatKept
<1>3. StatInv => StatisticsExact  BY InvImpliesExact
<1> QED  BY <1>1, <1>2, <1>3, PTL DEF Spec
================================================================================
