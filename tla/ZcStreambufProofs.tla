------------------------- MODULE ZcStreambufProofs --------------------------
(***************************************************************************)
(* What holds of ZcStreambuf for every fragment size and every request.    *)
(* First come lemmas: every operation of the class keeps a buffer Sound    *)
(* (its pointers in order, its counters exact) and moves the two pointers  *)
(* by as much as it should.  A buffer is a record of ten fields: Shape is  *)
(* Sound as a predicate of the fields, so that an operation is first shown *)
(* to keep Shape, by arithmetic on a few positions, and the record it      *)
(* returns is then sound by one of the Update lemmas.                      *)
(* Then come the steps, with IInv as the inductive invariant, which count  *)
(* these moves in the ghost variables.  A byte is lost only through        *)
(* UnderflowRead, which reads over a byte 0xFF when it takes it for eof:   *)
(* where the ghosts are exact, HighBytes is assumed empty.                 *)
(***************************************************************************)
EXTENDS ZcStreambuf, TLAPS

\* Multiplication by a positive number keeps the order.
LEMMA Multiples == \A i, j, m \in Nat : i < j /\ m > 0 => i * m < j * m
  OBVIOUS

\* The fragments reserve adds are not empty and hold at least what is needed.
LEMMA GrownFacts ==
  ASSUME NEW e \in Nat, NEW need \in Nat \ {0}
  PROVE  LET g == Grown(e, need)
         IN  /\ g \in Seq(Nat) /\ Len(g) \in Nat \ {0}
             /\ Increasing(g) /\ g[1] > e /\ g[Len(g)] >= e + need
<1> DEFINE full == (need - 1) \div MaxFrag
           rest == need - full * MaxFrag
           last == IF rest < MinFrag THEN MinFrag ELSE rest
           g == [i \in 1 .. full + 1 |->
                   e + IF i <= full THEN i * MaxFrag ELSE full * MaxFrag + last]
<1>1. /\ full \in Nat /\ full * MaxFrag \in Nat
      /\ full * MaxFrag <= need - 1 /\ need - 1 < full * MaxFrag + MaxFrag
  BY FragAssumption
<1>2. rest \in Nat /\ rest >= 1 /\ last \in Nat /\ last >= rest /\ last >= 1
  BY <1>1, FragAssumption
<1> HIDE DEF full, rest, last
<1>3. MaxFrag \in Nat /\ MaxFrag > 0
  BY FragAssumption
<1>4. \A i \in 1 .. full + 1 : i * MaxFrag \in Nat /\ i * MaxFrag > 0
  BY <1>1, <1>3
<1>5. \A i \in 1 .. full + 1 : g[i] \in Nat /\ g[i] > e
  BY <1>1, <1>2, <1>4
<1>6. g \in Seq(Nat) /\ Len(g) = full + 1 /\ g[full + 1] = e + full * MaxFrag + last
  BY <1>1, <1>2, <1>5
<1>7. ASSUME NEW i \in 1 .. full + 1, NEW j \in 1 .. full + 1, i < j
      PROVE  g[i] < g[j]
  <2>1. i \in Nat /\ j \in Nat /\ i <= full
    BY <1>1, <1>7
  <2>2. i * MaxFrag < j * MaxFrag
    BY <1>3, <1>7, <2>1, Multiples
  <2>a. i = full \/ i * MaxFrag < full * MaxFrag
    BY <1>1, <1>3, <2>1, Multiples
  <2>3. i * MaxFrag \in Nat /\ j * MaxFrag \in Nat
    BY <1>4
  <2>4. QED
    BY <1>1, <1>2, <1>7, <2>1, <2>2, <2>a, <2>3
<1>8. Grown(e, need) = g
  BY DEF Grown, full, rest, last
<1> HIDE DEF g
<1>9. g[Len(g)] >= e + need
  BY <1>1, <1>2, <1>6 DEF rest
<1>10. QED
  BY <1>1, <1>5, <1>6, <1>7, <1>8, <1>9 DEF Increasing

\* The records with the fields of a buffer, of any sign.
Raw == [ends : Seq(Nat), get : Int, put : Int, eback : Int, gptr : Int,
        egptr : Int, pbase : Int, pptr : Int, inter : Int, tail : Int]

\* Sound, in terms of the fields.
Shape(ends, get, put, eback, gptr, egptr, pbase, pptr, inter, tail) ==
  /\ ends \in Seq(Nat) /\ get \in Nat /\ put \in Nat /\ eback \in Nat
  /\ gptr \in Nat /\ egptr \in Nat /\ pbase \in Nat /\ pptr \in Nat
  /\ inter \in Nat /\ tail \in Nat
  /\ 1 <= get /\ get <= put /\ put <= Len(ends)
  /\ Increasing(ends)
  /\ ends[1] > 0
  /\ (IF get = 1 THEN 0 ELSE ends[get - 1]) <= eback
  /\ eback <= gptr /\ gptr <= egptr /\ egptr <= ends[get]
  /\ egptr <= pbase
  /\ (IF put = 1 THEN 0 ELSE ends[put - 1]) <= pbase
  /\ pbase <= pptr /\ pptr <= ends[put]
  /\ tail = ends[Len(ends)] - ends[put]
  /\ inter >= pbase - egptr
  /\ ~SpanConsume => inter = pbase - egptr

\* A record of buffer fields is sound when its fields satisfy Shape.
LEMMA SoundIsShape ==
  ASSUME NEW x \in Raw
  PROVE  Sound(x) <=> Shape(x.ends, x.get, x.put, x.eback, x.gptr, x.egptr,
                            x.pbase, x.pptr, x.inter, x.tail)
<1>1. x \in Buffers <=> /\ x.ends \in Seq(Nat) /\ x.get \in Nat /\ x.put \in Nat
                        /\ x.eback \in Nat /\ x.gptr \in Nat /\ x.egptr \in Nat
                        /\ x.pbase \in Nat /\ x.pptr \in Nat
                        /\ x.inter \in Nat /\ x.tail \in Nat
  BY DEF Raw, Buffers
<1>2. QED
  BY <1>1, Zenon DEF Sound, Shape, Ordered, Start, Extent, Epptr

\* The fields of a sound buffer and their types.
LEMMA SoundRaw ==
  ASSUME NEW x, Sound(x)
  PROVE  /\ x \in Raw
         /\ x.ends \in Seq(Nat) /\ x.get \in Nat /\ x.put \in Nat
         /\ x.eback \in Nat /\ x.gptr \in Nat /\ x.egptr \in Nat
         /\ x.pbase \in Nat /\ x.pptr \in Nat /\ x.inter \in Nat /\ x.tail \in Nat
         /\ Shape(x.ends, x.get, x.put, x.eback, x.gptr, x.egptr,
                  x.pbase, x.pptr, x.inter, x.tail)
<1>1. x \in Buffers
  BY DEF Sound
<1>2. x \in Raw
  BY <1>1 DEF Raw, Buffers
<1>3. Shape(x.ends, x.get, x.put, x.eback, x.gptr, x.egptr,
            x.pbase, x.pptr, x.inter, x.tail)
  BY <1>2, SoundIsShape
<1>4. QED
  BY <1>2, <1>3, Zenon DEF Shape

\* The Update lemmas: an EXCEPT that sets these fields gives a sound
\* buffer when the new fields satisfy Shape.  Here the fragments and tail_size_.
LEMMA UpdateSpace ==
  ASSUME NEW x \in Raw, NEW e \in Seq(Nat), NEW u \in Int,
         Shape(e, x.get, x.put, x.eback, x.gptr, x.egptr,
               x.pbase, x.pptr, x.inter, u)
  PROVE  Sound([x EXCEPT !.ends = e, !.tail = u])
<1> DEFINE y == [x EXCEPT !.ends = e, !.tail = u]
<1>1. y \in Raw
  BY DEF Raw
<1>2. /\ y.ends = e /\ y.get = x.get /\ y.put = x.put
      /\ y.eback = x.eback /\ y.gptr = x.gptr /\ y.egptr = x.egptr
      /\ y.pbase = x.pbase /\ y.pptr = x.pptr /\ y.inter = x.inter
      /\ y.tail = u
  BY DEF Raw
<1> HIDE DEF y
<1>3. Shape(y.ends, y.get, y.put, y.eback, y.gptr, y.egptr,
            y.pbase, y.pptr, y.inter, y.tail)
  BY <1>2, Zenon
<1>4. Sound(y)
  BY <1>1, <1>3, SoundIsShape, Zenon
<1>5. QED
  BY <1>4, Zenon DEF y

\* The beginning of the put area and inter_size_.
LEMMA UpdatePutStart ==
  ASSUME NEW x \in Raw, NEW i \in Int, NEW c \in Int,
         Shape(x.ends, x.get, x.put, x.eback, x.gptr, x.egptr,
               c, x.pptr, i, x.tail)
  PROVE  Sound([x EXCEPT !.inter = i, !.pbase = c])
<1> DEFINE y == [x EXCEPT !.inter = i, !.pbase = c]
<1>1. y \in Raw
  BY DEF Raw
<1>2. /\ y.ends = x.ends /\ y.get = x.get /\ y.put = x.put
      /\ y.eback = x.eback /\ y.gptr = x.gptr /\ y.egptr = x.egptr
      /\ y.pbase = c /\ y.pptr = x.pptr /\ y.inter = i
      /\ y.tail = x.tail
  BY DEF Raw
<1> HIDE DEF y
<1>3. Shape(y.ends, y.get, y.put, y.eback, y.gptr, y.egptr,
            y.pbase, y.pptr, y.inter, y.tail)
  BY <1>2, Zenon
<1>4. Sound(y)
  BY <1>1, <1>3, SoundIsShape, Zenon
<1>5. QED
  BY <1>4, Zenon DEF y

\* The end of the get area and inter_size_.
LEMMA UpdateGetEnd ==
  ASSUME NEW x \in Raw, NEW i \in Int, NEW s \in Int,
         Shape(x.ends, x.get, x.put, x.eback, x.gptr, s,
               x.pbase, x.pptr, i, x.tail)
  PROVE  Sound([x EXCEPT !.inter = i, !.egptr = s])
<1> DEFINE y == [x EXCEPT !.inter = i, !.egptr = s]
<1>1. y \in Raw
  BY DEF Raw
<1>2. /\ y.ends = x.ends /\ y.get = x.get /\ y.put = x.put
      /\ y.eback = x.eback /\ y.gptr = x.gptr /\ y.egptr = s
      /\ y.pbase = x.pbase /\ y.pptr = x.pptr /\ y.inter = i
      /\ y.tail = x.tail
  BY DEF Raw
<1> HIDE DEF y
<1>3. Shape(y.ends, y.get, y.put, y.eback, y.gptr, y.egptr,
            y.pbase, y.pptr, y.inter, y.tail)
  BY <1>2, Zenon
<1>4. Sound(y)
  BY <1>1, <1>3, SoundIsShape, Zenon
<1>5. QED
  BY <1>4, Zenon DEF y

\* The end of the get area.
LEMMA UpdateGetEndOnly ==
  ASSUME NEW x \in Raw, NEW s \in Int,
         Shape(x.ends, x.get, x.put, x.eback, x.gptr, s,
               x.pbase, x.pptr, x.inter, x.tail)
  PROVE  Sound([x EXCEPT !.egptr = s])
<1> DEFINE y == [x EXCEPT !.egptr = s]
<1>1. y \in Raw
  BY DEF Raw
<1>2. /\ y.ends = x.ends /\ y.get = x.get /\ y.put = x.put
      /\ y.eback = x.eback /\ y.gptr = x.gptr /\ y.egptr = s
      /\ y.pbase = x.pbase /\ y.pptr = x.pptr /\ y.inter = x.inter
      /\ y.tail = x.tail
  BY DEF Raw
<1> HIDE DEF y
<1>3. Shape(y.ends, y.get, y.put, y.eback, y.gptr, y.egptr,
            y.pbase, y.pptr, y.inter, y.tail)
  BY <1>2, Zenon
<1>4. Sound(y)
  BY <1>1, <1>3, SoundIsShape, Zenon
<1>5. QED
  BY <1>4, Zenon DEF y

\* The put area, as MovePut sets it.
LEMMA UpdatePutArea ==
  ASSUME NEW x \in Raw, NEW i \in Int, NEW u \in Int, NEW q \in Int, NEW c \in Int, NEW w \in Int,
         Shape(x.ends, x.get, q, x.eback, x.gptr, x.egptr,
               c, w, i, u)
  PROVE  Sound([x EXCEPT !.inter = i, !.tail = u, !.put = q, !.pbase = c, !.pptr = w])
<1> DEFINE y == [x EXCEPT !.inter = i, !.tail = u, !.put = q, !.pbase = c, !.pptr = w]
<1>1. y \in Raw
  BY DEF Raw
<1>2. /\ y.ends = x.ends /\ y.get = x.get /\ y.put = q
      /\ y.eback = x.eback /\ y.gptr = x.gptr /\ y.egptr = x.egptr
      /\ y.pbase = c /\ y.pptr = w /\ y.inter = i
      /\ y.tail = u
  BY DEF Raw
<1> HIDE DEF y
<1>3. Shape(y.ends, y.get, y.put, y.eback, y.gptr, y.egptr,
            y.pbase, y.pptr, y.inter, y.tail)
  BY <1>2, Zenon
<1>4. Sound(y)
  BY <1>1, <1>3, SoundIsShape, Zenon
<1>5. QED
  BY <1>4, Zenon DEF y

\* The put pointer.
LEMMA UpdatePutPointer ==
  ASSUME NEW x \in Raw, NEW w \in Int,
         Shape(x.ends, x.get, x.put, x.eback, x.gptr, x.egptr,
               x.pbase, w, x.inter, x.tail)
  PROVE  Sound([x EXCEPT !.pptr = w])
<1> DEFINE y == [x EXCEPT !.pptr = w]
<1>1. y \in Raw
  BY DEF Raw
<1>2. /\ y.ends = x.ends /\ y.get = x.get /\ y.put = x.put
      /\ y.eback = x.eback /\ y.gptr = x.gptr /\ y.egptr = x.egptr
      /\ y.pbase = x.pbase /\ y.pptr = w /\ y.inter = x.inter
      /\ y.tail = x.tail
  BY DEF Raw
<1> HIDE DEF y
<1>3. Shape(y.ends, y.get, y.put, y.eback, y.gptr, y.egptr,
            y.pbase, y.pptr, y.inter, y.tail)
  BY <1>2, Zenon
<1>4. Sound(y)
  BY <1>1, <1>3, SoundIsShape, Zenon
<1>5. QED
  BY <1>4, Zenon DEF y

\* The get area, as MoveGet sets it.
LEMMA UpdateGetArea ==
  ASSUME NEW x \in Raw, NEW g \in Int, NEW i \in Int, NEW k \in Int, NEW r \in Int, NEW s \in Int,
         Shape(x.ends, g, x.put, k, r, s,
               x.pbase, x.pptr, i, x.tail)
  PROVE  Sound([x EXCEPT !.get = g, !.inter = i, !.eback = k, !.gptr = r, !.egptr = s])
<1> DEFINE y == [x EXCEPT !.get = g, !.inter = i, !.eback = k, !.gptr = r, !.egptr = s]
<1>1. y \in Raw
  BY DEF Raw
<1>2. /\ y.ends = x.ends /\ y.get = g /\ y.put = x.put
      /\ y.eback = k /\ y.gptr = r /\ y.egptr = s
      /\ y.pbase = x.pbase /\ y.pptr = x.pptr /\ y.inter = i
      /\ y.tail = x.tail
  BY DEF Raw
<1> HIDE DEF y
<1>3. Shape(y.ends, y.get, y.put, y.eback, y.gptr, y.egptr,
            y.pbase, y.pptr, y.inter, y.tail)
  BY <1>2, Zenon
<1>4. Sound(y)
  BY <1>1, <1>3, SoundIsShape, Zenon
<1>5. QED
  BY <1>4, Zenon DEF y

\* The beginning of the get area and the get pointer.
LEMMA UpdateGetStart ==
  ASSUME NEW x \in Raw, NEW k \in Int, NEW r \in Int,
         Shape(x.ends, x.get, x.put, k, r, x.egptr,
               x.pbase, x.pptr, x.inter, x.tail)
  PROVE  Sound([x EXCEPT !.eback = k, !.gptr = r])
<1> DEFINE y == [x EXCEPT !.eback = k, !.gptr = r]
<1>1. y \in Raw
  BY DEF Raw
<1>2. /\ y.ends = x.ends /\ y.get = x.get /\ y.put = x.put
      /\ y.eback = k /\ y.gptr = r /\ y.egptr = x.egptr
      /\ y.pbase = x.pbase /\ y.pptr = x.pptr /\ y.inter = x.inter
      /\ y.tail = x.tail
  BY DEF Raw
<1> HIDE DEF y
<1>3. Shape(y.ends, y.get, y.put, y.eback, y.gptr, y.egptr,
            y.pbase, y.pptr, y.inter, y.tail)
  BY <1>2, Zenon
<1>4. Sound(y)
  BY <1>1, <1>3, SoundIsShape, Zenon
<1>5. QED
  BY <1>4, Zenon DEF y

\* The get pointer.
LEMMA UpdateGetPointer ==
  ASSUME NEW x \in Raw, NEW r \in Int,
         Shape(x.ends, x.get, x.put, x.eback, r, x.egptr,
               x.pbase, x.pptr, x.inter, x.tail)
  PROVE  Sound([x EXCEPT !.gptr = r])
<1> DEFINE y == [x EXCEPT !.gptr = r]
<1>1. y \in Raw
  BY DEF Raw
<1>2. /\ y.ends = x.ends /\ y.get = x.get /\ y.put = x.put
      /\ y.eback = x.eback /\ y.gptr = r /\ y.egptr = x.egptr
      /\ y.pbase = x.pbase /\ y.pptr = x.pptr /\ y.inter = x.inter
      /\ y.tail = x.tail
  BY DEF Raw
<1> HIDE DEF y
<1>3. Shape(y.ends, y.get, y.put, y.eback, y.gptr, y.egptr,
            y.pbase, y.pptr, y.inter, y.tail)
  BY <1>2, Zenon
<1>4. Sound(y)
  BY <1>1, <1>3, SoundIsShape, Zenon
<1>5. QED
  BY <1>4, Zenon DEF y

\* tail_size_ follows the end of the list when fragments are added.
LEMMA TailGrows ==
  ASSUME NEW e \in Seq(Nat), NEW g \in Seq(Nat), NEW p \in 1 .. Len(e), NEW t \in Nat
  PROVE  t = e[Len(e)] - e[p] /\ Len(g) > 0 /\ g[Len(g)] > e[Len(e)]
         => /\ t + (g[Len(g)] - e[Len(e)]) \in Nat
            /\ t + (g[Len(g)] - e[Len(e)]) = g[Len(g)] - e[p]
<1>0. HAVE t = e[Len(e)] - e[p] /\ Len(g) > 0 /\ g[Len(g)] > e[Len(e)]
<1>1. e[Len(e)] \in Nat /\ e[p] \in Nat /\ g[Len(g)] \in Nat
  BY <1>0
<1>2. QED
  BY <1>0, <1>1, SMTT(30)

\* tail_size_ stays exact when the put area moves to a later fragment.
LEMMA TailShrinks ==
  ASSUME NEW e \in Seq(Nat), NEW p \in 1 .. Len(e), NEW f \in 1 .. Len(e), NEW t \in Nat
  PROVE  t = e[Len(e)] - e[p] /\ e[p] <= e[f] /\ e[f] <= e[Len(e)]
         => /\ t - (e[f] - e[p]) \in Nat
            /\ t - (e[f] - e[p]) = e[Len(e)] - e[f]
<1>0. HAVE t = e[Len(e)] - e[p] /\ e[p] <= e[f] /\ e[f] <= e[Len(e)]
<1>1. e[Len(e)] \in Nat /\ e[p] \in Nat /\ e[f] \in Nat
  OBVIOUS
<1>2. QED
  BY <1>0, <1>1

\* The ends of fragments are positions.
LEMMA EndTyped == \A e \in Seq(Nat) : \A f \in 1 .. Len(e) : e[f] \in Nat
  OBVIOUS

\* The ends of fragments are in the order of the fragments.
LEMMA EndsFacts ==
  ASSUME NEW ends \in Seq(Nat), Increasing(ends)
  PROVE  /\ Len(ends) \in Nat
         /\ \A f \in 1 .. Len(ends) : ends[f] \in Nat
         /\ \A f, h \in 1 .. Len(ends) : f <= h => ends[f] <= ends[h]
         /\ \A f, h \in 1 .. Len(ends) : f < h => ends[f] < ends[h]
  BY DEF Increasing

\* A position in the readable bytes lies no further than the put area.
LEMMA BeforePut ==
  ASSUME NEW ends \in Seq(Nat), NEW get \in 1 .. Len(ends), NEW put \in 1 .. Len(ends),
         NEW pbase \in Nat
  PROVE  /\ Increasing(ends) /\ get < put
         /\ (IF put = 1 THEN 0 ELSE ends[put - 1]) <= pbase
         => ends[get] <= pbase /\ ends[put - 1] <= pbase
<1>0. HAVE /\ Increasing(ends) /\ get < put
           /\ (IF put = 1 THEN 0 ELSE ends[put - 1]) <= pbase
<1>1. put - 1 \in 1 .. Len(ends) /\ get <= put - 1 /\ put # 1
  BY <1>0
<1>2. ends[get] <= ends[put - 1] /\ ends[put - 1] \in Nat /\ ends[get] \in Nat
  BY <1>0, <1>1, EndsFacts
<1>3. ends[put - 1] <= pbase
  BY <1>0, <1>1
<1>4. QED
  BY <1>2, <1>3

\* tail_size_ is zero exactly when the put area is in the last fragment.
LEMMA TailZero ==
  ASSUME NEW ends \in Seq(Nat), NEW put \in 1 .. Len(ends), NEW tail \in Nat
  PROVE  Increasing(ends) /\ tail = ends[Len(ends)] - ends[put]
         => (tail = 0 <=> put = Len(ends))
<1>0. HAVE Increasing(ends) /\ tail = ends[Len(ends)] - ends[put]
<1>1. ends[put] \in Nat /\ ends[Len(ends)] \in Nat /\ Len(ends) \in Nat
  OBVIOUS
<1>2. put < Len(ends) => ends[put] < ends[Len(ends)]
  BY <1>0, <1>1, EndsFacts
<1>3. put = Len(ends) \/ put < Len(ends)
  BY <1>1
<1>4. QED
  BY <1>0, <1>1, <1>2, <1>3

\* Fragments added after the end keep the ends in order.
LEMMA IncreasingAppend ==
  ASSUME NEW e \in Seq(Nat), NEW g \in Seq(Nat), Len(e) > 0, Len(g) > 0
  PROVE  Increasing(e) /\ Increasing(g) /\ g[1] > e[Len(e)]
         => /\ Increasing(e \o g)
            /\ (e \o g)[Len(e \o g)] = g[Len(g)] /\ g[Len(g)] >= g[1]
<1> DEFINE h == e \o g
<1>0. HAVE Increasing(e) /\ Increasing(g) /\ g[1] > e[Len(e)]
<1>1. /\ Len(e) \in Nat /\ Len(g) \in Nat /\ Len(h) = Len(e) + Len(g)
      /\ \A f \in 1 .. Len(e) : h[f] = e[f] /\ e[f] \in Nat
      /\ \A f \in 1 .. Len(g) : h[Len(e) + f] = g[f] /\ g[f] \in Nat
  OBVIOUS
<1> HIDE DEF h
<1>2. \A f \in 1 .. Len(e) : e[f] <= e[Len(e)]
  BY <1>0, EndsFacts
<1>3. \A f \in 1 .. Len(g) : g[f] >= g[1]
  BY <1>0, EndsFacts
<1>4. e[Len(e)] \in Nat /\ g[1] \in Nat /\ g[1] > e[Len(e)]
  BY <1>0
<1>5. ASSUME NEW f \in 1 .. Len(h), NEW k \in 1 .. Len(h), f < k
      PROVE  h[f] < h[k]
  <2>2. CASE k <= Len(e)
    <3>1. f \in 1 .. Len(e) /\ k \in 1 .. Len(e)
      BY <1>1, <1>5, <2>2
    <3>2. e[f] < e[k]
      BY <1>0, <1>5, <3>1 DEF Increasing
    <3>3. QED
      BY <1>1, <3>1, <3>2, Zenon
  <2>3. CASE f <= Len(e) /\ k > Len(e)
    <3>1. /\ f \in 1 .. Len(e) /\ k - Len(e) \in 1 .. Len(g)
          /\ Len(e) + (k - Len(e)) = k
      BY <1>1, <1>5, <2>3
    <3>2. h[f] = e[f] /\ h[k] = g[k - Len(e)] /\ e[f] \in Nat /\ g[k - Len(e)] \in Nat
      BY <1>1, <3>1, SMTT(30)
    <3>3. e[f] <= e[Len(e)] /\ g[k - Len(e)] >= g[1]
      BY <1>2, <1>3, <3>1, SMTT(30)
    <3>4. QED
      BY <1>4, <3>2, <3>3, SMTT(30)
  <2>4. CASE f > Len(e)
    <3>1. /\ f - Len(e) \in 1 .. Len(g) /\ k - Len(e) \in 1 .. Len(g)
          /\ Len(e) + (k - Len(e)) = k /\ Len(e) + (f - Len(e)) = f
          /\ f - Len(e) < k - Len(e)
      BY <1>1, <1>5, <2>4
    <3>2. g[f - Len(e)] < g[k - Len(e)]
      BY <1>0, <3>1 DEF Increasing
    <3>3. QED
      BY <1>1, <3>1, <3>2
  <2>5. f \in Nat /\ k \in Nat
    BY <1>1
  <2>6. QED
    BY <1>1, <1>5, <2>2, <2>3, <2>4, <2>5
<1>6. h[Len(h)] = g[Len(g)]
  BY <1>1
<1>7. QED
  BY <1>1, <1>3, <1>5, <1>6 DEF h, Increasing

\* What the operations need to know of the fields.
LEMMA ShapeFacts ==
  ASSUME NEW ends \in Seq(Nat), NEW get \in Nat, NEW put \in Nat,
         NEW eback \in Nat, NEW gptr \in Nat, NEW egptr \in Nat,
         NEW pbase \in Nat, NEW pptr \in Nat, NEW inter \in Nat, NEW tail \in Nat
  PROVE  Shape(ends, get, put, eback, gptr, egptr, pbase, pptr, inter, tail)
         => /\ get \in 1 .. Len(ends) /\ put \in 1 .. Len(ends) /\ Len(ends) \in Nat
            /\ Increasing(ends)
            /\ ends[get] \in Nat /\ ends[put] \in Nat /\ ends[Len(ends)] \in Nat
            /\ get <= put /\ eback <= gptr /\ gptr <= egptr /\ egptr <= ends[get]
            /\ egptr <= pbase /\ pbase <= pptr /\ pptr <= ends[put]
            /\ ends[put] <= ends[Len(ends)]
            /\ get < put => ends[get] <= pbase /\ ends[put - 1] <= pbase
            /\ tail = 0 <=> put = Len(ends)
            /\ tail = ends[Len(ends)] - ends[put]
<1>0. HAVE Shape(ends, get, put, eback, gptr, egptr, pbase, pptr, inter, tail)
<1>1. /\ get \in 1 .. Len(ends) /\ put \in 1 .. Len(ends) /\ Len(ends) \in Nat
      /\ Increasing(ends)
      /\ get <= put /\ eback <= gptr /\ gptr <= egptr /\ egptr <= ends[get]
      /\ egptr <= pbase /\ pbase <= pptr /\ pptr <= ends[put]
      /\ tail = ends[Len(ends)] - ends[put]
  BY <1>0 DEF Shape
<1>2. ends[get] \in Nat /\ ends[put] \in Nat /\ ends[Len(ends)] \in Nat
  <2>1. get \in 1 .. Len(ends) /\ put \in 1 .. Len(ends) /\ Len(ends) \in 1 .. Len(ends)
    BY <1>0 DEF Shape
  <2>2. QED
    BY <2>1
<1>3. /\ ends[put] <= ends[Len(ends)]
      /\ put < Len(ends) => ends[put] < ends[Len(ends)]
  BY <1>1, EndsFacts
<1>4. ASSUME get < put PROVE ends[get] <= pbase /\ ends[put - 1] <= pbase
  <2>1. put - 1 \in 1 .. Len(ends) /\ get <= put - 1 /\ put # 1
    BY <1>1, <1>4
  <2>2. ends[get] <= ends[put - 1] /\ ends[put - 1] \in Nat
    BY <1>1, <2>1, EndsFacts
  <2>3. ends[put - 1] <= pbase
    BY <1>0, <2>1 DEF Shape
  <2>4. QED
    BY <1>2, <2>2, <2>3
<1>5. tail = 0 <=> put = Len(ends)
  BY <1>1, <1>2, <1>3
<1>6. QED
  BY <1>1, <1>2, <1>3, <1>4, <1>5, Zenon

\* The Shape lemmas: what an operation does to the fields keeps Shape.
\* Here reserve.
LEMMA ShapeReserve ==
  ASSUME NEW ends \in Seq(Nat), NEW get \in Nat, NEW put \in Nat,
         NEW eback \in Nat, NEW gptr \in Nat, NEW egptr \in Nat,
         NEW pbase \in Nat, NEW pptr \in Nat, NEW inter \in Nat, NEW tail \in Nat,
         NEW g \in Seq(Nat)
  PROVE  /\ Shape(ends, get, put, eback, gptr, egptr, pbase, pptr, inter, tail)
         /\ Len(g) > 0 /\ Increasing(g) /\ g[1] > ends[Len(ends)]
         => Shape(ends \o g, get, put, eback, gptr, egptr, pbase, pptr,
                  inter, tail + (g[Len(g)] - ends[Len(ends)]))
<1>0. HAVE /\ Shape(ends, get, put, eback, gptr, egptr, pbase, pptr, inter, tail)
           /\ Len(g) > 0 /\ Increasing(g) /\ g[1] > ends[Len(ends)]
<1> DEFINE h == ends \o g
<1>1. Len(g) > 0 /\ Increasing(g) /\ g[1] > ends[Len(ends)]
  BY <1>0, Zenon
<1>2. Shape(ends, get, put, eback, gptr, egptr, pbase, pptr, inter, tail)
  BY <1>0, Zenon
<1>3. /\ get \in 1 .. Len(ends) /\ put \in 1 .. Len(ends)
      /\ Len(ends) \in Nat /\ Len(ends) > 0
      /\ Increasing(ends) /\ tail = ends[Len(ends)] - ends[put]
  BY <1>2 DEF Shape
<1>4. Increasing(h) /\ h[Len(h)] = g[Len(g)] /\ g[Len(g)] >= g[1]
  BY <1>1, <1>3, IncreasingAppend, Zenon
<1>5. /\ h \in Seq(Nat) /\ Len(h) = Len(ends) + Len(g) /\ Len(g) \in Nat
      /\ \A f \in 1 .. Len(ends) : h[f] = ends[f]
  OBVIOUS
<1> HIDE DEF h
<1>6. /\ h[1] = ends[1] /\ h[get] = ends[get] /\ h[put] = ends[put]
      /\ get # 1 => h[get - 1] = ends[get - 1]
      /\ put # 1 => h[put - 1] = ends[put - 1]
      /\ put <= Len(h)
  <2>1. get \in Nat /\ put \in Nat /\ Len(ends) \in Nat
        /\ get \in 1 .. Len(ends) /\ put \in 1 .. Len(ends)
    BY <1>3
  <2>2. /\ 1 \in 1 .. Len(ends)
        /\ get # 1 => get - 1 \in 1 .. Len(ends)
        /\ put # 1 => put - 1 \in 1 .. Len(ends)
        /\ put <= Len(h)
    BY <1>5, <2>1
  <2>3. QED
    BY <1>5, <2>1, <2>2, Zenon
<1>7. /\ tail + (g[Len(g)] - ends[Len(ends)]) \in Nat
      /\ tail + (g[Len(g)] - ends[Len(ends)]) = h[Len(h)] - h[put]
  <2>1. g[Len(g)] > ends[Len(ends)]
    <3>1. g[Len(g)] \in Nat /\ g[1] \in Nat /\ ends[Len(ends)] \in Nat
      BY <1>1, <1>3, SMTT(30)
    <3>2. g[Len(g)] >= g[1] /\ g[1] > ends[Len(ends)]
      BY <1>1, <1>4
    <3>3. QED
      BY <3>1, <3>2
  <2>2. /\ tail + (g[Len(g)] - ends[Len(ends)]) \in Nat
        /\ tail + (g[Len(g)] - ends[Len(ends)]) = g[Len(g)] - ends[put]
    BY <1>1, <1>3, <2>1, TailGrows, ZenonT(60)
  <2>3. QED
    BY <1>4, <1>6, <2>2, Zenon
<1>8. Shape(h, get, put, eback, gptr, egptr, pbase, pptr,
            inter, tail + (g[Len(g)] - ends[Len(ends)]))
  BY <1>2, <1>4, <1>5, <1>6, <1>7 DEF Shape
<1>9. QED
  BY <1>8 DEF h

\* compact_put_area.
LEMMA ShapeCompact ==
  ASSUME NEW ends \in Seq(Nat), NEW get \in Nat, NEW put \in Nat,
         NEW eback \in Nat, NEW gptr \in Nat, NEW egptr \in Nat,
         NEW pbase \in Nat, NEW pptr \in Nat, NEW inter \in Nat, NEW tail \in Nat
  PROVE  Shape(ends, get, put, eback, gptr, egptr, pbase, pptr, inter, tail)
         => Shape(ends, get, put, eback, gptr, egptr, pptr, pptr,
                  inter + (pptr - pbase), tail)
  BY DEF Shape

\* extend_get_area.
LEMMA ShapeExtend ==
  ASSUME NEW ends \in Seq(Nat), NEW get \in Nat, NEW put \in Nat,
         NEW eback \in Nat, NEW gptr \in Nat, NEW egptr \in Nat,
         NEW pbase \in Nat, NEW pptr \in Nat, NEW inter \in Nat, NEW tail \in Nat,
         get = put
  PROVE  Shape(ends, get, put, eback, gptr, egptr, pbase, pptr, inter, tail)
         => Shape(ends, get, put, eback, gptr, pbase, pbase, pptr,
                  inter - (pbase - egptr), tail)
<1>0. HAVE Shape(ends, get, put, eback, gptr, egptr, pbase, pptr, inter, tail)
<1>1. ends[get] \in Nat
  BY <1>0, ShapeFacts, Zenon
<1>2. QED
  BY <1>0, <1>1 DEF Shape

\* The get area grows to the end of its fragment, inter_size_ follows.
LEMMA ShapeMiddle ==
  ASSUME NEW ends \in Seq(Nat), NEW get \in Nat, NEW put \in Nat,
         NEW eback \in Nat, NEW gptr \in Nat, NEW egptr \in Nat,
         NEW pbase \in Nat, NEW pptr \in Nat, NEW inter \in Nat, NEW tail \in Nat,
         get < put
  PROVE  Shape(ends, get, put, eback, gptr, egptr, pbase, pptr, inter, tail)
         => Shape(ends, get, put, eback, gptr, ends[get], pbase, pptr,
                  inter - (ends[get] - egptr), tail)
<1>0. HAVE Shape(ends, get, put, eback, gptr, egptr, pbase, pptr, inter, tail)
<1>1. ends[get] \in Nat /\ ends[get] <= pbase
  BY <1>0, ShapeFacts, ZenonT(60)
<1>2. /\ egptr <= ends[get] /\ gptr <= egptr
      /\ inter >= pbase - egptr
      /\ ~SpanConsume => inter = pbase - egptr
  BY <1>0 DEF Shape
<1>3. /\ inter - (ends[get] - egptr) \in Nat
      /\ inter - (ends[get] - egptr) >= pbase - ends[get]
      /\ ~SpanConsume => inter - (ends[get] - egptr) = pbase - ends[get]
      /\ gptr <= ends[get]
  <2>1. inter - (ends[get] - egptr) \in Nat
    BY <1>1, <1>2
  <2>2. inter - (ends[get] - egptr) >= pbase - ends[get] /\ gptr <= ends[get]
    BY <1>1, <1>2
  <2>3. ~SpanConsume => inter - (ends[get] - egptr) = pbase - ends[get]
    BY <1>1, <1>2, SMTT(30)
  <2>4. QED
    BY <2>1, <2>2, <2>3, Zenon
<1>4. QED
  BY <1>0, <1>1, <1>3 DEF Shape

\* The same without inter_size_, as consume does it.
LEMMA ShapeSpan ==
  ASSUME NEW ends \in Seq(Nat), NEW get \in Nat, NEW put \in Nat,
         NEW eback \in Nat, NEW gptr \in Nat, NEW egptr \in Nat,
         NEW pbase \in Nat, NEW pptr \in Nat, NEW inter \in Nat, NEW tail \in Nat,
         get < put, SpanConsume
  PROVE  Shape(ends, get, put, eback, gptr, egptr, pbase, pptr, inter, tail)
         => Shape(ends, get, put, eback, gptr, ends[get], pbase, pptr, inter, tail)
<1>0. HAVE Shape(ends, get, put, eback, gptr, egptr, pbase, pptr, inter, tail)
<1>1. ends[get] \in Nat /\ ends[get] <= pbase
  BY <1>0, ShapeFacts, ZenonT(60)
<1>2. egptr <= ends[get] /\ gptr <= egptr /\ inter >= pbase - egptr
  BY <1>0 DEF Shape
<1>3. inter >= pbase - ends[get] /\ gptr <= ends[get]
  BY <1>1, <1>2
<1>4. QED
  BY <1>0, <1>1, <1>3 DEF Shape

\* The put pointer moves within the put area.
LEMMA ShapePutPointer ==
  ASSUME NEW ends \in Seq(Nat), NEW get \in Nat, NEW put \in Nat,
         NEW eback \in Nat, NEW gptr \in Nat, NEW egptr \in Nat,
         NEW pbase \in Nat, NEW pptr \in Nat, NEW inter \in Nat, NEW tail \in Nat,
         NEW w \in Nat, pptr <= w, w <= ends[put]
  PROVE  Shape(ends, get, put, eback, gptr, egptr, pbase, pptr, inter, tail)
         => Shape(ends, get, put, eback, gptr, egptr, pbase, w, inter, tail)
  BY DEF Shape

\* The get pointer moves within the get area.
LEMMA ShapeGetPointer ==
  ASSUME NEW ends \in Seq(Nat), NEW get \in Nat, NEW put \in Nat,
         NEW eback \in Nat, NEW gptr \in Nat, NEW egptr \in Nat,
         NEW pbase \in Nat, NEW pptr \in Nat, NEW inter \in Nat, NEW tail \in Nat,
         NEW r \in Nat, gptr <= r, r <= egptr
  PROVE  Shape(ends, get, put, eback, gptr, egptr, pbase, pptr, inter, tail)
         => /\ Shape(ends, get, put, eback, r, egptr, pbase, pptr, inter, tail)
            /\ Shape(ends, get, put, r, r, egptr, pbase, pptr, inter, tail)
  BY DEF Shape

\* The put area moves to a later fragment.
LEMMA ShapePutArea ==
  ASSUME NEW ends \in Seq(Nat), NEW get \in Nat, NEW put \in Nat,
         NEW eback \in Nat, NEW gptr \in Nat, NEW egptr \in Nat,
         NEW pbase \in Nat, NEW pptr \in Nat, NEW inter \in Nat, NEW tail \in Nat,
         NEW f \in put + 1 .. Len(ends), NEW c \in Nat, NEW w \in Nat
  PROVE  /\ Shape(ends, get, put, eback, gptr, egptr, pbase, pptr, inter, tail)
         /\ pptr <= c /\ ends[f - 1] <= c /\ c <= w /\ w <= ends[f]
         => Shape(ends, get, f, eback, gptr, egptr, c, w,
                  inter + (c - pbase), tail - (ends[f] - ends[put]))
<1>0. HAVE /\ Shape(ends, get, put, eback, gptr, egptr, pbase, pptr, inter, tail)
           /\ pptr <= c /\ ends[f - 1] <= c /\ c <= w /\ w <= ends[f]
<1>1. Shape(ends, get, put, eback, gptr, egptr, pbase, pptr, inter, tail)
  BY <1>0, Zenon
<1>2. pptr <= c /\ ends[f - 1] <= c /\ c <= w /\ w <= ends[f]
  BY <1>0, Zenon
<1>3. /\ Len(ends) \in Nat /\ put \in 1 .. Len(ends) /\ get <= put /\ Increasing(ends)
      /\ tail = ends[Len(ends)] - ends[put]
  BY <1>1 DEF Shape
<1>4. f \in 1 .. Len(ends) /\ f - 1 \in 1 .. Len(ends) /\ f # 1 /\ get <= f
      /\ Len(ends) \in 1 .. Len(ends) /\ put <= f
  BY <1>3
<1>5. ends[f] <= ends[Len(ends)] /\ ends[put] <= ends[f]
  BY <1>3, <1>4, EndsFacts
<1>6. /\ tail - (ends[f] - ends[put]) \in Nat
      /\ tail - (ends[f] - ends[put]) = ends[Len(ends)] - ends[f]
  BY <1>3, <1>4, <1>5, TailShrinks, ZenonT(60)
<1>7. egptr <= pbase /\ pbase <= pptr /\ pptr <= c
  BY <1>1, <1>2 DEF Shape
<1>8. inter >= pbase - egptr /\ (~SpanConsume => inter = pbase - egptr)
  BY <1>1, Zenon DEF Shape
<1>9. /\ egptr <= c
      /\ inter + (c - pbase) \in Nat /\ inter + (c - pbase) >= c - egptr
      /\ ~SpanConsume => inter + (c - pbase) = c - egptr
  BY <1>7, <1>8
<1>10. QED
  BY <1>1, <1>2, <1>4, <1>6, <1>9 DEF Shape

\* The get area moves to a later position.
LEMMA ShapeGetArea ==
  ASSUME NEW ends \in Seq(Nat), NEW get \in Nat, NEW put \in Nat,
         NEW eback \in Nat, NEW gptr \in Nat, NEW egptr \in Nat,
         NEW pbase \in Nat, NEW pptr \in Nat, NEW inter \in Nat, NEW tail \in Nat,
         NEW f \in get .. put, NEW r \in Nat, NEW s \in Nat, NEW i \in Nat
  PROVE  /\ Shape(ends, get, put, eback, gptr, egptr, pbase, pptr, inter, tail)
         /\ f = 1 \/ ends[f - 1] <= r
         /\ r <= s /\ (f = put => s = pbase) /\ (f # put => s = ends[f])
         /\ i >= pbase - s /\ (~SpanConsume => i = pbase - s)
         => Shape(ends, f, put, r, r, s, pbase, pptr, i, tail)
<1>0. HAVE /\ Shape(ends, get, put, eback, gptr, egptr, pbase, pptr, inter, tail)
           /\ f = 1 \/ ends[f - 1] <= r
           /\ r <= s /\ (f = put => s = pbase) /\ (f # put => s = ends[f])
           /\ i >= pbase - s /\ (~SpanConsume => i = pbase - s)
<1>1. Shape(ends, get, put, eback, gptr, egptr, pbase, pptr, inter, tail)
  BY <1>0, Zenon
<1>2. /\ f = 1 \/ ends[f - 1] <= r
      /\ r <= s
      /\ i >= pbase - s /\ (~SpanConsume => i = pbase - s)
  BY <1>0, Zenon
<1>3. /\ Len(ends) \in Nat /\ put \in 1 .. Len(ends) /\ get \in 1 .. Len(ends)
      /\ Increasing(ends) /\ pbase <= pptr /\ pptr <= ends[put]
      /\ (IF put = 1 THEN 0 ELSE ends[put - 1]) <= pbase
  BY <1>1 DEF Shape
<1>4. f \in 1 .. Len(ends) /\ f <= put /\ ends[put] \in Nat
  BY <1>3
<1>5. s <= ends[f] /\ s <= pbase /\ ends[f] \in Nat
  <2>1. CASE f = put
    <3>1. s = pbase
      BY <1>0, <2>1, Zenon
    <3>2. QED
      BY <1>3, <1>4, <2>1, <3>1
  <2>2. CASE f # put
    <3>1. s = ends[f]
      BY <1>0, <2>2, Zenon
    <3>2. f < put
      BY <1>3, <1>4, <2>2
    <3>3. ends[f] <= pbase
      BY <1>3, <1>4, <3>2, BeforePut, Zenon
    <3>4. ends[f] \in Nat
      BY <1>4
    <3>5. QED
      BY <3>1, <3>3, <3>4
  <2>3. QED
    BY <2>1, <2>2
<1>6. QED
  BY <1>1, <1>2, <1>4, <1>5 DEF Shape

\* ShapeFacts, of a sound buffer.
LEMMA SoundFacts ==
  ASSUME NEW x
  PROVE  Sound(x)
         => /\ x.get \in 1 .. Len(x.ends) /\ x.put \in 1 .. Len(x.ends)
            /\ Len(x.ends) \in Nat /\ x.get <= x.put
            /\ x.gptr <= x.egptr /\ x.egptr <= x.ends[x.get]
            /\ x.egptr <= x.pbase /\ x.pbase <= x.pptr /\ x.pptr <= x.ends[x.put]
            /\ x.ends[x.get] \in Nat /\ x.ends[x.put] \in Nat
            /\ Extent(x) \in Nat /\ x.ends[x.put] <= Extent(x)
            /\ x.get < x.put => x.ends[x.get] <= x.pbase
            /\ x.tail = 0 <=> x.put = Len(x.ends)
            /\ PutSize(x) \in Nat /\ PutSize(x) = Extent(x) - x.pptr
<1>0. HAVE Sound(x)
<1>1. /\ x.ends \in Seq(Nat) /\ x.get \in Nat /\ x.put \in Nat
      /\ x.eback \in Nat /\ x.gptr \in Nat /\ x.egptr \in Nat
      /\ x.pbase \in Nat /\ x.pptr \in Nat /\ x.inter \in Nat /\ x.tail \in Nat
      /\ Shape(x.ends, x.get, x.put, x.eback, x.gptr, x.egptr,
               x.pbase, x.pptr, x.inter, x.tail)
  BY <1>0, SoundRaw
<1>2. /\ x.get \in 1 .. Len(x.ends) /\ x.put \in 1 .. Len(x.ends)
      /\ Len(x.ends) \in Nat /\ x.get <= x.put
      /\ x.gptr <= x.egptr /\ x.egptr <= x.ends[x.get]
      /\ x.egptr <= x.pbase /\ x.pbase <= x.pptr /\ x.pptr <= x.ends[x.put]
      /\ x.ends[x.get] \in Nat /\ x.ends[x.put] \in Nat
      /\ x.ends[Len(x.ends)] \in Nat /\ x.ends[x.put] <= x.ends[Len(x.ends)]
      /\ x.get < x.put => x.ends[x.get] <= x.pbase
      /\ x.tail = 0 <=> x.put = Len(x.ends)
      /\ x.tail = x.ends[Len(x.ends)] - x.ends[x.put]
  <2>1. x.get \in 1 .. Len(x.ends) /\ x.put \in 1 .. Len(x.ends)
        /\ Len(x.ends) \in Nat /\ x.get <= x.put
    <3>1. 1 <= x.get /\ x.get <= x.put /\ x.put <= Len(x.ends)
      BY <1>0, Zenon DEF Sound, Ordered
    <3>2. x.get \in Nat /\ x.put \in Nat /\ Len(x.ends) \in Nat
      BY <1>1
    <3>3. QED
      BY <3>1, <3>2
  <2>2. /\ x.gptr <= x.egptr /\ x.egptr <= x.ends[x.get]
        /\ x.egptr <= x.pbase /\ x.pbase <= x.pptr /\ x.pptr <= x.ends[x.put]
    BY <1>0, Zenon DEF Sound, Ordered
  <2>3. /\ x.ends[x.get] \in Nat /\ x.ends[x.put] \in Nat
        /\ x.ends[Len(x.ends)] \in Nat /\ x.ends[x.put] <= x.ends[Len(x.ends)]
    BY <1>1, ShapeFacts
  <2>4. /\ x.get < x.put => x.ends[x.get] <= x.pbase
        /\ x.tail = 0 <=> x.put = Len(x.ends)
        /\ x.tail = x.ends[Len(x.ends)] - x.ends[x.put]
    <3>1. /\ Increasing(x.ends)
          /\ x.tail = x.ends[Len(x.ends)] - x.ends[x.put]
          /\ (IF x.put = 1 THEN 0 ELSE x.ends[x.put - 1]) <= x.pbase
      BY <1>0, Zenon DEF Sound, Ordered, Start, Extent, Epptr
    <3>2. x.get < x.put => x.ends[x.get] <= x.pbase
      BY <1>1, <2>1, <3>1, BeforePut, Zenon
    <3>3. x.tail = 0 <=> x.put = Len(x.ends)
      BY <1>1, <2>1, <3>1, TailZero, Zenon
    <3>4. QED
      BY <3>1, <3>2, <3>3, Zenon
  <2>5. QED
    BY <2>1, <2>2, <2>3, <2>4, Zenon
<1>3. PutSize(x) \in Nat /\ PutSize(x) = Extent(x) - x.pptr
  <2>1. /\ x.tail = x.ends[Len(x.ends)] - x.ends[x.put]
        /\ x.ends[x.put] \in Nat /\ x.ends[Len(x.ends)] \in Nat
        /\ x.pptr <= x.ends[x.put] /\ x.ends[x.put] <= x.ends[Len(x.ends)]
    BY <1>2, Zenon
  <2>2. x.pptr \in Nat
    BY <1>1
  <2>3. QED
    BY <2>1, <2>2 DEF PutSize, Extent, Epptr
<1>4. QED
  BY <1>2, <1>3, Zenon DEF Extent

\* Every operator below changes only some of the pointers, and the position
\* gptr at which the next byte is read, or pptr at which it is written, moves
\* only as the operator's callers expect.

\* reserve makes room for n bytes and moves no pointer.
LEMMA ReserveSound ==
  ASSUME NEW x, NEW n \in Nat
  PROVE  Sound(x)
         => LET y == Reserve(x, n)
            IN  /\ Sound(y)
                /\ y.get = x.get /\ y.put = x.put
                /\ y.gptr = x.gptr /\ y.egptr = x.egptr
                /\ y.pbase = x.pbase /\ y.pptr = x.pptr
                /\ PutSize(y) >= n
                /\ Len(y.ends) >= Len(x.ends)
                /\ \A i \in 1 .. Len(x.ends) : y.ends[i] = x.ends[i]
<1> DEFINE y == Reserve(x, n)
           need == n - PutSize(x)
           g == Grown(Extent(x), need)
           u == x.tail + (g[Len(g)] - Extent(x))
<1>0. HAVE Sound(x)
<1>1. /\ PutSize(x) \in Nat /\ PutSize(x) = Extent(x) - x.pptr
      /\ Extent(x) \in Nat /\ Len(x.ends) \in Nat
  BY <1>0, SoundFacts
<1>2. CASE n <= PutSize(x)
  <2>1. y = x
    BY <1>2 DEF Reserve
  <2>2. QED
    BY <1>0, <1>1, <1>2, <2>1
<1>3. CASE ~(n <= PutSize(x))
  <2>1. need \in Nat \ {0}
    BY <1>1, <1>3
  <2> HIDE DEF need
  <2>2. /\ g \in Seq(Nat) /\ Len(g) \in Nat \ {0} /\ Increasing(g)
        /\ g[1] > Extent(x) /\ g[Len(g)] >= Extent(x) + need
    BY <1>1, <2>1, GrownFacts, Zenon
  <2> HIDE DEF g
  <2>3. /\ x.ends \in Seq(Nat) /\ x.get \in Nat /\ x.put \in Nat
        /\ x.eback \in Nat /\ x.gptr \in Nat /\ x.egptr \in Nat
        /\ x.pbase \in Nat /\ x.pptr \in Nat /\ x.inter \in Nat /\ x.tail \in Nat
        /\ Shape(x.ends, x.get, x.put, x.eback, x.gptr, x.egptr,
                 x.pbase, x.pptr, x.inter, x.tail)
        /\ x \in Raw
    BY <1>0, SoundRaw
  <2>4. Len(g) > 0
    BY <2>2
  <2>5. Shape(x.ends \o g, x.get, x.put, x.eback, x.gptr, x.egptr,
              x.pbase, x.pptr, x.inter, u)
    BY <2>2, <2>3, <2>4, ShapeReserve DEF Extent
  <2>6. x.ends \o g \in Seq(Nat) /\ u \in Int
    BY <2>2, <2>3, <2>5 DEF Shape
  <2> HIDE DEF u
  <2>7. y = [x EXCEPT !.ends = x.ends \o g, !.tail = u]
    BY <1>3, Zenon DEF Reserve, g, u, need
  <2> HIDE DEF y
  <2>a. x \in Raw
    BY <2>3
  <2>b. Sound(y)
    BY <2>a, <2>5, <2>6, <2>7, UpdateSpace, Zenon
  <2>c. /\ y.get = x.get /\ y.put = x.put
        /\ y.gptr = x.gptr /\ y.egptr = x.egptr
        /\ y.pbase = x.pbase /\ y.pptr = x.pptr
        /\ y.ends = x.ends \o g
    BY <2>a, <2>7 DEF Raw
  <2>9. /\ Len(y.ends) = Len(x.ends) + Len(g)
        /\ \A i \in 1 .. Len(x.ends) : y.ends[i] = x.ends[i]
        /\ y.ends[Len(y.ends)] = g[Len(g)]
    <3>1. x.ends \in Seq(Nat) /\ g \in Seq(Nat) /\ Len(g) > 0
      BY <2>2, <2>3
    <3>2. QED
      BY <2>c, <3>1
  <2>10. PutSize(y) = g[Len(g)] - x.pptr
    BY <2>b, <2>c, <2>9, SoundFacts, Zenon DEF Extent
  <2>11. PutSize(y) >= n
    <3>1. g[Len(g)] \in Nat /\ g[Len(g)] >= Extent(x) + need /\ x.pptr \in Nat
      BY <2>2, <2>3, SMTT(30)
    <3>2. need = n - (Extent(x) - x.pptr)
      BY <1>1 DEF need
    <3>3. QED
      BY <1>1, <2>10, <3>1, <3>2
  <2>12. Len(y.ends) >= Len(x.ends)
    BY <1>1, <2>2, <2>9
  <2>13. QED
    BY <2>b, <2>c, <2>9, <2>11, <2>12, Zenon DEF y
<1>4. QED
  BY <1>2, <1>3

\* compact_put_area changes pbase and inter_size_ only.
LEMMA CompactPutAreaSound ==
  ASSUME NEW x
  PROVE  Sound(x)
         => LET y == CompactPutArea(x)
            IN  /\ Sound(y)
                /\ y.ends = x.ends /\ y.get = x.get /\ y.put = x.put
                /\ y.gptr = x.gptr /\ y.egptr = x.egptr
                /\ y.pbase = x.pptr /\ y.pptr = x.pptr
<1>0. HAVE Sound(x)
<1>1. /\ x.ends \in Seq(Nat) /\ x.get \in Nat /\ x.put \in Nat
      /\ x.eback \in Nat /\ x.gptr \in Nat /\ x.egptr \in Nat
      /\ x.pbase \in Nat /\ x.pptr \in Nat /\ x.inter \in Nat /\ x.tail \in Nat
      /\ Shape(x.ends, x.get, x.put, x.eback, x.gptr, x.egptr,
               x.pbase, x.pptr, x.inter, x.tail)
      /\ x \in Raw
  BY <1>0, SoundRaw
<1>2. Shape(x.ends, x.get, x.put, x.eback, x.gptr, x.egptr,
            x.pptr, x.pptr, x.inter + (x.pptr - x.pbase), x.tail)
  BY <1>1, ShapeCompact
<1>3. x.inter + (x.pptr - x.pbase) \in Int /\ x.pptr \in Int
  BY <1>1
<1>4. x \in Raw
  BY <1>1
<1>5. Sound(CompactPutArea(x))
  BY <1>2, <1>3, <1>4, UpdatePutStart DEF CompactPutArea
<1>6. LET y == CompactPutArea(x)
      IN  /\ y.ends = x.ends /\ y.get = x.get /\ y.put = x.put
          /\ y.gptr = x.gptr /\ y.egptr = x.egptr
          /\ y.pbase = x.pptr /\ y.pptr = x.pptr
  BY <1>4 DEF Raw, CompactPutArea
<1>7. QED
  BY <1>5, <1>6, Zenon

\* extend_get_area changes egptr and inter_size_ only.
LEMMA ExtendGetAreaSound ==
  ASSUME NEW x
  PROVE  Sound(x) /\ x.get = x.put
         => LET y == ExtendGetArea(x)
            IN  /\ Sound(y)
                /\ y.ends = x.ends /\ y.get = x.get /\ y.put = x.put
                /\ y.gptr = x.gptr /\ y.egptr = x.pbase
                /\ y.pbase = x.pbase /\ y.pptr = x.pptr
<1>0. HAVE Sound(x) /\ x.get = x.put
<1>1. /\ x.ends \in Seq(Nat) /\ x.get \in Nat /\ x.put \in Nat
      /\ x.eback \in Nat /\ x.gptr \in Nat /\ x.egptr \in Nat
      /\ x.pbase \in Nat /\ x.pptr \in Nat /\ x.inter \in Nat /\ x.tail \in Nat
      /\ Shape(x.ends, x.get, x.put, x.eback, x.gptr, x.egptr,
               x.pbase, x.pptr, x.inter, x.tail)
      /\ x \in Raw
  BY <1>0, SoundRaw
<1>2. Shape(x.ends, x.get, x.put, x.eback, x.gptr, x.pbase,
            x.pbase, x.pptr, x.inter - (x.pbase - x.egptr), x.tail)
  BY <1>0, <1>1, ShapeExtend
<1>3. x.inter - (x.pbase - x.egptr) \in Int /\ x.pbase \in Int
  BY <1>1
<1>4. x \in Raw
  BY <1>1
<1>5. Sound(ExtendGetArea(x))
  BY <1>2, <1>3, <1>4, UpdateGetEnd DEF ExtendGetArea
<1>6. LET y == ExtendGetArea(x)
      IN  /\ y.ends = x.ends /\ y.get = x.get /\ y.put = x.put
          /\ y.gptr = x.gptr /\ y.egptr = x.pbase
          /\ y.pbase = x.pbase /\ y.pptr = x.pptr
  BY <1>4 DEF Raw, ExtendGetArea
<1>7. QED
  BY <1>5, <1>6, Zenon

\* The put area may move to any later fragment and position in it.
LEMMA MovePutSound ==
  ASSUME NEW x, NEW f, NEW c \in Nat, NEW w \in Nat
  PROVE  /\ Sound(x) /\ f \in x.put + 1 .. Len(x.ends)
         /\ x.pptr <= c /\ x.ends[f - 1] <= c /\ c <= w /\ w <= x.ends[f]
         => LET y == MovePut(x, f, c, w)
            IN  /\ Sound(y) /\ y.pptr = w
                /\ y.ends = x.ends /\ y.get = x.get
                /\ y.gptr = x.gptr /\ y.egptr = x.egptr
<1> DEFINE i == x.inter + (c - x.pbase)
           u == x.tail - (x.ends[f] - x.ends[x.put])
           y == [x EXCEPT !.inter = i, !.tail = u, !.put = f, !.pbase = c, !.pptr = w]
<1>0. HAVE /\ Sound(x) /\ f \in x.put + 1 .. Len(x.ends)
           /\ x.pptr <= c /\ x.ends[f - 1] <= c /\ c <= w /\ w <= x.ends[f]
<1>1. /\ x.ends \in Seq(Nat) /\ x.get \in Nat /\ x.put \in Nat
      /\ x.eback \in Nat /\ x.gptr \in Nat /\ x.egptr \in Nat
      /\ x.pbase \in Nat /\ x.pptr \in Nat /\ x.inter \in Nat /\ x.tail \in Nat
      /\ Shape(x.ends, x.get, x.put, x.eback, x.gptr, x.egptr,
               x.pbase, x.pptr, x.inter, x.tail)
  BY <1>0, SoundRaw
<1>2. x \in Raw
  BY <1>0, SoundRaw
<1>3. Shape(x.ends, x.get, f, x.eback, x.gptr, x.egptr, c, w, i, u)
  BY <1>0, <1>1, ShapePutArea, Zenon
<1>4. i \in Nat /\ u \in Nat /\ f \in Nat
  BY <1>3, Zenon DEF Shape
<1>5. MovePut(x, f, c, w) = y
  BY DEF MovePut
<1> HIDE DEF i, u
<1>6. i \in Int /\ u \in Int /\ f \in Int /\ c \in Int /\ w \in Int
  BY <1>4
<1>7. Sound(y)
  BY <1>2, <1>3, <1>6, UpdatePutArea, Zenon
<1>8. /\ y.pptr = w /\ y.ends = x.ends /\ y.get = x.get
      /\ y.gptr = x.gptr /\ y.egptr = x.egptr
  BY <1>2 DEF Raw
<1> HIDE DEF y
<1>9. QED
  BY <1>5, <1>7, <1>8, Zenon

\* The get area may move to any readable position, if inter_size_ follows.
LEMMA MoveGetSound ==
  ASSUME NEW x, NEW f, NEW t \in Nat, NEW less \in Int
  PROVE  /\ Sound(x) /\ f \in x.get .. x.put
         /\ f = 1 \/ x.ends[f - 1] <= t
         /\ t <= IF f = x.put THEN x.pbase ELSE x.ends[f]
         /\ IF f = x.put THEN x.inter - less >= 0 /\ (~SpanConsume => x.inter = less)
            ELSE /\ x.inter - less >= x.pbase - x.ends[f]
                 /\ ~SpanConsume => x.inter - less = x.pbase - x.ends[f]
         => LET y == MoveGet(x, f, t, less)
            IN  /\ Sound(y) /\ y.ends = x.ends
                /\ y.gptr = t /\ y.pptr = x.pptr
<1> DEFINE i == x.inter - less
           e == IF f = x.put THEN x.pbase ELSE x.ends[f]
           y == [x EXCEPT !.get = f, !.inter = i, !.eback = t, !.gptr = t, !.egptr = e]
<1>0. HAVE /\ Sound(x) /\ f \in x.get .. x.put
           /\ f = 1 \/ x.ends[f - 1] <= t
           /\ t <= e
           /\ IF f = x.put THEN i >= 0 /\ (~SpanConsume => x.inter = less)
              ELSE /\ i >= x.pbase - x.ends[f]
                   /\ ~SpanConsume => i = x.pbase - x.ends[f]
<1>1. /\ x.ends \in Seq(Nat) /\ x.get \in Nat /\ x.put \in Nat
      /\ x.eback \in Nat /\ x.gptr \in Nat /\ x.egptr \in Nat
      /\ x.pbase \in Nat /\ x.pptr \in Nat /\ x.inter \in Nat /\ x.tail \in Nat
      /\ Shape(x.ends, x.get, x.put, x.eback, x.gptr, x.egptr,
               x.pbase, x.pptr, x.inter, x.tail)
  BY <1>0, SoundRaw
<1>2. x \in Raw
  BY <1>0, SoundRaw
<1>3. /\ x.get \in 1 .. Len(x.ends) /\ x.put \in 1 .. Len(x.ends)
      /\ Increasing(x.ends)
      /\ (IF x.put = 1 THEN 0 ELSE x.ends[x.put - 1]) <= x.pbase
  <2>1. x.get \in 1 .. Len(x.ends) /\ x.put \in 1 .. Len(x.ends)
    BY <1>0, SoundFacts, Zenon
  <2>2. /\ Increasing(x.ends)
        /\ (IF x.put = 1 THEN 0 ELSE x.ends[x.put - 1]) <= x.pbase
    BY <1>0, Zenon DEF Sound, Ordered, Start
  <2>3. QED
    BY <2>1, <2>2, Zenon
<1>4. e \in Nat /\ e <= x.pbase
      /\ (f # x.put => e = x.ends[f])
      /\ (f = x.put => e = x.pbase)
  <2>1. CASE f = x.put
    BY <1>1, <2>1
  <2>2. CASE f # x.put
    <3>1. f \in 1 .. Len(x.ends) /\ f < x.put
      BY <1>0, <1>3, <2>2
    <3>2. x.ends[f] <= x.pbase
      BY <1>1, <1>3, <3>1, BeforePut, Zenon
    <3>3. x.ends[f] \in Nat
      BY <1>1, <3>1, EndTyped, Zenon
    <3>4. QED
      BY <2>2, <3>2, <3>3
  <2>3. QED
    BY <2>1, <2>2
<1>5. t <= e
  BY <1>0, Zenon
<1>6. i >= x.pbase - e /\ (~SpanConsume => i = x.pbase - e)
  <2>1. CASE f = x.put
    <3>1. i >= 0 /\ (~SpanConsume => x.inter = less)
      BY <1>0, <2>1, Zenon
    <3>2. e = x.pbase /\ x.pbase \in Nat /\ x.inter \in Nat
      BY <1>1, <2>1
    <3> HIDE DEF e
    <3>3. QED
      BY <3>1, <3>2
  <2>2. CASE f # x.put
    BY <1>0, <2>2, Zenon
  <2>3. QED
    BY <2>1, <2>2, Zenon
<1>8. MoveGet(x, f, t, less) = y
  BY DEF MoveGet
<1> HIDE DEF e
<1>9. i \in Nat
  <2>1. x.inter \in Nat /\ x.pbase \in Nat
    BY <1>1
  <2>2. i \in Int /\ x.pbase - e \in Nat
    BY <1>4, <2>1
  <2>3. i >= x.pbase - e
    BY <1>6
  <2>4. QED
    BY <2>2, <2>3
<1>10. f = 1 \/ x.ends[f - 1] <= t
  BY <1>0, Zenon
<1> HIDE DEF i
<1>11. f \in x.get .. x.put
  BY <1>0, Zenon
<1>12. Shape(x.ends, f, x.put, t, t, e, x.pbase, x.pptr, i, x.tail)
  BY <1>1, <1>4, <1>5, <1>6, <1>9, <1>10, <1>11, ShapeGetArea, Zenon
<1>13. f \in Int /\ i \in Int /\ t \in Int /\ e \in Int
  BY <1>1, <1>4, <1>9, <1>11
<1>14. Sound(y)
  BY <1>2, <1>12, <1>13, UpdateGetArea, Zenon
<1>15. y.ends = x.ends /\ y.gptr = t /\ y.pptr = x.pptr
  BY <1>2 DEF Raw
<1> HIDE DEF y
<1>16. QED
  BY <1>8, <1>14, <1>15, Zenon

\* promote_put: the put area moves to the next fragment, the position stays.
LEMMA PromotePutSound ==
  ASSUME NEW x
  PROVE  Sound(x) /\ x.pptr = x.ends[x.put]
         => LET y == PromotePut(x)
            IN  /\ Sound(y)
                /\ y.get = x.get
                /\ y.gptr = x.gptr /\ y.egptr = x.egptr
                /\ y.pptr = x.pptr /\ y.pptr < y.ends[y.put]
<1> DEFINE r == Reserve(x, 1)
           s == r.ends[r.put]
<1>0. HAVE Sound(x) /\ x.pptr = x.ends[x.put]
<1>1. /\ Sound(r) /\ r.get = x.get /\ r.put = x.put
      /\ r.gptr = x.gptr /\ r.egptr = x.egptr
      /\ r.pbase = x.pbase /\ r.pptr = x.pptr
      /\ PutSize(r) >= 1
      /\ \A i \in 1 .. Len(x.ends) : r.ends[i] = x.ends[i]
  BY <1>0, ReserveSound
<1> HIDE DEF r
<1>2. x.put \in 1 .. Len(x.ends)
  BY <1>0, SoundFacts, Zenon
<1>3. s = r.pptr
  BY <1>0, <1>1, <1>2
<1>4. /\ r.put \in 1 .. Len(r.ends) /\ Len(r.ends) \in Nat /\ r.pptr \in Nat
      /\ PutSize(r) = r.tail + (r.ends[r.put] - r.pptr) /\ r.tail \in Nat
      /\ r.tail = 0 <=> r.put = Len(r.ends)
      /\ r.ends \in Seq(Nat) /\ r.put \in Nat
  <2>1. r.put \in 1 .. Len(r.ends) /\ Len(r.ends) \in Nat
        /\ (r.tail = 0 <=> r.put = Len(r.ends))
    BY <1>1, SoundFacts, Zenon
  <2>2. r.tail \in Nat /\ r.pptr \in Nat /\ r.ends \in Seq(Nat) /\ r.put \in Nat
    BY <1>1, SoundRaw, Zenon
  <2>3. QED
    BY <2>1, <2>2, Zenon DEF PutSize, Epptr
<1>5. r.tail >= 1
  BY <1>1, <1>3, <1>4
<1>6. r.put + 1 \in r.put + 1 .. Len(r.ends) /\ (r.put + 1) - 1 = r.put
  BY <1>4, <1>5, SMTT(30)
<1>7. r.ends[r.put] <= r.ends[r.put + 1] /\ r.ends[r.put] < r.ends[r.put + 1]
  <2>1. Increasing(r.ends)
    BY <1>1, Zenon DEF Sound, Ordered
  <2>2. r.put + 1 \in 1 .. Len(r.ends) /\ r.put <= r.put + 1
    BY <1>4, <1>6
  <2>3. QED
    BY <1>4, <2>1, <2>2, EndsFacts
<1>8. s \in Nat /\ r.pptr <= s /\ r.ends[(r.put + 1) - 1] <= s /\ s <= s /\ s <= r.ends[r.put + 1]
  BY <1>3, <1>4, <1>6, <1>7
<1> HIDE DEF s
<1> DEFINE y == MovePut(r, r.put + 1, s, s)
<1>9. /\ Sound(y) /\ y.pptr = s /\ y.ends = r.ends /\ y.get = r.get
      /\ y.gptr = r.gptr /\ y.egptr = r.egptr
  <2> DEFINE f == r.put + 1
  <2>1. Sound(r) /\ s \in Nat /\ f \in r.put + 1 .. Len(r.ends)
        /\ r.pptr <= s /\ r.ends[f - 1] <= s /\ s <= s /\ s <= r.ends[f]
    BY <1>1, <1>6, <1>8
  <2> HIDE DEF f
  <2>2. /\ Sound(MovePut(r, f, s, s)) /\ MovePut(r, f, s, s).pptr = s
        /\ MovePut(r, f, s, s).ends = r.ends /\ MovePut(r, f, s, s).get = r.get
        /\ MovePut(r, f, s, s).gptr = r.gptr /\ MovePut(r, f, s, s).egptr = r.egptr
    BY <2>1, MovePutSound, ZenonT(60)
  <2>3. QED
    BY <2>2, Zenon DEF f
<1>10. PromotePut(x) = y
  BY DEF PromotePut, r, s
<1> HIDE DEF y
<1>11. r \in Raw
  BY <1>1, SoundRaw, Zenon
<1>12. y.put = r.put + 1
  BY <1>11 DEF MovePut, Raw, y
<1>13. s < r.ends[r.put + 1]
  BY <1>7, Zenon DEF s
<1>14. y.pptr < y.ends[y.put]
  BY <1>9, <1>12, <1>13, Zenon
<1>15. QED
  BY <1>1, <1>3, <1>9, <1>10, <1>14, Zenon

\* promote_put_if_exist, when the put area is full.
LEMMA PromotePutIfExistSound ==
  ASSUME NEW x
  PROVE  Sound(x)
         => LET y == PromotePutIfExist(x)
            IN  /\ Sound(y)
                /\ y.get = x.get
                /\ y.gptr = x.gptr /\ y.egptr = x.egptr /\ y.pptr = x.pptr
<1>0. HAVE Sound(x)
<1>1. CASE Epptr(x) > x.pptr \/ x.put = Len(x.ends)
  BY <1>0, <1>1 DEF PromotePutIfExist
<1>2. CASE ~(Epptr(x) > x.pptr \/ x.put = Len(x.ends))
  <2>1. x.pptr = x.ends[x.put]
    <3>1. x.pptr <= x.ends[x.put] /\ x.ends[x.put] \in Nat
      BY <1>0, SoundFacts
    <3>2. x.pptr \in Nat
      BY <1>0, SoundRaw
    <3>3. QED
      BY <1>2, <3>1, <3>2 DEF Epptr
  <2>2. PromotePutIfExist(x) = PromotePut(x)
    BY <1>2 DEF PromotePutIfExist
  <2>3. QED
    BY <1>0, <2>1, <2>2, PromotePutSound
<1>3. QED
  BY <1>1, <1>2

\* Bytes are stored in the put area.
LEMMA AdvancePutSound ==
  ASSUME NEW x, NEW w \in Nat
  PROVE  Sound(x) /\ x.pptr <= w /\ w <= x.ends[x.put]
         => LET y == [x EXCEPT !.pptr = w]
            IN  /\ Sound(y) /\ y.pptr = w /\ y.get = x.get
                /\ y.gptr = x.gptr /\ y.egptr = x.egptr
<1> DEFINE y == [x EXCEPT !.pptr = w]
<1>0. HAVE Sound(x) /\ x.pptr <= w /\ w <= x.ends[x.put]
<1>1. /\ x.ends \in Seq(Nat) /\ x.get \in Nat /\ x.put \in Nat
      /\ x.eback \in Nat /\ x.gptr \in Nat /\ x.egptr \in Nat
      /\ x.pbase \in Nat /\ x.pptr \in Nat /\ x.inter \in Nat /\ x.tail \in Nat
      /\ Shape(x.ends, x.get, x.put, x.eback, x.gptr, x.egptr,
               x.pbase, x.pptr, x.inter, x.tail)
  BY <1>0, SoundRaw
<1>2. x \in Raw /\ w \in Int
  BY <1>0, SoundRaw
<1>3. Shape(x.ends, x.get, x.put, x.eback, x.gptr, x.egptr,
            x.pbase, w, x.inter, x.tail)
  BY <1>0, <1>1, ShapePutPointer, Zenon
<1>4. Sound(y)
  BY <1>2, <1>3, UpdatePutPointer, Zenon
<1>5. y.pptr = w /\ y.get = x.get /\ y.gptr = x.gptr /\ y.egptr = x.egptr
  BY <1>2 DEF Raw
<1> HIDE DEF y
<1>6. QED
  BY <1>4, <1>5, Zenon DEF y

\* Bytes are taken from the get area, with eback or without it.
LEMMA AdvanceGetSound ==
  ASSUME NEW x, NEW r \in Nat
  PROVE  Sound(x) /\ x.gptr <= r /\ r <= x.egptr
         => LET y == [x EXCEPT !.gptr = r]
                z == [x EXCEPT !.eback = r, !.gptr = r]
            IN  /\ Sound(y) /\ y.gptr = r /\ y.pptr = x.pptr
                /\ Sound(z) /\ z.gptr = r /\ z.pptr = x.pptr
<1> DEFINE y == [x EXCEPT !.gptr = r]
           z == [x EXCEPT !.eback = r, !.gptr = r]
<1>0. HAVE Sound(x) /\ x.gptr <= r /\ r <= x.egptr
<1>1. /\ x.ends \in Seq(Nat) /\ x.get \in Nat /\ x.put \in Nat
      /\ x.eback \in Nat /\ x.gptr \in Nat /\ x.egptr \in Nat
      /\ x.pbase \in Nat /\ x.pptr \in Nat /\ x.inter \in Nat /\ x.tail \in Nat
      /\ Shape(x.ends, x.get, x.put, x.eback, x.gptr, x.egptr,
               x.pbase, x.pptr, x.inter, x.tail)
  BY <1>0, SoundRaw
<1>2. x \in Raw /\ r \in Int
  BY <1>0, SoundRaw
<1>3. /\ Shape(x.ends, x.get, x.put, x.eback, r, x.egptr,
               x.pbase, x.pptr, x.inter, x.tail)
      /\ Shape(x.ends, x.get, x.put, r, r, x.egptr,
               x.pbase, x.pptr, x.inter, x.tail)
  BY <1>0, <1>1, ShapeGetPointer, Zenon
<1>4. Sound(y)
  BY <1>2, <1>3, UpdateGetPointer, Zenon
<1>5. Sound(z)
  BY <1>2, <1>3, UpdateGetStart, Zenon
<1>6. y.gptr = r /\ y.pptr = x.pptr /\ z.gptr = r /\ z.pptr = x.pptr
  BY <1>2 DEF Raw
<1> HIDE DEF y, z
<1>7. QED
  BY <1>4, <1>5, <1>6, Zenon DEF y, z

\* What it means that a loop stops at fragment f.
LEMMA LandingFacts ==
  ASSUME NEW e \in Seq(Nat), NEW i \in Nat, NEW t \in Nat,
         NEW f \in Landing(e, i, t)
  PROVE  /\ f \in i .. Len(e) /\ f \in Nat /\ t <= e[f]
         /\ f > i => e[f - 1] < t
  BY DEF Landing

\* commit: the put pointer moves by n, the get area stays.
LEMMA CommitToSound ==
  ASSUME NEW x, NEW n \in Nat
  PROVE  Sound(x)
         => \A y \in CommitTo(x, n) :
               /\ Sound(y)
               /\ y.gptr = x.gptr /\ y.egptr = x.egptr /\ y.pptr = x.pptr + n
<1> DEFINE t == x.pptr + n
<1>0. HAVE Sound(x)
<1>1. x.ends \in Seq(Nat) /\ x.put \in Nat /\ x.pptr \in Nat
  BY <1>0, SoundRaw, Zenon
<1>2. /\ x.put \in 1 .. Len(x.ends) /\ x.ends[x.put] \in Nat
      /\ x.pptr <= x.ends[x.put]
  BY <1>0, SoundFacts, Zenon
<1>3. CASE n <= Epptr(x) - x.pptr
  <2>1. t \in Nat /\ x.pptr <= t /\ t <= x.ends[x.put]
    BY <1>1, <1>2, <1>3, SMTT(30) DEF Epptr
  <2> DEFINE c == [x EXCEPT !.pptr = t]
  <2>2. CommitTo(x, n) = {PromotePutIfExist(c)}
    BY <1>3 DEF CommitTo
  <2> HIDE DEF t
  <2>3. Sound(c) /\ c.pptr = t /\ c.gptr = x.gptr /\ c.egptr = x.egptr
    BY <1>0, <2>1, AdvancePutSound, Zenon
  <2> HIDE DEF c
  <2>4. /\ Sound(PromotePutIfExist(c))
        /\ PromotePutIfExist(c).gptr = x.gptr
        /\ PromotePutIfExist(c).egptr = x.egptr
        /\ PromotePutIfExist(c).pptr = t
    BY <2>3, PromotePutIfExistSound, Zenon
  <2>5. QED
    BY <2>2, <2>4, Zenon DEF t
<1>4. CASE ~(n <= Epptr(x) - x.pptr)
  <2>1. t \in Nat /\ x.pptr <= t /\ x.ends[x.put] <= t
    BY <1>1, <1>2, <1>4, SMTT(30) DEF Epptr
  <2>2. SUFFICES ASSUME NEW f, f \in Landing(x.ends, x.put + 1, t)
                 PROVE  LET y == PromotePutIfExist(MovePut(x, f, t, t))
                        IN  /\ Sound(y) /\ y.gptr = x.gptr
                            /\ y.egptr = x.egptr /\ y.pptr = t
    BY <1>4, Zenon DEF CommitTo
  <2> HIDE DEF t
  <2>3. x.put + 1 \in Nat
    BY <1>1
  <2>4. /\ f \in x.put + 1 .. Len(x.ends) /\ f \in Nat /\ t <= x.ends[f]
        /\ f > x.put + 1 => x.ends[f - 1] < t
    BY <1>1, <2>1, <2>2, <2>3, LandingFacts, Zenon
  <2>5. x.ends[f - 1] <= t
    <3>1. CASE f = x.put + 1
      <4>1. f - 1 = x.put
        BY <1>1, <3>1
      <4>2. QED
        BY <2>1, <4>1
    <3>2. CASE f # x.put + 1
      <4>1. f - 1 \in 1 .. Len(x.ends) /\ f > x.put + 1
        BY <1>1, <1>2, <2>4, <3>2
      <4>2. x.ends[f - 1] \in Nat /\ x.ends[f - 1] < t
        BY <1>1, <2>4, <4>1, SMTT(30)
      <4>3. QED
        BY <2>1, <4>2
    <3>3. QED
      BY <3>1, <3>2
  <2> DEFINE c == MovePut(x, f, t, t)
  <2>6. /\ Sound(x) /\ t \in Nat /\ f \in x.put + 1 .. Len(x.ends)
        /\ x.pptr <= t /\ x.ends[f - 1] <= t /\ t <= t /\ t <= x.ends[f]
    BY <1>0, <2>1, <2>4, <2>5
  <2>7. Sound(c) /\ c.pptr = t /\ c.gptr = x.gptr /\ c.egptr = x.egptr
    <3>1. Sound(MovePut(x, f, t, t))
      BY <2>6, MovePutSound, Zenon
    <3>2. x \in Raw
      BY <1>0, SoundRaw
    <3>3. c.pptr = t /\ c.gptr = x.gptr /\ c.egptr = x.egptr
      BY <3>2 DEF MovePut, Raw
    <3>4. QED
      BY <3>1, <3>3, Zenon
  <2> HIDE DEF c
  <2>8. /\ Sound(PromotePutIfExist(c))
        /\ PromotePutIfExist(c).gptr = x.gptr
        /\ PromotePutIfExist(c).egptr = x.egptr
        /\ PromotePutIfExist(c).pptr = t
    BY <2>7, PromotePutIfExistSound, Zenon
  <2>9. QED
    BY <2>8, Zenon DEF c
<1>5. QED
  BY <1>3, <1>4

\* inter_size_ is at least, and without a spanning consume exactly, the
\* number of bytes between the areas.
LEMMA SoundInter ==
  ASSUME NEW x
  PROVE  Sound(x) => /\ x.inter >= x.pbase - x.egptr
                     /\ ~SpanConsume => x.inter = x.pbase - x.egptr
                     /\ Increasing(x.ends)
  BY Zenon DEF Sound, Ordered

\* The first fragment is popped when the get area covers its end.
LEMMA PopFrontSound ==
  ASSUME NEW x
  PROVE  Sound(x) /\ x.get < x.put /\ x.egptr = x.ends[x.get]
         => LET y == PopFront(x)
            IN  Sound(y) /\ y.gptr = x.egptr /\ y.pptr = x.pptr
<1> DEFINE start == x.ends[x.get]
           f == x.get + 1
<1>0. HAVE Sound(x) /\ x.get < x.put /\ x.egptr = x.ends[x.get]
<1>1. /\ x.ends \in Seq(Nat) /\ x.get \in Nat /\ x.put \in Nat
      /\ x.egptr \in Nat /\ x.pbase \in Nat /\ x.pptr \in Nat /\ x.inter \in Nat
  BY <1>0, SoundRaw, Zenon
<1>2. x.get \in 1 .. Len(x.ends) /\ x.put \in 1 .. Len(x.ends)
  BY <1>0, SoundFacts, Zenon
<1>3. start \in Nat /\ start = x.egptr /\ start <= x.pbase /\ x.pbase <= x.pptr
  BY <1>0, SoundFacts, Zenon
<1>4. /\ x.inter >= x.pbase - start
      /\ ~SpanConsume => x.inter = x.pbase - start
  BY <1>0, SoundInter, Zenon
<1>5. f \in x.get .. x.put /\ f - 1 = x.get /\ f \in 1 .. Len(x.ends) /\ f \in Nat
  <2>1. x.get < x.put
    BY <1>0, Zenon
  <2>2. x.get \in Nat /\ x.put \in Nat /\ Len(x.ends) \in Nat
    BY <1>1
  <2>3. QED
    BY <1>2, <2>1, <2>2
<1>6. CASE f = x.put
  <2> DEFINE p == CompactPutArea(x)
             less == p.pbase - start
  <2>1. /\ Sound(p) /\ p.ends = x.ends /\ p.get = x.get /\ p.put = x.put
        /\ p.egptr = x.egptr /\ p.pbase = x.pptr /\ p.pptr = x.pptr
    BY <1>0, CompactPutAreaSound, Zenon
  <2>2. PopFront(x) = MoveGet(p, f, start, less)
    BY <1>6 DEF PopFront
  <2> HIDE DEF p, f, start
  <2>3. p.inter >= p.pbase - p.egptr /\ (~SpanConsume => p.inter = p.pbase - p.egptr)
    BY <2>1, SoundInter, Zenon
  <2>4. p.inter \in Nat /\ p.pbase \in Nat /\ p \in Raw
    BY <2>1, SoundRaw, Zenon
  <2>5. less \in Int /\ p.inter - less >= 0 /\ (~SpanConsume => p.inter = less)
    BY <1>3, <2>1, <2>3, <2>4
  <2>6. start <= p.pbase
    BY <1>1, <1>3, <2>1
  <2>7. f \in p.get .. p.put /\ f = p.put /\ p.ends[f - 1] <= start
    BY <1>3, <1>5, <1>6, <2>1 DEF start
  <2> HIDE DEF less
  <2>8. Sound(MoveGet(p, f, start, less))
    BY <1>3, <2>1, <2>5, <2>6, <2>7, MoveGetSound, Zenon
  <2>9. MoveGet(p, f, start, less).gptr = start /\ MoveGet(p, f, start, less).pptr = p.pptr
    BY <2>4 DEF MoveGet, Raw
  <2>10. QED
    BY <1>3, <2>1, <2>2, <2>8, <2>9, Zenon
<1>7. CASE f # x.put
  <2> DEFINE less == x.ends[f] - start
  <2>1. PopFront(x) = MoveGet(x, f, start, less)
    BY <1>7 DEF PopFront
  <2>2. Increasing(x.ends) /\ x \in Raw
    BY <1>0, SoundInter, SoundRaw, Zenon
  <2>3. start <= x.ends[f] /\ x.ends[f] \in Nat
    <3>1. x.get <= f
      BY <1>1
    <3>2. QED
      BY <1>1, <1>2, <1>5, <2>2, <3>1, EndsFacts
  <2>4. x.ends[f - 1] <= start
    BY <1>3, <1>5
  <2> HIDE DEF f, start
  <2>5. /\ less \in Int
        /\ x.inter - less >= x.pbase - x.ends[f]
        /\ ~SpanConsume => x.inter - less = x.pbase - x.ends[f]
    <3>1. x.inter \in Nat /\ x.pbase \in Nat
      BY <1>1
    <3>2. start \in Nat /\ x.ends[f] \in Nat
      BY <1>3, <2>3
    <3>3. less \in Int
      BY <3>2
    <3>4. x.inter - less >= x.pbase - x.ends[f]
      BY <1>4, <3>1, <3>2
    <3>5. ~SpanConsume => x.inter - less = x.pbase - x.ends[f]
      BY <1>4, <3>1, <3>2
    <3>6. QED
      BY <3>3, <3>4, <3>5, Zenon
  <2> HIDE DEF less
  <2>6. Sound(MoveGet(x, f, start, less))
    BY <1>0, <1>3, <1>5, <1>7, <2>3, <2>4, <2>5, MoveGetSound, Zenon
  <2>7. MoveGet(x, f, start, less).gptr = start /\ MoveGet(x, f, start, less).pptr = x.pptr
    BY <2>2 DEF MoveGet, Raw
  <2>8. QED
    BY <1>3, <2>1, <2>6, <2>7, Zenon
<1>8. QED
  BY <1>6, <1>7

\* A reader that has read the whole get area loses nothing by an underflow.
LEMMA DoUnderflowSound ==
  ASSUME NEW x
  PROVE  Sound(x)
         => LET y == DoUnderflow(x)
            IN  /\ Sound(y) /\ y.pptr = x.pptr
                /\ x.gptr = x.egptr => y.gptr = x.gptr
<1>0. HAVE Sound(x)
<1>1. CASE x.get = x.put
  <2>1. CASE x.gptr = x.pptr
    <3>1. DoUnderflow(x) = x
      BY <1>1, <2>1 DEF DoUnderflow
    <3>2. QED
      BY <1>0, <3>1
  <2>2. CASE x.gptr # x.pptr
    <3> DEFINE p == CompactPutArea(x)
    <3>1. DoUnderflow(x) = ExtendGetArea(p)
      BY <1>1, <2>2 DEF DoUnderflow
    <3>2. Sound(p) /\ p.get = p.put /\ p.gptr = x.gptr /\ p.pptr = x.pptr
      BY <1>0, <1>1, CompactPutAreaSound
    <3> HIDE DEF p
    <3>3. /\ Sound(ExtendGetArea(p))
          /\ ExtendGetArea(p).gptr = p.gptr /\ ExtendGetArea(p).pptr = p.pptr
      BY <3>2, ExtendGetAreaSound
    <3>4. QED
      BY <3>1, <3>2, <3>3, Zenon
  <2>3. QED
    BY <2>1, <2>2
<1>2. CASE x.get # x.put /\ x.egptr # x.ends[x.get]
  <2> DEFINE i == x.inter - (x.ends[x.get] - x.egptr)
             e == x.ends[x.get]
             y == [x EXCEPT !.inter = i, !.egptr = e]
  <2>1. DoUnderflow(x) = y
    BY <1>2 DEF DoUnderflow
  <2>2. /\ x.ends \in Seq(Nat) /\ x.get \in Nat /\ x.put \in Nat
        /\ x.eback \in Nat /\ x.gptr \in Nat /\ x.egptr \in Nat
        /\ x.pbase \in Nat /\ x.pptr \in Nat /\ x.inter \in Nat /\ x.tail \in Nat
        /\ Shape(x.ends, x.get, x.put, x.eback, x.gptr, x.egptr,
                 x.pbase, x.pptr, x.inter, x.tail)
    BY <1>0, SoundRaw
  <2>3. x \in Raw
    BY <1>0, SoundRaw
  <2>4. x.get < x.put
    <3>1. x.get <= x.put /\ x.get # x.put
      BY <1>0, <1>2, SoundFacts, Zenon
    <3>2. x.get \in Nat /\ x.put \in Nat
      BY <2>2
    <3>3. QED
      BY <3>1, <3>2
  <2>5. Shape(x.ends, x.get, x.put, x.eback, x.gptr, e, x.pbase, x.pptr, i, x.tail)
    BY <2>2, <2>4, ShapeMiddle, Zenon
  <2>6. i \in Nat /\ e \in Nat
    BY <2>5, Zenon DEF Shape
  <2> HIDE DEF i, e
  <2>7. i \in Int /\ e \in Int
    BY <2>6
  <2>8. Sound(y)
    BY <2>3, <2>5, <2>7, UpdateGetEnd, Zenon
  <2>9. y.gptr = x.gptr /\ y.pptr = x.pptr
    BY <2>3 DEF Raw
  <2> HIDE DEF y
  <2>10. QED
    BY <2>1, <2>8, <2>9, Zenon
<1>3. CASE x.get # x.put /\ x.egptr = x.ends[x.get]
  <2>1. DoUnderflow(x) = PopFront(x)
    BY <1>3 DEF DoUnderflow
  <2>2. x.get < x.put
    <3>1. x.get <= x.put /\ x.get # x.put
      BY <1>0, <1>3, SoundFacts, Zenon
    <3>2. x.get \in Nat /\ x.put \in Nat
      BY <1>0, SoundRaw
    <3>3. QED
      BY <3>1, <3>2
  <2>3. Sound(PopFront(x)) /\ PopFront(x).gptr = x.egptr /\ PopFront(x).pptr = x.pptr
    BY <1>0, <1>3, <2>2, PopFrontSound
  <2>4. QED
    BY <2>1, <2>3, Zenon
<1>4. QED
  BY <1>1, <1>2, <1>3

\* consume: the get pointer moves by n.
LEMMA ConsumeToSound ==
  ASSUME NEW x, NEW n \in Nat
  PROVE  Sound(x) /\ n <= x.pptr - x.gptr /\ (x.get = x.put \/ SpanConsume)
         => \A y \in ConsumeTo(x, n) :
               Sound(y) /\ y.gptr = x.gptr + n /\ y.pptr = x.pptr
<1> DEFINE p == CompactPutArea(x)
           g == IF p.get = p.put THEN ExtendGetArea(p)
                                 ELSE [p EXCEPT !.egptr = p.ends[p.get]]
           t == g.gptr + n
           less == n - (g.egptr - g.gptr)
<1>0. HAVE Sound(x) /\ n <= x.pptr - x.gptr /\ (x.get = x.put \/ SpanConsume)
<1>1. /\ Sound(p) /\ p.ends = x.ends /\ p.get = x.get /\ p.put = x.put
      /\ p.gptr = x.gptr /\ p.egptr = x.egptr
      /\ p.pbase = x.pptr /\ p.pptr = x.pptr
  BY <1>0, CompactPutAreaSound, Zenon
<1>2. ConsumeTo(x, n) = IF t <= g.egptr
                        THEN {[g EXCEPT !.eback = t, !.gptr = t]}
                        ELSE {MoveGet(g, f, t, less) : f \in Landing(g.ends, g.get + 1, t)}
  BY DEF ConsumeTo
<1> HIDE DEF p
<1>3. /\ Sound(g) /\ g.put = p.put /\ g.get = p.get
      /\ g.gptr = p.gptr /\ g.pbase = p.pbase /\ g.pptr = p.pptr
      /\ p.get = p.put => g.egptr = p.pbase
      /\ p.get # p.put => g.egptr = g.ends[g.get]
  <2>1. CASE p.get = p.put
    BY <1>1, <2>1, ExtendGetAreaSound, Zenon
  <2>2. CASE p.get # p.put
    <3> DEFINE e == p.ends[p.get]
               y == [p EXCEPT !.egptr = e]
    <3>1. g = y
      BY <2>2
    <3>2. /\ p.ends \in Seq(Nat) /\ p.get \in Nat /\ p.put \in Nat
          /\ p.eback \in Nat /\ p.gptr \in Nat /\ p.egptr \in Nat
          /\ p.pbase \in Nat /\ p.pptr \in Nat /\ p.inter \in Nat /\ p.tail \in Nat
          /\ Shape(p.ends, p.get, p.put, p.eback, p.gptr, p.egptr,
                   p.pbase, p.pptr, p.inter, p.tail)
      BY <1>1, SoundRaw
    <3>3. p \in Raw
      BY <1>1, SoundRaw
    <3>4. p.get < p.put
      <4>1. p.get <= p.put
        BY <1>1, SoundFacts, Zenon
      <4>2. QED
        BY <2>2, <3>2, <4>1
    <3>5. SpanConsume
      BY <1>0, <1>1, <2>2
    <3>6. Shape(p.ends, p.get, p.put, p.eback, p.gptr, e, p.pbase, p.pptr, p.inter, p.tail)
      BY <3>2, <3>4, <3>5, ShapeSpan, Zenon
    <3>7. e \in Nat
      BY <3>6, Zenon DEF Shape
    <3> HIDE DEF e
    <3>8. e \in Int
      BY <3>7
    <3>9. Sound(y)
      BY <3>3, <3>6, <3>8, UpdateGetEndOnly, Zenon
    <3>10. /\ y.put = p.put /\ y.get = p.get /\ y.gptr = p.gptr
           /\ y.pbase = p.pbase /\ y.pptr = p.pptr
           /\ y.egptr = e /\ y.ends = p.ends
      BY <3>3 DEF Raw
    <3> HIDE DEF y, g
    <3>11. y.egptr = y.ends[y.get]
      BY <3>10, Zenon DEF e
    <3>12. QED
      BY <2>2, <3>1, <3>9, <3>10, <3>11, Zenon
  <2>3. QED
    BY <2>1, <2>2
<1> HIDE DEF g
<1>4. /\ g.ends \in Seq(Nat) /\ g.get \in Nat /\ g.put \in Nat
      /\ g.gptr \in Nat /\ g.egptr \in Nat /\ g.pbase \in Nat /\ g.pptr \in Nat
      /\ g.inter \in Nat
  BY <1>3, SoundRaw, Zenon
<1>5. t \in Nat /\ t = x.gptr + n /\ t <= g.pptr /\ g.pptr = x.pptr
  <2>1. g.gptr = x.gptr /\ g.pptr = x.pptr
    BY <1>1, <1>3, Zenon
  <2>2. n <= x.pptr - x.gptr
    BY <1>0, Zenon
  <2>3. QED
    BY <1>4, <2>1, <2>2
<1>6. CASE t <= g.egptr
  <2>1. g.gptr <= t
    BY <1>4
  <2> DEFINE y == [g EXCEPT !.eback = t, !.gptr = t]
  <2>2. ConsumeTo(x, n) = {y}
    BY <1>2, <1>6
  <2> HIDE DEF t
  <2>3. Sound(y) /\ y.gptr = t /\ y.pptr = g.pptr
    BY <1>3, <1>5, <1>6, <2>1, AdvanceGetSound, Zenon
  <2> HIDE DEF y
  <2>4. QED
    BY <1>5, <2>2, <2>3, Zenon
<1>7. CASE ~(t <= g.egptr)
  <2>0. ConsumeTo(x, n) = {MoveGet(g, f, t, less) : f \in Landing(g.ends, g.get + 1, t)}
    BY <1>2, <1>7
  <2>2. less = t - g.egptr /\ less \in Int
    BY <1>4
  <2> HIDE DEF t, less
  <2>1. SUFFICES ASSUME NEW f, f \in Landing(g.ends, g.get + 1, t)
                 PROVE  /\ Sound(MoveGet(g, f, t, less))
                        /\ MoveGet(g, f, t, less).gptr = t
                        /\ MoveGet(g, f, t, less).pptr = g.pptr
    BY <1>5, <2>0
  <2>3. g.get + 1 \in Nat
    BY <1>4
  <2>4. /\ f \in g.get + 1 .. Len(g.ends) /\ f \in Nat /\ t <= g.ends[f]
        /\ f > g.get + 1 => g.ends[f - 1] < t
    BY <1>4, <1>5, <2>1, <2>3, LandingFacts, ZenonT(60)
  <2>5. g.get # g.put
    <3>1. SUFFICES ASSUME g.get = g.put PROVE FALSE
      OBVIOUS
    <3>2. g.egptr = g.pptr
      BY <1>1, <1>3, <3>1, Zenon
    <3>3. QED
      BY <1>4, <1>5, <1>7, <3>2
  <2>6. SpanConsume
    BY <1>0, <1>1, <1>3, <2>5, Zenon
  <2>7. /\ g.get \in 1 .. Len(g.ends) /\ g.put \in 1 .. Len(g.ends) /\ g.get <= g.put
        /\ g.pptr <= g.ends[g.put] /\ g.ends[g.get] \in Nat /\ g.ends[g.put] \in Nat
        /\ g.egptr <= g.ends[g.get]
    BY <1>3, SoundFacts, Zenon
  <2>8. Increasing(g.ends) /\ g.inter >= g.pbase - g.egptr /\ g.pbase = g.pptr
    BY <1>1, <1>3, SoundInter, Zenon
  <2>9. f \in 1 .. Len(g.ends)
    BY <2>4, <2>7
  <2>10. g.ends[f] \in Nat
    BY <1>4, <2>9, EndTyped, Zenon
  <2>11. f <= g.put
    <3>1. SUFFICES ASSUME f > g.put PROVE FALSE
      BY <1>4, <2>4
    <3>2. g.get \in Nat /\ g.put \in Nat /\ f \in Nat /\ g.get <= g.put /\ g.get # g.put
      BY <1>4, <2>4, <2>5, <2>7
    <3>3. f > g.get + 1 /\ g.put <= f - 1
      BY <3>1, <3>2
    <3>4. f - 1 \in 1 .. Len(g.ends)
      BY <2>7, <2>9, <3>2, <3>3
    <3>5. g.ends[g.put] <= g.ends[f - 1]
      BY <1>4, <2>7, <2>8, <3>3, <3>4, EndsFacts, Zenon
    <3>6. g.ends[f - 1] < t
      BY <2>4, <3>3, Zenon
    <3>7. g.ends[f - 1] \in Nat /\ g.ends[g.put] \in Nat /\ g.pptr \in Nat
      BY <1>4, <2>7, <3>4, EndTyped, Zenon
    <3>8. t \in Nat /\ t <= g.pptr /\ g.pptr <= g.ends[g.put]
      BY <1>5, <2>7, Zenon
    <3>9. QED
      BY <3>5, <3>6, <3>7, <3>8
  <2>12. f \in g.get .. g.put
    BY <1>4, <2>4, <2>11
  <2>13. f = 1 \/ g.ends[f - 1] <= t
    <3>1. CASE f = g.get + 1
      <4>1. f - 1 = g.get
        BY <1>4, <3>1
      <4>2. g.egptr = g.ends[g.get]
        BY <1>3, <2>5, Zenon
      <4>3. g.egptr <= t
        BY <1>4, <1>5, <1>7
      <4>4. QED
        BY <4>1, <4>2, <4>3
    <3>2. CASE f # g.get + 1
      <4>0. f \in g.get + 1 .. Len(g.ends) /\ g.get \in 1 .. Len(g.ends) /\ Len(g.ends) \in Nat
        BY <1>4, <2>4, <2>7
      <4>1. f - 1 \in 1 .. Len(g.ends) /\ f > g.get + 1
        BY <3>2, <4>0
      <4>2. g.ends[f - 1] < t
        BY <2>4, <4>1, Zenon
      <4>3. g.ends[f - 1] \in Nat /\ t \in Nat
        BY <1>4, <1>5, <4>1, EndTyped, Zenon
      <4>4. QED
        BY <4>2, <4>3
    <3>3. QED
      BY <3>1, <3>2
  <2>14. t <= IF f = g.put THEN g.pbase ELSE g.ends[f]
    BY <1>5, <2>4, <2>8, Zenon
  <2>15. g.inter - less >= g.pbase - t /\ g.inter - less \in Int
    BY <1>4, <1>5, <2>2, <2>8, SMTT(30)
  <2>16. IF f = g.put THEN g.inter - less >= 0 /\ (~SpanConsume => g.inter = less)
         ELSE /\ g.inter - less >= g.pbase - g.ends[f]
              /\ ~SpanConsume => g.inter - less = g.pbase - g.ends[f]
    <3>1. g.pbase - t >= 0 /\ g.pbase - t \in Int
      BY <1>4, <1>5, <2>8
    <3>2. g.inter - less >= 0
      BY <2>15, <3>1
    <3>3. g.inter - less >= g.pbase - g.ends[f]
      <4>1. t <= g.ends[f]
        BY <2>4, Zenon
      <4>2. g.pbase \in Nat /\ t \in Nat
        BY <1>4, <1>5
      <4>3. g.pbase - t >= g.pbase - g.ends[f] /\ g.pbase - g.ends[f] \in Int
        BY <2>10, <4>1, <4>2
      <4>4. QED
        BY <2>15, <3>1, <4>3
    <3>4. QED
      BY <2>6, <3>2, <3>3, Zenon
  <2>17. Sound(MoveGet(g, f, t, less))
    BY <1>3, <1>5, <2>2, <2>12, <2>13, <2>14, <2>16, MoveGetSound, Zenon
  <2>18. g \in Raw
    BY <1>3, SoundRaw, Zenon
  <2>19. MoveGet(g, f, t, less).gptr = t /\ MoveGet(g, f, t, less).pptr = g.pptr
    BY <2>18 DEF MoveGet, Raw
  <2>20. QED
    BY <2>17, <2>19, Zenon
<1>8. QED
  BY <1>6, <1>7

\* detach: the get pointer moves to the end of the segment.
LEMMA DetachAtSound ==
  ASSUME NEW x, NEW f, NEW t \in Nat
  PROVE  /\ Sound(x) /\ f \in x.get .. x.put
         /\ t >= x.gptr /\ t >= Start(x, f)
         /\ t <= IF f = x.put THEN x.pptr ELSE x.ends[f]
         => LET y == DetachAt(x, f, t)
            IN  Sound(y) /\ y.gptr = t /\ y.pptr = x.pptr
<1>0. HAVE /\ Sound(x) /\ f \in x.get .. x.put
           /\ t >= x.gptr /\ t >= Start(x, f)
           /\ t <= IF f = x.put THEN x.pptr ELSE x.ends[f]
<1>1. /\ x.ends \in Seq(Nat) /\ x.get \in Nat /\ x.put \in Nat
      /\ x.egptr \in Nat /\ x.pbase \in Nat /\ x.pptr \in Nat /\ x.inter \in Nat
  BY <1>0, SoundRaw, Zenon
<1>2. Start(x, f) <= t /\ f \in x.get .. x.put
  BY <1>0
<1>3. f = 1 \/ x.ends[f - 1] <= t
  BY <1>2, Zenon DEF Start
<1>4. CASE f = x.put
  <2> DEFINE p == IF t > x.pbase THEN CompactPutArea(x) ELSE x
  <2>1. DetachAt(x, f, t) = MoveGet(p, f, t, p.inter)
    BY <1>4 DEF DetachAt
  <2>2. t <= x.pptr
    BY <1>0, <1>4, Zenon
  <2>3. /\ Sound(p) /\ p.ends = x.ends /\ p.get = x.get /\ p.put = x.put
        /\ p.pptr = x.pptr /\ t <= p.pbase
    <3>1. CASE t > x.pbase
      <4>1. p = CompactPutArea(x)
        BY <3>1
      <4> HIDE DEF p
      <4>2. /\ Sound(p) /\ p.ends = x.ends /\ p.get = x.get /\ p.put = x.put
            /\ p.pptr = x.pptr /\ p.pbase = x.pptr
        BY <1>0, <4>1, CompactPutAreaSound, Zenon
      <4>3. QED
        BY <2>2, <4>2, Zenon
    <3>2. CASE ~(t > x.pbase)
      <4>1. t <= x.pbase
        BY <1>1, <3>2
      <4>2. QED
        BY <1>0, <3>2, <4>1, Zenon
    <3>3. QED
      BY <3>1, <3>2
  <2> HIDE DEF p
  <2>4. p.inter \in Nat /\ p \in Raw
    BY <2>3, SoundRaw, Zenon
  <2>5. p.inter \in Int /\ p.inter - p.inter >= 0
    BY <2>4
  <2>6. f \in p.get .. p.put /\ f = p.put /\ (f = 1 \/ p.ends[f - 1] <= t)
    BY <1>2, <1>3, <1>4, <2>3, Zenon
  <2>7. Sound(MoveGet(p, f, t, p.inter))
    BY <2>3, <2>5, <2>6, MoveGetSound, Zenon
  <2>8. MoveGet(p, f, t, p.inter).gptr = t /\ MoveGet(p, f, t, p.inter).pptr = p.pptr
    BY <2>4 DEF MoveGet, Raw
  <2>9. QED
    BY <2>1, <2>3, <2>7, <2>8, Zenon
<1>5. CASE f # x.put
  <2> DEFINE less == x.ends[f] - x.egptr
  <2>1. DetachAt(x, f, t) = MoveGet(x, f, t, less)
    BY <1>5 DEF DetachAt
  <2>2. t <= x.ends[f]
    BY <1>0, <1>5, Zenon
  <2>3. f \in 1 .. Len(x.ends)
    <3>1. x.get \in 1 .. Len(x.ends) /\ x.put \in 1 .. Len(x.ends)
      BY <1>0, SoundFacts, Zenon
    <3>2. QED
      BY <1>2, <3>1
  <2>4. x.ends[f] \in Nat
    BY <1>1, <2>3, EndTyped, Zenon
  <2>5. /\ x.inter >= x.pbase - x.egptr
        /\ ~SpanConsume => x.inter = x.pbase - x.egptr
    BY <1>0, SoundInter, Zenon
  <2>6. less \in Int
    BY <1>1, <2>4
  <2>7. x.inter - less >= x.pbase - x.ends[f]
    BY <1>1, <2>4, <2>5
  <2>8. ~SpanConsume => x.inter - less = x.pbase - x.ends[f]
    BY <1>1, <2>4, <2>5
  <2>9. x \in Raw
    BY <1>0, SoundRaw, Zenon
  <2> HIDE DEF less
  <2>10. Sound(MoveGet(x, f, t, less))
    BY <1>0, <1>2, <1>3, <1>5, <2>2, <2>6, <2>7, <2>8, MoveGetSound, Zenon
  <2>11. MoveGet(x, f, t, less).gptr = t /\ MoveGet(x, f, t, less).pptr = x.pptr
    BY <2>9 DEF MoveGet, Raw
  <2>12. QED
    BY <2>1, <2>10, <2>11, Zenon
<1>6. QED
  BY <1>4, <1>5

\* The buffer in which sputc and xsputn store: after reserve, and in the next
\* fragment when the put area is full.
LEMMA RoomSound ==
  ASSUME NEW x, NEW n \in Nat \ {0}
  PROVE  Sound(x)
         => LET r == Reserve(x, n)
                q == IF Epptr(r) = r.pptr THEN PromotePut(r) ELSE r
            IN  /\ Sound(q) /\ q.gptr = x.gptr /\ q.pptr = x.pptr
                /\ q.pptr < q.ends[q.put] /\ r.pptr = x.pptr
<1> DEFINE r == Reserve(x, n)
           q == IF Epptr(r) = r.pptr THEN PromotePut(r) ELSE r
<1>0. HAVE Sound(x)
<1>1. Sound(r) /\ r.gptr = x.gptr /\ r.pptr = x.pptr
  <2>1. n \in Nat
    OBVIOUS
  <2>2. QED
    BY <1>0, <2>1, ReserveSound, Zenon
<1> HIDE DEF r
<1>2. CASE Epptr(r) = r.pptr
  <2>1. r.pptr = r.ends[r.put]
    BY <1>2 DEF Epptr
  <2>2. /\ Sound(PromotePut(r)) /\ PromotePut(r).gptr = r.gptr
        /\ PromotePut(r).pptr = r.pptr
        /\ PromotePut(r).pptr < PromotePut(r).ends[PromotePut(r).put]
    BY <1>1, <2>1, PromotePutSound, Zenon
  <2>3. q = PromotePut(r)
    BY <1>2
  <2> HIDE DEF q
  <2>4. QED
    BY <1>1, <2>2, <2>3, Zenon DEF r, q
<1>3. CASE Epptr(r) # r.pptr
  <2>1. r.pptr < r.ends[r.put]
    <3>1. r.pptr <= r.ends[r.put] /\ r.ends[r.put] \in Nat
      BY <1>1, SoundFacts, Zenon
    <3>2. r.pptr \in Nat /\ r.pptr # r.ends[r.put]
      BY <1>1, <1>3, SoundRaw, Zenon DEF Epptr
    <3>3. QED
      BY <3>1, <3>2
  <2>2. q = r
    BY <1>3
  <2> HIDE DEF q
  <2>3. QED
    BY <1>1, <2>1, <2>2, Zenon DEF r, q
<1>4. QED
  BY <1>2, <1>3

\* sputc: the put pointer moves by one.
LEMMA SputcToSound ==
  ASSUME NEW x
  PROVE  Sound(x)
         => LET y == SputcTo(x)
            IN  Sound(y) /\ y.gptr = x.gptr /\ y.pptr = x.pptr + 1
<1> DEFINE r == Reserve(x, 1)
           q == IF Epptr(r) = r.pptr THEN PromotePut(r) ELSE r
<1>0. HAVE Sound(x)
<1>1. ASSUME NEW z, Sound(z), z.gptr = x.gptr, z.pptr = x.pptr, z.pptr < z.ends[z.put]
      PROVE  LET y == [z EXCEPT !.pptr = @ + 1]
             IN  Sound(y) /\ y.gptr = x.gptr /\ y.pptr = x.pptr + 1
  <2> DEFINE w == z.pptr + 1
  <2>1. z.pptr \in Nat /\ z.ends[z.put] \in Nat
    BY <1>1, SoundRaw, SoundFacts, Zenon
  <2>2. w \in Nat /\ z.pptr <= w /\ w <= z.ends[z.put]
    BY <1>1, <2>1
  <2>3. w = x.pptr + 1
    BY <1>1
  <2> HIDE DEF w
  <2>4. LET y == [z EXCEPT !.pptr = w]
        IN  Sound(y) /\ y.pptr = w /\ y.gptr = z.gptr
    BY <1>1, <2>2, AdvancePutSound, Zenon
  <2>5. QED
    BY <1>1, <2>3, <2>4, Zenon DEF w
<1>2. CASE x.pptr < Epptr(x)
  <2>1. SputcTo(x) = [x EXCEPT !.pptr = @ + 1]
    BY <1>2 DEF SputcTo
  <2>2. x.pptr < x.ends[x.put]
    BY <1>2 DEF Epptr
  <2>3. QED
    BY <1>0, <1>1, <2>1, <2>2, Zenon
<1>3. CASE ~(x.pptr < Epptr(x))
  <2>1. SputcTo(x) = [q EXCEPT !.pptr = @ + 1]
    BY <1>3 DEF SputcTo
  <2>2. Sound(q) /\ q.gptr = x.gptr /\ q.pptr = x.pptr /\ q.pptr < q.ends[q.put]
    <3>1. 1 \in Nat \ {0}
      OBVIOUS
    <3>2. QED
      BY <1>0, <3>1, RoomSound, Zenon
  <2> HIDE DEF q
  <2>3. QED
    BY <1>1, <2>1, <2>2, Zenon
<1>4. QED
  BY <1>2, <1>3

\* xsputn: the put pointer moves by n.
LEMMA SputnToSound ==
  ASSUME NEW x, NEW n \in Nat
  PROVE  Sound(x)
         => \A y \in SputnTo(x, n) :
               Sound(y) /\ y.gptr = x.gptr /\ y.pptr = x.pptr + n
<1> DEFINE r == Reserve(x, n)
           t == r.pptr + n
           q == IF Epptr(r) = r.pptr THEN PromotePut(r) ELSE r
           Stored(f) == IF f = q.put THEN [q EXCEPT !.pptr = t]
                        ELSE MovePut(q, f, q.ends[f - 1], t)
<1>0. HAVE Sound(x)
<1>1. SputnTo(x, n) = IF n = 0 THEN {r}
                      ELSE {PromotePutIfExist(Stored(f)) : f \in Landing(q.ends, q.put, t)}
  BY DEF SputnTo
<1>2. CASE n = 0
  <2>1. Sound(r) /\ r.gptr = x.gptr /\ r.pptr = x.pptr
    BY <1>0, ReserveSound, Zenon
  <2>2. SputnTo(x, n) = {r}
    BY <1>1, <1>2
  <2>3. x.pptr + n = x.pptr
    <3>1. x.pptr \in Nat
      BY <1>0, SoundRaw, Zenon
    <3>2. QED
      BY <1>2, <3>1
  <2> HIDE DEF r
  <2>4. QED
    BY <2>1, <2>2, <2>3, Zenon
<1>3. CASE n # 0
  <2>1. /\ Sound(q) /\ q.gptr = x.gptr /\ q.pptr = x.pptr
        /\ q.pptr < q.ends[q.put] /\ r.pptr = x.pptr
    <3>1. n \in Nat \ {0}
      BY <1>3
    <3>2. QED
      BY <1>0, <3>1, RoomSound, Zenon
  <2>2. SputnTo(x, n) = {PromotePutIfExist(Stored(f)) : f \in Landing(q.ends, q.put, t)}
    BY <1>1, <1>3
  <2> HIDE DEF r, q
  <2>3. /\ q.ends \in Seq(Nat) /\ q.put \in Nat /\ q.pptr \in Nat /\ q \in Raw
        /\ q.put \in 1 .. Len(q.ends)
        /\ q.ends[q.put] \in Nat /\ Increasing(q.ends)
    BY <2>1, SoundRaw, SoundFacts, SoundInter, Zenon
  <2>4. t \in Nat /\ q.pptr <= t /\ t = x.pptr + n
    BY <2>1, <2>3
  <2> HIDE DEF t
  <2>5. ASSUME NEW f, f \in Landing(q.ends, q.put, t)
        PROVE  Sound(Stored(f)) /\ Stored(f).gptr = x.gptr /\ Stored(f).pptr = t
    <3>1. /\ f \in q.put .. Len(q.ends) /\ f \in Nat /\ t <= q.ends[f]
          /\ f > q.put => q.ends[f - 1] < t
      BY <2>3, <2>4, <2>5, LandingFacts, Zenon
    <3>2. CASE f = q.put
      <4>1. Stored(f) = [q EXCEPT !.pptr = t]
        BY <3>2
      <4>2. LET y == [q EXCEPT !.pptr = t]
            IN  Sound(y) /\ y.pptr = t /\ y.gptr = q.gptr
        BY <2>1, <2>4, <3>1, <3>2, AdvancePutSound, Zenon
      <4> HIDE DEF Stored
      <4>3. QED
        BY <2>1, <4>1, <4>2, Zenon
    <3>3. CASE f # q.put
      <4> DEFINE c == q.ends[f - 1]
      <4>1. Stored(f) = MovePut(q, f, c, t)
        BY <3>3
      <4>2. /\ f \in q.put + 1 .. Len(q.ends) /\ f > q.put
            /\ f - 1 \in 1 .. Len(q.ends) /\ q.put <= f - 1
        <5>1. f \in q.put .. Len(q.ends) /\ q.put \in 1 .. Len(q.ends) /\ q.put \in Nat
          BY <2>3, <3>1
        <5>2. QED
          BY <3>3, <5>1
      <4>3. c < t
        BY <3>1, <4>2, Zenon
      <4>4. c \in Nat /\ q.ends[q.put] <= c
        BY <2>3, <4>2, EndsFacts
      <4> HIDE DEF c
      <4>5. q.pptr <= c /\ c <= c /\ c <= t
        BY <2>1, <2>3, <2>4, <4>3, <4>4, SMTT(30)
      <4>6. Sound(MovePut(q, f, c, t))
        BY <2>1, <2>4, <3>1, <4>2, <4>4, <4>5, MovePutSound, Zenon DEF c
      <4>7. MovePut(q, f, c, t).gptr = q.gptr /\ MovePut(q, f, c, t).pptr = t
        BY <2>3 DEF MovePut, Raw
      <4> HIDE DEF Stored
      <4>8. QED
        BY <2>1, <4>1, <4>6, <4>7, Zenon
    <3>4. QED
      BY <3>2, <3>3
  <2> HIDE DEF Stored
  <2>6. ASSUME NEW f, f \in Landing(q.ends, q.put, t)
        PROVE  /\ Sound(PromotePutIfExist(Stored(f)))
               /\ PromotePutIfExist(Stored(f)).gptr = x.gptr
               /\ PromotePutIfExist(Stored(f)).pptr = t
    BY <2>5, <2>6, PromotePutIfExistSound, Zenon
  <2>7. QED
    BY <2>2, <2>4, <2>6
<1>4. QED
  BY <1>2, <1>3
-----------------------------------------------------------------------------
(***************************************************************************)
(* The list of fragments only grows at its end, whatever the pointers.     *)
(***************************************************************************)

\* A record with the fields of a buffer whose put area lies in a fragment.
Indexed(x) == x \in Raw /\ x.put \in 1 .. Len(x.ends)

\* y has the fragments of x, where they were, and perhaps more.
Prolongs(y, x) ==
  /\ 1 .. Len(x.ends) \subseteq 1 .. Len(y.ends)
  /\ \A i \in 1 .. Len(x.ends) : y.ends[i] = x.ends[i]

\* A sound buffer is such a record.
LEMMA SoundIndexed == ASSUME NEW x PROVE Sound(x) => Indexed(x)
  BY SoundRaw, SoundFacts, Zenon DEF Indexed

\* Two buffers with the same fragments.
LEMMA SameFragments ==
  ASSUME NEW x, NEW y, NEW z PROVE Prolongs(y, x) /\ z.ends = y.ends => Prolongs(z, x)
  BY Zenon DEF Prolongs

\* The fields of such a record that matter here.
LEMMA IndexedFacts ==
  ASSUME NEW x, Indexed(x)
  PROVE  /\ x \in Raw /\ x.ends \in Seq(Nat) /\ Len(x.ends) \in Nat \ {0}
         /\ x.put \in 1 .. Len(x.ends) /\ x.put \in Int
         /\ x.pptr \in Int /\ x.pbase \in Int /\ x.inter \in Int /\ x.tail \in Int
<1>1. x \in Raw /\ x.put \in 1 .. Len(x.ends)
  BY DEF Indexed
<1>2. /\ x.ends \in Seq(Nat) /\ x.put \in Int /\ x.pptr \in Int /\ x.pbase \in Int
      /\ x.inter \in Int /\ x.tail \in Int
  BY <1>1 DEF Raw
<1>3. Len(x.ends) \in Nat \ {0}
  BY <1>1, <1>2
<1>4. QED
  BY <1>1, <1>2, <1>3, Zenon

\* Growing is reflexive and transitive.
LEMMA ProlongsSelf == ASSUME NEW x PROVE Prolongs(x, x)
  BY Zenon DEF Prolongs

\* Two steps that only add fragments add fragments.
LEMMA ProlongsTwice ==
  ASSUME NEW x, NEW y, NEW z PROVE Prolongs(y, x) /\ Prolongs(z, y) => Prolongs(z, x)
  BY Zenon DEF Prolongs

\* reserve appends its fragments.
LEMMA ReserveGrows ==
  ASSUME NEW x, NEW n \in Nat
  PROVE  Indexed(x) => LET y == Reserve(x, n)
                       IN  Indexed(y) /\ Prolongs(y, x) /\ y.put = x.put
<1> DEFINE y == Reserve(x, n)
           need == n - PutSize(x)
           g == Grown(Extent(x), need)
           u == x.tail + (g[Len(g)] - Extent(x))
<1>0. HAVE Indexed(x)
<1>1. /\ x \in Raw /\ x.ends \in Seq(Nat) /\ x.put \in Int /\ x.pptr \in Int
      /\ x.tail \in Int /\ Len(x.ends) \in Nat \ {0} /\ x.put \in 1 .. Len(x.ends)
  BY <1>0, IndexedFacts, Zenon
<1>2. PutSize(x) \in Int /\ Extent(x) \in Nat
  BY <1>1 DEF PutSize, Extent, Epptr
<1>3. CASE n <= PutSize(x)
  <2>1. y = x
    BY <1>3 DEF Reserve
  <2>2. QED
    BY <1>0, <2>1, ProlongsSelf
<1>4. CASE ~(n <= PutSize(x))
  <2>1. need \in Nat \ {0}
    BY <1>2, <1>4
  <2> HIDE DEF need
  <2>2. g \in Seq(Nat) /\ Len(g) \in Nat \ {0}
    BY <1>2, <2>1, GrownFacts, Zenon
  <2> HIDE DEF g
  <2>3. x.ends \o g \in Seq(Nat) /\ u \in Int
    BY <1>1, <1>2, <2>2
  <2> HIDE DEF u
  <2>4. y = [x EXCEPT !.ends = x.ends \o g, !.tail = u]
    BY <1>4, Zenon DEF Reserve, g, u, need
  <2> HIDE DEF y
  <2>5. y \in Raw /\ y.ends = x.ends \o g /\ y.put = x.put
    BY <1>1, <2>3, <2>4 DEF Raw
  <2>6. /\ Len(y.ends) = Len(x.ends) + Len(g)
        /\ \A i \in 1 .. Len(x.ends) : y.ends[i] = x.ends[i]
    BY <1>1, <2>2, <2>5
  <2>7. Len(x.ends) <= Len(y.ends) /\ y.put \in 1 .. Len(y.ends)
    BY <1>1, <2>2, <2>5, <2>6
  <2>8. 1 .. Len(x.ends) \subseteq 1 .. Len(y.ends)
    BY <1>1, <2>2, <2>6
  <2>9. QED
    BY <2>5, <2>6, <2>7, <2>8, Zenon DEF Indexed, Prolongs, y
<1>5. QED
  BY <1>3, <1>4

\* The put area may move anywhere: no fragment is touched.
LEMMA MovePutGrows ==
  ASSUME NEW x, NEW f, NEW c, NEW w
  PROVE  Indexed(x)
         => LET y == MovePut(x, f, c, w)
            IN  /\ y.ends = x.ends
                /\ f \in 1 .. Len(x.ends) /\ c \in Int /\ w \in Int => Indexed(y)
<1>0. HAVE Indexed(x)
<1>1. x \in Raw
  BY <1>0, IndexedFacts, Zenon
<1>2. MovePut(x, f, c, w).ends = x.ends /\ MovePut(x, f, c, w).put = f
  BY <1>1 DEF MovePut, Raw
<1>3. ASSUME f \in 1 .. Len(x.ends), c \in Int, w \in Int
      PROVE  Indexed(MovePut(x, f, c, w))
  <2> DEFINE i == x.inter + (c - x.pbase)
             u == x.tail - (x.ends[f] - x.ends[x.put])
  <2>1. i \in Int
    BY <1>0, <1>3, IndexedFacts
  <2>2. x.ends[f] \in Nat /\ x.ends[x.put] \in Nat
    BY <1>0, <1>3, IndexedFacts, EndTyped, Zenon
  <2>3. u \in Int
    BY <1>0, <2>2, IndexedFacts
  <2>4. f \in Int
    BY <1>3
  <2>5. MovePut(x, f, c, w) = [x EXCEPT !.inter = i, !.tail = u, !.put = f,
                                        !.pbase = c, !.pptr = w]
    BY Zenon DEF MovePut
  <2> HIDE DEF i, u
  <2>6. MovePut(x, f, c, w) \in Raw
    BY <1>1, <1>3, <2>1, <2>3, <2>4, <2>5 DEF Raw
  <2>7. QED
    BY <1>2, <1>3, <2>6, Zenon DEF Indexed
<1>4. QED
  BY <1>2, <1>3

\* promote_put.
LEMMA PromotePutGrows ==
  ASSUME NEW x PROVE Indexed(x) => Prolongs(PromotePut(x), x)
<1> DEFINE r == Reserve(x, 1)
<1>0. HAVE Indexed(x)
<1>1. Indexed(r) /\ Prolongs(r, x)
  BY <1>0, ReserveGrows
<1>2. PromotePut(x) = MovePut(r, r.put + 1, r.ends[r.put], r.ends[r.put])
  BY DEF PromotePut
<1> HIDE DEF r
<1>3. PromotePut(x).ends = r.ends
  <2>1. ASSUME NEW f, NEW c PROVE MovePut(r, f, c, c).ends = r.ends
    BY <1>1, MovePutGrows, Zenon
  <2>2. QED
    BY <1>2, <2>1, Zenon
<1>4. QED
  BY <1>1, <1>3, SameFragments, Zenon

\* promote_put_if_exist.
LEMMA PromotePutIfExistGrows ==
  ASSUME NEW x PROVE Indexed(x) => Prolongs(PromotePutIfExist(x), x)
  BY PromotePutGrows, ProlongsSelf, Zenon DEF PromotePutIfExist

\* commit.
LEMMA CommitToGrows ==
  ASSUME NEW x, NEW n \in Nat
  PROVE  Indexed(x) => \A y \in CommitTo(x, n) : Prolongs(y, x)
<1> DEFINE t == x.pptr + n
<1>0. HAVE Indexed(x)
<1>1. ASSUME NEW z, Indexed(z), z.ends = x.ends
      PROVE  Prolongs(PromotePutIfExist(z), x)
  BY <1>0, <1>1, PromotePutIfExistGrows, Zenon DEF Prolongs
<1>2. t \in Int /\ x \in Raw /\ x.put \in Nat /\ Len(x.ends) \in Nat
  BY <1>0, IndexedFacts
<1>3. CASE n <= Epptr(x) - x.pptr
  <2> DEFINE z == [x EXCEPT !.pptr = t]
  <2>1. CommitTo(x, n) = {PromotePutIfExist(z)}
    BY <1>3 DEF CommitTo
  <2> HIDE DEF t
  <2>2. z \in Raw /\ z.ends = x.ends /\ z.put = x.put
    BY <1>2 DEF Raw
  <2>3. Indexed(z)
    BY <1>0, <2>2, Zenon DEF Indexed
  <2> HIDE DEF z
  <2>4. QED
    BY <1>1, <2>1, <2>2, <2>3, Zenon
<1>4. CASE ~(n <= Epptr(x) - x.pptr)
  <2>1. SUFFICES ASSUME NEW f, f \in Landing(x.ends, x.put + 1, t)
                 PROVE  Prolongs(PromotePutIfExist(MovePut(x, f, t, t)), x)
    BY <1>4, Zenon DEF CommitTo
  <2> HIDE DEF t
  <2>2. f \in x.put + 1 .. Len(x.ends)
    BY <2>1, Zenon DEF Landing
  <2>3. f \in 1 .. Len(x.ends)
    BY <1>2, <2>2
  <2>4. QED
    BY <1>0, <1>1, <1>2, <2>3, MovePutGrows, Zenon
<1>5. QED
  BY <1>3, <1>4

\* The room that sputc and xsputn make.
LEMMA RoomGrows ==
  ASSUME NEW x, NEW n \in Nat \ {0}
  PROVE  Sound(x)
         => LET r == Reserve(x, n)
                q == IF Epptr(r) = r.pptr THEN PromotePut(r) ELSE r
            IN  Indexed(q) /\ Prolongs(q, x)
<1> DEFINE r == Reserve(x, n)
           q == IF Epptr(r) = r.pptr THEN PromotePut(r) ELSE r
<1>0. HAVE Sound(x)
<1>1. Indexed(q)
  BY <1>0, RoomSound, SoundIndexed, Zenon
<1>2. Indexed(x) /\ n \in Nat
  BY <1>0, SoundIndexed
<1>3. Indexed(r) /\ Prolongs(r, x)
  BY <1>2, ReserveGrows, Zenon
<1>4. Prolongs(q, r)
  <2> HIDE DEF r
  <2> QED
    BY <1>3, PromotePutGrows, ProlongsSelf, Zenon
<1> HIDE DEF q, r
<1>5. Prolongs(q, x)
  BY <1>1, <1>2, <1>3, <1>4, ProlongsTwice, Zenon
<1>6. QED
  BY <1>1, <1>5, Zenon DEF q, r

\* sputc.
LEMMA SputcToGrows ==
  ASSUME NEW x PROVE Sound(x) => Prolongs(SputcTo(x), x)
<1> DEFINE r == Reserve(x, 1)
           q == IF Epptr(r) = r.pptr THEN PromotePut(r) ELSE r
<1>0. HAVE Sound(x)
<1>1. Indexed(x) /\ Indexed(q) /\ Prolongs(q, x)
  BY <1>0, RoomGrows, SoundIndexed
<1>2. SputcTo(x) = IF x.pptr < Epptr(x) THEN [x EXCEPT !.pptr = @ + 1]
                                        ELSE [q EXCEPT !.pptr = @ + 1]
  BY DEF SputcTo
<1> HIDE DEF q
<1>3. ASSUME NEW z, Indexed(z) PROVE [z EXCEPT !.pptr = @ + 1].ends = z.ends
  <2>1. z \in Raw
    BY <1>3, IndexedFacts, Zenon
  <2>2. QED
    BY <2>1 DEF Raw
<1>4. CASE x.pptr < Epptr(x)
  BY <1>1, <1>2, <1>3, <1>4, ProlongsSelf, SameFragments, Zenon
<1>5. CASE ~(x.pptr < Epptr(x))
  BY <1>1, <1>2, <1>3, <1>5, SameFragments, Zenon
<1>6. QED
  BY <1>4, <1>5

\* xsputn.
LEMMA SputnToGrows ==
  ASSUME NEW x, NEW n \in Nat
  PROVE  Sound(x) => \A y \in SputnTo(x, n) : Prolongs(y, x)
<1> DEFINE r == Reserve(x, n)
           t == r.pptr + n
           q == IF Epptr(r) = r.pptr THEN PromotePut(r) ELSE r
           Stored(f) == IF f = q.put THEN [q EXCEPT !.pptr = t]
                        ELSE MovePut(q, f, q.ends[f - 1], t)
<1>0. HAVE Sound(x)
<1>1. SputnTo(x, n) = IF n = 0 THEN {r}
                      ELSE {PromotePutIfExist(Stored(f)) : f \in Landing(q.ends, q.put, t)}
  BY DEF SputnTo
<1>2. Indexed(x) /\ Indexed(r) /\ Prolongs(r, x)
  BY <1>0, SoundIndexed, ReserveGrows, Zenon
<1>3. CASE n = 0
  BY <1>1, <1>2, <1>3
<1>4. CASE n # 0
  <2>1. Indexed(q) /\ Prolongs(q, x)
    <3>1. n \in Nat \ {0}
      BY <1>4
    <3>2. QED
      BY <1>0, <3>1, RoomGrows, Zenon
  <2>2. t \in Int
    <3> HIDE DEF r
    <3> QED
      BY <1>2, IndexedFacts
  <2>a. SputnTo(x, n) = {PromotePutIfExist(Stored(f)) : f \in Landing(q.ends, q.put, t)}
    BY <1>1, <1>4
  <2> HIDE DEF r, q, t, Stored
  <2>3. SUFFICES ASSUME NEW f, f \in Landing(q.ends, q.put, t)
                 PROVE  Prolongs(PromotePutIfExist(Stored(f)), x)
    BY <2>a, Zenon
  <2>4. f \in q.put .. Len(q.ends)
    BY <2>3, Zenon DEF Landing
  <2>5. q.put \in 1 .. Len(q.ends) /\ Len(q.ends) \in Nat /\ q \in Raw
    BY <2>1, IndexedFacts
  <2>6. Indexed(Stored(f)) /\ Stored(f).ends = q.ends
    <3> USE DEF Stored
    <3>1. CASE f = q.put
      <4>1. [q EXCEPT !.pptr = t] \in Raw /\ [q EXCEPT !.pptr = t].ends = q.ends
            /\ [q EXCEPT !.pptr = t].put = q.put
        BY <2>2, <2>5 DEF Raw
      <4>2. QED
        BY <2>5, <3>1, <4>1, Zenon DEF Indexed
    <3>2. CASE f # q.put
      <4>1. f \in 1 .. Len(q.ends) /\ f - 1 \in 1 .. Len(q.ends)
        BY <2>4, <2>5, <3>2
      <4>2. q.ends[f - 1] \in Int
        BY <2>1, <4>1, IndexedFacts, EndTyped
      <4>3. QED
        BY <2>1, <2>2, <3>2, <4>1, <4>2, MovePutGrows, Zenon
    <3>3. QED
      BY <3>1, <3>2
  <2>7. Prolongs(PromotePutIfExist(Stored(f)), q)
    BY <2>6, PromotePutIfExistGrows, Zenon DEF Prolongs
  <2>8. QED
    BY <2>1, <2>7, ProlongsTwice, Zenon
<1>5. QED
  BY <1>3, <1>4

\* The operations on the get area add no fragment.
LEMMA MoveGetGrows ==
  ASSUME NEW x \in Raw, NEW f, NEW t, NEW less
  PROVE  MoveGet(x, f, t, less).ends = x.ends
  BY DEF MoveGet, Raw

\* do_underflow: nor does it move the get pointer backwards.
LEMMA DoUnderflowGrows ==
  ASSUME NEW x
  PROVE  Sound(x) => DoUnderflow(x).ends = x.ends /\ DoUnderflow(x).gptr >= x.gptr
<1>0. HAVE Sound(x)
<1>1. /\ x \in Raw /\ x.gptr \in Nat /\ x.egptr \in Nat /\ x.gptr <= x.egptr
      /\ x.get \in Nat /\ x.put \in Nat /\ x.get <= x.put
  BY <1>0, SoundRaw, SoundFacts, Zenon
<1> DEFINE p == CompactPutArea(x)
<1>2. /\ Sound(p) /\ p.ends = x.ends /\ p.gptr = x.gptr
      /\ p.get = x.get /\ p.put = x.put
  BY <1>0, CompactPutAreaSound, Zenon
<1>3. p \in Raw
  BY <1>2, SoundRaw, Zenon
<1>4. CASE x.get = x.put /\ x.gptr = x.pptr
  BY <1>1, <1>4 DEF DoUnderflow
<1>5. CASE x.get = x.put /\ x.gptr # x.pptr
  <2>1. DoUnderflow(x) = ExtendGetArea(p)
    BY <1>5 DEF DoUnderflow
  <2> HIDE DEF p
  <2>2. ExtendGetArea(p).ends = p.ends /\ ExtendGetArea(p).gptr = p.gptr
    BY <1>2, <1>5, ExtendGetAreaSound, Zenon
  <2>3. QED
    BY <1>1, <1>2, <2>1, <2>2
<1>6. CASE x.get # x.put /\ x.egptr # x.ends[x.get]
  <2>1. DoUnderflow(x) = [x EXCEPT !.inter = @ - (x.ends[x.get] - x.egptr),
                                   !.egptr = x.ends[x.get]]
    BY <1>6 DEF DoUnderflow
  <2>2. DoUnderflow(x).ends = x.ends /\ DoUnderflow(x).gptr = x.gptr
    BY <1>1, <2>1 DEF Raw
  <2>3. QED
    BY <1>1, <2>2
<1>7. CASE x.get # x.put /\ x.egptr = x.ends[x.get]
  <2>1. DoUnderflow(x) = PopFront(x)
    BY <1>7 DEF DoUnderflow
  <2>2. x.get < x.put
    BY <1>1, <1>7
  <2>3. PopFront(x).gptr = x.egptr
    BY <1>0, <1>7, <2>2, PopFrontSound, Zenon
  <2> HIDE DEF p
  <2>4. PopFront(x).ends = x.ends
    <3> DEFINE from == IF x.get + 1 = x.put THEN p ELSE x
    <3>1. PICK f, t, less : PopFront(x) = MoveGet(from, f, t, less)
      BY Zenon DEF PopFront, p
    <3>2. from \in Raw /\ from.ends = x.ends
      BY <1>1, <1>2, <1>3
    <3> HIDE DEF from
    <3>3. \A i, j, k : MoveGet(from, i, j, k).ends = from.ends
      BY <3>2, MoveGetGrows, Zenon
    <3>4. QED
      BY <3>1, <3>2, <3>3, Zenon
  <2>5. QED
    BY <1>1, <2>1, <2>3, <2>4
<1>8. QED
  BY <1>4, <1>5, <1>6, <1>7

\* consume.
LEMMA ConsumeToGrows ==
  ASSUME NEW x, NEW n
  PROVE  Sound(x) => \A y \in ConsumeTo(x, n) : y.ends = x.ends
<1> DEFINE p == CompactPutArea(x)
           g == IF p.get = p.put THEN ExtendGetArea(p)
                                 ELSE [p EXCEPT !.egptr = p.ends[p.get]]
           t == g.gptr + n
<1>0. HAVE Sound(x)
<1>1. Sound(p) /\ p.ends = x.ends
  BY <1>0, CompactPutAreaSound, Zenon
<1>2. p \in Raw /\ p.ends[p.get] \in Int
  BY <1>1, SoundRaw, SoundFacts
<1>3. ConsumeTo(x, n) = IF t <= g.egptr
                        THEN {[g EXCEPT !.eback = t, !.gptr = t]}
                        ELSE {MoveGet(g, f, t, n - (g.egptr - g.gptr))
                              : f \in Landing(g.ends, g.get + 1, t)}
  BY DEF ConsumeTo
<1> HIDE DEF p
<1>4. g \in Raw /\ g.ends = p.ends
  <2>1. CASE p.get = p.put
    <3>1. Sound(ExtendGetArea(p)) /\ ExtendGetArea(p).ends = p.ends
      BY <1>1, <2>1, ExtendGetAreaSound, Zenon
    <3>2. QED
      BY <2>1, <3>1, SoundRaw
  <2>2. CASE p.get # p.put
    BY <1>2, <2>2 DEF Raw
  <2>3. QED
    BY <2>1, <2>2
<1> HIDE DEF g, t
<1>5. [g EXCEPT !.eback = t, !.gptr = t].ends = g.ends
  BY <1>4 DEF Raw
<1>6. \A f : MoveGet(g, f, t, n - (g.egptr - g.gptr)).ends = g.ends
  BY <1>4, MoveGetGrows, Zenon
<1>7. QED
  BY <1>1, <1>3, <1>4, <1>5, <1>6, Zenon

\* detach.
LEMMA DetachAtGrows ==
  ASSUME NEW x, NEW f, NEW t
  PROVE  Sound(x) => DetachAt(x, f, t).ends = x.ends
<1> DEFINE p == IF t > x.pbase THEN CompactPutArea(x) ELSE x
<1>0. HAVE Sound(x)
<1>1. Sound(CompactPutArea(x)) /\ CompactPutArea(x).ends = x.ends
  BY <1>0, CompactPutAreaSound, Zenon
<1>2. x \in Raw /\ CompactPutArea(x) \in Raw
  BY <1>0, <1>1, SoundRaw, Zenon
<1>3. p \in Raw /\ p.ends = x.ends
  BY <1>1, <1>2, Zenon
<1> HIDE DEF p
<1>4. ASSUME NEW less PROVE MoveGet(p, f, t, less).ends = p.ends
  BY <1>3, MoveGetGrows, Zenon
<1>5. ASSUME NEW less PROVE MoveGet(x, f, t, less).ends = x.ends
  BY <1>2, MoveGetGrows, Zenon
<1>6. CASE f = x.put
  <2>1. DetachAt(x, f, t) = MoveGet(p, f, t, p.inter)
    BY <1>6 DEF DetachAt, p
  <2>2. QED
    BY <1>3, <1>4, <2>1, Zenon
<1>7. CASE f # x.put
  <2>1. DetachAt(x, f, t) = MoveGet(x, f, t, x.ends[f] - x.egptr)
    BY <1>7 DEF DetachAt
  <2>2. QED
    BY <1>5, <2>1, Zenon
<1>8. QED
  BY <1>6, <1>7

\* After an underflow at the end of the get area there is nothing to get
\* exactly when everything that was put has been got.
LEMMA UnderflowFinds ==
  ASSUME NEW x
  PROVE  Sound(x) /\ x.gptr = x.egptr
         => LET y == DoUnderflow(x)
            IN  y.gptr = y.egptr <=> x.gptr = x.pptr
<1>0. HAVE Sound(x) /\ x.gptr = x.egptr
<1>1. /\ x \in Raw /\ x.gptr \in Nat /\ x.egptr \in Nat
      /\ x.get \in Nat /\ x.put \in Nat /\ x.get <= x.put
      /\ x.pbase \in Nat /\ x.pptr \in Nat /\ x.pbase <= x.pptr
      /\ x.egptr <= x.ends[x.get] /\ x.ends[x.get] \in Nat
      /\ x.get < x.put => x.ends[x.get] <= x.pbase
      /\ x.get \in 1 .. Len(x.ends) /\ x.put \in 1 .. Len(x.ends)
      /\ x.ends \in Seq(Nat)
  BY <1>0, SoundRaw, SoundFacts, Zenon
<1> DEFINE p == CompactPutArea(x)
<1>2. /\ Sound(p) /\ p.ends = x.ends /\ p.gptr = x.gptr /\ p.egptr = x.egptr
      /\ p.get = x.get /\ p.put = x.put /\ p.pbase = x.pptr
  BY <1>0, CompactPutAreaSound, Zenon
<1>3. p \in Raw
  BY <1>2, SoundRaw, Zenon
<1>4. CASE x.get = x.put /\ x.gptr = x.pptr
  BY <1>0, <1>4 DEF DoUnderflow
<1>5. CASE x.get = x.put /\ x.gptr # x.pptr
  <2>1. DoUnderflow(x) = ExtendGetArea(p)
    BY <1>5 DEF DoUnderflow
  <2> HIDE DEF p
  <2>2. ExtendGetArea(p).gptr = p.gptr /\ ExtendGetArea(p).egptr = p.pbase
    BY <1>2, <1>5, ExtendGetAreaSound, Zenon
  <2>3. QED
    BY <1>2, <1>5, <2>1, <2>2, Zenon
<1>6. CASE x.get # x.put /\ x.egptr # x.ends[x.get]
  <2>1. DoUnderflow(x) = [x EXCEPT !.inter = @ - (x.ends[x.get] - x.egptr),
                                   !.egptr = x.ends[x.get]]
    BY <1>6 DEF DoUnderflow
  <2>2. DoUnderflow(x).gptr = x.gptr /\ DoUnderflow(x).egptr = x.ends[x.get]
    BY <1>1, <2>1 DEF Raw
  <2>3. x.gptr # x.ends[x.get] /\ x.gptr # x.pptr
    BY <1>0, <1>1, <1>6
  <2>4. QED
    BY <2>2, <2>3, Zenon
<1>7. CASE x.get # x.put /\ x.egptr = x.ends[x.get]
  <2>1. DoUnderflow(x) = PopFront(x) /\ x.gptr = x.ends[x.get]
    BY <1>0, <1>7 DEF DoUnderflow
  <2>2. x.get < x.put
    BY <1>1, <1>7
  <2>3. PopFront(x).gptr = x.egptr
    BY <1>0, <1>7, <2>2, PopFrontSound, Zenon
  <2> HIDE DEF p
  <2>4. CASE x.get + 1 = x.put
    <3> DEFINE less == p.pbase - x.ends[x.get]
    <3>1. PopFront(x) = MoveGet(p, x.get + 1, x.ends[x.get], less)
      BY <2>4, Zenon DEF PopFront, p
    <3> HIDE DEF less
    <3>2. PopFront(x).egptr = p.pbase
      BY <1>2, <1>3, <2>4, <3>1 DEF MoveGet, Raw
    <3>3. QED
      BY <1>0, <1>2, <2>1, <2>3, <3>2, Zenon
  <2>5. CASE x.get + 1 # x.put
    <3> DEFINE f == x.get + 1
               less == x.ends[f] - x.ends[x.get]
    <3>1. PopFront(x) = MoveGet(x, f, x.ends[x.get], less)
      BY <2>5, Zenon DEF PopFront
    <3>2. /\ f \in 1 .. Len(x.ends) /\ x.put - 1 \in 1 .. Len(x.ends) /\ f \in Nat
          /\ x.get < f /\ f <= x.put - 1
      <4> DEFINE l == Len(x.ends)
      <4>1. /\ l \in Nat /\ x.get \in 1 .. l /\ x.put \in 1 .. l
            /\ x.get \in Nat /\ x.put \in Nat
        BY <1>1
      <4> HIDE DEF l
      <4>2. f \in Nat /\ f < x.put /\ x.get < f
        BY <2>2, <2>5, <4>1
      <4>3. f \in 1 .. l /\ x.put - 1 \in 1 .. l /\ f <= x.put - 1
        BY <2>2, <2>5, <4>1
      <4>4. QED
        BY <4>2, <4>3, Zenon DEF l
    <3>3. x.ends[x.get] < x.ends[f] /\ x.ends[f] <= x.ends[x.put - 1]
      <4>1. Increasing(x.ends)
        BY <1>0, SoundInter, Zenon
      <4>2. QED
        BY <1>1, <3>2, <4>1, EndsFacts
    <3>4. x.ends[x.put - 1] <= x.pbase
      <4>1. (IF x.put = 1 THEN 0 ELSE x.ends[x.put - 1]) <= x.pbase
        BY <1>0, Zenon DEF Sound, Ordered, Start
      <4>2. x.put # 1
        BY <1>1, <2>2
      <4>3. QED
        BY <4>1, <4>2
    <3>5. x.ends[f] \in Nat /\ x.ends[x.put - 1] \in Nat
      BY <1>1, <3>2, EndTyped, Zenon
    <3>6. x.gptr # x.ends[f] /\ x.gptr # x.pptr
      <4> DEFINE a == x.ends[f]
                 c == x.ends[x.put - 1]
      <4>1. x.gptr < a /\ a <= c /\ c <= x.pbase /\ x.pbase <= x.pptr
        BY <1>1, <2>1, <3>3, <3>4, Zenon
      <4>2. a \in Nat /\ c \in Nat
        BY <3>5
      <4> HIDE DEF a, c
      <4>3. x.gptr # a /\ x.gptr # x.pptr
        BY <1>1, <4>1, <4>2
      <4>4. QED
        BY <4>3, Zenon DEF a
    <3>7. f # x.put
      BY <2>5
    <3> HIDE DEF f, less
    <3>8. PopFront(x).egptr = x.ends[f]
      BY <1>1, <3>1, <3>7 DEF MoveGet, Raw
    <3>9. QED
      BY <1>0, <2>1, <2>3, <3>6, <3>8, Zenon
  <2>6. QED
    BY <2>4, <2>5
<1>8. QED
  BY <1>4, <1>5, <1>6, <1>7
------------------------------------------------------------------------------
(* The specification. *)

IInv == Sound(b) /\ given \in Nat /\ taken \in Nat

\* The pointers advance by what the user was told was given and taken, and
\* no step does both.
Moved ==
  /\ b'.pptr = b.pptr + (given' - given) /\ b'.gptr = b.gptr + (taken' - taken)
  /\ \/ given' >= given /\ taken' = taken
     \/ given' = given /\ taken' >= taken

\* No step moves a pointer backwards or touches a fragment that is there.
Forward == b'.gptr >= b.gptr /\ b'.pptr >= b.pptr /\ Prolongs(b', b)

\* What every step does: the buffer stays sound and moves forward, and the
\* ghosts are exact when no byte can be taken for eof.
Kept == IInv' /\ Forward /\ (HighBytes = {} => Moved)

\* The arithmetic of the ghost variables: i is a value before a step, j the
\* value after it, k the other one.
LEMMA GhostArithmetic ==
  \A i, j, k \in Nat : /\ i + (j - i) = j
                       /\ j - k = (i - k) + (j - i)
                       /\ k - j = (k - i) - (j - i)
                       /\ j <= k => j - i <= k - i
  OBVIOUS

\* A step that moves the pointers with the ghosts moves them forward.
LEMMA MovedIsForward == IInv /\ IInv' /\ Moved /\ Prolongs(b', b) => Kept
<1> SUFFICES ASSUME IInv, IInv', Moved, Prolongs(b', b) PROVE Kept
  OBVIOUS
<1>1. /\ given \in Nat /\ given' \in Nat /\ taken \in Nat /\ taken' \in Nat
      /\ b.gptr \in Nat /\ b.pptr \in Nat
  BY SoundRaw, Zenon DEF IInv
<1>2. b'.gptr >= b.gptr /\ b'.pptr >= b.pptr
  BY <1>1 DEF Moved
<1>3. QED
  BY <1>2, Zenon DEF Kept, Forward

\* The constructor returns a sound buffer.
LEMMA FreshSound == Sound(Fresh) /\ Fresh.gptr = 0 /\ Fresh.pptr = 0
<1> DEFINE len == IF StartLen = 0 THEN MinFrag ELSE StartLen
           num == IF StartFrags = 0 THEN 1 ELSE StartFrags
           e == [i \in 1 .. num |-> i * len]
<1>1. len \in Nat \ {0} /\ num \in Nat \ {0}
  BY FragAssumption
<1>2. /\ Fresh.ends = e /\ Fresh.get = 1 /\ Fresh.put = 1 /\ Fresh.eback = 0
      /\ Fresh.gptr = 0 /\ Fresh.egptr = 0 /\ Fresh.pbase = 0 /\ Fresh.pptr = 0
      /\ Fresh.inter = 0 /\ Fresh.tail = num * len - len
      /\ Fresh = [ends |-> e, get |-> 1, put |-> 1, eback |-> 0, gptr |-> 0,
                  egptr |-> 0, pbase |-> 0, pptr |-> 0, inter |-> 0,
                  tail |-> num * len - len]
  BY DEF Fresh
<1> HIDE DEF len, num
<1>3. \A i \in 1 .. num : i * len \in Nat /\ i * len >= len
  <2>1. \A i \in Nat : i >= 1 => i * len \in Nat /\ i * len >= len
    BY <1>1
  <2>2. QED
    BY <1>1, <2>1
<1>4. e \in Seq(Nat) /\ Len(e) = num /\ e[1] = len /\ e[num] = num * len
  BY <1>1, <1>3
<1>5. num * len \in Nat /\ num * len >= len
  BY <1>1, <1>3
<1>6. Increasing(e)
  <2>1. ASSUME NEW i \in 1 .. Len(e), NEW j \in 1 .. Len(e), i < j
        PROVE  e[i] < e[j]
    <3>1. i \in Nat /\ j \in Nat /\ i \in 1 .. num /\ j \in 1 .. num
      BY <1>1, <1>4
    <3>2. i * len < j * len
      BY <1>1, <2>1, <3>1, Multiples
    <3>3. QED
      BY <3>1, <3>2
  <2>2. QED
    BY <2>1 DEF Increasing
<1> HIDE DEF e
<1>7. Fresh \in Raw
  BY <1>1, <1>2, <1>4, <1>5 DEF Raw
<1>8. Shape(Fresh.ends, Fresh.get, Fresh.put, Fresh.eback, Fresh.gptr, Fresh.egptr,
            Fresh.pbase, Fresh.pptr, Fresh.inter, Fresh.tail)
  BY <1>1, <1>2, <1>4, <1>5, <1>6 DEF Shape
<1>9. Sound(Fresh)
  BY <1>7, <1>8, SoundIsShape
<1>10. QED
  BY <1>2, <1>9

\* The steps of the user that give bytes.  prepare only makes room.
LEMMA PrepareKept == ASSUME NEW n \in Nat PROVE IInv /\ Prepare(n) => Kept
<1> SUFFICES ASSUME IInv, Prepare(n) PROVE Kept
  OBVIOUS
<1>1. Sound(b) /\ b' = Reserve(b, n) /\ given' = given /\ taken' = taken
  BY DEF IInv, Prepare
<1>2. Sound(b') /\ b'.gptr = b.gptr /\ b'.pptr = b.pptr
  BY <1>1, ReserveSound, Zenon
<1>3. given \in Nat /\ taken \in Nat /\ b.gptr \in Nat /\ b.pptr \in Nat
  BY <1>1, SoundRaw, Zenon DEF IInv
<1>4. IInv' /\ Moved
  BY <1>1, <1>2, <1>3 DEF Moved, IInv
<1>5. Prolongs(b', b)
  BY <1>1, SoundIndexed, ReserveGrows, Zenon
<1>6. QED
  BY <1>4, <1>5, MovedIsForward, Zenon

\* commit counts the n bytes as given.
LEMMA CommitKept == ASSUME NEW n \in Nat PROVE IInv /\ Commit(n) => Kept
<1> SUFFICES ASSUME IInv, Commit(n) PROVE Kept
  OBVIOUS
<1>1. Sound(b) /\ b' \in CommitTo(b, n) /\ given' = given + n /\ taken' = taken
  BY DEF IInv, Commit
<1>2. Sound(b') /\ b'.gptr = b.gptr /\ b'.pptr = b.pptr + n
  BY <1>1, CommitToSound, Zenon
<1>3. given \in Nat /\ taken \in Nat /\ b.gptr \in Nat /\ b.pptr \in Nat
  BY <1>1, SoundRaw, Zenon DEF IInv
<1>4. IInv' /\ Moved
  BY <1>1, <1>2, <1>3 DEF Moved, IInv
<1>5. Prolongs(b', b)
  BY <1>1, SoundIndexed, CommitToGrows, Zenon
<1>6. QED
  BY <1>4, <1>5, MovedIsForward, Zenon

\* So does xsputn.
LEMMA SputnKept == ASSUME NEW n \in Nat PROVE IInv /\ Sputn(n) => Kept
<1> SUFFICES ASSUME IInv, Sputn(n) PROVE Kept
  OBVIOUS
<1>1. Sound(b) /\ b' \in SputnTo(b, n) /\ given' = given + n /\ taken' = taken
  BY DEF IInv, Sputn
<1>2. Sound(b') /\ b'.gptr = b.gptr /\ b'.pptr = b.pptr + n
  BY <1>1, SputnToSound, Zenon
<1>3. given \in Nat /\ taken \in Nat /\ b.gptr \in Nat /\ b.pptr \in Nat
  BY <1>1, SoundRaw, Zenon DEF IInv
<1>4. IInv' /\ Moved
  BY <1>1, <1>2, <1>3 DEF Moved, IInv
<1>5. Prolongs(b', b)
  BY <1>1, SputnToGrows, Zenon
<1>6. QED
  BY <1>4, <1>5, MovedIsForward, Zenon

\* And sputc its one byte.
LEMMA SputcKept == IInv /\ Sputc => Kept
<1> SUFFICES ASSUME IInv, Sputc PROVE Kept
  OBVIOUS
<1>1. Sound(b) /\ b' = SputcTo(b) /\ given' = given + 1 /\ taken' = taken
  BY DEF IInv, Sputc
<1>2. Sound(b') /\ b'.gptr = b.gptr /\ b'.pptr = b.pptr + 1
  BY <1>1, SputcToSound, Zenon
<1>3. given \in Nat /\ taken \in Nat /\ b.gptr \in Nat /\ b.pptr \in Nat
  BY <1>1, SoundRaw, Zenon DEF IInv
<1>4. IInv' /\ Moved
  BY <1>1, <1>2, <1>3 DEF Moved, IInv
<1>5. Prolongs(b', b)
  BY <1>1, SputcToGrows, Zenon
<1>6. QED
  BY <1>4, <1>5, MovedIsForward, Zenon

\* The steps of the user that take bytes.  Characters of the get area first.
LEMMA GetCharsKept == ASSUME NEW n \in Nat PROVE IInv /\ GetChars(n) => Kept
<1> SUFFICES ASSUME IInv, GetChars(n) PROVE Kept
  OBVIOUS
<1> DEFINE r == b.gptr + n
<1>1. /\ Sound(b) /\ n <= b.egptr - b.gptr /\ b' = [b EXCEPT !.gptr = r]
      /\ taken' = taken + n /\ given' = given
  BY DEF IInv, GetChars
<1>2. /\ given \in Nat /\ taken \in Nat /\ b.gptr \in Nat /\ b.egptr \in Nat
      /\ b.pptr \in Nat
  BY <1>1, SoundRaw, Zenon DEF IInv
<1>3. r \in Nat /\ b.gptr <= r /\ r <= b.egptr
  BY <1>1, <1>2
<1>4. r = b.gptr + n
  OBVIOUS
<1> HIDE DEF r
<1>5. Sound(b') /\ b'.gptr = r /\ b'.pptr = b.pptr
  BY <1>1, <1>3, AdvanceGetSound, Zenon
<1>6. IInv' /\ Moved
  BY <1>1, <1>2, <1>4, <1>5 DEF Moved, IInv
<1>7. Prolongs(b', b)
  <2>1. b \in Raw
    BY <1>1, SoundRaw, Zenon
  <2>2. b'.ends = b.ends
    BY <1>1, <2>1 DEF Raw
  <2>3. QED
    BY <2>2, ProlongsSelf, SameFragments, Zenon
<1>8. QED
  BY <1>6, <1>7, MovedIsForward, Zenon

\* consume counts the n bytes as taken.
LEMMA ConsumeKept == ASSUME NEW n \in Nat PROVE IInv /\ Consume(n) => Kept
<1> SUFFICES ASSUME IInv, Consume(n) PROVE Kept
  OBVIOUS
<1>1. /\ Sound(b) /\ n <= b.pptr - b.gptr /\ (b.get = b.put \/ SpanConsume)
      /\ b' \in ConsumeTo(b, n) /\ taken' = taken + n /\ given' = given
  BY DEF IInv, Consume
<1>2. Sound(b') /\ b'.gptr = b.gptr + n /\ b'.pptr = b.pptr
  BY <1>1, ConsumeToSound, Zenon
<1>3. given \in Nat /\ taken \in Nat /\ b.gptr \in Nat /\ b.pptr \in Nat
  BY <1>1, SoundRaw, Zenon DEF IInv
<1>4. IInv' /\ Moved
  BY <1>1, <1>2, <1>3 DEF Moved, IInv
<1>5. Prolongs(b', b)
  BY <1>1, ConsumeToGrows, ProlongsSelf, SameFragments, Zenon
<1>6. QED
  BY <1>4, <1>5, MovedIsForward, Zenon

\* detach counts the bytes of the segment as taken.
LEMMA DetachKept ==
  ASSUME NEW f, f \in b.get .. b.put, NEW t \in Nat
  PROVE  IInv /\ Detach(f, t) => Kept
<1> SUFFICES ASSUME IInv, Detach(f, t) PROVE Kept
  OBVIOUS
<1>1. /\ Sound(b) /\ t >= b.gptr /\ t >= Start(b, f)
      /\ t <= IF f = b.put THEN b.pptr ELSE b.ends[f]
      /\ b' = DetachAt(b, f, t) /\ taken' = taken + (t - b.gptr) /\ given' = given
  BY DEF IInv, Detach
<1>2. Sound(b') /\ b'.gptr = t /\ b'.pptr = b.pptr
  BY <1>1, DetachAtSound, Zenon
<1>3. given \in Nat /\ taken \in Nat /\ b.gptr \in Nat /\ b.pptr \in Nat
  BY <1>1, SoundRaw, Zenon DEF IInv
<1>4. /\ taken' \in Nat /\ taken' >= taken
      /\ b'.gptr = b.gptr + (taken' - taken)
      /\ b'.pptr = b.pptr + (given' - given)
  <2>1. t >= b.gptr /\ taken' = taken + (t - b.gptr) /\ given' = given
    BY <1>1, Zenon
  <2>2. QED
    BY <1>2, <1>3, <2>1
<1>5. IInv' /\ Moved
  BY <1>1, <1>2, <1>3, <1>4, Zenon DEF Moved, IInv
<1>6. Prolongs(b', b)
  BY <1>1, DetachAtGrows, ProlongsSelf, SameFragments, Zenon
<1>7. QED
  BY <1>5, <1>6, MovedIsForward, Zenon

\* The steps of underflow and of the handler.  Without a read no byte moves.
LEMMA UnderflowFoundKept == IInv /\ UnderflowFound => Kept
<1> SUFFICES ASSUME IInv, UnderflowFound PROVE Kept
  OBVIOUS
<1>1. /\ Sound(b) /\ b.gptr = b.egptr /\ b' = DoUnderflow(b)
      /\ given' = given /\ taken' = taken
  BY DEF IInv, UnderflowFound
<1>2. Sound(b') /\ b'.gptr = b.gptr /\ b'.pptr = b.pptr
  BY <1>1, DoUnderflowSound, Zenon
<1>3. given \in Nat /\ taken \in Nat /\ b.gptr \in Nat /\ b.pptr \in Nat
  BY <1>1, SoundRaw, Zenon DEF IInv
<1>4. IInv' /\ Moved
  BY <1>1, <1>2, <1>3 DEF Moved, IInv
<1>5. Prolongs(b', b)
  BY <1>1, DoUnderflowGrows, ProlongsSelf, SameFragments, Zenon
<1>6. QED
  BY <1>4, <1>5, MovedIsForward, Zenon

\* underflow with a read: the bytes read are given, and when the get area was
\* really at its end nothing before them is passed over.
LEMMA UnderflowReadKept ==
  ASSUME NEW n \in Nat, NEW ok \in BOOLEAN
  PROVE  IInv /\ UnderflowRead(n, ok) => Kept
<1> DEFINE u == DoUnderflow(b)
           r == Reserve(u, ReadSize)
<1> SUFFICES ASSUME IInv, UnderflowRead(n, ok) PROVE Kept
  OBVIOUS
<1>1. /\ Sound(b) /\ b.gptr = b.egptr /\ ReturnsEof(u)
      /\ given' = given + n /\ taken' = taken
  BY DEF IInv, UnderflowRead
<1>2. PICK c \in CommitTo(r, n) : b' = IF ok THEN DoUnderflow(c) ELSE c
  BY DEF UnderflowRead
<1>3. Sound(u) /\ u.gptr = b.gptr /\ u.pptr = b.pptr
  BY <1>1, DoUnderflowSound, Zenon
<1>4. ReadSize \in Nat
  BY FragAssumption
<1>5. HighBytes = {} => u.gptr = u.egptr
  BY <1>1 DEF ReturnsEof
<1> HIDE DEF u
<1>6. Sound(r) /\ r.gptr = u.gptr /\ r.egptr = u.egptr /\ r.pptr = u.pptr
  BY <1>3, <1>4, ReserveSound, Zenon
<1> HIDE DEF r
<1>7. Sound(c) /\ c.gptr = r.gptr /\ c.egptr = r.egptr /\ c.pptr = r.pptr + n
  BY <1>2, <1>6, CommitToSound, Zenon
<1>8. /\ Sound(DoUnderflow(c)) /\ DoUnderflow(c).pptr = c.pptr
      /\ c.gptr = c.egptr => DoUnderflow(c).gptr = c.gptr
  BY <1>7, DoUnderflowSound, Zenon
<1>9. Sound(b') /\ b'.pptr = c.pptr /\ (HighBytes = {} => b'.gptr = c.gptr)
  <2>1. CASE ok
    BY <1>2, <1>5, <1>6, <1>7, <1>8, <2>1, Zenon
  <2>2. CASE ~ok
    BY <1>2, <1>7, <2>2, Zenon
  <2>3. QED
    BY <2>1, <2>2
<1>10. given \in Nat /\ taken \in Nat /\ b.gptr \in Nat /\ b.pptr \in Nat
  BY <1>1, SoundRaw, Zenon DEF IInv
<1>11. b'.pptr = b.pptr + n /\ (HighBytes = {} => b'.gptr = b.gptr)
  BY <1>3, <1>6, <1>7, <1>9
<1>12. IInv' /\ (HighBytes = {} => Moved)
  BY <1>1, <1>9, <1>10, <1>11 DEF Moved, IInv
<1>13. Prolongs(b', b)
  <2>1. Prolongs(u, b)
    BY <1>1, DoUnderflowGrows, ProlongsSelf, SameFragments, Zenon DEF u
  <2>2. Indexed(r) /\ Prolongs(r, u)
    BY <1>3, <1>4, SoundIndexed, ReserveGrows, Zenon DEF r
  <2>3. Prolongs(c, r)
    BY <1>2, <2>2, CommitToGrows, Zenon
  <2>4. Prolongs(b', c)
    BY <1>2, <1>7, DoUnderflowGrows, ProlongsSelf, SameFragments, Zenon
  <2>5. QED
    BY <2>1, <2>2, <2>3, <2>4, ProlongsTwice, Zenon
<1>14. b'.gptr >= b.gptr /\ b'.pptr >= b.pptr
  <2>1. c.gptr = b.gptr /\ b'.pptr = b.pptr + n
    BY <1>3, <1>6, <1>7, <1>11, Zenon
  <2>2. b'.gptr >= c.gptr
    <3>1. CASE ok
      BY <1>2, <1>7, <3>1, DoUnderflowGrows, Zenon
    <3>2. CASE ~ok
      BY <1>2, <1>10, <2>1, <3>2
    <3>3. QED
      BY <3>1, <3>2
  <2>3. QED
    BY <1>10, <2>1, <2>2
<1>15. QED
  BY <1>12, <1>13, <1>14, Zenon DEF Kept, Forward

\* A read that exp_iterator asks for.
LEMMA HandlerReadKept == ASSUME NEW n \in Nat PROVE IInv /\ HandlerRead(n) => Kept
<1> DEFINE r == Reserve(b, ReadSize)
<1> SUFFICES ASSUME IInv, HandlerRead(n) PROVE Kept
  OBVIOUS
<1>1. Sound(b) /\ b' \in CommitTo(r, n) /\ given' = given + n /\ taken' = taken
  BY DEF IInv, HandlerRead
<1>2. ReadSize \in Nat
  BY FragAssumption
<1>3. Sound(r) /\ r.gptr = b.gptr /\ r.pptr = b.pptr
  BY <1>1, <1>2, ReserveSound, Zenon
<1> HIDE DEF r
<1>4. Sound(b') /\ b'.gptr = r.gptr /\ b'.pptr = r.pptr + n
  BY <1>1, <1>3, CommitToSound, Zenon
<1>5. given \in Nat /\ taken \in Nat /\ b.gptr \in Nat /\ b.pptr \in Nat
  BY <1>1, SoundRaw, Zenon DEF IInv
<1>6. IInv' /\ Moved
  BY <1>1, <1>3, <1>4, <1>5 DEF Moved, IInv
<1>7. Prolongs(b', b)
  <2>1. Indexed(b)
    BY <1>1, SoundIndexed, Zenon
  <2>2. Indexed(r) /\ Prolongs(r, b)
    BY <1>2, <2>1, ReserveGrows, Zenon DEF r
  <2>3. Prolongs(b', r)
    BY <1>1, <2>2, CommitToGrows, Zenon
  <2>4. QED
    BY <2>2, <2>3, ProlongsTwice, Zenon
<1>8. QED
  BY <1>6, <1>7, MovedIsForward, Zenon

\* Every step.
LEMMA NextKept == IInv /\ Next => Kept
<1> SUFFICES ASSUME IInv, Next PROVE Kept
  OBVIOUS
<1>1. \A n \in Requests : n \in Nat
  BY UserAssumption
<1>2. ASSUME NEW n \in Requests,
             \/ Prepare(n) \/ Commit(n) \/ Sputn(n)
             \/ GetChars(n) \/ Consume(n) \/ HandlerRead(n)
      PROVE  Kept
  BY <1>1, <1>2, PrepareKept, CommitKept, SputnKept, GetCharsKept, ConsumeKept,
     HandlerReadKept, Zenon
<1>3. CASE Sputc
  BY <1>3, SputcKept
<1>4. CASE UnderflowFound
  BY <1>4, UnderflowFoundKept
<1>5. ASSUME NEW n \in Requests, NEW ok \in BOOLEAN, UnderflowRead(n, ok)
      PROVE  Kept
  BY <1>1, <1>5, UnderflowReadKept, Zenon
<1>6. ASSUME NEW f, f \in b.get .. b.put, NEW t \in 0 .. Extent(b), Detach(f, t)
      PROVE  Kept
  <2>1. t \in Nat
    <3>1. Extent(b) \in Nat
      BY SoundFacts, Zenon DEF IInv
    <3>2. QED
      BY <3>1
  <2>2. QED
    BY <1>6, <2>1, DetachKept, Zenon
<1>7. QED
  BY <1>2, <1>3, <1>4, <1>5, <1>6, Zenon DEF Next

\* The buffer is sound in every reachable state.
THEOREM Invariance == Spec => []IInv
<1>1. Init => IInv
  BY FreshSound DEF Init, IInv
<1>2. IInv /\ [Next]_vars => IInv'
  <2>1. IInv /\ Next => IInv'
    BY NextKept, Zenon DEF Kept
  <2>2. IInv /\ UNCHANGED vars => IInv'
    BY DEF IInv, vars
  <2>3. QED
    BY <2>1, <2>2
<1>3. QED
  BY <1>1, <1>2, PTL DEF Spec

\* No pointer of streambuf.h leaves the stream and its two size_t counters
\* never wrap below zero, whatever the sizes of fragments and requests, even
\* when consume spans fragments.
THEOREM TypeCorrect == Spec => []TypeOK
<1>1. IInv => TypeOK
  BY Zenon DEF IInv, Sound, TypeOK
<1>2. QED
  BY <1>1, Invariance, PTL

\* The get area always lies in the first fragment and before the put area,
\* which lies in its own: no pointer is left in a fragment already popped.
THEOREM PointersStayOrdered == Spec => []PointersOrdered
<1>1. IInv => PointersOrdered
  BY Zenon DEF IInv, Sound, PointersOrdered
<1>2. QED
  BY <1>1, Invariance, PTL

\* inter_size_ and tail_size_ are what their comments say as long as consume
\* is called with the bytes in one fragment.
THEOREM CountersStayExact ==
  ASSUME ~SpanConsume
  PROVE  Spec => []CountersExact
<1>1. IInv => CountersExact
  BY Zenon DEF IInv, Sound, CountersExact, InterSizeExact, TailSizeExact
<1>2. QED
  BY <1>1, Invariance, PTL

\* No byte is lost, delivered twice or read before it was written, when no
\* byte of the stream is 0xFF.
THEOREM NoByteIsLost ==
  ASSUME HighBytes = {}
  PROVE  Spec => []NoByteLost
<1>1. Init => NoByteLost
  BY FreshSound DEF Init, NoByteLost
<1>2. IInv /\ IInv' /\ NoByteLost /\ [Next]_vars => NoByteLost'
  <2>1. SUFFICES ASSUME IInv, IInv', NoByteLost, [Next]_vars PROVE NoByteLost'
    OBVIOUS
  <2>2. CASE Next
    <3>1. Moved
      BY <2>1, <2>2, NextKept, Zenon DEF Kept
    <3>2. /\ b'.pptr = given + (given' - given)
          /\ b'.gptr = taken + (taken' - taken)
      BY <2>1, <3>1, Zenon DEF Moved, NoByteLost
    <3>3. given \in Nat /\ given' \in Nat /\ taken \in Nat /\ taken' \in Nat
      BY <2>1, Zenon DEF IInv
    <3>4. given + (given' - given) = given' /\ taken + (taken' - taken) = taken'
      BY <3>3, GhostArithmetic, Zenon
    <3>5. QED
      BY <3>2, <3>4, Zenon DEF NoByteLost
  <2>3. CASE UNCHANGED vars
    BY <2>1, <2>3 DEF vars, NoByteLost
  <2>4. QED
    BY <2>1, <2>2, <2>3
<1>3. QED
  BY <1>1, <1>2, Invariance, PTL DEF Spec

\* Bytes handed out or consumed are never read or written again: no step moves
\* a pointer back or a fragment elsewhere, whether or not bytes 0xFF are lost.
THEOREM PointersNeverGoBack == Spec => NeverBackwards
<1>1. IInv /\ [Next]_vars
      => [/\ b'.gptr >= b.gptr /\ b'.pptr >= b.pptr
          /\ \A i \in 1 .. Len(b.ends) : b'.ends[i] = b.ends[i]]_vars
  <2>1. IInv /\ Next => Forward
    BY NextKept, Zenon DEF Kept
  <2>2. QED
    BY <2>1, Zenon DEF Forward, Prolongs
<1>2. QED
  BY <1>1, Invariance, PTL DEF Spec, NeverBackwards

\* A reader is told "end of file" exactly when everything given was taken,
\* when no byte of the stream is 0xFF.
THEOREM EofIsTrue ==
  ASSUME HighBytes = {}
  PROVE  Spec => []EofOnlyWhenEmpty
<1>1. IInv /\ NoByteLost => EofOnlyWhenEmpty
  <2> SUFFICES ASSUME IInv, NoByteLost, b.gptr = b.egptr
               PROVE  ReturnsEof(DoUnderflow(b)) <=> given = taken
    BY Zenon DEF EofOnlyWhenEmpty
  <2> DEFINE u == DoUnderflow(b)
  <2>1. u.gptr = u.egptr <=> b.gptr = b.pptr
    BY UnderflowFinds, Zenon DEF IInv
  <2> HIDE DEF u
  <2>2. ReturnsEof(u) <=> u.gptr = u.egptr
    BY DEF ReturnsEof
  <2>3. b.gptr = taken /\ b.pptr = given
    BY Zenon DEF NoByteLost
  <2>4. QED
    BY <2>1, <2>2, <2>3, Zenon DEF u
<1>2. QED
  BY <1>1, Invariance, NoByteIsLost, PTL

\* size () is the number of bytes in the buffer, under both assumptions.
LEMMA SizeIsExact ==
  ASSUME ~SpanConsume
  PROVE  IInv /\ NoByteLost => Size(b) = given - taken /\ taken <= given
<1> SUFFICES ASSUME IInv, NoByteLost
             PROVE  Size(b) = given - taken /\ taken <= given
  OBVIOUS
<1>1. Sound(b) /\ b.gptr = taken /\ b.pptr = given
  BY DEF IInv, NoByteLost
<1>2. /\ b.gptr \in Nat /\ b.egptr \in Nat /\ b.pbase \in Nat /\ b.pptr \in Nat
      /\ b.inter = b.pbase - b.egptr
  BY <1>1, SoundRaw, SoundInter, Zenon
<1>3. b.gptr <= b.egptr /\ b.egptr <= b.pbase /\ b.pbase <= b.pptr
  BY <1>1, SoundFacts, Zenon
<1>4. QED
  BY <1>1, <1>2, <1>3 DEF Size

\* The intervals f[h] .. g[h] - 1 are not empty and follow each other.
InARow(n, f, g) == /\ \A h \in 1 .. n : f[h] < g[h]
                   /\ \A h \in 1 .. n - 1 : g[h] = f[h + 1]

\* First m of them, then n.
Joined(m, n, f, g, f1, g1, f2, g2) ==
  /\ \A h \in 1 .. m : f[h] = f1[h] /\ g[h] = g1[h]
  /\ \A h \in 1 .. n : f[m + h] = f2[h] /\ g[m + h] = g2[h]
  /\ g1[m] = f2[1]

LEMMA IntervalsJoin ==
  ASSUME NEW m \in Nat, NEW n \in Nat, NEW f, NEW g, NEW f1, NEW g1, NEW f2, NEW g2,
         InARow(m, f1, g1), InARow(n, f2, g2), Joined(m, n, f, g, f1, g1, f2, g2)
  PROVE  InARow(m + n, f, g)
<1> USE DEF InARow, Joined
<1>1. ASSUME NEW h \in 1 .. m + n PROVE f[h] < g[h]
  <2>1. CASE h <= m
    BY <2>1
  <2>2. CASE h > m
    <3>1. h - m \in 1 .. n /\ m + (h - m) = h  BY <2>2
    <3> QED  BY <3>1
  <2> QED  BY <2>1, <2>2
<1>2. ASSUME NEW h \in 1 .. m + n - 1 PROVE g[h] = f[h + 1]
  <2>1. CASE h < m
    <3>1. h \in 1 .. m - 1 /\ h \in 1 .. m /\ h + 1 \in 1 .. m  BY <2>1
    <3> QED  BY <3>1
  <2>2. CASE h = m
    <3>1. h \in 1 .. m /\ m > 0 /\ n > 0 /\ 1 \in 1 .. n  BY <2>2
    <3> QED  BY <2>2, <3>1
  <2>3. CASE h > m
    <3>1. /\ h - m \in 1 .. n - 1 /\ h - m \in 1 .. n /\ (h - m) + 1 \in 1 .. n
          /\ m + (h - m) = h /\ m + ((h - m) + 1) = h + 1
      BY <2>3
    <3> QED  BY <3>1
  <2> QED  BY <2>1, <2>2, <2>3
<1> QED  BY <1>1, <1>2

\* Two lists of buffers, the second of which begins where the first one ends.
LEMMA CoversBoth ==
  ASSUME NEW r \in Seq(Nat \X Nat), NEW s \in Seq(Nat \X Nat),
         NEW i, NEW j, NEW k, Covers(r, i, j), Covers(s, j, k)
  PROVE  r \o s \in Seq(Nat \X Nat) /\ Covers(r \o s, i, k)
<1>1. CASE r = <<>>
  <2>1. r \o s = s  BY <1>1
  <2> QED  BY <1>1, <2>1 DEF Covers
<1>2. CASE s = <<>>
  <2>1. r \o s = r  BY <1>2
  <2> QED  BY <1>2, <2>1 DEF Covers
<1>3. CASE r # <<>> /\ s # <<>>
  <2> DEFINE t == r \o s
             m == Len(r)
             n == Len(s)
             l == m + n
             from(w) == [h \in 1 .. Len(w) |-> w[h][1]]
             to(w) == [h \in 1 .. Len(w) |-> w[h][2]]
  <2>1. /\ m \in Nat \ {0} /\ n \in Nat \ {0} /\ l = m + n
        /\ t \in Seq(Nat \X Nat) /\ Len(t) = l
        /\ \A h \in 1 .. m : t[h] = r[h]
        /\ \A h \in 1 .. n : t[m + h] = s[h]
    BY <1>3
  <2>2. t # <<>>  BY <2>1
  <2>3. /\ r[1][1] = i /\ r[m][2] = j /\ s[1][1] = j /\ s[n][2] = k
        /\ \A h \in 1 .. m : r[h][1] < r[h][2]
        /\ \A h \in 1 .. m - 1 : r[h][2] = r[h + 1][1]
        /\ \A h \in 1 .. n : s[h][1] < s[h][2]
        /\ \A h \in 1 .. n - 1 : s[h][2] = s[h + 1][1]
    BY <1>3 DEF Covers
  <2>4. /\ 1 \in 1 .. m /\ m \in 1 .. m /\ 1 \in 1 .. n /\ n \in 1 .. n
        /\ \A h \in 1 .. m : h \in 1 .. l
        /\ \A h \in 1 .. n : m + h \in 1 .. l
        /\ \A h \in 1 .. m - 1 : h \in 1 .. m /\ h + 1 \in 1 .. m
        /\ \A h \in 1 .. n - 1 : h \in 1 .. n /\ h + 1 \in 1 .. n
        /\ \A h \in 1 .. l - 1 : h \in 1 .. l /\ h + 1 \in 1 .. l
    <3>1. m \in Nat \ {0} /\ n \in Nat \ {0} /\ l = m + n  BY <2>1, Zenon
    <3>2. ASSUME NEW o \in Nat \ {0}
          PROVE  /\ 1 \in 1 .. o /\ o \in 1 .. o
                 /\ \A h \in 1 .. o - 1 : h \in 1 .. o /\ h + 1 \in 1 .. o
      OBVIOUS
    <3>3. l \in Nat \ {0}  BY <3>1
    <3>4. \A h \in 1 .. m : h \in 1 .. l  BY <3>1
    <3>5. \A h \in 1 .. n : m + h \in 1 .. l  BY <3>1
    <3> QED  BY <3>1, <3>2, <3>3, <3>4, <3>5, Zenon
  <2> HIDE DEF t, m, n, l
  <2>5. t[1][1] = i /\ t[l][2] = k
    BY <2>1, <2>3, <2>4, Zenon
  <2>6. /\ \A h \in 1 .. m : from(r)[h] = r[h][1] /\ to(r)[h] = r[h][2]
        /\ \A h \in 1 .. n : from(s)[h] = s[h][1] /\ to(s)[h] = s[h][2]
        /\ \A h \in 1 .. l : from(t)[h] = t[h][1] /\ to(t)[h] = t[h][2]
    BY <2>1, Zenon DEF m, n
  <2> HIDE DEF from, to
  <2>7. InARow(m, from(r), to(r))
    <3>1. ASSUME NEW h \in 1 .. m PROVE from(r)[h] < to(r)[h]
      BY <2>3, <2>6, Zenon
    <3>2. ASSUME NEW h \in 1 .. m - 1 PROVE to(r)[h] = from(r)[h + 1]
      BY <2>3, <2>4, <2>6, Zenon
    <3> QED  BY <3>1, <3>2, Zenon DEF InARow
  <2>8. InARow(n, from(s), to(s))
    <3>1. ASSUME NEW h \in 1 .. n PROVE from(s)[h] < to(s)[h]
      BY <2>3, <2>6, Zenon
    <3>2. ASSUME NEW h \in 1 .. n - 1 PROVE to(s)[h] = from(s)[h + 1]
      BY <2>3, <2>4, <2>6, Zenon
    <3> QED  BY <3>1, <3>2, Zenon DEF InARow
  <2>9. Joined(m, n, from(t), to(t), from(r), to(r), from(s), to(s))
    <3>1. ASSUME NEW h \in 1 .. m PROVE from(t)[h] = from(r)[h] /\ to(t)[h] = to(r)[h]
      <4>1. t[h] = r[h]  BY <2>1, Zenon
      <4>2. from(t)[h] = t[h][1] /\ to(t)[h] = t[h][2]  BY <2>4, <2>6, Zenon
      <4>3. from(r)[h] = r[h][1] /\ to(r)[h] = r[h][2]  BY <2>6, Zenon
      <4> QED  BY <4>1, <4>2, <4>3, Zenon
    <3>2. ASSUME NEW h \in 1 .. n PROVE from(t)[m + h] = from(s)[h] /\ to(t)[m + h] = to(s)[h]
      <4>1. t[m + h] = s[h]  BY <2>1, Zenon
      <4>2. m + h \in 1 .. l  BY <2>4, Zenon
      <4>3. from(t)[m + h] = t[m + h][1] /\ to(t)[m + h] = t[m + h][2]  BY <4>2, <2>6, Zenon
      <4>4. from(s)[h] = s[h][1] /\ to(s)[h] = s[h][2]  BY <2>6, Zenon
      <4> QED  BY <4>1, <4>3, <4>4, Zenon
    <3>3. to(r)[m] = from(s)[1]
      BY <2>3, <2>4, <2>6, Zenon
    <3> QED  BY <3>1, <3>2, <3>3, Zenon DEF Joined
  <2>10. InARow(l, from(t), to(t))
    <3>1. m \in Nat /\ n \in Nat  BY <2>1
    <3>2. l = m + n  BY <2>1, Zenon
    <3> QED  BY <2>7, <2>8, <2>9, <3>1, <3>2, IntervalsJoin, Zenon
  <2>11. /\ \A h \in 1 .. l : t[h][1] < t[h][2]
         /\ \A h \in 1 .. l - 1 : t[h][2] = t[h + 1][1]
    <3>1. ASSUME NEW h \in 1 .. l PROVE t[h][1] < t[h][2]
      BY <2>6, <2>10, Zenon DEF InARow
    <3>2. ASSUME NEW h \in 1 .. l - 1 PROVE t[h][2] = t[h + 1][1]
      <4>1. h \in 1 .. l /\ h + 1 \in 1 .. l  BY <2>4, Zenon
      <4>2. to(t)[h] = t[h][2] /\ from(t)[h + 1] = t[h + 1][1]  BY <4>1, <2>6, Zenon
      <4>3. to(t)[h] = from(t)[h + 1]  BY <2>10 DEF InARow
      <4> QED  BY <4>2, <4>3, Zenon
    <3> QED  BY <3>1, <3>2, Zenon
  <2>12. Len(t) = l  BY <2>1
  <2>13. Covers(t, i, k)
    <3>1. ASSUME NEW h \in 1 .. Len(t) PROVE t[h][1] < t[h][2]
      <4>1. h \in 1 .. l  BY <2>12, Zenon
      <4> QED  BY <2>11, <4>1, Zenon
    <3>2. ASSUME NEW h \in 1 .. Len(t) - 1 PROVE t[h][2] = t[h + 1][1]
      <4>1. h \in 1 .. l - 1  BY <2>12, Zenon
      <4> QED  BY <2>11, <4>1, Zenon
    <3>3. t[Len(t)][2] = k  BY <2>5, <2>12, Zenon
    <3> QED  BY <2>2, <2>5, <3>1, <3>2, <3>3, Zenon DEF Covers
  <2> QED  BY <2>1, <2>13, Zenon DEF t
<1> QED  BY <1>1, <1>2, <1>3

LEMMA CoversOne ==
  ASSUME NEW from \in Nat, NEW to \in Nat, from <= to
  PROVE  Buffer(from, to) \in Seq(Nat \X Nat) /\ Covers(Buffer(from, to), from, to)
<1>1. CASE from < to
  BY <1>1 DEF Buffer, Covers
<1>2. CASE from = to
  BY <1>2 DEF Buffer, Covers
<1> QED  BY <1>1, <1>2

LEMMA ListOf ==
  ASSUME NEW S, NEW n \in Nat, NEW f \in [1 .. n -> S]
  PROVE  f \in Seq(S) /\ Len(f) = n
  OBVIOUS

LEMMA StartOfNext == ASSUME NEW x, NEW k \in Nat \ {0} PROVE Start(x, k + 1) = x.ends[k]
<1>1. k + 1 # 1 /\ (k + 1) - 1 = k
  OBVIOUS
<1>2. Start(x, k + 1) = x.ends[(k + 1) - 1]
  BY <1>1, Zenon DEF Start
<1> QED  BY <1>1, <1>2

\* Fragments are not empty, and each begins where the one before it ends.
LEMMA CoversWhole ==
  ASSUME NEW x, Sound(x), NEW i \in Nat \ {0}, NEW j \in Nat, i <= j + 1, j <= Len(x.ends)
  PROVE  /\ Whole(x, i, j) \in Seq(Nat \X Nat)
         /\ Covers(Whole(x, i, j), Start(x, i), Start(x, j + 1))
<1> DEFINE n == j - i + 1
           w == Whole(x, i, j)
<1>1. /\ x.ends \in Seq(Nat) /\ Increasing(x.ends) /\ x.ends[1] > 0 /\ Len(x.ends) \in Nat
  BY SoundRaw, SoundFacts, Zenon DEF Sound, Ordered
<1>2. ASSUME NEW k \in Nat \ {0}, k <= Len(x.ends)
      PROVE  /\ Start(x, k) \in Nat /\ x.ends[k] \in Nat /\ Start(x, k) < x.ends[k]
             /\ Start(x, k + 1) = x.ends[k]
  <2>1. ASSUME NEW e \in Seq(Nat), Increasing(e), e[1] > 0, k <= Len(e)
        PROVE  LET start == IF k = 1 THEN 0 ELSE e[k - 1]
               IN  start \in Nat /\ e[k] \in Nat /\ start < e[k]
    <3>1. CASE k = 1
      BY <2>1, <3>1
    <3>2. CASE k # 1
      <4>1. k - 1 \in 1 .. Len(e) /\ k \in 1 .. Len(e) /\ k - 1 < k  BY <2>1, <3>2
      <4>2. e[k - 1] < e[k]  BY <2>1, <4>1, Zenon DEF Increasing
      <4>3. e[k - 1] \in Nat /\ e[k] \in Nat  BY <4>1
      <4> QED  BY <3>2, <4>2, <4>3, Zenon
    <3> QED  BY <3>1, <3>2, Zenon
  <2>2. Start(x, k) = IF k = 1 THEN 0 ELSE x.ends[k - 1]
    BY Zenon DEF Start
  <2>3. Start(x, k) \in Nat /\ x.ends[k] \in Nat /\ Start(x, k) < x.ends[k]
    BY <1>1, <1>2, <2>1, <2>2, Zenon
  <2> QED  BY <2>3, StartOfNext, Zenon
<1>3. n \in Nat /\ w = [k \in 1 .. n |-> <<Start(x, i + k - 1), x.ends[i + k - 1]>>]
  BY DEF Whole
<1>4. ASSUME NEW k \in 1 .. n
      PROVE  /\ i + k - 1 \in Nat \ {0} /\ i + k - 1 <= Len(x.ends)
             /\ w[k] = <<Start(x, i + k - 1), x.ends[i + k - 1]>>
             /\ w[k] \in Nat \X Nat /\ w[k][1] < w[k][2]
             /\ w[k][1] = Start(x, i + k - 1) /\ w[k][2] = Start(x, i + k)
  <2>1. i + k - 1 \in Nat \ {0} /\ i + k - 1 <= Len(x.ends) /\ i + k - 1 + 1 = i + k
    BY <1>1
  <2>2. w[k] = <<Start(x, i + k - 1), x.ends[i + k - 1]>>
    BY <1>3, Zenon
  <2>3. /\ Start(x, i + k - 1) \in Nat /\ x.ends[i + k - 1] \in Nat
        /\ Start(x, i + k - 1) < x.ends[i + k - 1]
        /\ Start(x, i + k - 1 + 1) = x.ends[i + k - 1]
    BY <1>2, <2>1, Zenon
  <2>4. Start(x, i + k) = x.ends[i + k - 1]
    BY <2>1, <2>3, Zenon
  <2>5. ASSUME NEW from \in Nat, NEW to \in Nat, w[k] = <<from, to>>
        PROVE  w[k] \in Nat \X Nat /\ w[k][1] = from /\ w[k][2] = to
    BY <2>5
  <2>6. /\ w[k] \in Nat \X Nat /\ w[k][1] = Start(x, i + k - 1)
        /\ w[k][2] = x.ends[i + k - 1]
    BY <2>2, <2>3, <2>5, Zenon
  <2> QED  BY <2>1, <2>2, <2>3, <2>4, <2>6, Zenon
<1>5. w \in Seq(Nat \X Nat) /\ Len(w) = n
  <2>1. \A k \in 1 .. n : <<Start(x, i + k - 1), x.ends[i + k - 1]>> \in Nat \X Nat
    <3>1. ASSUME NEW k \in 1 .. n
          PROVE  <<Start(x, i + k - 1), x.ends[i + k - 1]>> \in Nat \X Nat
      BY <1>4, Zenon
    <3> QED  BY <3>1
  <2>2. w \in [1 .. n -> Nat \X Nat]  BY <1>3, <2>1, Zenon
  <2> QED  BY <1>3, <2>2, ListOf, Zenon
<1> HIDE DEF n, w
<1>6. CASE n = 0
  BY <1>5, <1>6 DEF Covers, n, w
<1>7. CASE n > 0
  <2>1. w # <<>>  BY <1>5, <1>7
  <2>2. w[1][1] = Start(x, i) /\ w[n][2] = Start(x, j + 1)
    <3>1. 1 \in 1 .. n /\ n \in 1 .. n /\ i + 1 - 1 = i /\ i + n = j + 1  BY <1>3, <1>7 DEF n
    <3> QED  BY <1>4, <3>1
  <2>3. \A k \in 1 .. n - 1 : w[k][2] = w[k + 1][1]
    <3>1. ASSUME NEW k \in 1 .. n - 1 PROVE w[k][2] = w[k + 1][1]
      <4>1. k \in 1 .. n /\ k + 1 \in 1 .. n /\ i + (k + 1) - 1 = i + k  BY <1>3
      <4> QED  BY <1>4, <4>1
    <3> QED  BY <3>1
  <2> QED  BY <1>3, <1>4, <1>5, <2>1, <2>2, <2>3 DEF Covers, w
<1> QED  BY <1>3, <1>6, <1>7

\* What data returns of a sound buffer.
LEMMA DataCovers == ASSUME NEW x, Sound(x) PROVE Covers(Data(x), x.gptr, x.pptr)
<1>1. /\ x.get \in Nat \ {0} /\ x.put \in Nat \ {0} /\ x.get <= x.put /\ x.put <= Len(x.ends)
      /\ x.gptr \in Nat /\ x.pptr \in Nat /\ Len(x.ends) \in Nat /\ x.ends[x.get] \in Nat
      /\ x.gptr <= x.ends[x.get] /\ x.gptr <= x.pptr
  <2>1. /\ x.gptr \in Nat /\ x.pptr \in Nat /\ x.egptr \in Nat /\ x.pbase \in Nat
        /\ x.get \in 1 .. Len(x.ends) /\ x.put \in 1 .. Len(x.ends) /\ Len(x.ends) \in Nat
        /\ x.get <= x.put /\ x.ends[x.get] \in Nat
        /\ x.gptr <= x.egptr /\ x.egptr <= x.ends[x.get]
        /\ x.egptr <= x.pbase /\ x.pbase <= x.pptr
    BY SoundRaw, SoundFacts, Zenon
  <2>2. x.get \in Nat \ {0} /\ x.put \in Nat \ {0} /\ x.put <= Len(x.ends)
    BY <2>1
  <2>3. ASSUME NEW i \in Nat, NEW j \in Nat, NEW k \in Nat, i <= j, j <= k PROVE i <= k
    BY <2>3
  <2>4. x.gptr <= x.ends[x.get]
    BY <2>1, <2>3, Zenon
  <2>5. x.gptr <= x.pbase
    BY <2>1, <2>3, Zenon
  <2>6. x.gptr <= x.pptr
    BY <2>1, <2>3, <2>5, Zenon
  <2> QED  BY <2>1, <2>2, <2>4, <2>6, Zenon
<1>2. Start(x, x.put) \in Nat /\ Start(x, x.put) <= x.pptr
  <2>1. Start(x, x.put) <= x.pbase /\ x.pbase \in Nat /\ x.pbase <= x.pptr
    BY SoundRaw, SoundFacts, Zenon DEF Sound, Ordered
  <2>2. ASSUME NEW e \in Seq(Nat), NEW k \in Nat \ {0}, k <= Len(e)
        PROVE  (IF k = 1 THEN 0 ELSE e[k - 1]) \in Nat
    BY <2>2
  <2>3. x.ends \in Seq(Nat)  BY SoundRaw, Zenon
  <2>4. Start(x, x.put) \in Nat
    BY <1>1, <2>2, <2>3, Zenon DEF Start
  <2> QED  BY <1>1, <2>1, <2>4
<1>3. CASE x.get = x.put
  <2>1. Data(x) = Buffer(x.gptr, x.pptr)  BY <1>3, Zenon DEF Data
  <2> QED  BY <1>1, <2>1, CoversOne, Zenon
<1>4. CASE x.get # x.put
  <2> DEFINE p == Buffer(x.gptr, x.ends[x.get])
             q == Whole(x, x.get + 1, x.put - 1)
             r == Buffer(Start(x, x.put), x.pptr)
  <2>1. /\ x.get + 1 \in Nat \ {0} /\ x.put - 1 \in Nat /\ x.get + 1 <= (x.put - 1) + 1
        /\ x.put - 1 <= Len(x.ends) /\ (x.put - 1) + 1 = x.put
    <3>1. ASSUME NEW f \in Nat \ {0}, NEW h \in Nat \ {0}, NEW n \in Nat, f <= h, h <= n, f # h
          PROVE  /\ f + 1 \in Nat \ {0} /\ h - 1 \in Nat /\ f + 1 <= (h - 1) + 1
                 /\ h - 1 <= n /\ (h - 1) + 1 = h
      BY <3>1
    <3> QED  BY <1>1, <1>4, <3>1, Zenon
  <2>2. Start(x, x.get + 1) = x.ends[x.get]
    BY <1>1, StartOfNext, Zenon
  <2>3. p \in Seq(Nat \X Nat) /\ Covers(p, x.gptr, Start(x, x.get + 1))
    BY <1>1, <2>2, CoversOne, Zenon
  <2>4. q \in Seq(Nat \X Nat) /\ Covers(q, Start(x, x.get + 1), Start(x, x.put))
    BY <2>1, CoversWhole, Zenon
  <2>5. r \in Seq(Nat \X Nat) /\ Covers(r, Start(x, x.put), x.pptr)
    BY <1>1, <1>2, CoversOne, Zenon
  <2>6. Data(x) = p \o q \o r
    BY <1>4, Zenon DEF Data
  <2> HIDE DEF p, q, r
  <2>7. p \o q \in Seq(Nat \X Nat) /\ Covers(p \o q, x.gptr, Start(x, x.put))
    BY <2>3, <2>4, CoversBoth, Zenon
  <2>8. Covers((p \o q) \o r, x.gptr, x.pptr)
    BY <2>5, <2>7, CoversBoth, Zenon
  <2> QED  BY <2>6, <2>8, Zenon
<1> QED  BY <1>3, <1>4, Zenon

\* What prepare returns of it.
LEMMA WriteBuffersCover ==
  ASSUME NEW x, Sound(x) PROVE Covers(WriteBuffers(x), x.pptr, x.pptr + PutSize(x))
<1> DEFINE n == Len(x.ends)
           p == Buffer(x.pptr, Epptr(x))
           q == Whole(x, x.put + 1, n)
<1>1. /\ x.put \in 1 .. n /\ n \in Nat /\ x.pptr \in Nat
      /\ x.pptr <= x.ends[x.put] /\ x.ends[x.put] \in Nat
      /\ Extent(x) \in Nat /\ PutSize(x) = Extent(x) - x.pptr
  BY SoundRaw, SoundFacts, Zenon
<1>2. Epptr(x) = x.ends[x.put] /\ Extent(x) = x.ends[n]
  BY Zenon DEF Epptr, Extent
<1>3. x.pptr + PutSize(x) = Extent(x)
  <2>1. ASSUME NEW i \in Nat, NEW j \in Nat PROVE i + (j - i) = j
    OBVIOUS
  <2> QED  BY <1>1, <2>1, Zenon
<1>4. /\ x.put + 1 \in Nat \ {0} /\ x.put + 1 <= n + 1 /\ n <= n
  BY <1>1
<1>5. Start(x, x.put + 1) = Epptr(x) /\ Start(x, n + 1) = Extent(x)
  <2>1. x.put \in Nat \ {0} /\ n \in Nat \ {0}  BY <1>1
  <2> QED  BY <1>2, <2>1, StartOfNext, Zenon
<1>6. p \in Seq(Nat \X Nat) /\ Covers(p, x.pptr, Epptr(x))
  BY <1>1, <1>2, CoversOne, Zenon
<1>7. q \in Seq(Nat \X Nat) /\ Covers(q, Epptr(x), Extent(x))
  BY <1>1, <1>4, <1>5, CoversWhole, Zenon
<1>8. WriteBuffers(x) = p \o q
  BY Zenon DEF WriteBuffers
<1> HIDE DEF p, q
<1>9. Covers(p \o q, x.pptr, Extent(x))
  BY <1>6, <1>7, CoversBoth, Zenon
<1> QED  BY <1>3, <1>8, <1>9, Zenon

\* data returns the unread bytes and prepare the free space, under both
\* assumptions: size () has to be exact, and so have the ghosts.
THEOREM BuffersAreExact ==
  ASSUME ~SpanConsume, HighBytes = {}
  PROVE  Spec => []BuffersExact
<1>1. IInv /\ NoByteLost => BuffersExact
  <2> SUFFICES ASSUME IInv, NoByteLost PROVE BuffersExact
    OBVIOUS
  <2>1. Sound(b) /\ b.gptr = taken /\ b.pptr = given /\ given \in Nat /\ taken \in Nat
    BY DEF IInv, NoByteLost
  <2>2. Size(b) = given - taken
    BY SizeIsExact
  <2>3. taken + Size(b) = given
    BY <2>1, <2>2
  <2>4. Covers(Data(b), taken, taken + Size(b))
    BY <2>1, <2>3, DataCovers
  <2>5. Covers(WriteBuffers(b), given, given + PutSize(b))
    BY <2>1, WriteBuffersCover
  <2> QED  BY <2>4, <2>5 DEF BuffersExact
<1> QED  BY <1>1, Invariance, NoByteIsLost, PTL

\* The buffer is the queue of bytes it promises to be.
THEOREM BufferIsAQueue ==
  ASSUME ~SpanConsume, HighBytes = {}
  PROVE  Spec => ImplementsQueue
<1>1. Init => Queue!Init
  <2> SUFFICES ASSUME Init PROVE Queue!Init
    OBVIOUS
  <2>1. IInv /\ NoByteLost /\ given = 0 /\ taken = 0
    BY FreshSound DEF Init, IInv, NoByteLost
  <2>2. Size(b) = given - taken
    BY <2>1, SizeIsExact
  <2>3. QED
    BY <2>1, <2>2 DEF Queue!Init
<1>2. IInv /\ IInv' /\ NoByteLost /\ NoByteLost' /\ [Next]_vars => [Queue!Next]_(Queue!vars)
  <2>1. SUFFICES ASSUME IInv, IInv', NoByteLost, NoByteLost', [Next]_vars
               PROVE  [Queue!Next]_(Queue!vars)
    OBVIOUS
  <2>2. /\ Size(b) = given - taken /\ Size(b)' = given' - taken'
        /\ taken <= given /\ taken' <= given'
    <3>1. Size(b) = given - taken /\ taken <= given
      BY <2>1, SizeIsExact
    <3>2. (Size(b) = given - taken /\ taken <= given)'
      BY <2>1, SizeIsExact, PTL
    <3>3. QED
      BY <3>1, <3>2, Zenon
  <2>3. CASE Next
    <3>1. \/ given' >= given /\ taken' = taken
          \/ given' = given /\ taken' >= taken
      BY <2>1, <2>3, NextKept, Zenon DEF Kept, Moved
    <3>2. given \in Nat /\ given' \in Nat /\ taken \in Nat /\ taken' \in Nat
      BY <2>1, Zenon DEF IInv
    <3>3. CASE given' >= given /\ taken' = taken
      <4>1. Size(b)' = Size(b) + (given' - given)
        BY <2>2, <3>2, <3>3
      <4>2. QED
        BY <3>3, <4>1, Zenon DEF Queue!Next, Queue!Put
    <3>4. CASE given' = given /\ taken' >= taken
      <4>1. Size(b)' = given - taken' /\ taken' <= given
        BY <2>2, <3>4, Zenon
      <4>2. /\ given - taken' = (given - taken) - (taken' - taken)
            /\ taken' - taken <= given - taken
        BY <3>2, <4>1, GhostArithmetic, Zenon
      <4>3. Size(b)' = Size(b) - (taken' - taken) /\ taken' - taken <= Size(b)
        BY <2>2, <4>1, <4>2, Zenon
      <4>4. QED
        BY <3>4, <4>3, Zenon DEF Queue!Next, Queue!Take
    <3>5. QED
      BY <3>1, <3>3, <3>4
  <2>4. CASE UNCHANGED vars
    BY <2>4 DEF vars, Queue!vars, Size
  <2>5. QED
    BY <2>1, <2>3, <2>4
<1>3. QED
  BY <1>1, <1>2, Invariance, NoByteIsLost, PTL DEF Spec, ImplementsQueue, Queue!Spec
=============================================================================
