------------------------------ MODULE ZcReaderProofs ------------------------------
(***************************************************************************)
(* Iterators over a buffer that is read into, for every fragment size and  *)
(* any reads.  Stands says where an iterator is: in which fragment, at     *)
(* which byte, and that it knows whether it is behind the last byte of the *)
(* fragment.  What it points to does not change when fragments are added,  *)
(* but the byte behind the last one of a fragment has two places then, the *)
(* end of the fragment and the beginning of the next, and it is the work   *)
(* of Equal and Dereference to take them for the same.  No iterator is in  *)
(* a fragment behind the put area, which needs that each commit leaves     *)
(* room in the put area if there is a fragment with room.                  *)
(***************************************************************************)
EXTENDS ZcReader, ZcStreambufProofs

\* The put area is not full while there is another fragment.
Room(x) == x.pptr < x.ends[x.put] \/ x.put = Len(x.ends)

\* Position p is in fragment f or at its end.
In(x, f, p) == Start(x, f) <= p /\ p <= x.ends[f]

\* Iterator i stands at byte p of x, or at the end.
Stands(x, i, p) ==
  LET f == x.get + i.seg - 1
  IN  /\ i \in [seg : Nat \ {0}, val : Nat, after : BOOLEAN]
      /\ f <= x.put
      /\ p \in Nat /\ In(x, f, p) /\ p <= x.pptr
      /\ i.val = Address(f, p)
      /\ i.after <=> p = x.ends[f]

Parsing == Stands(b, it, at.it) /\ Stands(b, mark, at.mark)

ReaderInv ==
  /\ IInv /\ NoByteLost /\ Room(b)
  /\ stage \in {"lines", "parsing"} /\ at \in [it : Nat, mark : Nat]
  /\ stage = "parsing" => Parsing
-----------------------------------------------------------------------------
(* Positions and places. *)

\* The numbers of the fragments.
LEMMA Counts ==
  ASSUME NEW x, Sound(x)
  PROVE  /\ x.get \in Nat /\ x.put \in Nat /\ Len(x.ends) \in Nat
         /\ 1 <= x.get /\ x.get <= x.put /\ x.put <= Len(x.ends)
  BY SoundRaw, SoundFacts, Zenon DEF Sound, Ordered

\* Iterators number the fragments from the get area on.
LEMMA SegmentNumber ==
  ASSUME NEW x, Sound(x), NEW s \in Nat \ {0}
  PROVE  /\ s + 1 \in Nat \ {0}
         /\ x.get + (s + 1) - 1 = x.get + s
         /\ x.get + s - 1 + 1 = x.get + s
         /\ s = Len(x.ends) - x.get + 1 <=> x.get + s - 1 = Len(x.ends)
         /\ x.get + s - 1 <= x.put => x.get + s - 1 \in x.get .. x.put
<1> DEFINE get == x.get
           put == x.put
           len == Len(x.ends)
<1>1. get \in Nat /\ put \in Nat /\ len \in Nat  BY Counts, Zenon
<1> HIDE DEF get, put, len
<1>2. s + 1 \in Nat \ {0} /\ get + (s + 1) - 1 = get + s /\ get + s - 1 + 1 = get + s
  BY <1>1
<1>3. s = len - get + 1 <=> get + s - 1 = len  BY <1>1
<1>4. get + s - 1 <= put => get + s - 1 \in get .. put  BY <1>1
<1> QED  BY <1>2, <1>3, <1>4, Zenon DEF get, put, len

LEMMA FragmentNumber ==
  ASSUME NEW x, Sound(x), NEW f \in x.get .. x.put
  PROVE  /\ f \in 1 .. Len(x.ends)
         /\ f \in Nat
         /\ f <= x.put
         /\ f - x.get + 1 \in Nat \ {0}
         /\ x.get + (f - x.get + 1) - 1 = f
<1> DEFINE get == x.get
           put == x.put
           len == Len(x.ends)
<1>1. /\ get \in Nat /\ put \in Nat /\ len \in Nat /\ 1 <= get /\ put <= len
      /\ f \in get .. put
  BY Counts, Zenon
<1> HIDE DEF get, put, len
<1>2. /\ f \in 1 .. len /\ f \in Nat /\ f <= put /\ f - get + 1 \in Nat \ {0}
      /\ get + (f - get + 1) - 1 = f
  BY <1>1
<1> QED  BY <1>2, Zenon DEF get, put, len

LEMMA NextNumber ==
  ASSUME NEW x, Sound(x), NEW f \in 1 .. Len(x.ends), f # Len(x.ends)
  PROVE  f + 1 \in 1 .. Len(x.ends)
<1> DEFINE len == Len(x.ends)
<1>1. len \in Nat /\ f \in 1 .. len /\ f # len  BY Counts, Zenon
<1> HIDE DEF len
<1>2. f + 1 \in 1 .. len  BY <1>1
<1> QED  BY <1>2 DEF len

\* The fragments lie behind each other and none is empty.
LEMMA Positions ==
  ASSUME NEW x, Sound(x)
  PROVE  /\ x.ends \in Seq(Nat) /\ Len(x.ends) \in Nat /\ x.get \in Nat /\ x.put \in Nat
         /\ x.get \in 1 .. Len(x.ends) /\ x.put \in 1 .. Len(x.ends) /\ x.get <= x.put
         /\ \A f \in 1 .. Len(x.ends) :
              Start(x, f) \in Nat /\ x.ends[f] \in Nat /\ Start(x, f) < x.ends[f]
         /\ \A f, g \in 1 .. Len(x.ends) : f < g => x.ends[f] <= Start(x, g)
         /\ \A f, g \in 1 .. Len(x.ends) : g = f + 1 => Start(x, g) = x.ends[f]
<1>1. /\ x.ends \in Seq(Nat) /\ Len(x.ends) \in Nat /\ x.get \in Nat /\ x.put \in Nat
      /\ x.get \in 1 .. Len(x.ends) /\ x.put \in 1 .. Len(x.ends) /\ x.get <= x.put
  BY SoundRaw, SoundFacts, Zenon
<1>2. Increasing(x.ends) /\ x.ends[1] > 0
  BY Zenon DEF Sound, Ordered
<1>3. \A f \in 1 .. Len(x.ends) : x.ends[f] \in Nat
  BY <1>1, EndTyped, Zenon
<1>4. ASSUME NEW f \in 1 .. Len(x.ends), NEW g \in 1 .. Len(x.ends)
      PROVE  /\ Start(x, g) \in Nat /\ Start(x, g) < x.ends[g]
             /\ f < g => x.ends[f] <= Start(x, g)
             /\ g = f + 1 => Start(x, g) = x.ends[f]
  <2>1. f \in Nat /\ g \in Nat /\ 1 <= f /\ 1 <= g /\ g <= Len(x.ends)
    BY <1>1
  <2>2. CASE g = 1
    <3>1. Start(x, g) = 0  BY <2>2 DEF Start
    <3>2. x.ends[1] \in Nat  BY <1>3, <2>2, Zenon
    <3>3. ~(f < g) /\ g # f + 1  BY <2>1, <2>2
    <3> QED  BY <1>2, <2>2, <3>1, <3>2, <3>3
  <2>3. CASE g # 1
    <3> DEFINE h == g - 1
    <3>1. h \in 1 .. Len(x.ends) /\ h < g /\ h \in Nat /\ (f < g => f < h \/ f = h)
          /\ (g = f + 1 => f = h)
      BY <1>1, <2>1, <2>3
    <3>2. Start(x, g) = x.ends[h]  BY <2>3 DEF Start
    <3> HIDE DEF h
    <3>3. x.ends[h] < x.ends[g] /\ (f < h => x.ends[f] < x.ends[h])
      BY <1>2, <3>1, Zenon DEF Increasing
    <3>4. x.ends[h] \in Nat /\ x.ends[f] \in Nat  BY <1>3, <3>1
    <3> QED  BY <3>1, <3>2, <3>3, <3>4
  <2> QED  BY <2>2, <2>3
<1> QED  BY <1>1, <1>3, <1>4

\* Two places are the same if and only if they have the same address; and the
\* same byte has two places only at the end of a fragment and the beginning
\* of the next.
LEMMA Places ==
  ASSUME NEW x, Sound(x), NEW f \in 1 .. Len(x.ends), NEW g \in 1 .. Len(x.ends),
         NEW p \in Nat, NEW q \in Nat, In(x, f, p), In(x, g, q)
  PROVE  /\ Address(f, p) = Address(g, q) <=> f = g /\ p = q
         /\ p = q /\ p < x.ends[f] /\ q < x.ends[g] => f = g
         /\ p = q /\ p = x.ends[f] /\ q = x.ends[g] => f = g
         /\ p = q /\ p = x.ends[f] /\ q # x.ends[g] => f # Len(x.ends) /\ g = f + 1
<1> DEFINE n == Len(x.ends)
           sf == Start(x, f)
           sg == Start(x, g)
           ef == x.ends[f]
           eg == x.ends[g]
<1>1. /\ n \in Nat /\ f \in Nat /\ g \in Nat /\ 1 <= f /\ f <= n /\ 1 <= g /\ g <= n
      /\ sf \in Nat /\ sg \in Nat /\ ef \in Nat /\ eg \in Nat /\ sf < ef /\ sg < eg
      /\ f < g => ef <= sg
      /\ g < f => eg <= sf
      /\ f = g => ef = eg
      /\ sf <= p /\ p <= ef /\ sg <= q /\ q <= eg
  <2>1. n \in Nat  BY Counts, Zenon
  <2>2. f \in Nat /\ g \in Nat /\ 1 <= f /\ f <= n /\ 1 <= g /\ g <= n
    <3> HIDE DEF n
    <3>1. f \in 1 .. n /\ g \in 1 .. n  BY Zenon DEF n
    <3> QED  BY <2>1, <3>1
  <2>3. sf \in Nat /\ sg \in Nat /\ ef \in Nat /\ eg \in Nat /\ sf < ef /\ sg < eg
    BY Positions, Zenon
  <2>4. (f < g => ef <= sg) /\ (g < f => eg <= sf)  BY Positions, Zenon
  <2>5. sf <= p /\ p <= ef /\ sg <= q /\ q <= eg  BY Zenon DEF In
  <2> QED  BY <2>1, <2>2, <2>3, <2>4, <2>5, Zenon
<1>2. f < g /\ g # f + 1 => ef < sg
  <2> SUFFICES ASSUME f < g, g # f + 1 PROVE ef < sg
    OBVIOUS
  <2> DEFINE h == f + 1
  <2>1. h \in 1 .. Len(x.ends) /\ f < h /\ h < g  BY <1>1
  <2> HIDE DEF h
  <2>2. x.ends[f] <= Start(x, h) /\ Start(x, h) < x.ends[h] /\ x.ends[h] <= Start(x, g)
        /\ Start(x, h) \in Nat /\ x.ends[h] \in Nat
    BY <2>1, Positions, Zenon
  <2>3. ef <= Start(x, h) /\ Start(x, h) < x.ends[h] /\ x.ends[h] <= sg
    BY <2>2, Zenon
  <2>4. ef \in Nat /\ sg \in Nat /\ Start(x, h) \in Nat /\ x.ends[h] \in Nat
    BY <1>1, <2>2, Zenon
  <2> HIDE DEF n, sf, sg, ef
  <2> QED  BY <2>3, <2>4
<1> HIDE DEF n, sf, sg, ef, eg
<1>3. p + f = q + g <=> f = g /\ p = q  BY <1>1
<1>4. p = q /\ p < ef /\ q < eg => f = g  BY <1>1
<1>5. p = q /\ p = ef /\ q = eg => f = g
  <2>1. ef = eg => ~(f < g) /\ ~(g < f)  BY <1>1
  <2>2. f < g \/ g < f \/ f = g  BY <1>1
  <2> QED  BY <2>1, <2>2
<1>6. p = q /\ p = ef /\ q # eg => f < g  BY <1>1
<1>7. p = q /\ p = ef /\ q # eg => f # n /\ g = f + 1  BY <1>1, <1>2, <1>6
<1> QED  BY <1>3, <1>4, <1>5, <1>7 DEF Address, n, ef, eg

\* The list of fragments that iterators go over.
LEMMA ListFacts ==
  ASSUME NEW x, Sound(x)
  PROVE  /\ Len(List(x)) = Len(x.ends) - x.get + 1 /\ List(x) # <<>>
         /\ \A k \in Nat \ {0} :
              LET f == x.get + k - 1
              IN  f \in 1 .. Len(x.ends) =>
                    /\ List(x)[k].from = Address(f, Start(x, f))
                    /\ List(x)[k].to = Address(f, x.ends[f])
<1> DEFINE n == Len(x.ends) - x.get + 1
           Frag(k) == LET f == x.get + k - 1
                      IN  [from |-> Address(f, Start(x, f)), to |-> Address(f, x.ends[f])]
<1>1. n \in Nat \ {0} /\ x.get \in Nat /\ Len(x.ends) \in Nat /\ 1 <= x.get
      /\ x.get <= Len(x.ends)
  BY Positions
<1>2. List(x) = [k \in 1 .. n |-> Frag(k)]  BY DEF List, Fragments
<1>3. \A k \in Nat \ {0} : x.get + k - 1 \in 1 .. Len(x.ends) => k \in 1 .. n  BY <1>1
<1>4. \A k \in 1 .. n : /\ Frag(k).from = Address(x.get + k - 1, Start(x, x.get + k - 1))
                        /\ Frag(k).to = Address(x.get + k - 1, x.ends[x.get + k - 1])
  OBVIOUS
<1>5. Len(List(x)) = n /\ List(x) # <<>>
  <2> HIDE DEF n, Frag
  <2>1. Len([k \in 1 .. n |-> Frag(k)]) = n  BY <1>1
  <2>2. [k \in 1 .. n |-> Frag(k)] # <<>>  BY <1>1, <2>1
  <2> QED  BY <1>2, <2>1, <2>2
<1> HIDE DEF Frag
<1>6. \A k \in 1 .. n : List(x)[k] = Frag(k)  BY <1>2
<1> HIDE DEF n
<1> QED  BY <1>3, <1>4, <1>5, <1>6 DEF n

\* The beginning of the next fragment.
LEMMA NextFrom ==
  ASSUME NEW x, Sound(x), NEW i, i.seg \in Nat \ {0}, NEW f \in 1 .. Len(x.ends),
         f = x.get + i.seg - 1, f # Len(x.ends)
  PROVE  Iter!NextVal(List(x), i) = Address(f + 1, x.ends[f])
<1> DEFINE k == i.seg + 1
           g == f + 1
<1>1. k \in Nat \ {0} /\ g \in 1 .. Len(x.ends) /\ x.get + k - 1 = g
  <2>1. /\ i.seg + 1 \in Nat \ {0} /\ x.get + (i.seg + 1) - 1 = x.get + i.seg
        /\ x.get + i.seg - 1 + 1 = x.get + i.seg
    BY SegmentNumber, Zenon
  <2>2. f + 1 \in 1 .. Len(x.ends)  BY NextNumber, Zenon
  <2> QED  BY <2>1, <2>2, Zenon
<1>2. Iter!NextVal(List(x), i) = List(x)[k].from  BY DEF Iter!NextVal
<1>3. Start(x, g) = x.ends[f]  BY <1>1, Positions
<1> HIDE DEF k
<1>4. List(x)[k].from = Address(x.get + k - 1, Start(x, x.get + k - 1))
  <2>1. x.get + k - 1 \in 1 .. Len(x.ends)  BY <1>1
  <2> QED  BY <1>1, <2>1, ListFacts, Zenon
<1> QED  BY <1>1, <1>2, <1>3, <1>4

\* Equal compares the places of two iterators that are both behind the last
\* byte of their fragment, or both not.
LEMMA SameSide ==
  ASSUME NEW x, Sound(x), NEW f \in 1 .. Len(x.ends), NEW g \in 1 .. Len(x.ends),
         NEW p \in Nat, NEW q \in Nat, In(x, f, p), In(x, g, q),
         p = x.ends[f] <=> q = x.ends[g]
  PROVE  Address(f, p) = Address(g, q) <=> p = q
<1>1. p <= x.ends[f] /\ q <= x.ends[g] /\ x.ends[f] \in Nat /\ x.ends[g] \in Nat
  BY Positions DEF In
<1>2. (p < x.ends[f] <=> p # x.ends[f]) /\ (q < x.ends[g] <=> q # x.ends[g])  BY <1>1
<1>3. p = q => f = g  BY <1>2, Places
<1> QED  BY <1>3, Places

\* And takes the one that is behind the last byte to the next fragment else.
LEMMA OtherSide ==
  ASSUME NEW x, Sound(x), NEW f \in 1 .. Len(x.ends), NEW g \in 1 .. Len(x.ends),
         NEW p \in Nat, NEW q \in Nat, In(x, f, p), In(x, g, q),
         p = x.ends[f], q # x.ends[g]
  PROVE  (IF f # Len(x.ends) THEN Address(f + 1, x.ends[f]) ELSE Address(f, p))
           = Address(g, q) <=> p = q
<1>1. CASE f # Len(x.ends)
  <2> DEFINE h == f + 1
  <2>1. h \in 1 .. Len(x.ends)  BY <1>1, NextNumber, Zenon
  <2>2. In(x, h, p)
    <3>1. Start(x, h) = p /\ Start(x, h) < x.ends[h] /\ x.ends[h] \in Nat
      BY <2>1, Positions, Zenon
    <3> HIDE DEF h
    <3> QED  BY <3>1 DEF In
  <2> HIDE DEF h
  <2>3. Address(h, p) = Address(g, q) <=> h = g /\ p = q  BY <2>1, <2>2, Places
  <2>4. p = q => g = f + 1
    <3>1. p = q /\ p = x.ends[f] /\ q # x.ends[g] => f # Len(x.ends) /\ g = f + 1
      BY Places
    <3> QED  BY <3>1
  <2> QED  BY <1>1, <2>3, <2>4 DEF h
<1>2. CASE f = Len(x.ends)
  <2>1. Address(f, p) = Address(g, q) <=> f = g /\ p = q  BY Places
  <2>2. p # q  BY <1>2, Places
  <2> QED  BY <1>2, <2>1, <2>2
<1> QED  BY <1>1, <1>2

\* Iterators are equal if and only if they are at the same byte, in whatever
\* fragment.
LEMMA EqualIterators ==
  ASSUME NEW x, Sound(x), NEW i, NEW j, NEW p, NEW q, Stands(x, i, p), Stands(x, j, q)
  PROVE  Iter!Equal(List(x), i, j) <=> p = q
<1> DEFINE f == x.get + i.seg - 1
           g == x.get + j.seg - 1
           l == List(x)
<1>1. i.seg \in Nat \ {0} /\ f <= x.put /\ j.seg \in Nat \ {0} /\ g <= x.put
  BY DEF Stands
<1>2. /\ p \in Nat /\ In(x, f, p) /\ i.val = Address(f, p) /\ (i.after <=> p = x.ends[f])
      /\ q \in Nat /\ In(x, g, q) /\ j.val = Address(g, q) /\ (j.after <=> q = x.ends[g])
  BY Zenon DEF Stands
<1>3. f \in 1 .. Len(x.ends) /\ g \in 1 .. Len(x.ends)
  <2>1. f \in x.get .. x.put /\ g \in x.get .. x.put
    BY <1>1, SegmentNumber, Zenon
  <2>2. f \in 1 .. Len(x.ends) /\ g \in 1 .. Len(x.ends)
    <3> HIDE DEF f, g
    <3> QED  BY <2>1, FragmentNumber, Zenon
  <2> QED  BY <2>1, <2>2
<1>4. /\ Len(l) = Len(x.ends) - x.get + 1
      /\ \A k \in Nat \ {0} : x.get + k - 1 \in 1 .. Len(x.ends) =>
           l[k].from = Address(x.get + k - 1, Start(x, x.get + k - 1))
  BY ListFacts
<1>5. /\ Iter!IsLastFragment(l, i) <=> f = Len(x.ends)
      /\ Iter!IsLastFragment(l, j) <=> g = Len(x.ends)
  <2>1. /\ (i.seg = Len(x.ends) - x.get + 1) <=> (f = Len(x.ends))
        /\ (j.seg = Len(x.ends) - x.get + 1) <=> (g = Len(x.ends))
    BY <1>1, SegmentNumber, Zenon
  <2> HIDE DEF f, g, l
  <2> QED  BY <1>4, <2>1, Zenon DEF Iter!IsLastFragment
<1>6. /\ f # Len(x.ends) => Iter!NextVal(l, i) = Address(f + 1, x.ends[f])
      /\ g # Len(x.ends) => Iter!NextVal(l, j) = Address(g + 1, x.ends[g])
  BY <1>1, <1>3, NextFrom
<1> HIDE DEF f, g, l
<1>7. CASE i.after <=> j.after
  <2>1. Iter!Equal(l, i, j) <=> i.val = j.val  BY <1>7 DEF Iter!Equal
  <2>2. p = x.ends[f] <=> q = x.ends[g]  BY <1>2, <1>7
  <2>3. Address(f, p) = Address(g, q) <=> p = q  BY <1>2, <1>3, <2>2, SameSide
  <2>4. i.val = j.val <=> Address(f, p) = Address(g, q)  BY <1>2
  <2> QED  BY <2>1, <2>3, <2>4, Zenon DEF l
<1>8. CASE i.after /\ ~j.after
  <2>1. Iter!Equal(l, i, j) <=>
          (IF f # Len(x.ends) THEN Address(f + 1, x.ends[f]) ELSE i.val) = j.val
    BY <1>5, <1>6, <1>8 DEF Iter!Equal
  <2>2. p = x.ends[f] /\ q # x.ends[g]  BY <1>2, <1>8
  <2>3. (IF f # Len(x.ends) THEN Address(f + 1, x.ends[f]) ELSE Address(f, p))
          = Address(g, q) <=> p = q
    BY <1>2, <1>3, <2>2, OtherSide
  <2>4. (IF f # Len(x.ends) THEN Address(f + 1, x.ends[f]) ELSE i.val) = j.val
          <=> (IF f # Len(x.ends) THEN Address(f + 1, x.ends[f]) ELSE Address(f, p))
                = Address(g, q)
    BY <1>2
  <2> QED  BY <2>1, <2>3, <2>4, Zenon DEF l
<1>9. CASE ~i.after /\ j.after
  <2>1. Iter!Equal(l, i, j) <=>
          i.val = (IF g # Len(x.ends) THEN Address(g + 1, x.ends[g]) ELSE j.val)
    BY <1>5, <1>6, <1>9 DEF Iter!Equal
  <2>2. q = x.ends[g] /\ p # x.ends[f]  BY <1>2, <1>9
  <2>3. (IF g # Len(x.ends) THEN Address(g + 1, x.ends[g]) ELSE Address(g, q))
          = Address(f, p) <=> q = p
    BY <1>2, <1>3, <2>2, OtherSide
  <2>4. i.val = (IF g # Len(x.ends) THEN Address(g + 1, x.ends[g]) ELSE j.val)
          <=> (IF g # Len(x.ends) THEN Address(g + 1, x.ends[g]) ELSE Address(g, q))
                = Address(f, p)
    BY <1>2
  <2>5. q = p <=> p = q  OBVIOUS
  <2> QED  BY <2>1, <2>3, <2>4, <2>5, Zenon DEF l
<1> QED  BY <1>7, <1>8, <1>9 DEF l

\* The constructor.
LEMMA AtStands ==
  ASSUME NEW x, Sound(x), NEW f \in x.get .. x.put, NEW p \in Nat, In(x, f, p),
         p <= x.pptr, NEW k, k = f - x.get + 1
  PROVE  Stands(x, Iter!At(List(x), k, Address(f, p)), p)
<1>1. /\ f \in 1 .. Len(x.ends) /\ f \in Nat /\ f <= x.put /\ k \in Nat \ {0}
      /\ x.get + k - 1 = f
  BY FragmentNumber, Zenon
<1>2. List(x) # <<>> /\ List(x)[k].to = Address(f, x.ends[f])
  <2>1. x.get + k - 1 \in 1 .. Len(x.ends)  BY <1>1
  <2>2. List(x)[k].to = Address(x.get + k - 1, x.ends[x.get + k - 1])
    BY <1>1, <2>1, ListFacts, Zenon
  <2> QED  BY <1>1, <2>2, ListFacts
<1>3. x.ends[f] \in Nat  BY <1>1, Positions
<1>4. Address(f, p) \in Nat /\ (Address(f, p) = Address(f, x.ends[f]) <=> p = x.ends[f])
  BY <1>1, <1>3 DEF Address
<1>5. Iter!At(List(x), k, Address(f, p))
        = [seg |-> k, val |-> Address(f, p), after |-> Address(f, p) = Address(f, x.ends[f])]
  BY <1>2 DEF Iter!At
<1> DEFINE i == Iter!At(List(x), k, Address(f, p))
<1>6. /\ i \in [seg : Nat \ {0}, val : Nat, after : BOOLEAN]
      /\ i.seg = k /\ i.val = Address(f, p) /\ (i.after <=> p = x.ends[f])
  <2> DEFINE a == Address(f, p) = Address(f, x.ends[f])
  <2>1. a \in BOOLEAN /\ (a <=> p = x.ends[f])  BY <1>4
  <2>2. i = [seg |-> k, val |-> Address(f, p), after |-> a]  BY <1>5
  <2> HIDE DEF a, i
  <2>3. i.after = a  BY <2>2
  <2>4. i.after <=> p = x.ends[f]  BY <2>1, <2>3
  <2> QED  BY <1>1, <1>4, <2>1, <2>2, <2>4
<1> HIDE DEF i
<1>7. x.get + i.seg - 1 = f  BY <1>1, <1>6
<1>8. Stands(x, i, p)  BY <1>1, <1>6, <1>7 DEF Stands
<1> QED  BY <1>8 DEF i

LEMMA BeginStands == ASSUME NEW x, Sound(x) PROVE Stands(x, Begin(x), x.gptr)
<1>1. /\ x.gptr \in Nat /\ x.gptr <= x.pptr /\ In(x, x.get, x.gptr)
      /\ x.get \in x.get .. x.put /\ 1 = x.get - x.get + 1
  <2>1. /\ Start(x, x.get) <= x.eback /\ x.eback <= x.gptr /\ x.gptr <= x.egptr
        /\ x.egptr <= x.ends[x.get] /\ x.egptr <= x.pbase /\ x.pbase <= x.pptr
    BY Zenon DEF Sound, Ordered
  <2>2. Start(x, x.get) \in Nat /\ x.ends[x.get] \in Nat
    <3>1. x.get \in 1 .. Len(x.ends)  BY Counts
    <3> QED  BY <3>1, Positions
  <2>3. /\ x.eback \in Nat /\ x.gptr \in Nat /\ x.egptr \in Nat /\ x.pbase \in Nat
        /\ x.pptr \in Nat
    BY SoundRaw, Zenon
  <2>4. x.get \in x.get .. x.put  BY Counts
  <2>5. 1 = x.get - x.get + 1  BY Counts
  <2>6. x.gptr <= x.pptr /\ In(x, x.get, x.gptr)  BY <2>1, <2>2, <2>3 DEF In
  <2> QED  BY <2>3, <2>4, <2>5, <2>6
<1> QED  BY <1>1, AtStands, Zenon DEF Begin

LEMMA EndStands == ASSUME NEW x, Sound(x) PROVE Stands(x, End(x), x.pptr)
<1>1. /\ x.pptr \in Nat /\ x.pptr <= x.pptr /\ In(x, x.put, x.pptr)
      /\ x.put \in x.get .. x.put
  <2>1. Start(x, x.put) <= x.pbase /\ x.pbase <= x.pptr /\ x.pptr <= x.ends[x.put]
    BY Zenon DEF Sound, Ordered
  <2>2. x.pbase \in Nat /\ x.pptr \in Nat  BY SoundRaw, Zenon
  <2> QED  BY <2>1, <2>2, Positions DEF In
<1> QED  BY <1>1, AtStands, Zenon DEF End
-----------------------------------------------------------------------------
(* The byte that an iterator reads. *)

\* The fragment that has byte p, seen from an iterator there.
Reading(x, i) == IF i.after THEN x.get + i.seg ELSE x.get + i.seg - 1

Has(x, h, p) == Start(x, h) <= p /\ p < x.ends[h]

\* It is one that can be read.
LEMMA ReadingHas ==
  ASSUME NEW x, Sound(x), NEW i, NEW p, Stands(x, i, p), p < x.pptr
  PROVE  Reading(x, i) \in x.get .. x.put /\ Has(x, Reading(x, i), p)
<1> DEFINE f == x.get + i.seg - 1
           h == f + 1
<1>1. /\ i.seg \in Nat \ {0} /\ p \in Nat /\ In(x, f, p) /\ f <= x.put
      /\ (i.after <=> p = x.ends[f])
  BY DEF Stands
<1>2. f \in 1 .. Len(x.ends) /\ f \in x.get .. x.put /\ h = x.get + i.seg
  <2>1. f \in x.get .. x.put  BY <1>1, SegmentNumber, Zenon
  <2>2. h = x.get + i.seg
    <3>1. x.get \in Nat /\ i.seg \in Nat  BY <1>1, Counts
    <3> QED  BY <3>1
  <2> HIDE DEF f, h
  <2> QED  BY <2>1, <2>2, FragmentNumber, Zenon
<1>3. x.pptr \in Nat /\ x.pptr <= x.ends[x.put] /\ x.ends[x.put] \in Nat
  BY SoundRaw, SoundFacts, Zenon
<1>4. CASE i.after
  <2>1. f # x.put  BY <1>1, <1>3, <1>4
  <2>2. h \in x.get .. x.put /\ h \in 1 .. Len(x.ends)
    <3>1. x.get \in Nat /\ x.put \in Nat  BY Counts, Zenon
    <3>2. f + 1 \in x.get .. x.put
      <4> HIDE DEF f
      <4> QED  BY <1>2, <2>1, <3>1
    <3> QED  BY <3>2, FragmentNumber, Zenon
  <2>3. Start(x, h) = x.ends[f] /\ Start(x, h) < x.ends[h]  BY <1>2, <2>2, Positions, Zenon
  <2>4. Reading(x, i) = h  BY <1>2, <1>4 DEF Reading
  <2> HIDE DEF h
  <2> QED  BY <1>1, <1>4, <2>2, <2>3, <2>4 DEF Has
<1>5. CASE ~i.after
  <2>1. p # x.ends[f] /\ x.ends[f] \in Nat  BY <1>1, <1>2, <1>5, Positions
  <2>2. Reading(x, i) = f  BY <1>5 DEF Reading
  <2> HIDE DEF f
  <2> QED  BY <1>1, <1>2, <2>1, <2>2 DEF Has, In
<1> QED  BY <1>4, <1>5

\* And there is no other.
LEMMA OneHas ==
  ASSUME NEW x, Sound(x), NEW g \in x.get .. x.put, NEW h \in x.get .. x.put, NEW p \in Nat,
         Has(x, g, p), Has(x, h, p)
  PROVE  g = h
<1>1. g \in 1 .. Len(x.ends) /\ h \in 1 .. Len(x.ends)  BY Counts
<1>2. x.ends[g] \in Nat /\ x.ends[h] \in Nat  BY <1>1, Positions
<1>3. In(x, g, p) /\ In(x, h, p)  BY <1>2 DEF Has, In
<1> QED  BY <1>1, <1>3, Places DEF Has

\* Where Dereference points, is byte p.
LEMMA DereferenceIsExact ==
  ASSUME NEW x, Sound(x), NEW i, NEW p, Stands(x, i, p), p < x.pptr
  PROVE  Iter!Dereference(List(x), i)
           = Address(CHOOSE g \in x.get .. x.put : Start(x, g) <= p /\ p < x.ends[g], p)
<1> DEFINE f == x.get + i.seg - 1
           h == Reading(x, i)
           c == CHOOSE g \in x.get .. x.put : Has(x, g, p)
<1>1. /\ i.seg \in Nat \ {0} /\ p \in Nat /\ f <= x.put /\ i.val = Address(f, p)
      /\ (i.after <=> p = x.ends[f])
  BY DEF Stands
<1>2. h \in x.get .. x.put /\ Has(x, h, p)  BY ReadingHas, Zenon
<1>3. c = h
  <2> HIDE DEF h
  <2>1. c \in x.get .. x.put /\ Has(x, c, p)  BY <1>2, Zenon
  <2> HIDE DEF c
  <2> QED  BY <1>1, <1>2, <2>1, OneHas
<1>4. Iter!Dereference(List(x), i) = Address(h, p)
  <2>1. CASE i.after
    <3>1. h = f + 1 /\ f \in x.get .. x.put
      <4>1. h = x.get + i.seg  BY <2>1 DEF Reading
      <4>2. f \in x.get .. x.put  BY <1>1, SegmentNumber, Zenon
      <4>3. x.get \in Nat /\ i.seg \in Nat  BY <1>1, Counts
      <4>4. x.get + i.seg = f + 1  BY <4>3
      <4> QED  BY <4>1, <4>2, <4>4, Zenon
    <3>2. f \in 1 .. Len(x.ends) /\ f # Len(x.ends)
      <4>1. x.put \in Nat /\ x.get \in Nat /\ Len(x.ends) \in Nat /\ x.put <= Len(x.ends)
        BY Counts, Zenon
      <4> HIDE DEF f, h
      <4>2. f \in 1 .. Len(x.ends)  BY <3>1, FragmentNumber, Zenon
      <4>3. f # Len(x.ends)  BY <1>2, <3>1, <4>1
      <4> QED  BY <4>2, <4>3
    <3>3. Iter!NextVal(List(x), i) = Address(f + 1, x.ends[f])
      <4>1. i.seg \in Nat \ {0} /\ f = x.get + i.seg - 1  BY <1>1
      <4> HIDE DEF f
      <4> QED  BY <3>2, <4>1, NextFrom
    <3> QED  BY <1>1, <2>1, <3>1, <3>3 DEF Iter!Dereference
  <2>2. CASE ~i.after
    BY <1>1, <2>2 DEF Iter!Dereference, Reading
  <2> QED  BY <2>1, <2>2
<1>5. c = CHOOSE g \in x.get .. x.put : Start(x, g) <= p /\ p < x.ends[g]
  BY DEF Has
<1> QED  BY <1>3, <1>4, <1>5

\* An iterator that is not at the end goes to the next byte, in whatever
\* fragment.
LEMMA IncrementStands ==
  ASSUME NEW x, Sound(x), Room(x), NEW i, NEW p, Stands(x, i, p), p < x.pptr
  PROVE  Stands(x, Iter!Increment(List(x), i), p + 1)
<1> DEFINE h == Reading(x, i)
           k == h - x.get + 1
           l == List(x)
           s == IF i.after THEN Iter!FirstOf(l, i.seg + 1) ELSE i
           v == Address(h, p + 1)
<1>1. /\ i \in [seg : Nat \ {0}, val : Nat, after : BOOLEAN]
      /\ i.seg \in Nat \ {0} /\ p \in Nat
      /\ i.val = Address(x.get + i.seg - 1, p) /\ (i.after <=> p = x.ends[x.get + i.seg - 1])
      /\ x.get + i.seg - 1 <= x.put
  BY DEF Stands
<1>2. h \in x.get .. x.put /\ Start(x, h) <= p /\ p < x.ends[h]
  BY ReadingHas DEF Has
<1>3. /\ h \in 1 .. Len(x.ends) /\ h \in Nat /\ k \in Nat \ {0} /\ x.get + k - 1 = h
      /\ h <= x.put /\ x.ends[h] \in Nat /\ Start(x, h) \in Nat
      /\ x.put \in Nat /\ x.get \in Nat /\ Len(x.ends) \in Nat /\ x.put <= Len(x.ends)
  <2> HIDE DEF h
  <2>1. /\ h \in 1 .. Len(x.ends) /\ h \in Nat /\ k \in Nat \ {0} /\ x.get + k - 1 = h
        /\ h <= x.put
    BY <1>2, FragmentNumber, Zenon
  <2>2. x.ends[h] \in Nat /\ Start(x, h) \in Nat  BY <2>1, Positions, Zenon
  <2> HIDE DEF k
  <2> QED  BY <2>1, <2>2, Counts, Zenon
<1>4. x.pptr \in Nat /\ x.pptr <= x.ends[x.put]
  BY SoundRaw, SoundFacts, Zenon
<1>5. Len(l) = Len(x.ends) - x.get + 1
      /\ \A m \in Nat \ {0} : x.get + m - 1 \in 1 .. Len(x.ends) =>
           /\ l[m].from = Address(x.get + m - 1, Start(x, x.get + m - 1))
           /\ l[m].to = Address(x.get + m - 1, x.ends[x.get + m - 1])
  BY ListFacts
<1> HIDE DEF l
<1>6. s = [seg |-> k, val |-> Address(h, p), after |-> FALSE]
  <2>1. CASE i.after
    <3> DEFINE f == x.get + i.seg - 1
               m == i.seg + 1
    <3>1. h = f + 1 /\ k = m /\ m \in Nat \ {0} /\ x.get + m - 1 = h
      <4>1. h = x.get + i.seg  BY <2>1 DEF Reading
      <4>2. m \in Nat \ {0} /\ x.get + m - 1 = x.get + i.seg /\ x.get + i.seg = f + 1
        <5>1. i.seg \in Nat /\ x.get \in Nat  BY <1>1, Counts
        <5> QED  BY <5>1
      <4>3. k = m
        <5>1. i.seg \in Nat /\ x.get \in Nat  BY <1>1, Counts
        <5> QED  BY <4>1, <5>1
      <4> HIDE DEF f, h, k, m
      <4> QED  BY <4>1, <4>2, <4>3, Zenon
    <3>2. f \in 1 .. Len(x.ends)
      <4>1. f \in x.get .. x.put  BY <1>1, SegmentNumber, Zenon
      <4> HIDE DEF f
      <4> QED  BY <4>1, FragmentNumber, Zenon
    <3>3. Start(x, h) = p
      <4> HIDE DEF f, h
      <4>1. Start(x, h) = x.ends[f]  BY <1>3, <3>1, <3>2, Positions, Zenon
      <4>2. x.ends[f] = p  BY <1>1, <2>1 DEF f
      <4> QED  BY <4>1, <4>2
    <3> HIDE DEF h, m
    <3>4. l[m].from = Address(h, p)
      <4>1. x.get + m - 1 \in 1 .. Len(x.ends)  BY <1>3, <3>1
      <4>2. l[m].from = Address(x.get + m - 1, Start(x, x.get + m - 1))
        BY <1>5, <3>1, <4>1, Zenon
      <4> QED  BY <3>1, <3>3, <4>2
    <3>5. s = [seg |-> m, val |-> l[m].from, after |-> FALSE]
      BY <2>1 DEF Iter!FirstOf, m
    <3>6. k = m  BY <3>1, Zenon
    <3> HIDE DEF k, s
    <3> QED  BY <3>4, <3>5, <3>6
  <2>2. CASE ~i.after
    <3>1. h = x.get + i.seg - 1 /\ k = i.seg
      <4>1. h = x.get + i.seg - 1  BY <2>2 DEF Reading
      <4>2. i.seg \in Nat /\ x.get \in Nat  BY <1>1, Counts
      <4> HIDE DEF h
      <4> QED  BY <4>1, <4>2
    <3> HIDE DEF h, k
    <3> QED  BY <1>1, <2>2, <3>1
  <2> QED  BY <2>1, <2>2
<1>7. /\ s \in [seg : Nat \ {0}, val : Nat, after : BOOLEAN] /\ s.after = FALSE
      /\ s.seg = k /\ s.val + 1 = v /\ v \in Nat
  <2> HIDE DEF h, k, s
  <2>1. h \in Nat /\ p \in Nat  BY <1>1, <1>3
  <2>2. Address(h, p) + 1 = v /\ v \in Nat  BY <2>1 DEF Address
  <2> HIDE DEF v
  <2>3. s.seg = k /\ s.val = Address(h, p)  BY <1>6
  <2>4. s \in [seg : Nat \ {0}, val : Nat, after : BOOLEAN] /\ s.after = FALSE
    BY <1>3, <1>6, <2>1 DEF Address
  <2> QED  BY <2>2, <2>3, <2>4
<1>8. l[k].to = Address(h, x.ends[h]) /\ (v # l[k].to <=> p + 1 # x.ends[h])
  <2> HIDE DEF h, k
  <2>1. x.get + k - 1 \in 1 .. Len(x.ends)  BY <1>3
  <2>2. l[k].to = Address(x.get + k - 1, x.ends[x.get + k - 1])  BY <1>3, <1>5, <2>1, Zenon
  <2>3. l[k].to = Address(h, x.ends[h])  BY <1>3, <2>2
  <2>4. h \in Nat /\ p \in Nat /\ x.ends[h] \in Nat  BY <1>1, <1>3
  <2> QED  BY <2>3, <2>4 DEF Address
<1>9. Iter!IsLastFragment(l, s) <=> h = Len(x.ends)
  <2> HIDE DEF h, k, s
  <2>1. (k = Len(x.ends) - x.get + 1) <=> (h = Len(x.ends))  BY <1>3, SegmentNumber, Zenon
  <2> QED  BY <1>5, <1>7, <2>1, Zenon DEF Iter!IsLastFragment
<1>10. Iter!Increment(l, i)
         = IF p + 1 # x.ends[h] THEN [s EXCEPT !.val = v]
           ELSE IF h = Len(x.ends) THEN [s EXCEPT !.val = v, !.after = TRUE]
           ELSE Iter!FirstOf(l, k + 1)
  <2>1. Iter!Increment(l, i)
          = IF s.val + 1 # l[s.seg].to THEN [s EXCEPT !.val = s.val + 1]
            ELSE IF Iter!IsLastFragment(l, s) THEN [s EXCEPT !.val = s.val + 1, !.after = TRUE]
            ELSE Iter!FirstOf(l, s.seg + 1)
    BY DEF Iter!Increment
  <2> HIDE DEF h, k, s, v
  <2> QED  BY <1>7, <1>8, <1>9, <2>1
<1>11. p + 1 \in Nat /\ p + 1 <= x.pptr /\ In(x, h, p + 1)
  <2> HIDE DEF h
  <2>1. p \in Nat /\ Start(x, h) \in Nat /\ x.ends[h] \in Nat  BY <1>1, <1>3
  <2> QED  BY <1>2, <1>4, <2>1 DEF In
<1> HIDE DEF h, k, s, v
<1>12. CASE p + 1 # x.ends[h] \/ h = Len(x.ends)
  <2> DEFINE j == Iter!Increment(l, i)
  <2>1. /\ j \in [seg : Nat \ {0}, val : Nat, after : BOOLEAN]
        /\ j.seg = k /\ j.val = v /\ (j.after <=> p + 1 = x.ends[h])
    <3>1. CASE p + 1 # x.ends[h]
      <4>1. j = [s EXCEPT !.val = v]  BY <1>10, <3>1
      <4> HIDE DEF j
      <4>2. j.after = FALSE  BY <1>7, <4>1
      <4> QED  BY <1>7, <3>1, <4>1, <4>2
    <3>2. CASE p + 1 = x.ends[h] /\ h = Len(x.ends)
      <4>1. j = [s EXCEPT !.val = v, !.after = TRUE]  BY <1>10, <3>2
      <4> HIDE DEF j
      <4>2. j.after = TRUE  BY <1>7, <4>1
      <4> QED  BY <1>7, <3>2, <4>1, <4>2
    <3> QED  BY <1>12, <3>1, <3>2
  <2> HIDE DEF j
  <2>2. x.get + j.seg - 1 = h  BY <1>3, <2>1
  <2>3. Stands(x, j, p + 1)  BY <1>3, <1>11, <2>1, <2>2 DEF Stands, v
  <2> QED  BY <2>3 DEF j, l
<1>13. CASE p + 1 = x.ends[h] /\ h # Len(x.ends)
  <2> DEFINE g == h + 1
             m == k + 1
  <2>1. h # x.put  BY <1>3, <1>4, <1>11, <1>13 DEF Room
  <2>2. /\ g \in 1 .. Len(x.ends) /\ g <= x.put /\ m \in Nat \ {0} /\ x.get + m - 1 = g
        /\ g \in Nat
    <3>1. /\ k + 1 \in Nat \ {0} /\ x.get + (k + 1) - 1 = x.get + k
          /\ x.get + k - 1 + 1 = x.get + k
      BY <1>3
    <3>2. m \in Nat \ {0} /\ x.get + m - 1 = g  BY <1>3, <3>1, Zenon
    <3>3. h \in Nat /\ x.put \in Nat /\ Len(x.ends) \in Nat /\ h <= x.put
          /\ x.put <= Len(x.ends)
      BY <1>3, Zenon
    <3>4. g <= x.put /\ g \in Nat  BY <2>1, <3>3
    <3>5. g \in 1 .. Len(x.ends)  BY <3>3, <3>4
    <3> QED  BY <3>2, <3>4, <3>5, Zenon
  <2>3. Start(x, g) = p + 1 /\ Start(x, g) < x.ends[g] /\ x.ends[g] \in Nat
    BY <1>3, <1>13, <2>2, Positions, Zenon
  <2>4. Iter!Increment(l, i) = [seg |-> m, val |-> l[m].from, after |-> FALSE]
    BY <1>10, <1>13 DEF Iter!FirstOf
  <2> HIDE DEF g, m
  <2>5. l[m].from = Address(g, p + 1)
    <3>1. x.get + m - 1 \in 1 .. Len(x.ends)  BY <2>2
    <3>2. l[m].from = Address(x.get + m - 1, Start(x, x.get + m - 1))
      BY <1>5, <2>2, <3>1, Zenon
    <3> QED  BY <2>2, <2>3, <3>2
  <2>6. In(x, g, p + 1) /\ p + 1 # x.ends[g] /\ Address(g, p + 1) \in Nat
    BY <1>11, <2>2, <2>3 DEF In, Address
  <2> DEFINE j == Iter!Increment(l, i)
  <2>7. /\ j \in [seg : Nat \ {0}, val : Nat, after : BOOLEAN]
        /\ j.seg = m /\ j.val = Address(g, p + 1) /\ (j.after <=> p + 1 = x.ends[g])
    BY <2>2, <2>4, <2>5, <2>6
  <2> HIDE DEF j
  <2>8. x.get + j.seg - 1 = g  BY <2>2, <2>7
  <2>9. Stands(x, j, p + 1)  BY <1>11, <2>2, <2>6, <2>7, <2>8 DEF Stands
  <2> QED  BY <2>9 DEF j, l
<1> QED  BY <1>12, <1>13
-----------------------------------------------------------------------------
(* Steps. *)

\* An iterator keeps its place when fragments and bytes come behind it.
LEMMA StandsStill ==
  ASSUME NEW x, Sound(x), NEW y, Sound(y), Prolongs(y, x), y.get = x.get,
         y.put >= x.put, y.pptr >= x.pptr, NEW i, NEW p, Stands(x, i, p)
  PROVE  Stands(y, i, p)
<1> DEFINE f == x.get + i.seg - 1
<1>1. i \in [seg : Nat \ {0}, val : Nat, after : BOOLEAN] /\ i.seg \in Nat \ {0}
      /\ f <= x.put /\ p \in Nat /\ p <= x.pptr
  BY DEF Stands
<1>2. In(x, f, p) /\ i.val = Address(f, p) /\ (i.after <=> p = x.ends[f])
  BY Zenon DEF Stands
<1>3. f \in 1 .. Len(x.ends)  BY <1>1, Counts
<1>4. y.get + i.seg - 1 = f  OBVIOUS
<1>5. f <= y.put /\ p <= y.pptr
  <2>1. x.put \in Nat /\ y.put \in Nat /\ x.pptr \in Nat /\ y.pptr \in Nat /\ f \in Nat
    BY <1>3, SoundRaw
  <2> HIDE DEF f
  <2> QED  BY <1>1, <2>1
<1> HIDE DEF f
<1>6. y.ends[f] = x.ends[f]  BY <1>3, Zenon DEF Prolongs
<1>7. Start(y, f) = Start(x, f)
  <2>1. CASE f = 1  BY <2>1 DEF Start
  <2>2. CASE f # 1
    <3> DEFINE g == f - 1
    <3>1. g \in 1 .. Len(x.ends)  BY <1>3, <2>2, Counts
    <3>2. Start(y, f) = y.ends[g] /\ Start(x, f) = x.ends[g]  BY <2>2 DEF Start
    <3> HIDE DEF g
    <3> QED  BY <3>1, <3>2, Zenon DEF Prolongs
  <2> QED  BY <2>1, <2>2
<1> QED  BY <1>1, <1>2, <1>4, <1>5, <1>6, <1>7, Zenon DEF Stands, In

\* Buffers that differ in the get area only.
LEMMA RoomSame ==
  ASSUME NEW x, NEW y, Room(x), y.ends = x.ends, y.put = x.put, y.pptr = x.pptr
  PROVE  Room(y)
  BY Zenon DEF Room

\* promote_put_if_exist leaves room, if there can be.
LEMMA PromotedHasRoom ==
  ASSUME NEW x, Sound(x)
  PROVE  /\ Room(PromotePutIfExist(x)) /\ PromotePutIfExist(x).get = x.get
         /\ PromotePutIfExist(x).put >= x.put
<1>1. x.put \in Nat /\ x.pptr \in Nat /\ x.ends[x.put] \in Nat /\ x.pptr <= x.ends[x.put]
  BY SoundRaw, SoundFacts, Zenon
<1>2. CASE Epptr(x) > x.pptr \/ x.put = Len(x.ends)
  <2>1. PromotePutIfExist(x) = x  BY <1>2 DEF PromotePutIfExist
  <2> QED  BY <1>1, <1>2, <2>1 DEF Room, Epptr
<1>3. CASE ~(Epptr(x) > x.pptr \/ x.put = Len(x.ends))
  <2> DEFINE r == Reserve(x, 1)
             y == PromotePut(x)
  <2>1. PromotePutIfExist(x) = y  BY <1>3 DEF PromotePutIfExist
  <2>2. x.pptr = x.ends[x.put]  BY <1>1, <1>3 DEF Epptr
  <2>3. y.get = x.get /\ y.pptr < y.ends[y.put]  BY <2>2, PromotePutSound, Zenon
  <2>4. r.put = x.put /\ r \in Raw
    <3>1. 1 \in Nat  OBVIOUS
    <3> QED  BY <3>1, ReserveSound, SoundRaw, Zenon
  <2>5. y = MovePut(r, r.put + 1, r.ends[r.put], r.ends[r.put])  BY DEF PromotePut
  <2> HIDE DEF r, y
  <2>6. y.put = r.put + 1  BY <2>4, <2>5 DEF MovePut, Raw
  <2> QED  BY <1>1, <2>1, <2>3, <2>4, <2>6 DEF Room
<1> QED  BY <1>2, <1>3

\* And so does commit.
LEMMA CommitHasRoom ==
  ASSUME NEW x, Sound(x), NEW n \in Nat, NEW y \in CommitTo(x, n)
  PROVE  Room(y) /\ y.get = x.get /\ y.put >= x.put
<1> DEFINE t == x.pptr + n
<1>1. /\ x.ends \in Seq(Nat) /\ x.put \in Nat /\ x.pptr \in Nat /\ x \in Raw
      /\ x.put \in 1 .. Len(x.ends) /\ x.ends[x.put] \in Nat /\ x.pptr <= x.ends[x.put]
  BY SoundRaw, SoundFacts, Zenon
<1>2. ASSUME NEW z, Sound(z), z.get = x.get, z.put \in Nat, z.put >= x.put,
             y = PromotePutIfExist(z)
      PROVE  Room(y) /\ y.get = x.get /\ y.put >= x.put
  <2>1. /\ Room(PromotePutIfExist(z)) /\ PromotePutIfExist(z).get = z.get
        /\ PromotePutIfExist(z).put >= z.put
    BY <1>2, PromotedHasRoom, Zenon
  <2>2. Sound(PromotePutIfExist(z))  BY <1>2, PromotePutIfExistSound, Zenon
  <2>3. y.put \in Nat  BY <1>2, <2>2, SoundRaw, Zenon
  <2> QED  BY <1>1, <1>2, <2>1, <2>3
<1>3. CASE n <= Epptr(x) - x.pptr
  <2> DEFINE z == [x EXCEPT !.pptr = t]
  <2>1. t \in Nat /\ x.pptr <= t /\ t <= x.ends[x.put]
    <3>1. x.pptr \in Nat /\ x.ends[x.put] \in Nat /\ n <= x.ends[x.put] - x.pptr
      BY <1>1, <1>3, Zenon DEF Epptr
    <3> QED  BY <3>1
  <2>2. y = PromotePutIfExist(z)  BY <1>3 DEF CommitTo
  <2> HIDE DEF t
  <2>3. z.put = x.put  BY <1>1 DEF Raw
  <2>4. Sound(z) /\ z.get = x.get  BY <2>1, AdvancePutSound, Zenon
  <2> HIDE DEF z
  <2>5. z.put \in Nat /\ z.put >= x.put  BY <1>1, <2>3
  <2> QED  BY <1>2, <2>2, <2>4, <2>5, Zenon
<1>4. CASE ~(n <= Epptr(x) - x.pptr)
  <2>1. t \in Nat /\ x.pptr <= t /\ x.ends[x.put] <= t
    <3>1. /\ x.pptr \in Nat /\ x.ends[x.put] \in Nat /\ ~(n <= x.ends[x.put] - x.pptr)
          /\ x.pptr <= x.ends[x.put]
      BY <1>1, <1>4, Zenon DEF Epptr
    <3> QED  BY <3>1
  <2>2. PICK f \in Landing(x.ends, x.put + 1, t) : y = PromotePutIfExist(MovePut(x, f, t, t))
    BY <1>4, Zenon DEF CommitTo
  <2> HIDE DEF t
  <2> DEFINE z == MovePut(x, f, t, t)
  <2>3. /\ f \in x.put + 1 .. Len(x.ends) /\ f \in Nat /\ t <= x.ends[f]
        /\ f > x.put + 1 => x.ends[f - 1] < t
    <3>1. x.put + 1 \in Nat  BY <1>1
    <3> QED  BY <1>1, <2>1, <2>2, <3>1, LandingFacts, Zenon
  <2>4. x.ends[f - 1] <= t
    <3>1. CASE f = x.put + 1
      <4>1. f - 1 = x.put  BY <1>1, <3>1
      <4> QED  BY <2>1, <4>1
    <3>2. CASE f # x.put + 1
      <4>1. f - 1 \in 1 .. Len(x.ends) /\ f > x.put + 1  BY <1>1, <2>3, <3>2
      <4>2. x.ends[f - 1] \in Nat /\ x.ends[f - 1] < t
        BY <1>1, <2>3, <4>1, EndTyped, Zenon
      <4> QED  BY <2>1, <4>2
    <3> QED  BY <3>1, <3>2
  <2>5. t <= t  BY <2>1
  <2>6. Sound(z)  BY <2>1, <2>3, <2>4, <2>5, MovePutSound, Zenon
  <2>7. z.put = f /\ z.get = x.get  BY <1>1 DEF MovePut, Raw
  <2> HIDE DEF z
  <2>8. z.put \in Nat /\ z.put >= x.put  BY <1>1, <2>3, <2>7
  <2> QED  BY <1>2, <2>2, <2>6, <2>7, <2>8, Zenon DEF z
<1> QED  BY <1>3, <1>4

\* Reading and detaching leave the put pointer where it is.
LEMMA UnderflowStays == ASSUME NEW x, Sound(x) PROVE DoUnderflow(x).put = x.put
<1>1. x \in Raw  BY SoundRaw, Zenon
<1> QED  BY <1>1 DEF DoUnderflow, PopFront, ExtendGetArea, CompactPutArea, MoveGet, Raw

LEMMA UnderflowRoom ==
  ASSUME NEW x, Sound(x), Room(x) PROVE Room(DoUnderflow(x))
<1>1. /\ DoUnderflow(x).put = x.put /\ DoUnderflow(x).ends = x.ends
      /\ DoUnderflow(x).pptr = x.pptr
  BY UnderflowStays, DoUnderflowGrows, DoUnderflowSound, Zenon
<1> QED  BY <1>1, RoomSame, Zenon

LEMMA DetachStays == ASSUME NEW x, Sound(x), NEW f, NEW t PROVE DetachAt(x, f, t).put = x.put
<1>1. x \in Raw  BY SoundRaw, Zenon
<1> QED  BY <1>1 DEF DetachAt, CompactPutArea, MoveGet, Raw

\* The ghosts stay exact.
LEMMA GhostsKept == IInv /\ NoByteLost /\ Kept /\ HighBytes = {} => IInv' /\ NoByteLost'
<1> SUFFICES ASSUME IInv, NoByteLost, Kept, HighBytes = {} PROVE IInv' /\ NoByteLost'
  OBVIOUS
<1>1. IInv' /\ Moved  BY Zenon DEF Kept
<1>2. b'.pptr = given + (given' - given) /\ b'.gptr = taken + (taken' - taken)
  BY <1>1, Zenon DEF Moved, NoByteLost
<1>3. given \in Nat /\ given' \in Nat /\ taken \in Nat /\ taken' \in Nat
  BY <1>1, Zenon DEF IInv
<1>4. given + (given' - given) = given' /\ taken + (taken' - taken) = taken'
  BY <1>3, GhostArithmetic, Zenon
<1> QED  BY <1>1, <1>2, <1>4, Zenon DEF NoByteLost

\* A read adds fragments and bytes behind all iterators.
LEMMA ReadKeeps ==
  ASSUME HighBytes = {}, NEW n \in Nat
  PROVE  IInv /\ NoByteLost /\ HandlerRead(n)
         => /\ IInv' /\ NoByteLost' /\ Room(b')
            /\ \A i, p : Stands(b, i, p) => Stands(b', i, p)
<1> DEFINE r == Reserve(b, ReadSize)
<1> SUFFICES ASSUME IInv, NoByteLost, HandlerRead(n)
             PROVE  /\ IInv' /\ NoByteLost' /\ Room(b')
                    /\ \A i, p : Stands(b, i, p) => Stands(b', i, p)
  OBVIOUS
<1>1. Kept  BY HandlerReadKept, Zenon
<1>2. IInv' /\ NoByteLost'  BY <1>1, GhostsKept, Zenon
<1>3. Sound(b) /\ Sound(b') /\ Prolongs(b', b) /\ b'.pptr >= b.pptr
  BY <1>1, <1>2, Zenon DEF IInv, Kept, Forward
<1>4. b' \in CommitTo(r, n)  BY DEF HandlerRead
<1>5. Sound(r) /\ r.get = b.get /\ r.put = b.put
  <2>1. ReadSize \in Nat  BY FragAssumption
  <2> QED  BY <1>3, <2>1, ReserveSound, Zenon
<1> HIDE DEF r
<1>6. Room(b') /\ b'.get = r.get /\ b'.put >= r.put  BY <1>4, <1>5, CommitHasRoom, Zenon
<1>7. b'.get = b.get /\ b'.put >= b.put  BY <1>5, <1>6, Zenon
<1> QED  BY <1>2, <1>3, <1>6, <1>7, StandsStill, Zenon

\* What a line reader does.
LEMMA ReadLineKeeps ==
  ASSUME HighBytes = {}
  PROVE  IInv /\ NoByteLost /\ Room(b) /\ ReadLine => IInv' /\ NoByteLost' /\ Room(b')
<1> SUFFICES ASSUME IInv, NoByteLost, Room(b), ReadLine PROVE IInv' /\ NoByteLost' /\ Room(b')
  OBVIOUS
<1>1. \A n \in Requests : n \in Nat  BY UserAssumption
<1>2. Sound(b)  BY DEF IInv
<1>3. ASSUME NEW n \in Requests, GetChars(n) PROVE Kept /\ Room(b')
  <2>1. b' = [b EXCEPT !.gptr = @ + n]  BY <1>3 DEF GetChars
  <2>2. b \in Raw  BY <1>2, SoundRaw, Zenon
  <2>3. b'.ends = b.ends /\ b'.put = b.put /\ b'.pptr = b.pptr  BY <2>1, <2>2 DEF Raw
  <2>4. Room(b')  BY <2>3, RoomSame, Zenon
  <2> QED  BY <1>1, <1>3, <2>4, GetCharsKept, Zenon
<1>4. ASSUME NEW n \in Requests, UnderflowRead(n, TRUE) PROVE Kept /\ Room(b')
  <2> DEFINE u == DoUnderflow(b)
             r == Reserve(u, ReadSize)
  <2>1. PICK c \in CommitTo(r, n) : b' = DoUnderflow(c)
    BY <1>4 DEF UnderflowRead
  <2>2. Sound(u)  BY <1>2, DoUnderflowSound, Zenon
  <2>3. ReadSize \in Nat  BY FragAssumption
  <2> HIDE DEF u
  <2>4. Sound(r)  BY <2>2, <2>3, ReserveSound, Zenon
  <2> HIDE DEF r
  <2>5. Sound(c) /\ Room(c)  BY <1>1, <2>1, <2>4, CommitToSound, CommitHasRoom, Zenon
  <2>6. Room(b')  BY <2>1, <2>5, UnderflowRoom, Zenon
  <2>7. Kept
    <3>1. TRUE \in BOOLEAN  OBVIOUS
    <3> QED  BY <1>1, <1>4, <3>1, UnderflowReadKept, Zenon
  <2> QED  BY <2>6, <2>7
<1>5. ASSUME UnderflowFound PROVE Kept /\ Room(b')
  <2>1. b' = DoUnderflow(b)  BY <1>5 DEF UnderflowFound
  <2>2. Room(b')  BY <1>2, <2>1, UnderflowRoom, Zenon
  <2> QED  BY <1>5, <2>2, UnderflowFoundKept, Zenon
<1>6. Kept /\ Room(b')  BY <1>3, <1>4, <1>5, Zenon DEF ReadLine
<1> QED  BY <1>6, GhostsKept, Zenon

\* Detaching in front of an iterator.
LEMMA DetachKeeps ==
  ASSUME HighBytes = {}, NEW i, NEW p
  PROVE  IInv /\ NoByteLost /\ Room(b) /\ Stands(b, i, p) /\ DetachedAt(i, p)
         => IInv' /\ NoByteLost' /\ Room(b')
<1> DEFINE f == b.get + i.seg - 1
           t == i.val - f
<1> SUFFICES ASSUME IInv, NoByteLost, Room(b), Stands(b, i, p), DetachedAt(i, p)
             PROVE  IInv' /\ NoByteLost' /\ Room(b')
  OBVIOUS
<1>1. Sound(b)  BY DEF IInv
<1>2. i.seg \in Nat \ {0} /\ f <= b.put /\ p \in Nat  BY DEF Stands
<1>3. i.val = Address(f, p)  BY Zenon DEF Stands
<1>4. f \in b.get .. b.put /\ f \in Nat  BY <1>1, <1>2, Counts
<1>5. Detach(f, t)  BY DEF DetachedAt
<1> HIDE DEF f
<1>6. t \in Nat  BY <1>2, <1>3, <1>4 DEF Address
<1> HIDE DEF t
<1>7. Kept  BY <1>4, <1>5, <1>6, DetachKept, Zenon
<1>8. b' = DetachAt(b, f, t) /\ t >= b.gptr /\ t >= Start(b, f)
      /\ t <= IF f = b.put THEN b.pptr ELSE b.ends[f]
  BY <1>5 DEF Detach
<1>9. b'.ends = b.ends /\ b'.put = b.put /\ b'.pptr = b.pptr
  <2>1. b'.pptr = b.pptr  BY <1>1, <1>4, <1>6, <1>8, DetachAtSound, Zenon
  <2>2. b'.ends = b.ends  BY <1>1, <1>8, DetachAtGrows, Zenon
  <2>3. b'.put = b.put  BY <1>1, <1>8, DetachStays, Zenon
  <2> QED  BY <2>1, <2>2, <2>3
<1>10. Room(b')  BY <1>9, RoomSame, Zenon
<1> QED  BY <1>7, <1>10, GhostsKept, Zenon
-----------------------------------------------------------------------------
(* The theorem. *)

\* What the invariant says of the buffer.
Steady == IInv /\ NoByteLost /\ Room(b)

\* The constructor leaves room, or there is one fragment only.
LEMMA FreshRoom == Room(Fresh)
<1>1. Sound(Fresh) /\ Fresh.pptr = 0  BY FreshSound, Zenon
<1>2. Fresh.put = 1 /\ Fresh.get = 1  BY DEF Fresh
<1>3. Fresh.ends[1] > 0  BY <1>1, Zenon DEF Sound, Ordered
<1>4. Fresh.ends[1] \in Nat
  <2>1. 1 \in 1 .. Len(Fresh.ends)  BY <1>1, <1>2, Counts
  <2> QED  BY <1>1, <2>1, Positions
<1> QED  BY <1>1, <1>2, <1>3, <1>4 DEF Room

\* Every step of a reader keeps the invariant.
LEMMA ReaderStep ==
  ASSUME HighBytes = {}
  PROVE  ReaderInv /\ ReaderNext => ReaderInv'
<1> SUFFICES ASSUME ReaderInv, ReaderNext PROVE ReaderInv'
  OBVIOUS
<1>1. \A n \in Requests : n \in Nat  BY UserAssumption
<1>2. Steady /\ Sound(b) /\ IInv /\ NoByteLost /\ Room(b)
  BY Zenon DEF ReaderInv, Steady, IInv
<1>3. /\ at \in [it : Nat, mark : Nat]
      /\ stage = "parsing" => Stands(b, it, at.it) /\ Stands(b, mark, at.mark)
  BY Zenon DEF ReaderInv, Parsing
<1>4. ASSUME Steady', stage' = "lines", at' \in [it : Nat, mark : Nat] PROVE ReaderInv'
  BY <1>4, Zenon DEF ReaderInv, Steady, Parsing
<1>5. ASSUME Steady', stage' = "parsing", at' \in [it : Nat, mark : Nat],
             Stands(b', it', at'.it), Stands(b', mark', at'.mark)
      PROVE  ReaderInv'
  BY <1>5, Zenon DEF ReaderInv, Steady, Parsing
<1>6. ASSUME UNCHANGED vars PROVE Steady' /\ b' = b
  BY <1>2, <1>6 DEF Steady, vars, IInv, NoByteLost
<1>7. CASE ReadLine
  <2>1. Steady'  BY <1>2, <1>7, ReadLineKeeps, Zenon DEF Steady
  <2>2. stage' = "lines" /\ at' = at  BY <1>7 DEF ReadLine, readerVars
  <2> QED  BY <1>3, <1>4, <2>1, <2>2, Zenon
<1>8. CASE StartParse
  <2>1. /\ UNCHANGED vars /\ stage' = "parsing" /\ it' = Begin(b) /\ mark' = Begin(b)
        /\ at' = [it |-> taken, mark |-> taken] /\ taken \in Nat
    BY <1>2, <1>8 DEF StartParse, IInv
  <2>2. Steady' /\ b' = b  BY <1>6, <2>1
  <2>3. Stands(b, Begin(b), taken)  BY <1>2, BeginStands, Zenon DEF NoByteLost
  <2>4. at' \in [it : Nat, mark : Nat] /\ at'.it = taken /\ at'.mark = taken  BY <2>1
  <2> QED  BY <1>5, <2>1, <2>2, <2>3, <2>4, Zenon
<1>9. ASSUME NEW n \in Requests, Look(n) PROVE ReaderInv'
  <2>1. HandlerRead(n) /\ UNCHANGED <<it, mark, at>> /\ stage = "parsing" /\ stage' = "parsing"
    BY <1>9 DEF Look, readerVars
  <2>2. Steady' /\ \A i, p : Stands(b, i, p) => Stands(b', i, p)
    BY <1>1, <1>2, <2>1, ReadKeeps, Zenon DEF Steady
  <2> QED  BY <1>3, <1>5, <2>1, <2>2, Zenon
<1>10. ASSUME NEW n \in Requests, Step(n) PROVE ReaderInv'
  <2>1. /\ stage = "parsing" /\ stage' = "parsing" /\ mark' = mark
        /\ ~Iter!Equal(List(b), it, End(b)) /\ it' = Iter!Increment(List(b), it)
        /\ at' = [at EXCEPT !.it = @ + 1]
        /\ HandlerRead(n) \/ UNCHANGED vars
    BY <1>10 DEF Step
  <2>2. /\ Steady'
        /\ \A i, p : Stands(b, i, p) => Stands(b', i, p)
    <3>1. CASE HandlerRead(n)
      BY <1>1, <1>2, <3>1, ReadKeeps, Zenon DEF Steady
    <3>2. CASE UNCHANGED vars
      BY <1>6, <3>2
    <3> QED  BY <2>1, <3>1, <3>2
  <2>3. Stands(b, it', at.it + 1)
    <3>1. Stands(b, End(b), b.pptr) /\ Stands(b, it, at.it)
      BY <1>2, <1>3, <2>1, EndStands, Zenon
    <3>2. at.it # b.pptr
      <4>1. Iter!Equal(List(b), it, End(b)) <=> at.it = b.pptr
        BY <1>2, <3>1, EqualIterators
      <4> QED  BY <2>1, <4>1, Zenon
    <3>3. at.it < b.pptr
      <4>1. at.it \in Nat /\ at.it <= b.pptr  BY <3>1, Zenon DEF Stands
      <4>2. b.pptr \in Nat  BY <1>2, SoundRaw, Zenon
      <4> QED  BY <3>2, <4>1, <4>2
    <3> QED  BY <1>2, <2>1, <3>1, <3>3, IncrementStands, Zenon
  <2>4. at' \in [it : Nat, mark : Nat] /\ at'.it = at.it + 1 /\ at'.mark = at.mark
    BY <1>3, <2>1
  <2> QED  BY <1>3, <1>5, <2>1, <2>2, <2>3, <2>4, Zenon
<1>11. CASE Save
  <2>1. /\ UNCHANGED vars /\ stage = "parsing" /\ stage' = "parsing" /\ mark' = it /\ it' = it
        /\ at' = [at EXCEPT !.mark = at.it]
    BY <1>11 DEF Save
  <2>2. Steady' /\ b' = b  BY <1>6, <2>1
  <2>3. at' \in [it : Nat, mark : Nat] /\ at'.it = at.it /\ at'.mark = at.it  BY <1>3, <2>1
  <2> QED  BY <1>3, <1>5, <2>1, <2>2, <2>3
<1>12. CASE Restore
  <2>1. /\ UNCHANGED vars /\ stage = "parsing" /\ stage' = "parsing" /\ it' = mark /\ mark' = mark
        /\ at' = [at EXCEPT !.it = at.mark]
    BY <1>12 DEF Restore
  <2>2. Steady' /\ b' = b  BY <1>6, <2>1
  <2>3. at' \in [it : Nat, mark : Nat] /\ at'.it = at.mark /\ at'.mark = at.mark  BY <1>3, <2>1
  <2> QED  BY <1>3, <1>5, <2>1, <2>2, <2>3
<1>13. ASSUME StopsParsing PROVE stage' = "lines" /\ at' \in [it : Nat, mark : Nat]
  BY <1>13 DEF StopsParsing, Nowhere
<1>14. ASSUME NEW i, NEW p, Stands(b, i, p), DetachedAt(i, p) PROVE ReaderInv'
  <2>1. Steady'  BY <1>2, <1>14, DetachKeeps, Zenon DEF Steady
  <2>2. StopsParsing  BY <1>14 DEF DetachedAt
  <2> QED  BY <1>4, <1>13, <2>1, <2>2, Zenon
<1>15. CASE Accept
  <2>1. Stands(b, End(b), given)  BY <1>2, EndStands, Zenon DEF NoByteLost
  <2> QED  BY <1>14, <1>15, <2>1, Zenon DEF Accept
<1>16. CASE Part
  BY <1>3, <1>14, <1>16, Zenon DEF Part
<1>17. CASE Refuse
  <2>1. UNCHANGED vars /\ StopsParsing  BY <1>17 DEF Refuse
  <2> QED  BY <1>4, <1>6, <1>13, <2>1, Zenon
<1> QED
  BY <1>7, <1>8, <1>9, <1>10, <1>11, <1>12, <1>15, <1>16, <1>17, Zenon DEF ReaderNext

\* The invariant holds of every state of a reader.
THEOREM ReaderInvariance ==
  ASSUME HighBytes = {}
  PROVE  ReaderSpec => []ReaderInv
<1>1. ReaderInit => ReaderInv
  <2> SUFFICES ASSUME ReaderInit PROVE ReaderInv
    OBVIOUS
  <2>1. b = Fresh /\ given = 0 /\ taken = 0 /\ stage = "lines" /\ at = Nowhere
    BY Zenon DEF ReaderInit, Init
  <2>2. Steady
    <3>1. given \in Nat /\ taken \in Nat  BY <2>1
    <3> QED  BY <2>1, <3>1, FreshSound, FreshRoom, Zenon DEF Steady, IInv, NoByteLost
  <2>3. at \in [it : Nat, mark : Nat]  BY <2>1 DEF Nowhere
  <2> QED  BY <2>1, <2>2, <2>3 DEF ReaderInv, Steady, Parsing
<1>2. ReaderInv /\ [ReaderNext]_allVars => ReaderInv'
  <2>1. ReaderInv /\ ReaderNext => ReaderInv'  BY ReaderStep
  <2>2. ReaderInv /\ UNCHANGED allVars => ReaderInv'
    <3> SUFFICES ASSUME ReaderInv, UNCHANGED allVars PROVE ReaderInv'
      OBVIOUS
    <3>1. b' = b /\ given' = given /\ taken' = taken /\ stage' = stage /\ it' = it
          /\ mark' = mark /\ at' = at
      BY DEF allVars, vars, readerVars
    <3> QED  BY <3>1 DEF ReaderInv, Parsing, IInv, NoByteLost
  <2> QED  BY <2>1, <2>2
<1> QED  BY <1>1, <1>2, PTL DEF ReaderSpec

\* An iterator keeps its place while the list grows behind it: it reads the byte
\* it is meant to be at, is equal to the end if and only if there is none, and two
\* iterators are equal if and only if they are at the same byte, for any sizes of
\* fragments and reads, as long as no byte is taken for the end of the file.
THEOREM IteratorsKeepTheirPlace ==
  ASSUME HighBytes = {}
  PROVE  ReaderSpec => []PlacesExact
<1>1. ReaderInv => PlacesExact
  <2> SUFFICES ASSUME ReaderInv, stage = "parsing"
               PROVE  /\ at.it < given => Iter!Dereference(List(b), it) = Place(at.it)
                      /\ Iter!Equal(List(b), it, End(b)) <=> at.it = given
                      /\ at.mark < given => Iter!Dereference(List(b), mark) = Place(at.mark)
                      /\ Iter!Equal(List(b), mark, End(b)) <=> at.mark = given
                      /\ Iter!Equal(List(b), it, mark) <=> at.it = at.mark
    BY Zenon DEF PlacesExact
  <2>1. Sound(b) /\ given = b.pptr /\ Stands(b, it, at.it) /\ Stands(b, mark, at.mark)
    BY Zenon DEF ReaderInv, Parsing, IInv, NoByteLost
  <2>2. Stands(b, End(b), given)  BY <2>1, EndStands, Zenon
  <2>3. ASSUME NEW i, NEW p, Stands(b, i, p), p < given
        PROVE  Iter!Dereference(List(b), i) = Place(p)
    BY <2>1, <2>3, DereferenceIsExact DEF Place
  <2>4. ASSUME NEW i, NEW p, Stands(b, i, p)
        PROVE  Iter!Equal(List(b), i, End(b)) <=> p = given
    BY <2>1, <2>2, <2>4, EqualIterators
  <2>5. /\ at.it < given => Iter!Dereference(List(b), it) = Place(at.it)
        /\ at.mark < given => Iter!Dereference(List(b), mark) = Place(at.mark)
    BY <2>1, <2>3, Zenon
  <2>6. /\ Iter!Equal(List(b), it, End(b)) <=> at.it = given
        /\ Iter!Equal(List(b), mark, End(b)) <=> at.mark = given
    BY <2>1, <2>4
  <2>7. Iter!Equal(List(b), it, mark) <=> at.it = at.mark
    BY <2>1, EqualIterators
  <2> QED  BY <2>7, <2>5, <2>6, Zenon
<1> QED  BY <1>1, ReaderInvariance, PTL

\* A reader uses the buffer as ZcStreambuf allows: it detaches only in front of
\* iterators, which are in readable fragments.  So whatever holds of a buffer
\* holds of the buffer of a reader.
THEOREM ReadersAreUsers ==
  ASSUME HighBytes = {}
  PROVE  ReaderSpec => Spec
<1>1. ReaderInit => Init  BY Zenon DEF ReaderInit
<1>2. ReaderInv /\ [ReaderNext]_allVars => [Next]_vars
  <2> SUFFICES ASSUME ReaderInv, ReaderNext PROVE Next \/ UNCHANGED vars
    BY DEF allVars, vars
  <2>1. Sound(b) /\ Extent(b') <= MaxBytes  BY Zenon DEF ReaderInv, IInv, ReaderNext
  <2>2. TRUE \in BOOLEAN  OBVIOUS
  <2>3. ASSUME NEW n \in Requests,
               GetChars(n) \/ UnderflowRead(n, TRUE) \/ HandlerRead(n)
        PROVE  Next
    BY <2>1, <2>2, <2>3, Zenon DEF Next
  <2>4. ASSUME NEW i, NEW p, Stands(b, i, p), DetachedAt(i, p) PROVE Next
    <3> DEFINE f == b.get + i.seg - 1
               t == i.val - f
    <3>1. i.seg \in Nat \ {0} /\ f <= b.put /\ p \in Nat  BY <2>4 DEF Stands
    <3>2. i.val = Address(f, p)  BY <2>4, Zenon DEF Stands
    <3>3. f \in b.get .. b.put /\ f \in Nat  BY <2>1, <3>1, Counts
    <3>4. Detach(f, t)  BY <2>4 DEF DetachedAt
    <3>5. In(b, f, p)  BY <2>4, Zenon DEF Stands
    <3> HIDE DEF f
    <3>6. t = p  BY <3>1, <3>2, <3>3 DEF Address
    <3> HIDE DEF t
    <3>7. t \in 0 .. Extent(b)
      <4>1. f \in 1 .. Len(b.ends) /\ Len(b.ends) \in 1 .. Len(b.ends) /\ f <= Len(b.ends)
        BY <2>1, <3>3, Counts
      <4>2. b.ends[f] <= Extent(b) /\ b.ends[f] \in Nat /\ Extent(b) \in Nat
        <5>1. b.ends \in Seq(Nat) /\ Increasing(b.ends)
          BY <2>1, SoundRaw, Zenon DEF Sound, Ordered
        <5> QED  BY <4>1, <5>1, EndsFacts, Zenon DEF Extent
      <4>3. p <= b.ends[f]  BY <3>5, Zenon DEF In
      <4> QED  BY <3>1, <3>6, <4>2, <4>3
    <3> QED  BY <2>1, <3>3, <3>4, <3>7, Zenon DEF Next
  <2>5. CASE ReadLine
    BY <2>1, <2>3, <2>5, Zenon DEF ReadLine, Next
  <2>6. ASSUME NEW n \in Requests, Look(n) \/ Step(n) PROVE Next \/ UNCHANGED vars
    BY <2>3, <2>6, Zenon DEF Look, Step
  <2>7. CASE Accept
    <3>1. Stands(b, End(b), given)
      BY <2>1, EndStands, Zenon DEF ReaderInv, NoByteLost
    <3> QED  BY <2>4, <2>7, <3>1, Zenon DEF Accept
  <2>8. CASE Part
    BY <2>4, <2>8, Zenon DEF Part, ReaderInv, Parsing
  <2>9. CASE StartParse \/ Save \/ Restore \/ Refuse
    BY <2>9 DEF StartParse, Save, Restore, Refuse, vars
  <2> QED  BY <2>5, <2>6, <2>7, <2>8, <2>9, Zenon DEF ReaderNext
<1> QED  BY <1>1, <1>2, ReaderInvariance, PTL DEF ReaderSpec, Spec
=============================================================================
