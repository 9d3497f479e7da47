---------------------------- MODULE FramingProofs ----------------------------
(***************************************************************************)
(* Frames arrive whole and in order, for every size of the buffers and of  *)
(* the frames and every number of them.                                    *)
(*                                                                         *)
(* Both directions have the same shape: the units that are on their way,   *)
(* with those that are still to be written of a frame that has begun, are  *)
(* a chain, in which each unit fixes the next ones of its frame and the    *)
(* last one of a frame fixes the first of the next.  A reader takes a head *)
(* or a body from its front, a writer adds a frame at its end.             *)
(***************************************************************************)
EXTENDS Framing, SequenceTheorems, TLAPS

-----------------------------------------------------------------------------
(* Chains.                                                                 *)

Sized == {f \in Frame : f.size >= 1}

UnitsOf(F) == [frame : F, part : Nat]

\* A unit of one of the first frames of a sequence.
OfFrame(u, from, last) ==
  /\ u.part <= u.frame.size
  /\ u.frame.number \in 1 .. last /\ from[u.frame.number] = u.frame

\* The units of a frame follow each other.
Whole(r) ==
  \A i, j \in 1 .. Len(r) : i <= j /\ j - i <= r[i].frame.size - r[i].part =>
    r[j] = [frame |-> r[i].frame, part |-> r[i].part + (j - i)]

\* The next frame follows.
Linked(r) ==
  \A i \in 1 .. Len(r) - 1 : r[i].part = r[i].frame.size =>
    r[i + 1].part = 0 /\ r[i + 1].frame.number = r[i].frame.number + 1

\* What comes first, for a reader that has `taken' frames and perhaps a head.
Begins(r, from, last, taken, head) ==
  IF head = NoHead
  THEN r # <<>> => r[1].part = 0 /\ r[1].frame.number = taken + 1
  ELSE /\ head \in UnitsOf(Sized) /\ OfFrame(head, from, last)
       /\ head.part = 0 /\ head.frame.number = taken + 1
       /\ r # <<>> => r[1].part = 1 /\ r[1].frame = head.frame

Chain(r, from, last, taken, head) ==
  /\ r \in Seq(UnitsOf(Sized)) /\ last \in Nat /\ taken \in 0 .. last
  /\ \A i \in 1 .. Len(r) : OfFrame(r[i], from, last)
  /\ Whole(r) /\ Linked(r)
  /\ Begins(r, from, last, taken, head)

\* The last frame is there to its end.
Complete(r, last, taken, head) ==
  IF r = <<>> THEN head = NoHead /\ taken = last
  ELSE r[Len(r)].part = r[Len(r)].frame.size /\ r[Len(r)].frame.number = last

\* A unit has a frame, which NoHead has not.
LEMMA UnitFields ==
  ASSUME NEW u \in UnitsOf(Sized)
  PROVE  /\ u # NoHead /\ u = [frame |-> u.frame, part |-> u.part] /\ u.part \in Nat
         /\ u.frame \in Sized /\ u.frame.size \in Nat \ {0} /\ u.frame.number \in Nat
<1>1. u.part \in Nat /\ u.frame \in Sized /\ u = [frame |-> u.frame, part |-> u.part]
  BY DEF UnitsOf
<1>2. u.frame.size \in Nat \ {0} /\ u.frame.number \in Nat
  BY <1>1 DEF Sized, Frame
<1>3. u # NoHead
  <2>1. "frame" \in DOMAIN u /\ "frame" \notin DOMAIN NoHead
    BY <1>1 DEF NoHead
  <2> QED
    BY <2>1
<1> QED
  BY <1>1, <1>2, <1>3

\* The units of a frame: its head and those of its body.
LEMMA UnitsFields ==
  ASSUME NEW f \in Sized
  PROVE  /\ Units(f) \in Seq(UnitsOf(Sized)) /\ Len(Units(f)) = f.size + 1
         /\ \A k \in 1 .. f.size + 1 : Units(f)[k] = [frame |-> f, part |-> k - 1]
<1>1. f.size \in Nat
  BY DEF Sized, Frame
<1>2. \A k \in 1 .. f.size + 1 : [frame |-> f, part |-> k - 1] \in UnitsOf(Sized)
  BY <1>1 DEF UnitsOf
<1> QED
  BY <1>1, <1>2 DEF Units

\* What a concatenation holds, and where.
LEMMA ConcatAt ==
  ASSUME NEW S, NEW s \in Seq(S), NEW t \in Seq(S)
  PROVE  /\ s \o t \in Seq(S) /\ Len(s) \in Nat /\ Len(t) \in Nat
         /\ Len(s \o t) = Len(s) + Len(t)
         /\ \A i \in 1 .. Len(s) : (s \o t)[i] = s[i]
         /\ \A i \in Len(s) + 1 .. Len(s) + Len(t) : (s \o t)[i] = t[i - Len(s)]
  BY ConcatProperties

\* The first part of a sequence, and what is left.
LEMMA PartsJoin ==
  ASSUME NEW S, NEW s \in Seq(S), NEW n \in 0 .. Len(s)
  PROVE  SubSeq(s, 1, n) \o SubSeq(s, n + 1, Len(s)) = s
<1>1. Len(s) \in Nat /\ 1 \in 1 .. Len(s) + 1 /\ n \in 1 - 1 .. Len(s) /\ Len(s) \in n .. Len(s)
  OBVIOUS
<1> QED
  BY <1>1, ConcatAdjacentSubSeq, SubSeqFull

\* Moving a part from one sequence to the other leaves the whole as it is.
LEMMA MovedOn ==
  ASSUME NEW S, NEW s \in Seq(S), NEW x \in Seq(S), NEW n \in 0 .. Len(x)
  PROVE  (s \o SubSeq(x, 1, n)) \o SubSeq(x, n + 1, Len(x)) = s \o x
<1> DEFINE a == SubSeq(x, 1, n)
           b == SubSeq(x, n + 1, Len(x))
<1>1. a \o b = x
  BY PartsJoin
<1>2. a \in Seq(S) /\ b \in Seq(S)
  OBVIOUS
<1> HIDE DEF a, b
<1>3. (s \o a) \o b = s \o (a \o b)
  BY <1>2, ConcatAssociative
<1> QED
  BY <1>1, <1>3 DEF a, b

\* A part of a chain that starts where it starts, with perhaps more frames known.
LEMMA ChainPrefix ==
  ASSUME NEW s \in Seq(UnitsOf(Sized)), NEW w \in Seq(UnitsOf(Sized)), NEW head,
         NEW from, NEW last, NEW taken, Chain(s \o w, from, last, taken, head),
         NEW more, NEW upto \in Nat, last <= upto, \A k \in 1 .. last : more[k] = from[k]
  PROVE  Chain(s, more, upto, taken, head)
<1> DEFINE r == s \o w
<1>1. /\ Len(s) \in Nat /\ Len(w) \in Nat /\ Len(r) = Len(s) + Len(w)
      /\ \A i \in 1 .. Len(s) : r[i] = s[i]
  BY ConcatProperties
<1>2. s # <<>> => r # <<>> /\ 1 \in 1 .. Len(s) /\ r[1] = s[1]
  BY <1>1, EmptySeq
<1> HIDE DEF r
<1>3. Chain(r, from, last, taken, head)
  BY DEF r
<1>4. \A u : OfFrame(u, from, last) => OfFrame(u, more, upto)
  BY <1>3 DEF OfFrame, Chain
<1>5. \A i \in 1 .. Len(s) : OfFrame(s[i], more, upto)
  BY <1>1, <1>3, <1>4 DEF Chain
<1>6. Whole(s) /\ Linked(s)
  <2>1. \A i \in 1 .. Len(s) : i \in 1 .. Len(r)
    BY <1>1
  <2>2. \A i \in 1 .. Len(s) - 1 : i \in 1 .. Len(r) - 1 /\ i \in 1 .. Len(s) /\ i + 1 \in 1 .. Len(s)
    BY <1>1
  <2>3. Whole(s)
    BY <1>1, <1>3, <2>1 DEF Chain, Whole
  <2>4. Linked(s)
    BY <1>1, <1>3, <2>2 DEF Chain, Linked
  <2> QED
    BY <2>3, <2>4
<1>7. Begins(s, more, upto, taken, head)
  BY <1>2, <1>3, <1>4 DEF Chain, Begins
<1> QED
  BY <1>3, <1>5, <1>6, <1>7 DEF Chain

\* Another frame at the end of a chain that is complete.
LEMMA ChainAppend ==
  ASSUME NEW r, NEW from, NEW last, NEW taken, NEW head, Chain(r, from, last, taken, head),
         Complete(r, last, taken, head),
         NEW more, \A k \in 1 .. last : more[k] = from[k],
         NEW f \in Sized, more[last + 1] = f, f.number = last + 1
  PROVE  /\ Chain(r \o Units(f), more, last + 1, taken, head)
         /\ Complete(r \o Units(f), last + 1, taken, head)
<1> DEFINE w == Units(f)
           q == r \o w
<1>1. /\ r \in Seq(UnitsOf(Sized)) /\ last \in Nat /\ taken \in 0 .. last
      /\ \A i \in 1 .. Len(r) : OfFrame(r[i], from, last)
      /\ Whole(r) /\ Linked(r)
      /\ Begins(r, from, last, taken, head)
  BY DEF Chain
<1>2. /\ w \in Seq(UnitsOf(Sized)) /\ Len(w) = f.size + 1 /\ f.size \in Nat \ {0}
      /\ \A k \in 1 .. f.size + 1 : w[k] = [frame |-> f, part |-> k - 1]
  <2>1. f.size \in Nat /\ f.size >= 1
    BY DEF Sized, Frame
  <2> QED
    BY <2>1, UnitsFields
<1>3. /\ q \in Seq(UnitsOf(Sized)) /\ Len(r) \in Nat /\ Len(q) = Len(r) + f.size + 1
      /\ \A i \in 1 .. Len(r) : q[i] = r[i]
      /\ \A i \in Len(r) + 1 .. Len(q) : q[i] = w[i - Len(r)]
  <2> HIDE DEF w
  <2>0. r \in Seq(UnitsOf(Sized)) /\ w \in Seq(UnitsOf(Sized))
    BY <1>1, <1>2
  <2>1. /\ q \in Seq(UnitsOf(Sized)) /\ Len(r) \in Nat /\ Len(q) = Len(r) + Len(w)
        /\ \A i \in 1 .. Len(r) : q[i] = r[i]
        /\ \A i \in Len(r) + 1 .. Len(r) + Len(w) : q[i] = w[i - Len(r)]
    BY <2>0, ConcatAt
  <2>2. Len(r) + Len(w) = Len(r) + f.size + 1
    BY <1>2, <2>1
  <2> QED
    BY <2>1, <2>2
<1>4. \A i \in 1 .. Len(r) : /\ r[i].part \in Nat /\ r[i].frame.size \in Nat /\ r[i].frame.number \in Nat
  BY <1>1, UnitFields
<1> HIDE DEF w, q
<1>5. ASSUME NEW i \in Len(r) + 1 .. Len(q)
      PROVE  /\ q[i] = [frame |-> f, part |-> i - Len(r) - 1]
             /\ q[i].frame = f /\ q[i].part = i - Len(r) - 1
  <2>1. i - Len(r) \in 1 .. f.size + 1
    BY <1>2, <1>3
  <2>2. q[i] = w[i - Len(r)]
    BY <1>3
  <2> QED
    BY <1>2, <2>1, <2>2
<1>6. \A i \in 1 .. Len(q) : OfFrame(q[i], more, last + 1)
  <2>1. ASSUME NEW i \in 1 .. Len(r) PROVE OfFrame(q[i], more, last + 1)
    <3>1. OfFrame(r[i], from, last) /\ q[i] = r[i]
      BY <1>1, <1>3
    <3> QED
      BY <1>1, <3>1 DEF OfFrame
  <2>2. ASSUME NEW i \in Len(r) + 1 .. Len(q) PROVE OfFrame(q[i], more, last + 1)
    <3>1. q[i].frame = f /\ q[i].part = i - Len(r) - 1
      BY <1>5
    <3>2. i - Len(r) - 1 <= f.size /\ last + 1 \in 1 .. last + 1
      BY <1>1, <1>2, <1>3
    <3> QED
      BY <3>1, <3>2 DEF OfFrame
  <2> QED
    BY <1>3, <2>1, <2>2
<1>7. Whole(q)
  <2> SUFFICES ASSUME NEW i \in 1 .. Len(q), NEW j \in 1 .. Len(q), i <= j,
                      j - i <= q[i].frame.size - q[i].part
               PROVE  q[j] = [frame |-> q[i].frame, part |-> q[i].part + (j - i)]
    BY DEF Whole
  <2>1. CASE j \in 1 .. Len(r)
    <3>1. i \in 1 .. Len(r)
      BY <1>3, <2>1
    <3>2. q[i] = r[i] /\ q[j] = r[j]
      BY <1>3, <2>1, <3>1
    <3> QED
      BY <1>1, <2>1, <3>1, <3>2 DEF Whole
  <2>2. CASE i \in 1 .. Len(r) /\ j \notin 1 .. Len(r)
    <3>0. /\ q[i] = r[i] /\ Len(r) \in Nat /\ i \in Nat /\ j \in Nat /\ i >= 1 /\ i <= Len(r) /\ Len(r) < j
          /\ r[i].part \in Nat /\ r[i].frame.size \in Nat /\ j - i <= r[i].frame.size - r[i].part
      <4>1. q[i] = r[i] /\ Len(r) \in Nat /\ i \in Nat /\ j \in Nat /\ i >= 1 /\ i <= Len(r) /\ Len(r) < j
        BY <1>3, <2>2
      <4>2. r[i].part \in Nat /\ r[i].frame.size \in Nat
        BY <1>4, <2>2
      <4> QED
        BY <4>1, <4>2
    <3>1. q[i] = r[i] /\ Len(r) - i < r[i].frame.size - r[i].part /\ Len(r) \in 1 .. Len(r) /\ i <= Len(r)
      BY <3>0
    <3>2. r[Len(r)] = [frame |-> r[i].frame, part |-> r[i].part + (Len(r) - i)]
      <4>1. Len(r) - i <= r[i].frame.size - r[i].part
        BY <3>0
      <4> QED
        BY <1>1, <2>2, <3>1, <4>1 DEF Whole
    <3>3. r[Len(r)].part = r[Len(r)].frame.size
      BY <2>2 DEF Complete
    <3>4. r[i].part + (Len(r) - i) = r[i].frame.size
      BY <3>2, <3>3
    <3> DEFINE a == r[i].part
               b == r[i].frame.size
    <3>5. /\ a \in Nat /\ b \in Nat /\ i \in Nat /\ j \in Nat /\ Len(r) \in Nat
          /\ Len(r) < j /\ j - i <= b - a /\ a + (Len(r) - i) = b
      BY <3>0, <3>4
    <3> HIDE DEF a, b
    <3>6. FALSE
      BY <3>5
    <3> QED
      BY <3>6
  <2>3. CASE i \notin 1 .. Len(r)
    <3>1. i \in Len(r) + 1 .. Len(q) /\ j \in Len(r) + 1 .. Len(q)
      BY <1>3, <2>3
    <3>2. j - Len(r) - 1 = (i - Len(r) - 1) + (j - i)
      BY <1>3, <3>1
    <3>3. q[i].frame = f /\ q[i].part = i - Len(r) - 1
      BY <1>5, <3>1
    <3>4. q[j] = [frame |-> f, part |-> j - Len(r) - 1]
      BY <1>5, <3>1
    <3>5. q[i].part + (j - i) = j - Len(r) - 1
      BY <3>2, <3>3
    <3> QED
      BY <3>3, <3>4, <3>5
  <2> QED
    BY <2>1, <2>2, <2>3
<1>8. Linked(q)
  <2> SUFFICES ASSUME NEW i \in 1 .. Len(q) - 1, q[i].part = q[i].frame.size
               PROVE  q[i + 1].part = 0 /\ q[i + 1].frame.number = q[i].frame.number + 1
    BY DEF Linked
  <2>1. CASE i \in 1 .. Len(r) - 1
    <3>1. i \in 1 .. Len(r) /\ i + 1 \in 1 .. Len(r)
      BY <1>3, <2>1
    <3>2. q[i] = r[i] /\ q[i + 1] = r[i + 1]
      BY <1>3, <3>1
    <3> QED
      BY <1>1, <2>1, <3>2 DEF Linked
  <2>2. CASE i = Len(r)
    <3>1. i + 1 \in Len(r) + 1 .. Len(q) /\ (i + 1) - Len(r) - 1 = 0 /\ i \in 1 .. Len(r)
      BY <1>2, <1>3, <2>2
    <3>2. r # <<>> /\ q[i] = r[i]
      BY <1>3, <3>1
    <3>3. q[i + 1].frame = f /\ q[i + 1].part = 0
      BY <1>5, <3>1
    <3> QED
      BY <2>2, <3>2, <3>3 DEF Complete
  <2>3. CASE i \in Len(r) + 1 .. Len(q) - 1
    <3>1. i \in Len(r) + 1 .. Len(q) /\ i - Len(r) - 1 < f.size
      BY <1>2, <1>3, <2>3
    <3>2. q[i].frame = f /\ q[i].part = i - Len(r) - 1
      BY <1>5, <3>1
    <3>3. q[i].part < f.size
      BY <3>1, <3>2
    <3> QED
      BY <1>2, <3>2, <3>3
  <2> QED
    BY <1>3, <2>1, <2>2, <2>3
<1>9. Begins(q, more, last + 1, taken, head)
  <2>1. \A u : u \in UnitsOf(Sized) /\ OfFrame(u, from, last) => OfFrame(u, more, last + 1)
    BY <1>1 DEF OfFrame
  <2>2. CASE r = <<>>
    <3>1. head = NoHead /\ taken = last
      BY <2>2 DEF Complete
    <3>0. Len(r) = 0
      BY <2>2, EmptySeq
    <3>2. 1 \in Len(r) + 1 .. Len(q) /\ 1 - Len(r) - 1 = 0
      BY <1>2, <1>3, <3>0
    <3> QED
      BY <1>5, <3>1, <3>2 DEF Begins
  <2>3. CASE r # <<>>
    <3>1. q[1] = r[1]
      BY <1>1, <1>3, <2>3, EmptySeq
    <3> QED
      BY <1>1, <2>1, <2>3, <3>1 DEF Begins
  <2> QED
    BY <2>2, <2>3
<1>10. Complete(q, last + 1, taken, head)
  <2>1. Len(q) \in Len(r) + 1 .. Len(q) /\ Len(q) - Len(r) - 1 = f.size /\ q # <<>>
    BY <1>2, <1>3
  <2> QED
    BY <1>5, <2>1 DEF Complete
<1>11. Chain(q, more, last + 1, taken, head)
  BY <1>1, <1>3, <1>6, <1>7, <1>8, <1>9 DEF Chain
<1> QED
  BY <1>10, <1>11 DEF q, w

\* Taking from the front of a sequence takes from the front of what it begins.
LEMMA FrontOfConcat ==
  ASSUME NEW S, NEW s \in Seq(S), NEW w \in Seq(S), NEW n \in 0 .. Len(s)
  PROVE  /\ SubSeq(s, n + 1, Len(s)) \o w = SubSeq(s \o w, n + 1, Len(s \o w))
         /\ SubSeq(s, 1, n) = SubSeq(s \o w, 1, n)
<1> DEFINE r == s \o w
           a == SubSeq(s, n + 1, Len(s))
           b == SubSeq(r, n + 1, Len(r))
<1>1. /\ r \in Seq(S) /\ Len(s) \in Nat /\ Len(w) \in Nat /\ Len(r) = Len(s) + Len(w)
      /\ \A i \in 1 .. Len(s) : r[i] = s[i]
      /\ \A i \in Len(s) + 1 .. Len(s) + Len(w) : r[i] = w[i - Len(s)]
  BY ConcatAt
<1> HIDE DEF r
<1>2. a \in Seq(S) /\ Len(a) = Len(s) - n /\ \A i \in 1 .. Len(s) - n : a[i] = s[n + i]
  BY <1>1
<1>3. b \in Seq(S) /\ Len(b) = Len(r) - n /\ \A i \in 1 .. Len(r) - n : b[i] = r[n + i]
  BY <1>1
<1> HIDE DEF a, b
<1>4. /\ a \o w \in Seq(S) /\ Len(a \o w) = Len(a) + Len(w)
      /\ \A i \in 1 .. Len(a) : (a \o w)[i] = a[i]
      /\ \A i \in Len(a) + 1 .. Len(a) + Len(w) : (a \o w)[i] = w[i - Len(a)]
  BY <1>2, ConcatAt
<1>5. ASSUME NEW i \in 1 .. Len(b) PROVE (a \o w)[i] = b[i]
  <2>1. CASE i \in 1 .. Len(s) - n
    <3>1. n + i \in 1 .. Len(s) /\ i \in 1 .. Len(a) /\ i \in 1 .. Len(r) - n
      BY <1>1, <1>2, <1>3, <2>1
    <3>2. (a \o w)[i] = a[i] /\ a[i] = s[n + i] /\ b[i] = r[n + i] /\ r[n + i] = s[n + i]
      BY <1>1, <1>2, <1>3, <1>4, <2>1, <3>1
    <3> QED
      BY <3>2
  <2>2. CASE i \notin 1 .. Len(s) - n
    <3>1. /\ i \in Len(a) + 1 .. Len(a) + Len(w) /\ n + i \in Len(s) + 1 .. Len(s) + Len(w)
          /\ i - Len(a) = n + i - Len(s) /\ i \in 1 .. Len(r) - n
      BY <1>1, <1>2, <1>3, <2>2
    <3>2. (a \o w)[i] = w[i - Len(a)] /\ b[i] = r[n + i] /\ r[n + i] = w[n + i - Len(s)]
      BY <1>1, <1>3, <1>4, <3>1
    <3> QED
      BY <3>1, <3>2
  <2> QED
    BY <2>1, <2>2
<1>6. a \o w = b
  <2>1. Len(a \o w) = Len(b)
    BY <1>1, <1>2, <1>3, <1>4
  <2>2. \A i \in 1 .. Len(a \o w) : (a \o w)[i] = b[i]
    BY <1>5, <2>1
  <2> QED
    BY <1>3, <1>4, <2>1, <2>2, SeqEqual
<1>7. SubSeq(s, 1, n) = SubSeq(r, 1, n)
  <2> DEFINE c == SubSeq(s, 1, n)
             d == SubSeq(r, 1, n)
  <2>1. c \in Seq(S) /\ Len(c) = n /\ \A i \in 1 .. n : c[i] = s[i]
    BY <1>1
  <2>2. d \in Seq(S) /\ Len(d) = n /\ \A i \in 1 .. n : d[i] = r[i]
    BY <1>1
  <2>3. \A i \in 1 .. n : c[i] = d[i]
    BY <1>1, <2>1, <2>2
  <2> HIDE DEF c, d
  <2>4. c = d
    BY <2>1, <2>2, <2>3, SeqEqual
  <2> QED
    BY <2>4 DEF c, d
<1> QED
  BY <1>6, <1>7 DEF a, b, r

\* The same for one unit.
LEMMA HeadOfConcat ==
  ASSUME NEW S, NEW s \in Seq(S), NEW w \in Seq(S), s # <<>>
  PROVE  /\ s \o w # <<>> /\ Head(s) = (s \o w)[1] /\ Tail(s) \o w = Tail(s \o w)
         /\ s \o w \in Seq(S)
<1>1. Len(s) \in Nat /\ 1 \in 0 .. Len(s) /\ 1 \in 1 .. Len(s) /\ Head(s) = s[1]
  BY EmptySeq
<1>2. s \o w \in Seq(S) /\ (s \o w)[1] = s[1] /\ Len(s \o w) = Len(s) + Len(w) /\ Len(w) \in Nat
  BY <1>1, ConcatAt
<1>3. s \o w # <<>>
  BY <1>1, <1>2
<1>4. Tail(s) = SubSeq(s, 2, Len(s)) /\ Tail(s \o w) = SubSeq(s \o w, 2, Len(s \o w))
  BY <1>2, <1>3, TailIsSubSeq
<1>5. SubSeq(s, 1 + 1, Len(s)) \o w = SubSeq(s \o w, 1 + 1, Len(s \o w))
  BY <1>1, FrontOfConcat
<1> QED
  BY <1>1, <1>2, <1>3, <1>4, <1>5

\* A reader that has no head finds one at the front of the chain.
LEMMA ChainHead ==
  ASSUME NEW r, NEW from, NEW last, NEW taken, r # <<>>, Chain(r, from, last, taken, NoHead)
  PROVE  /\ r[1].part = 0 /\ r[1] \in UnitsOf(Sized)
         /\ Chain(Tail(r), from, last, taken, r[1])
         /\ Complete(r, last, taken, NoHead) => Complete(Tail(r), last, taken, r[1])
<1> DEFINE t == Tail(r)
           u == r[1]
<1>1. /\ r \in Seq(UnitsOf(Sized)) /\ last \in Nat /\ taken \in 0 .. last
      /\ \A i \in 1 .. Len(r) : OfFrame(r[i], from, last)
      /\ Whole(r) /\ Linked(r)
      /\ u.part = 0 /\ u.frame.number = taken + 1
  BY DEF Chain, Begins
<1>2. Len(r) \in Nat \ {0} /\ 1 \in 1 .. Len(r)
  BY <1>1, EmptySeq
<1>3. t \in Seq(UnitsOf(Sized)) /\ Len(t) = Len(r) - 1 /\ \A i \in 1 .. Len(r) - 1 : t[i] = r[i + 1]
  BY <1>1, HeadTailProperties
<1>4. u \in UnitsOf(Sized) /\ u # NoHead /\ u.frame.size \in Nat \ {0}
  BY <1>1, <1>2, UnitFields
<1> HIDE DEF t, u
<1>5. \A i \in 1 .. Len(t) : i + 1 \in 1 .. Len(r) /\ t[i] = r[i + 1]
  BY <1>2, <1>3
<1>6. \A i \in 1 .. Len(t) : OfFrame(t[i], from, last)
  BY <1>1, <1>5
<1>7. Whole(t)
  <2> SUFFICES ASSUME NEW i \in 1 .. Len(t), NEW j \in 1 .. Len(t), i <= j,
                      j - i <= t[i].frame.size - t[i].part
               PROVE  t[j] = [frame |-> t[i].frame, part |-> t[i].part + (j - i)]
    BY DEF Whole
  <2>1. t[i] = r[i + 1] /\ t[j] = r[j + 1] /\ i + 1 \in 1 .. Len(r) /\ j + 1 \in 1 .. Len(r)
    BY <1>5
  <2>2. i + 1 <= j + 1 /\ (j + 1) - (i + 1) = j - i
    OBVIOUS
  <2>3. r[j + 1] = [frame |-> r[i + 1].frame, part |-> r[i + 1].part + ((j + 1) - (i + 1))]
    BY <1>1, <2>1, <2>2 DEF Whole
  <2> QED
    BY <2>1, <2>2, <2>3
<1>8. Linked(t)
  <2> SUFFICES ASSUME NEW i \in 1 .. Len(t) - 1, t[i].part = t[i].frame.size
               PROVE  t[i + 1].part = 0 /\ t[i + 1].frame.number = t[i].frame.number + 1
    BY DEF Linked
  <2>1. i \in 1 .. Len(t) /\ i + 1 \in 1 .. Len(t) /\ i + 1 \in 1 .. Len(r) - 1
    BY <1>2, <1>3
  <2>2. t[i] = r[i + 1] /\ t[i + 1] = r[(i + 1) + 1]
    BY <1>5, <2>1
  <2> QED
    BY <1>1, <2>1, <2>2 DEF Linked
<1>9. Begins(t, from, last, taken, u)
  <2>1. OfFrame(u, from, last)
    BY <1>1, <1>2 DEF u
  <2>2. ASSUME t # <<>> PROVE t[1].part = 1 /\ t[1].frame = u.frame
    <3>1. 2 \in 1 .. Len(r) /\ t[1] = r[2]
      BY <1>2, <1>3, <1>5, <2>2, EmptySeq
    <3>2. 1 <= 2 /\ 2 - 1 <= r[1].frame.size - r[1].part
      BY <1>1, <1>4 DEF u
    <3>3. r[2] = [frame |-> r[1].frame, part |-> r[1].part + (2 - 1)]
      BY <1>1, <1>2, <3>1, <3>2 DEF Whole
    <3> QED
      BY <1>1, <3>1, <3>3 DEF u
  <2> QED
    BY <1>1, <1>4, <2>1, <2>2 DEF Begins
<1>10. ASSUME Complete(r, last, taken, NoHead) PROVE Complete(t, last, taken, u)
  <2>1. r[Len(r)].part = r[Len(r)].frame.size /\ r[Len(r)].frame.number = last
    BY <1>10 DEF Complete
  <2>2. Len(r) # 1
    BY <1>1, <1>4, <2>1 DEF u
  <2>3. t # <<>> /\ Len(t) \in 1 .. Len(t) /\ Len(t) + 1 = Len(r)
    BY <1>2, <1>3, <2>2
  <2>4. t[Len(t)] = r[Len(r)]
    BY <1>5, <2>3
  <2> QED
    BY <2>1, <2>3, <2>4 DEF Complete
<1> QED
  BY <1>1, <1>3, <1>4, <1>6, <1>7, <1>8, <1>9, <1>10 DEF Chain, t, u

\* A reader that has a head finds its body at the front of the chain, and behind
\* it, if anything, the next head.
LEMMA ChainBody ==
  ASSUME NEW r, NEW from, NEW last, NEW taken, NEW head, Chain(r, from, last, taken, head),
         head # NoHead, head.frame.size <= Len(r)
  PROVE  /\ <<head>> \o SubSeq(r, 1, head.frame.size) = Units(from[taken + 1])
         /\ Chain(SubSeq(r, head.frame.size + 1, Len(r)), from, last, taken + 1, NoHead)
         /\ Complete(r, last, taken, head) =>
              Complete(SubSeq(r, head.frame.size + 1, Len(r)), last, taken + 1, NoHead)
<1> DEFINE f == head.frame
           n == f.size
           t == SubSeq(r, n + 1, Len(r))
           b == SubSeq(r, 1, n)
<1>1. /\ r \in Seq(UnitsOf(Sized)) /\ last \in Nat /\ taken \in 0 .. last
      /\ \A i \in 1 .. Len(r) : OfFrame(r[i], from, last)
      /\ Whole(r) /\ Linked(r)
      /\ head \in UnitsOf(Sized) /\ OfFrame(head, from, last)
      /\ head.part = 0 /\ f.number = taken + 1
      /\ r # <<>> => r[1].part = 1 /\ r[1].frame = f
  BY DEF Chain, Begins
<1>2. /\ f \in Sized /\ n \in Nat \ {0} /\ Len(r) \in Nat /\ n <= Len(r)
      /\ head = [frame |-> f, part |-> 0]
  BY <1>1, UnitFields
<1>3. r # <<>> /\ r[1].part = 1 /\ r[1].frame = f /\ 1 \in 1 .. Len(r) /\ n \in 1 .. Len(r)
  <2>1. r # <<>>
    BY <1>2
  <2> QED
    BY <1>1, <1>2, <2>1
<1>4. from[taken + 1] = f /\ taken + 1 \in 0 .. last
  BY <1>1 DEF OfFrame
<1> HIDE DEF f, n
<1>5. b \in Seq(UnitsOf(Sized)) /\ Len(b) = n /\ \A i \in 1 .. n : b[i] = r[i]
  BY <1>1, <1>2
<1>6. /\ t \in Seq(UnitsOf(Sized)) /\ Len(t) = Len(r) - n
      /\ \A i \in 1 .. Len(r) - n : t[i] = r[n + i]
  BY <1>1, <1>2
<1> HIDE DEF t, b
<1>7. ASSUME NEW j \in 1 .. n PROVE r[j] = [frame |-> f, part |-> j]
  <2>1. j \in 1 .. Len(r) /\ 1 <= j /\ j - 1 <= n - 1 /\ 1 + (j - 1) = j
    BY <1>2
  <2>2. j - 1 <= r[1].frame.size - r[1].part
    BY <1>3, <2>1 DEF n
  <2>3. r[j] = [frame |-> r[1].frame, part |-> r[1].part + (j - 1)]
    BY <1>1, <1>3, <2>1, <2>2 DEF Whole
  <2> QED
    BY <1>3, <2>1, <2>3
<1>8. <<head>> \o b = Units(f)
  <2> DEFINE h == <<head>>
             q == h \o b
  <2>1. /\ Units(f) \in Seq(UnitsOf(Sized)) /\ Len(Units(f)) = n + 1
        /\ \A k \in 1 .. n + 1 : Units(f)[k] = [frame |-> f, part |-> k - 1]
    BY <1>2, UnitsFields DEF n
  <2>2. h \in Seq(UnitsOf(Sized)) /\ Len(h) = 1 /\ h[1] = head
    BY <1>1
  <2> HIDE DEF h
  <2>0. h \in Seq(UnitsOf(Sized)) /\ b \in Seq(UnitsOf(Sized))
    BY <1>5, <2>2
  <2>3. /\ q \in Seq(UnitsOf(Sized)) /\ Len(q) = Len(h) + Len(b)
        /\ \A i \in 1 .. Len(h) : q[i] = h[i]
        /\ \A i \in Len(h) + 1 .. Len(h) + Len(b) : q[i] = b[i - Len(h)]
    BY <2>0, ConcatAt
  <2>4. ASSUME NEW k \in 1 .. n + 1 PROVE q[k] = Units(f)[k]
    <3>1. CASE k = 1
      <4>1. q[k] = head /\ k - 1 = 0
        BY <2>2, <2>3, <3>1
      <4> QED
        BY <1>2, <2>1, <4>1
    <3>2. CASE k # 1
      <4>1. k \in Len(h) + 1 .. Len(h) + Len(b) /\ k - Len(h) = k - 1 /\ k - 1 \in 1 .. n
        BY <1>2, <1>5, <2>2, <3>2
      <4>2. q[k] = r[k - 1]
        BY <1>5, <2>3, <4>1
      <4> QED
        BY <1>7, <2>1, <4>1, <4>2
    <3> QED
      BY <3>1, <3>2
  <2>5. Len(q) = Len(Units(f)) /\ \A k \in 1 .. Len(q) : q[k] = Units(f)[k]
    BY <1>2, <1>5, <2>1, <2>2, <2>3, <2>4
  <2> HIDE DEF q
  <2>6. q = Units(f)
    BY <2>1, <2>3, <2>5, SeqEqual
  <2> QED
    BY <2>6 DEF q, h
<1>9. \A i \in 1 .. Len(t) : n + i \in 1 .. Len(r) /\ t[i] = r[n + i]
  BY <1>2, <1>6
<1>10. \A i \in 1 .. Len(t) : OfFrame(t[i], from, last)
  BY <1>1, <1>9
<1>11. Whole(t)
  <2> SUFFICES ASSUME NEW i \in 1 .. Len(t), NEW j \in 1 .. Len(t), i <= j,
                      j - i <= t[i].frame.size - t[i].part
               PROVE  t[j] = [frame |-> t[i].frame, part |-> t[i].part + (j - i)]
    BY DEF Whole
  <2>1. t[i] = r[n + i] /\ t[j] = r[n + j] /\ n + i \in 1 .. Len(r) /\ n + j \in 1 .. Len(r)
    BY <1>9
  <2>2. n + i <= n + j /\ (n + j) - (n + i) = j - i
    BY <1>2
  <2>3. r[n + j] = [frame |-> r[n + i].frame, part |-> r[n + i].part + ((n + j) - (n + i))]
    BY <1>1, <2>1, <2>2 DEF Whole
  <2> QED
    BY <2>1, <2>2, <2>3
<1>12. Linked(t)
  <2> SUFFICES ASSUME NEW i \in 1 .. Len(t) - 1, t[i].part = t[i].frame.size
               PROVE  t[i + 1].part = 0 /\ t[i + 1].frame.number = t[i].frame.number + 1
    BY DEF Linked
  <2>1. i \in 1 .. Len(t) /\ i + 1 \in 1 .. Len(t) /\ n + i \in 1 .. Len(r) - 1 /\ n + (i + 1) = (n + i) + 1
    BY <1>2, <1>6
  <2>2. t[i] = r[n + i] /\ t[i + 1] = r[(n + i) + 1]
    BY <1>9, <2>1
  <2> QED
    BY <1>1, <2>1, <2>2 DEF Linked
<1>13. r[n] = [frame |-> f, part |-> n] /\ r[n].frame = f /\ r[n].part = n
  <2>1. n \in 1 .. n
    BY <1>2
  <2> QED
    BY <1>7, <2>1
<1>14. Begins(t, from, last, taken + 1, NoHead)
  <2>1. ASSUME t # <<>> PROVE t[1].part = 0 /\ t[1].frame.number = taken + 2
    <3>1. n \in 1 .. Len(r) - 1 /\ t[1] = r[n + 1]
      BY <1>2, <1>6, <2>1, EmptySeq
    <3>2. r[n + 1].part = 0 /\ r[n + 1].frame.number = f.number + 1
      BY <1>1, <1>13, <3>1 DEF Linked, n
    <3> QED
      BY <1>1, <3>1, <3>2
  <2>2. (taken + 1) + 1 = taken + 2
    BY <1>1
  <2> QED
    BY <2>1, <2>2 DEF Begins
<1>15. ASSUME Complete(r, last, taken, head) PROVE Complete(t, last, taken + 1, NoHead)
  <2>1. r[Len(r)].part = r[Len(r)].frame.size /\ r[Len(r)].frame.number = last
    BY <1>3, <1>15 DEF Complete
  <2>2. CASE t = <<>>
    <3>1. n = Len(r)
      BY <1>2, <1>6, <2>2, EmptySeq
    <3>2. taken + 1 = last
      BY <1>1, <1>13, <2>1, <3>1
    <3> QED
      BY <2>2, <3>2 DEF Complete
  <2>3. CASE t # <<>>
    <3>1. Len(t) \in 1 .. Len(t) /\ n + Len(t) = Len(r)
      BY <1>2, <1>6, <2>3, EmptySeq
    <3>2. t[Len(t)] = r[Len(r)]
      BY <1>9, <3>1
    <3> QED
      BY <2>1, <2>3, <3>2 DEF Complete
  <2> QED
    BY <2>2, <2>3
<1>16. Chain(t, from, last, taken + 1, NoHead)
  BY <1>1, <1>4, <1>6, <1>10, <1>11, <1>12, <1>14 DEF Chain
<1> QED
  BY <1>4, <1>8, <1>15, <1>16 DEF t, b, f, n

-----------------------------------------------------------------------------
(* The states of a session.                                                *)

\* The frames that fit a buffer, and those the server may write to a user with a
\* list of this size, which his login brings him.
Small == {f \in Sized : f.size <= BodySize}
Fitting(list) == {f \in Sized : f.size <= BodySize \/ f.size <= list}

Sides == {"server", "client"}

\* What the server has to read fits its buffer.
HeadFits == heads["server"] # NoHead => heads["server"].frame.size <= BodySize

TypeInv ==
  /\ open \in BOOLEAN /\ overlapped \in BOOLEAN /\ torn \in BOOLEAN /\ overrun \in BOOLEAN
  /\ saved \in Nat \ {0}
  /\ sent \in Seq(Small) /\ written \in Seq(Sized)
  /\ sending \in Seq(UnitsOf(Small)) /\ c2s \in Seq(UnitsOf(Small))
  /\ s2c \in Seq(UnitsOf(Fitting(saved)))
  /\ pending \in Seq(Seq(UnitsOf(Fitting(saved))))
  /\ heads \in [Sides -> UnitsOf(Sized) \cup {NoHead}]
  /\ got \in [Sides -> Seq(Seq(UnitsOf(Sized)))]
  /\ HeadFits
  /\ overrun => saved > BodySize

FirstOf(frames, from) == \A k \in 1 .. Len(frames) : frames[k] = Units(from[k])

\* From the client: what is on its way and what its thread has still to write.
ServerInv ==
  LET r == c2s \o sending
      taken == Len(got["server"])
  IN  /\ Chain(r, sent, Len(sent), taken, heads["server"])
      /\ open => Complete(r, Len(sent), taken, heads["server"])
      /\ FirstOf(got["server"], sent)

\* What is left of a write that has begun, and how many have not.
Begun == IF pending # <<>> /\ IsRest(pending[1]) THEN pending[1] ELSE <<>>
NotBegun == IF Begun = <<>> THEN Len(pending) ELSE 0

\* The writes not completed are the last ones, whole but for the first, and
\* this is alone when it is not.
PendingInv ==
  /\ Len(pending) <= Len(written)
  /\ \A k \in 1 .. Len(written) : written[k].number = k
  /\ \A k \in 1 .. Len(pending) :
       LET frame == written[Len(written) - Len(pending) + k]
           left == Len(pending[k])
       IN  /\ left \in 1 .. frame.size + 1
           /\ left <= frame.size => Len(pending) = 1
           /\ \A j \in 1 .. left : pending[k][j] = [frame |-> frame, part |-> frame.size - left + j]

\* From the server: what is on its way and what is left of the write that has
\* begun.
ClientInv ==
  ~overlapped =>
  LET r == s2c \o Begun
      last == Len(written) - NotBegun
      taken == Len(got["client"])
  IN  /\ ~torn
      /\ PendingInv
      /\ Chain(r, written, last, taken, heads["client"])
      /\ open => Complete(r, last, taken, heads["client"])
      /\ FirstOf(got["client"], written)

-----------------------------------------------------------------------------
(* Types.                                                                  *)

\* The units of a frame of some kind are units of frames of that kind.
LEMMA UnitsTyped ==
  ASSUME NEW F, F \subseteq Sized, NEW f \in F
  PROVE  Units(f) \in Seq(UnitsOf(F))
<1>1. f.size \in Nat
  BY DEF Sized, Frame
<1>2. \A k \in 1 .. f.size + 1 : [frame |-> f, part |-> k - 1] \in UnitsOf(F)
  BY <1>1 DEF UnitsOf
<1> QED
  BY <1>1, <1>2 DEF Units

\* A sequence over a set is one over a larger set.
LEMMA SeqGrows ==
  ASSUME NEW S, NEW T, S \subseteq T
  PROVE  Seq(S) \subseteq Seq(T)
  OBVIOUS

\* With more that is saved, longer lists fit.
LEMMA FittingGrows ==
  ASSUME NEW m \in Nat, NEW n \in Nat, m <= n
  PROVE  /\ Fitting(m) \subseteq Fitting(n) /\ Fitting(n) \subseteq Sized
         /\ Seq(UnitsOf(Fitting(m))) \subseteq Seq(UnitsOf(Fitting(n)))
         /\ Seq(Seq(UnitsOf(Fitting(m)))) \subseteq Seq(Seq(UnitsOf(Fitting(n))))
         /\ Seq(UnitsOf(Fitting(n))) \subseteq Seq(UnitsOf(Sized))
<1>1. Fitting(m) \subseteq Fitting(n) /\ Fitting(n) \subseteq Sized
  <2>1. \A f \in Sized : f.size \in Nat
    BY DEF Sized, Frame
  <2> QED
    BY <2>1 DEF Fitting
<1>2. UnitsOf(Fitting(m)) \subseteq UnitsOf(Fitting(n)) /\ UnitsOf(Fitting(n)) \subseteq UnitsOf(Sized)
  BY <1>1 DEF UnitsOf
<1>3. /\ Seq(UnitsOf(Fitting(m))) \subseteq Seq(UnitsOf(Fitting(n)))
      /\ Seq(UnitsOf(Fitting(n))) \subseteq Seq(UnitsOf(Sized))
  BY <1>2, SeqGrows
<1>4. Seq(Seq(UnitsOf(Fitting(m)))) \subseteq Seq(Seq(UnitsOf(Fitting(n))))
  BY <1>3, SeqGrows
<1> QED
  BY <1>1, <1>3, <1>4

\* Frames that fit a buffer are frames, and so are their units.
LEMMA SmallTyped ==
  /\ Small \subseteq Sized /\ UnitsOf(Small) \subseteq UnitsOf(Sized)
  /\ Seq(UnitsOf(Small)) \subseteq Seq(UnitsOf(Sized)) /\ Seq(Small) \subseteq Seq(Sized)
<1>1. Small \subseteq Sized /\ UnitsOf(Small) \subseteq UnitsOf(Sized)
  BY DEF Small, UnitsOf
<1> QED
  BY <1>1, SeqGrows

\* The frames of a write, one behind the other.
Frames(kinds, sizes) ==
  [k \in DOMAIN kinds |-> [kind |-> kinds[k], number |-> Len(written) + k, size |-> sizes[k]]]

\* The server writes frames that fit, or the list of a login.
Fits(kinds, sizes) ==
  /\ kinds \in Seq(Kinds) /\ sizes \in Seq(Nat \ {0}) /\ Len(sizes) = Len(kinds)
  /\ \A k \in 1 .. Len(sizes) : sizes[k] <= BodySize \/ sizes[k] <= saved

\* The frames of a write have their types, and their numbers follow on from those
\* written before.
LEMMA FramesTyped ==
  ASSUME NEW kinds, NEW sizes, TypeInv, Fits(kinds, sizes)
  PROVE  LET frames == Frames(kinds, sizes)
             units == [k \in DOMAIN frames |-> Units(frames[k])]
         IN  /\ frames \in Seq(Fitting(saved)) /\ Len(frames) = Len(kinds)
             /\ \A k \in 1 .. Len(kinds) : frames[k] \in Sized /\ frames[k].number = Len(written) + k
             /\ units \in Seq(Seq(UnitsOf(Fitting(saved)))) /\ Len(units) = Len(kinds)
             /\ \A k \in 1 .. Len(kinds) : units[k] = Units(frames[k])
<1> DEFINE frames == Frames(kinds, sizes)
           units == [k \in DOMAIN frames |-> Units(frames[k])]
<1>1. Len(kinds) \in Nat /\ DOMAIN kinds = 1 .. Len(kinds) /\ Len(written) \in Nat /\ saved \in Nat
  BY DEF Fits, TypeInv
<1>2. ASSUME NEW k \in 1 .. Len(kinds)
      PROVE  /\ [kind |-> kinds[k], number |-> Len(written) + k, size |-> sizes[k]] \in Fitting(saved)
             /\ Len(written) + k \in Nat
  <2>1. kinds[k] \in Kinds /\ sizes[k] \in Nat \ {0} /\ (sizes[k] <= BodySize \/ sizes[k] <= saved)
    BY DEF Fits
  <2> QED
    BY <1>1, <2>1 DEF Fitting, Sized, Frame
<1>3. /\ frames \in Seq(Fitting(saved)) /\ Len(frames) = Len(kinds) /\ DOMAIN frames = 1 .. Len(kinds)
      /\ \A k \in 1 .. Len(kinds) : frames[k] \in Fitting(saved) /\ frames[k].number = Len(written) + k
  BY <1>1, <1>2 DEF Frames
<1> HIDE DEF frames
<1>4. Fitting(saved) \subseteq Sized
  BY DEF Fitting
<1>5. \A k \in 1 .. Len(kinds) : Units(frames[k]) \in Seq(UnitsOf(Fitting(saved)))
  BY <1>3, <1>4, UnitsTyped
<1>6. /\ units \in Seq(Seq(UnitsOf(Fitting(saved)))) /\ Len(units) = Len(kinds)
      /\ \A k \in 1 .. Len(kinds) : units[k] = Units(frames[k])
  BY <1>1, <1>3, <1>5
<1> QED
  BY <1>3, <1>4, <1>6 DEF frames

\* Connection::write leaves a queue of frames that fit or are the list of a login,
\* and overruns its buffer only for such a list.
LEMMA WriteTyped ==
  ASSUME NEW kinds, NEW sizes, TypeInv, Fits(kinds, sizes), Write(kinds, sizes),
         saved' \in Nat, saved <= saved'
  PROVE  /\ written' \in Seq(Sized) /\ pending' \in Seq(Seq(UnitsOf(Fitting(saved'))))
         /\ overlapped' \in BOOLEAN /\ overrun' \in BOOLEAN
         /\ overrun' => saved' > BodySize
<1> DEFINE frames == Frames(kinds, sizes)
           units == [k \in DOMAIN frames |-> Units(frames[k])]
           S == Seq(UnitsOf(Fitting(saved)))
<1>1. /\ written' = written \o frames /\ pending' \in Started(units)
      /\ overlapped' = (overlapped \/ \E k \in DOMAIN pending : IsRest(pending[k]))
      /\ overrun' = (overrun \/ \E k \in DOMAIN sizes : sizes[k] > BodySize)
  BY DEF Write, Frames
<1>2. frames \in Seq(Fitting(saved)) /\ units \in Seq(S)
  BY FramesTyped
<1>3. /\ saved \in Nat /\ written \in Seq(Sized) /\ pending \in Seq(S)
      /\ overlapped \in BOOLEAN /\ overrun \in BOOLEAN /\ (overrun => saved > BodySize)
  BY DEF TypeInv
<1> HIDE DEF frames, units
<1>4. Seq(S) \subseteq Seq(Seq(UnitsOf(Fitting(saved')))) /\ Fitting(saved) \subseteq Sized
  BY <1>3, FittingGrows
<1>5. written' \in Seq(Sized)
  <2>1. frames \in Seq(Sized)
    BY <1>2, <1>4, SeqGrows
  <2> QED
    BY <1>1, <1>3, <2>1
<1>6. pending' \in Seq(S)
  <2> HIDE DEF S
  <2>1. pending \o units \in Seq(S)
    BY <1>2, <1>3
  <2>2. ASSUME pending # <<>> PROVE Append(Front(pending) \o units, Last(pending)) \in Seq(S)
    <3>1. Len(pending) \in Nat \ {0} /\ Last(pending) \in S
      BY <1>3, <2>2, EmptySeq DEF Last
    <3>2. Front(pending) \in Seq(S)
      BY <1>3, <3>1 DEF Front
    <3>3. Front(pending) \o units \in Seq(S)
      BY <1>2, <3>2
    <3> QED
      BY <3>1, <3>3
  <2> QED
    BY <1>1, <2>1, <2>2 DEF Started
<1>7. overrun' => saved' > BodySize
  <2>1. ASSUME NEW k \in DOMAIN sizes, sizes[k] > BodySize PROVE saved > BodySize
    <3>0. sizes \in Seq(Nat \ {0}) /\ (sizes[k] <= BodySize \/ sizes[k] <= saved)
      BY <2>1 DEF Fits
    <3>1. sizes[k] \in Nat /\ sizes[k] <= saved
      BY FramingAssumption, <1>3, <2>1, <3>0
    <3> QED
      BY FramingAssumption, <1>3, <2>1, <3>1
  <2>2. overrun' => saved > BodySize
    BY <1>1, <1>3, <2>1
  <2> QED
    BY FramingAssumption, <1>3, <2>2
<1> QED
  BY <1>1, <1>3, <1>4, <1>5, <1>6, <1>7

\* Reading a head overruns the buffer only if it announces such a list.
LEMMA ReadHeadTyped ==
  ASSUME NEW end \in Sides, NEW stream \in Seq(UnitsOf(Fitting(saved))),
         TypeInv, ReadHead(end, stream)
  PROVE  /\ heads' \in [Sides -> UnitsOf(Sized) \cup {NoHead}] /\ got' = got
         /\ torn' \in BOOLEAN /\ overrun' \in BOOLEAN /\ (overrun' => saved > BodySize)
<1>1. stream # <<>> /\ Head(stream) \in UnitsOf(Fitting(saved)) /\ saved \in Nat
  BY HeadTailProperties DEF ReadHead, TypeInv
<1>2. Head(stream).frame \in Fitting(saved) /\ Head(stream) \in UnitsOf(Sized)
  BY <1>1 DEF UnitsOf, Fitting
<1>3. ASSUME Head(stream).frame.size > BodySize PROVE saved > BodySize
  <2>1. Head(stream).frame.size \in Nat /\ Head(stream).frame.size <= saved
    BY <1>2, <1>3, FramingAssumption DEF Fitting, Sized, Frame
  <2> QED
    BY <1>1, <1>3, <2>1, FramingAssumption
<1>4. heads \in [Sides -> UnitsOf(Sized) \cup {NoHead}] /\ overrun \in BOOLEAN /\ torn \in BOOLEAN
      /\ (overrun => saved > BodySize)
  BY DEF TypeInv
<1>5. CASE Head(stream).part = 0
  <2>1. /\ heads' = [heads EXCEPT ![end] = Head(stream)] /\ got' = got /\ torn' = torn
        /\ overrun' = (overrun \/ Head(stream).frame.size > BodySize)
    BY <1>5 DEF ReadHead
  <2>2. heads' \in [Sides -> UnitsOf(Sized) \cup {NoHead}]
    BY <1>2, <1>4, <2>1
  <2>3. overrun' \in BOOLEAN /\ (overrun' => saved > BodySize)
    BY <1>3, <1>4, <2>1
  <2> QED
    BY <1>4, <2>1, <2>2, <2>3
<1>6. CASE Head(stream).part # 0
  BY <1>4, <1>6 DEF ReadHead
<1> QED
  BY <1>5, <1>6

\* Reading a body takes what its head announced, and adds it to what was read.
LEMMA ReadBodyTyped ==
  ASSUME NEW end \in Sides, NEW stream \in Seq(UnitsOf(Sized)), NEW body \in Body(end, stream),
         TypeInv, ReadBody(end, body)
  PROVE  /\ heads' = [heads EXCEPT ![end] = NoHead]
         /\ heads' \in [Sides -> UnitsOf(Sized) \cup {NoHead}]
         /\ heads[end] \in UnitsOf(Sized) /\ heads[end] # NoHead
         /\ heads[end].frame.size \in Nat \ {0} /\ heads[end].frame.size <= Len(stream)
         /\ body = SubSeq(stream, 1, heads[end].frame.size) /\ Len(body) = heads[end].frame.size
         /\ body \in Seq(UnitsOf(Sized))
         /\ got' = [got EXCEPT ![end] = Append(@, <<heads[end]>> \o body)]
         /\ got' \in [Sides -> Seq(Seq(UnitsOf(Sized)))]
         /\ torn' = torn
<1> DEFINE n == heads[end].frame.size
<1>1. /\ heads \in [Sides -> UnitsOf(Sized) \cup {NoHead}] /\ got \in [Sides -> Seq(Seq(UnitsOf(Sized)))]
  BY DEF TypeInv
<1>2. heads[end] # NoHead /\ n <= Len(stream) /\ body = SubSeq(stream, 1, n)
  BY DEF Body
<1>3. heads[end] \in UnitsOf(Sized) /\ n \in Nat \ {0}
  BY <1>1, <1>2, UnitFields
<1> HIDE DEF n
<1>4. body \in Seq(UnitsOf(Sized)) /\ Len(body) = n
  BY <1>2, <1>3
<1>5. <<heads[end]>> \o body \in Seq(UnitsOf(Sized))
  BY <1>3, <1>4
<1>6. got' = [got EXCEPT ![end] = Append(@, <<heads[end]>> \o body)]
      /\ heads' = [heads EXCEPT ![end] = NoHead] /\ torn' = torn
  BY DEF ReadBody
<1>7. got[end] \in Seq(Seq(UnitsOf(Sized)))
  BY <1>1
<1>8. Append(got[end], <<heads[end]>> \o body) \in Seq(Seq(UnitsOf(Sized)))
  BY <1>5, <1>7, AppendProperties
<1>9. got' \in [Sides -> Seq(Seq(UnitsOf(Sized)))]
  BY <1>1, <1>6, <1>8
<1>10. heads' \in [Sides -> UnitsOf(Sized) \cup {NoHead}]
  BY <1>1, <1>6
<1> QED
  BY <1>2, <1>3, <1>4, <1>6, <1>9, <1>10 DEF n

\* What a login is answered with fits; what is relayed does.
LEMMA LoginFits ==
  ASSUME TypeInv, NEW n \in Nat, NEW request \in 1 .. BodySize
  PROVE  Fits(<<"login_suc">> \o [k \in 1 .. n |-> "addfd"], <<LoginSize>> \o [k \in 1 .. n |-> request])
<1>1. LoginSize \in Nat \ {0} /\ LoginSize <= saved /\ request \in Nat \ {0} /\ request <= BodySize
  BY FramingAssumption DEF LoginSize, TypeInv
<1> DEFINE size == LoginSize
           kinds == [k \in 1 .. n |-> "addfd"]
           sizes == [k \in 1 .. n |-> request]
<1>2. <<"login_suc">> \in Seq(Kinds) /\ Len(<<"login_suc">>) = 1
  BY DEF Kinds
<1>3. <<size>> \in Seq(Nat \ {0}) /\ Len(<<size>>) = 1 /\ <<size>>[1] = size
  BY <1>1
<1>4. kinds \in Seq(Kinds) /\ Len(kinds) = n
  BY DEF Kinds
<1>5. sizes \in Seq(Nat \ {0}) /\ Len(sizes) = n /\ \A k \in 1 .. n : sizes[k] = request
  BY <1>1
<1> HIDE DEF size, kinds, sizes
<1>6. <<"login_suc">> \o kinds \in Seq(Kinds) /\ Len(<<"login_suc">> \o kinds) = 1 + n
  BY <1>2, <1>4, ConcatAt
<1> DEFINE s == <<size>>
<1>7. s \in Seq(Nat \ {0}) /\ Len(s) = 1 /\ s[1] = size
  BY <1>3
<1> HIDE DEF s
<1>8. /\ s \o sizes \in Seq(Nat \ {0}) /\ Len(s \o sizes) = Len(s) + Len(sizes)
      /\ \A i \in 1 .. Len(s) : (s \o sizes)[i] = s[i]
      /\ \A i \in Len(s) + 1 .. Len(s) + Len(sizes) : (s \o sizes)[i] = sizes[i - Len(s)]
  BY <1>5, <1>7, ConcatAt
<1>9. ASSUME NEW k \in 1 .. Len(s \o sizes)
      PROVE  (s \o sizes)[k] <= BodySize \/ (s \o sizes)[k] <= saved
  <2>1. CASE k = 1
    <3>1. k \in 1 .. Len(s)
      BY <1>7, <2>1
    <3>2. (s \o sizes)[k] = size
      BY <1>7, <1>8, <2>1, <3>1
    <3> QED
      BY <1>1, <3>2 DEF size
  <2>2. CASE k # 1
    <3>1. k \in Len(s) + 1 .. Len(s) + Len(sizes) /\ k - Len(s) \in 1 .. n
      BY <1>5, <1>7, <1>8, <2>2
    <3>2. (s \o sizes)[k] = request
      BY <1>5, <1>8, <3>1
    <3> QED
      BY <1>1, <3>2
  <2> QED
    BY <2>1, <2>2
<1> QED
  BY <1>5, <1>6, <1>7, <1>8, <1>9 DEF Fits, s, size, kinds, sizes

\* What is relayed fits: the client that sent it has measured it.
LEMMA RelayFits ==
  ASSUME TypeInv, NEW size \in 1 .. BodySize, NEW kind \in Kinds
  PROVE  Fits(<<kind>>, <<size>>)
  BY FramingAssumption DEF Fits, TypeInv

\* What is saved grows.
LEMMA SaveGrows ==
  ASSUME TypeInv, NEW size \in Nat \ {0}, Save(size) \/ saved' = saved + Listed(size)
  PROVE  saved' \in Nat \ {0} /\ saved <= saved'
  BY FramingAssumption DEF TypeInv, Save, Listed

\* What is left of a sequence has its type.
LEMMA RestTyped ==
  ASSUME NEW S, NEW s \in Seq(S), NEW n \in Nat, n <= Len(s)
  PROVE  SubSeq(s, n + 1, Len(s)) \in Seq(S)
  OBVIOUS

\* What the socket takes of the first write, and what is left of all.
LEMMA RequeuedTyped ==
  ASSUME NEW S, pending \in Seq(Seq(S)), pending # <<>>, NEW n \in Nat, n <= Len(Head(pending))
  PROVE  /\ SubSeq(Head(pending), 1, n) \in Seq(S)
         /\ Requeued(SubSeq(Head(pending), n + 1, Len(Head(pending)))) \in Seq(Seq(S))
<1> DEFINE p == Head(pending)
           b == SubSeq(p, n + 1, Len(p))
<1>1. p \in Seq(S) /\ Tail(pending) \in Seq(Seq(S))
  BY HeadTailProperties
<1> HIDE DEF p
<1>2. SubSeq(p, 1, n) \in Seq(S) /\ b \in Seq(S)
  BY <1>1 DEF p
<1>3. Requeued(b) \in Seq(Seq(S))
  BY <1>1, <1>2, AppendProperties DEF Requeued
<1> QED
  BY <1>2, <1>3 DEF p

\* What the server serves is no longer than its buffer.
LEMMA ServedFits ==
  ASSUME TypeInv, NEW body \in Body("server", c2s), ReadBody("server", body)
  PROVE  heads["server"].frame.size \in 1 .. BodySize
<1>1. c2s \in Seq(UnitsOf(Sized)) /\ "server" \in Sides /\ HeadFits
  BY SmallTyped DEF TypeInv, Sides
<1>2. heads["server"] # NoHead /\ heads["server"].frame.size \in Nat \ {0}
  BY <1>1, ReadBodyTyped
<1> QED
  BY <1>1, <1>2, FramingAssumption DEF HeadFits

\* Every step of a session keeps the types.
LEMMA TypeStep ==
  ASSUME TypeInv, Next
  PROVE  TypeInv'
<1> DEFINE S == UnitsOf(Fitting(saved))
<1>1. /\ open \in BOOLEAN /\ overlapped \in BOOLEAN /\ torn \in BOOLEAN /\ overrun \in BOOLEAN
      /\ saved \in Nat \ {0} /\ HeadFits
      /\ sent \in Seq(Small) /\ written \in Seq(Sized)
      /\ sending \in Seq(UnitsOf(Small)) /\ c2s \in Seq(UnitsOf(Small))
      /\ s2c \in Seq(S) /\ pending \in Seq(Seq(S))
      /\ heads \in [Sides -> UnitsOf(Sized) \cup {NoHead}]
      /\ got \in [Sides -> Seq(Seq(UnitsOf(Sized)))]
      /\ overrun => saved > BodySize
  BY DEF TypeInv
<1>2. /\ Seq(UnitsOf(Small)) \subseteq Seq(S) /\ Seq(UnitsOf(Small)) \subseteq Seq(UnitsOf(Sized))
      /\ Seq(S) \subseteq Seq(UnitsOf(Sized))
  <2>1. Small \subseteq Fitting(saved)
    BY DEF Small, Fitting
  <2>2. UnitsOf(Small) \subseteq S
    BY <2>1 DEF UnitsOf
  <2> QED
    BY <1>1, <2>2, SeqGrows, SmallTyped, FittingGrows
<1>3. ASSUME NEW m \in Nat, saved <= m
      PROVE  /\ Seq(S) \subseteq Seq(UnitsOf(Fitting(m)))
             /\ Seq(Seq(S)) \subseteq Seq(Seq(UnitsOf(Fitting(m))))
  <2>1. saved \in Nat
    BY <1>1
  <2> QED
    BY <1>3, <2>1, FittingGrows
<1>4. "server" \in Sides /\ "client" \in Sides
  BY DEF Sides
<1> DEFINE Written == /\ written' \in Seq(Sized) /\ pending' \in Seq(Seq(UnitsOf(Fitting(saved'))))
                      /\ overlapped' \in BOOLEAN /\ overrun' \in BOOLEAN
                      /\ overrun' => saved' > BodySize
<1>14. ASSUME saved' \in Nat \ {0}, saved <= saved',
              \/ \E kinds, sizes : Fits(kinds, sizes) /\ Write(kinds, sizes)
              \/ UNCHANGED <<pending, written, overlapped, overrun>>
       PROVE  Written
  <2>1. CASE UNCHANGED <<pending, written, overlapped, overrun>>
    BY <1>1, <1>3, <1>14, <2>1, FramingAssumption
  <2>2. ASSUME NEW kinds, NEW sizes, Fits(kinds, sizes), Write(kinds, sizes)
        PROVE  Written
    BY <1>14, <2>2, WriteTyped
  <2> QED
    BY <1>14, <2>1, <2>2
<1> HIDE DEF S, Written
<1>5. ASSUME NEW kind \in {"login", "sendmsg"}, NEW size \in 1 .. MaxSize, NetWrite(kind, size)
      PROVE  TypeInv'
  <2> DEFINE frame == [kind |-> kind, number |-> Len(sent) + 1, size |-> size]
  <2>1. /\ sent' = Append(sent, frame) /\ sending' = Units(frame)
        /\ UNCHANGED <<open, c2s, s2c, pending, heads, got, torn, written, saved, overlapped, overrun>>
        /\ size <= BodySize
    BY <1>5 DEF NetWrite, reading
  <2>2. frame \in Small
    BY <1>1, <2>1 DEF Small, Sized, Frame, Kinds
  <2> HIDE DEF frame
  <2>3. sent' \in Seq(Small) /\ sending' \in Seq(UnitsOf(Small))
    BY <1>1, <2>1, <2>2, AppendProperties, UnitsTyped, SmallTyped
  <2> QED
    BY <2>1, <2>3, <1>1 DEF TypeInv, HeadFits, S
<1>6. ASSUME NEW n \in 1 .. BodySize + 1, ClientSends(n)
      PROVE  TypeInv'
  <2>1. /\ c2s' = c2s \o SubSeq(sending, 1, n) /\ sending' = SubSeq(sending, n + 1, Len(sending))
        /\ n <= Len(sending) /\ n \in Nat
        /\ UNCHANGED <<open, s2c, pending, heads, got, torn, sent, written, saved, overlapped, overrun>>
    BY <1>6 DEF ClientSends, reading
  <2>2. SubSeq(sending, 1, n) \in Seq(UnitsOf(Small)) /\ SubSeq(sending, n + 1, Len(sending)) \in Seq(UnitsOf(Small))
    BY <1>1, <2>1
  <2>3. c2s' \in Seq(UnitsOf(Small))
    BY <1>1, <2>1, <2>2
  <2> QED
    BY <2>1, <2>2, <2>3, <1>1 DEF TypeInv, HeadFits, S
<1>7. ASSUME NEW size \in 1 .. BodySize, Relay(size) \/ Saves(size)
      PROVE  TypeInv'
  <2>0. size \in Nat \ {0} /\ "sendmsg" \in Kinds
    BY FramingAssumption DEF Kinds
  <2>1. /\ Save(size) \/ saved' = saved + Listed(size)
        /\ Write(<<"sendmsg">>, <<size>>) \/ UNCHANGED <<pending, written, overlapped, overrun>>
        /\ UNCHANGED <<open, sending, c2s, s2c, heads, got, torn, sent>>
    BY <1>7 DEF Relay, Saves, reading
  <2>2. saved' \in Nat \ {0} /\ saved <= saved'
    BY <2>0, <2>1, SaveGrows
  <2>3. Written
    BY <2>0, <2>1, <2>2, RelayFits, <1>14
  <2> QED
    BY <2>1, <2>2, <2>3, <1>1, <1>3 DEF TypeInv, HeadFits, Written
<1>8. ASSUME NEW n \in 1 .. BodySize + 1, ServerSends(n)
      PROVE  TypeInv'
  <2>1. /\ pending # <<>> /\ n <= Len(Head(pending)) /\ n \in Nat
        /\ s2c' = s2c \o SubSeq(Head(pending), 1, n)
        /\ pending' = Requeued(SubSeq(Head(pending), n + 1, Len(Head(pending))))
        /\ overlapped' = (overlapped \/ (n < Len(Head(pending)) /\ Len(pending) > 1))
        /\ UNCHANGED <<open, sending, c2s, heads, got, torn, sent, written, saved, overrun>>
    BY <1>8 DEF ServerSends, reading
  <2>2. SubSeq(Head(pending), 1, n) \in Seq(S) /\ pending' \in Seq(Seq(S))
    BY <1>1, <2>1, RequeuedTyped
  <2>3. s2c' \in Seq(S) /\ overlapped' \in BOOLEAN
    BY <1>1, <2>1, <2>2
  <2> QED
    BY <2>1, <2>2, <2>3, <1>1 DEF TypeInv, HeadFits, S
<1>9. ASSUME ServerReadsHead
      PROVE  TypeInv'
  <2>1. /\ ReadHead("server", c2s) /\ c2s' = Tail(c2s)
        /\ UNCHANGED <<open, sending, s2c, pending, sent, written, saved, overlapped>>
    BY <1>9 DEF ServerReadsHead
  <2>2. c2s # <<>> /\ c2s \in Seq(S)
    BY <1>1, <1>2, <2>1 DEF ReadHead
  <2>3. /\ heads' \in [Sides -> UnitsOf(Sized) \cup {NoHead}] /\ got' = got
        /\ torn' \in BOOLEAN /\ overrun' \in BOOLEAN /\ (overrun' => saved > BodySize)
    BY <1>4, <2>1, <2>2, ReadHeadTyped DEF S
  <2>4. c2s' \in Seq(UnitsOf(Small))
    BY <1>1, <2>1, <2>2, HeadTailProperties
  <2>5. HeadFits'
    <3>1. Head(c2s) \in UnitsOf(Small)
      BY <1>1, <2>2, HeadTailProperties
    <3>2. Head(c2s).frame.size <= BodySize
      BY <3>1 DEF UnitsOf, Small
    <3>3. heads' = heads \/ heads' = [heads EXCEPT !["server"] = Head(c2s)]
      BY <2>1 DEF ReadHead
    <3> QED
      BY <1>1, <1>4, <3>2, <3>3 DEF HeadFits
  <2> QED
    BY <2>1, <2>3, <2>4, <2>5, <1>1 DEF TypeInv, S
<1>10. ASSUME ServerReadsBody
       PROVE  TypeInv'
  <2> DEFINE size == heads["server"].frame.size
  <2>1. PICK body \in Body("server", c2s) :
          /\ ReadBody("server", body)
          /\ c2s' = Rest(c2s, body)
          /\ \/ heads["server"].frame.kind = "login" /\ ServeLogin(size)
             \/ heads["server"].frame.kind = "sendmsg" /\ ServeSendmsg(size)
          /\ UNCHANGED <<open, sending, s2c, sent>>
    BY <1>10 DEF ServerReadsBody
  <2>2. c2s \in Seq(UnitsOf(Sized))
    BY <1>1, <1>2
  <2>3. /\ heads' \in [Sides -> UnitsOf(Sized) \cup {NoHead}]
        /\ got' \in [Sides -> Seq(Seq(UnitsOf(Sized)))]
        /\ torn' = torn /\ Len(body) = heads["server"].frame.size
        /\ heads["server"].frame.size \in Nat \ {0} /\ heads["server"].frame.size <= Len(c2s)
    BY <1>4, <2>1, <2>2, ReadBodyTyped
  <2>4. c2s' \in Seq(UnitsOf(Small))
    <3>1. Len(body) \in Nat /\ Len(body) <= Len(c2s) /\ c2s' = SubSeq(c2s, Len(body) + 1, Len(c2s))
      BY <2>1, <2>3 DEF Rest
    <3> QED
      BY <1>1, <3>1, RestTyped
  <2>5. HeadFits' /\ size \in 1 .. BodySize /\ size \in Nat \ {0}
    <3>1. heads'["server"] = NoHead
      BY <1>1, <1>4, <2>1 DEF ReadBody
    <3>2. size \in 1 .. BodySize
      BY <2>1, ServedFits
    <3> QED
      BY <2>3, <3>1, <3>2 DEF HeadFits
  <2> HIDE DEF size
  <2>6. saved' \in Nat \ {0} /\ saved <= saved' /\ Written
    <3>1. CASE ServeLogin(size)
      <4>1. saved' = saved
        BY <3>1 DEF ServeLogin
      <4>2. ASSUME NEW n \in 0 .. MaxRelayed, NEW request \in 1 .. BodySize,
                   Write(<<"login_suc">> \o [k \in 1 .. n |-> "addfd"],
                         <<LoginSize>> \o [k \in 1 .. n |-> request])
            PROVE  Written
        <5>1. n \in Nat
          OBVIOUS
        <5>2. Fits(<<"login_suc">> \o [k \in 1 .. n |-> "addfd"],
                   <<LoginSize>> \o [k \in 1 .. n |-> request])
          BY <5>1, LoginFits
        <5> QED
          BY <1>1, <1>14, <4>1, <4>2, <5>2
      <4>3. ASSUME Write(<<"login_pwerr">>, <<size>>)
            PROVE  Written
        <5>1. "login_pwerr" \in Kinds
          BY DEF Kinds
        <5> QED
          BY <1>1, <1>14, <2>5, <4>1, <4>3, <5>1, RelayFits
      <4>4. Written
        BY <3>1, <4>2, <4>3 DEF ServeLogin
      <4>5. saved' \in Nat \ {0} /\ saved <= saved'
        BY <1>1, <4>1
      <4> QED
        BY <4>4, <4>5
    <3>2. CASE ServeSendmsg(size)
      <4>1. /\ Save(size)
            /\ Write(<<"sendmsg">>, <<size>>) \/ UNCHANGED <<pending, written, overlapped, overrun>>
            /\ "sendmsg" \in Kinds
        BY <3>2 DEF ServeSendmsg, Kinds
      <4>2. saved' \in Nat \ {0} /\ saved <= saved'
        BY <2>5, <4>1, SaveGrows
      <4>3. Written
        BY <1>14, <2>5, <4>1, <4>2, RelayFits
      <4> QED
        BY <4>2, <4>3
    <3> QED
      BY <2>1, <3>1, <3>2
  <2> QED
    BY <1>1, <1>3, <2>1, <2>3, <2>4, <2>5, <2>6 DEF TypeInv, Written
<1>11. ASSUME ClientReadsHead
       PROVE  TypeInv'
  <2>1. /\ ReadHead("client", s2c) /\ s2c' = Tail(s2c)
        /\ UNCHANGED <<open, sending, c2s, pending, sent, written, saved, overlapped>>
    BY <1>11 DEF ClientReadsHead
  <2>2. s2c # <<>>
    BY <2>1 DEF ReadHead
  <2>3. /\ heads' \in [Sides -> UnitsOf(Sized) \cup {NoHead}] /\ got' = got
        /\ torn' \in BOOLEAN /\ overrun' \in BOOLEAN /\ (overrun' => saved > BodySize)
    BY <1>1, <1>4, <2>1, ReadHeadTyped DEF S
  <2>4. s2c' \in Seq(S)
    BY <1>1, <2>1, <2>2, HeadTailProperties
  <2>5. HeadFits'
    <3>1. heads' = heads \/ heads' = [heads EXCEPT !["client"] = Head(s2c)]
      BY <2>1 DEF ReadHead
    <3>2. heads'["server"] = heads["server"]
      BY <1>1, <1>4, <3>1
    <3> QED
      BY <1>1, <3>2 DEF HeadFits
  <2> QED
    BY <2>1, <2>3, <2>4, <2>5, <1>1 DEF TypeInv, S
<1>12. ASSUME ClientReadsBody
       PROVE  TypeInv'
  <2>1. PICK body \in Body("client", s2c) :
          /\ ReadBody("client", body)
          /\ s2c' = Rest(s2c, body)
          /\ UNCHANGED <<open, sending, c2s, pending, sent, written, saved, overlapped, overrun>>
    BY <1>12 DEF ClientReadsBody
  <2>2. s2c \in Seq(UnitsOf(Sized))
    BY <1>1, <1>2
  <2>3. /\ heads' \in [Sides -> UnitsOf(Sized) \cup {NoHead}]
        /\ got' \in [Sides -> Seq(Seq(UnitsOf(Sized)))]
        /\ torn' = torn /\ Len(body) = heads["client"].frame.size
        /\ heads["client"].frame.size \in Nat \ {0} /\ heads["client"].frame.size <= Len(s2c)
    BY <1>4, <2>1, <2>2, ReadBodyTyped
  <2>4. s2c' \in Seq(S)
    <3>1. Len(body) \in Nat /\ Len(body) <= Len(s2c) /\ s2c' = SubSeq(s2c, Len(body) + 1, Len(s2c))
      BY <2>1, <2>3 DEF Rest
    <3> QED
      BY <1>1, <3>1, RestTyped
  <2>5. HeadFits'
    <3>1. heads'["server"] = heads["server"]
      BY <1>1, <1>4, <2>1 DEF ReadBody
    <3> QED
      BY <1>1, <3>1 DEF HeadFits
  <2> QED
    BY <2>1, <2>3, <2>4, <2>5, <1>1 DEF TypeInv, S
<1>13. ASSUME Ends
       PROVE  TypeInv'
  <2>1. /\ open' = FALSE /\ sending' = <<>> /\ pending' = <<>>
        /\ UNCHANGED <<c2s, s2c, heads, got, torn, sent, written, saved, overlapped, overrun>>
    BY <1>13 DEF Ends, reading
  <2>0. \A T : <<>> \in Seq(T)
    OBVIOUS
  <2>2. sending' \in Seq(UnitsOf(Small)) /\ pending' \in Seq(Seq(S)) /\ open' \in BOOLEAN
    BY <2>0, <2>1
  <2> QED
    BY <2>1, <2>2, <1>1 DEF TypeInv, HeadFits, S
<1> QED
  BY <1>5, <1>6, <1>7, <1>8, <1>9, <1>10, <1>11, <1>12, <1>13 DEF Next

\* The session, types alone: every value has its type, and no buffer is overrun
\* before the list of a login can be longer than one.
LEMMA TypeInductive == Spec => []TypeInv
<1>1. Init => TypeInv
  <2> SUFFICES ASSUME Init PROVE TypeInv
    OBVIOUS
  <2>1. /\ open = TRUE /\ overlapped = FALSE /\ torn = FALSE /\ overrun = FALSE
        /\ sent = <<>> /\ written = <<>> /\ sending = <<>> /\ c2s = <<>> /\ s2c = <<>> /\ pending = <<>>
        /\ heads = [end \in Sides |-> NoHead] /\ got = [end \in Sides |-> <<>>]
    BY DEF Init, Sides
  <2>2. \A S : <<>> \in Seq(S)
    OBVIOUS
  <2>3. /\ heads \in [Sides -> UnitsOf(Sized) \cup {NoHead}]
        /\ got \in [Sides -> Seq(Seq(UnitsOf(Sized)))]
    BY <2>1, <2>2
  <2>4. saved \in Nat \ {0}
    BY FramingAssumption DEF Init, Listed
  <2>5. HeadFits
    BY <2>1 DEF HeadFits, Sides
  <2> QED
    BY <2>1, <2>2, <2>3, <2>4, <2>5 DEF TypeInv
<1>2. TypeInv /\ UNCHANGED vars => TypeInv'
  BY DEF vars, TypeInv, HeadFits
<1>3. TypeInv /\ [Next]_vars => TypeInv'
  BY <1>2, TypeStep
<1> QED
  BY <1>1, <1>3, PTL DEF Spec

\* A head is one, and a write that is not completed has units left.
Writes == Seq(UnitsOf(Sized)) \ {<<>>}

ShapeInv ==
  /\ \A end \in Sides : heads[end].part = 0
  /\ pending \in Seq(Writes)

\* What is started is not completed.
LEMMA StartedShape ==
  ASSUME TypeInv, ShapeInv, NEW kinds, NEW sizes, Fits(kinds, sizes), Write(kinds, sizes)
  PROVE  pending' \in Seq(Writes)
<1> DEFINE frames == Frames(kinds, sizes)
           units == [k \in DOMAIN frames |-> Units(frames[k])]
<1>1. pending' \in Started(units)
  BY DEF Write, Frames
<1>2. /\ units \in Seq(Seq(UnitsOf(Fitting(saved)))) /\ Len(units) = Len(kinds)
      /\ \A k \in 1 .. Len(kinds) : frames[k] \in Sized /\ units[k] = Units(frames[k])
  BY FramesTyped
<1> HIDE DEF units, frames
<1>3. \A k \in 1 .. Len(units) : units[k] \in Writes
  <2> SUFFICES ASSUME NEW k \in 1 .. Len(units)
               PROVE  units[k] \in Writes
    OBVIOUS
  <2>1. frames[k] \in Sized /\ units[k] = Units(frames[k])
    BY <1>2
  <2>2. frames[k].size \in Nat
    BY <2>1 DEF Sized, Frame
  <2>3. Units(frames[k]) \in Seq(UnitsOf(Sized)) /\ Len(Units(frames[k])) = frames[k].size + 1
    BY <2>1, UnitsFields
  <2>4. Units(frames[k]) # <<>>
    BY <2>2, <2>3
  <2> QED
    BY <2>1, <2>3, <2>4 DEF Writes
<1>4. units \in Seq(Writes)
  BY <1>2, <1>3
<1>5. pending \in Seq(Writes)
  BY DEF ShapeInv
<1>6. pending \o units \in Seq(Writes)
  BY <1>4, <1>5
<1>7. ASSUME pending # <<>> PROVE Append(Front(pending) \o units, Last(pending)) \in Seq(Writes)
  <2>1. Len(pending) \in Nat \ {0} /\ Last(pending) \in Writes
    BY <1>5, <1>7, EmptySeq DEF Last
  <2>2. Front(pending) \in Seq(Writes)
    BY <1>5, <2>1 DEF Front
  <2>3. Front(pending) \o units \in Seq(Writes)
    BY <1>4, <2>2
  <2> QED
    BY <2>1, <2>3
<1> QED
  BY <1>1, <1>6, <1>7 DEF Started

\* What the socket has taken whole does not ask it again.
LEMMA RequeuedShape ==
  ASSUME TypeInv, ShapeInv, NEW n \in 1 .. BodySize + 1, ServerSends(n)
  PROVE  pending' \in Seq(Writes)
<1> DEFINE left == SubSeq(Head(pending), n + 1, Len(Head(pending)))
<1>1. /\ pending # <<>> /\ pending \in Seq(Writes) /\ pending' = Requeued(left)
      /\ n \in Nat /\ n <= Len(Head(pending))
  BY DEF ServerSends, ShapeInv
<1>2. Head(pending) \in Writes /\ Tail(pending) \in Seq(Writes)
  BY <1>1, HeadTailProperties
<1>3. left \in Seq(UnitsOf(Sized))
  BY <1>1, <1>2, RestTyped DEF Writes
<1> HIDE DEF left
<1>4. left # <<>> => Append(Tail(pending), left) \in Seq(Writes)
  BY <1>2, <1>3, AppendProperties DEF Writes
<1> QED
  BY <1>1, <1>2, <1>4 DEF Requeued

\* Every step keeps the heads and the writes what they are.
LEMMA ShapeStep ==
  ASSUME TypeInv, ShapeInv, Next
  PROVE  ShapeInv'
<1>1. /\ pending \in Seq(Writes) /\ \A end \in Sides : heads[end].part = 0
      /\ heads \in [Sides -> UnitsOf(Sized) \cup {NoHead}] /\ NoHead.part = 0
      /\ "server" \in Sides /\ "client" \in Sides
  BY DEF ShapeInv, TypeInv, NoHead, Sides
<1>2. ASSUME NEW end \in Sides, NEW stream, ReadHead(end, stream), pending' = pending
      PROVE  ShapeInv'
  <2>1. heads' = heads \/ (heads' = [heads EXCEPT ![end] = Head(stream)] /\ Head(stream).part = 0)
    BY <1>2 DEF ReadHead
  <2>2. \A e \in Sides : heads'[e].part = 0
    BY <1>1, <2>1
  <2> QED
    BY <1>1, <1>2, <2>2 DEF ShapeInv
<1>3. ASSUME NEW end \in Sides, NEW body, ReadBody(end, body), pending' \in Seq(Writes)
      PROVE  ShapeInv'
  <2>1. heads' = [heads EXCEPT ![end] = NoHead]
    BY <1>3 DEF ReadBody
  <2>2. \A e \in Sides : heads'[e].part = 0
    BY <1>1, <2>1
  <2> QED
    BY <1>3, <2>2 DEF ShapeInv
<1>4. ASSUME heads' = heads, pending' \in Seq(Writes)
      PROVE  ShapeInv'
  BY <1>1, <1>4 DEF ShapeInv
<1>5. ASSUME NEW kind \in {"login", "sendmsg"}, NEW size \in 1 .. MaxSize, NetWrite(kind, size)
      PROVE  ShapeInv'
  BY <1>1, <1>4, <1>5 DEF NetWrite, reading
<1>6. ASSUME NEW n \in 1 .. BodySize + 1, ClientSends(n)
      PROVE  ShapeInv'
  BY <1>1, <1>4, <1>6 DEF ClientSends, reading
<1>7. ASSUME NEW size \in 1 .. BodySize, Relay(size) \/ Saves(size)
      PROVE  ShapeInv'
  <2>1. CASE Relay(size)
    <3>1. Write(<<"sendmsg">>, <<size>>) /\ "sendmsg" \in Kinds /\ heads' = heads
      BY <2>1 DEF Relay, reading, Kinds
    <3> QED
      BY <1>4, <3>1, RelayFits, StartedShape
  <2>2. CASE Saves(size)
    BY <1>1, <1>4, <2>2 DEF Saves, reading
  <2> QED
    BY <1>7, <2>1, <2>2
<1>8. ASSUME NEW n \in 1 .. BodySize + 1, ServerSends(n)
      PROVE  ShapeInv'
  <2>1. heads' = heads
    BY <1>8 DEF ServerSends, reading
  <2> QED
    BY <1>4, <1>8, <2>1, RequeuedShape
<1>9. ASSUME ServerReadsHead
      PROVE  ShapeInv'
  BY <1>1, <1>2, <1>9 DEF ServerReadsHead
<1>10. ASSUME ServerReadsBody
       PROVE  ShapeInv'
  <2> DEFINE size == heads["server"].frame.size
  <2>1. PICK body \in Body("server", c2s) :
          ReadBody("server", body) /\ (ServeLogin(size) \/ ServeSendmsg(size))
    BY <1>10 DEF ServerReadsBody
  <2>2. size \in 1 .. BodySize
    BY <2>1, ServedFits
  <2> HIDE DEF size
  <2>3. ASSUME NEW kind \in Kinds, Write(<<kind>>, <<size>>)
        PROVE  pending' \in Seq(Writes)
    BY <2>2, <2>3, RelayFits, StartedShape
  <2>4. ASSUME NEW n \in 0 .. MaxRelayed, NEW request \in 1 .. BodySize,
               Write(<<"login_suc">> \o [k \in 1 .. n |-> "addfd"],
                     <<LoginSize>> \o [k \in 1 .. n |-> request])
        PROVE  pending' \in Seq(Writes)
    <3>1. n \in Nat
      OBVIOUS
    <3> QED
      BY <2>4, <3>1, LoginFits, StartedShape
  <2>5. "login_pwerr" \in Kinds /\ "sendmsg" \in Kinds
    BY DEF Kinds
  <2>6. pending' \in Seq(Writes)
    <3>1. CASE ServeLogin(size)
      BY <2>3, <2>4, <2>5, <3>1 DEF ServeLogin
    <3>2. CASE ServeSendmsg(size)
      BY <1>1, <2>3, <2>5, <3>2 DEF ServeSendmsg
    <3> QED
      BY <2>1, <3>1, <3>2
  <2> QED
    BY <1>1, <1>3, <2>1, <2>6
<1>11. ASSUME ClientReadsHead
       PROVE  ShapeInv'
  BY <1>1, <1>2, <1>11 DEF ClientReadsHead
<1>12. ASSUME ClientReadsBody
       PROVE  ShapeInv'
  BY <1>1, <1>3, <1>12 DEF ClientReadsBody
<1>13. ASSUME Ends
       PROVE  ShapeInv'
  <2>1. heads' = heads /\ pending' = <<>>
    BY <1>13 DEF Ends, reading
  <2>2. <<>> \in Seq(Writes)
    OBVIOUS
  <2> QED
    BY <1>4, <2>1, <2>2
<1> QED
  BY <1>5, <1>6, <1>7, <1>8, <1>9, <1>10, <1>11, <1>12, <1>13 DEF Next

\* Whatever is on its way, read or written is made of the units of frames; a head
\* is only ever taken from one, and no write that is completed asks the socket
\* again.
THEOREM SessionTyped == Spec => []TypeOK
<1>1. Init => ShapeInv
  <2> SUFFICES ASSUME Init PROVE ShapeInv
    OBVIOUS
  <2>1. heads = [end \in Sides |-> NoHead] /\ pending = <<>> /\ NoHead.part = 0
    BY DEF Init, Sides, NoHead
  <2>2. <<>> \in Seq(Writes)
    OBVIOUS
  <2> QED
    BY <2>1, <2>2 DEF ShapeInv
<1>2. ShapeInv /\ UNCHANGED vars => ShapeInv'
  BY DEF vars, ShapeInv
<1>3. TypeInv /\ ShapeInv /\ [Next]_vars => ShapeInv'
  BY <1>2, ShapeStep
<1>4. TypeInv /\ ShapeInv => TypeOK
  <2> SUFFICES ASSUME TypeInv, ShapeInv PROVE TypeOK
    OBVIOUS
  <2>1. Fitting(saved) \subseteq Sized /\ Small \subseteq Sized /\ Sized \subseteq Frame
    BY DEF Fitting, Small, Sized
  <2>2. UnitsOf(Sized) \subseteq Unit /\ UnitsOf(Fitting(saved)) \subseteq Unit /\ UnitsOf(Small) \subseteq Unit
    BY <2>1 DEF UnitsOf, Unit
  <2>3. sent \in Seq(Frame) /\ written \in Seq(Frame)
    BY <2>1, SeqGrows DEF TypeInv
  <2>4. sending \in Seq(Unit) /\ c2s \in Seq(Unit) /\ s2c \in Seq(Unit)
    BY <2>2, SeqGrows DEF TypeInv
  <2>5. Seq(UnitsOf(Sized)) \subseteq Seq(Unit)
    BY <2>2, SeqGrows
  <2>6. pending \in Seq(Seq(Unit) \ {<<>>})
    <3>1. Writes \subseteq Seq(Unit) \ {<<>>}
      BY <2>5 DEF Writes
    <3> QED
      BY <3>1, SeqGrows DEF ShapeInv
  <2>7. heads \in [{"server", "client"} -> {unit \in Unit : unit.part = 0} \cup {NoHead}]
    <3>1. heads \in [Sides -> UnitsOf(Sized) \cup {NoHead}] /\ \A end \in Sides : heads[end].part = 0
      BY DEF TypeInv, ShapeInv
    <3>2. \A end \in Sides : heads[end] \in {unit \in Unit : unit.part = 0} \cup {NoHead}
      BY <2>2, <3>1
    <3> QED
      BY <3>1, <3>2 DEF Sides
  <2>8. got \in [{"server", "client"} -> Seq(Seq(Unit))]
    <3>1. Seq(Seq(UnitsOf(Sized))) \subseteq Seq(Seq(Unit))
      BY <2>5, SeqGrows
    <3> QED
      BY <3>1 DEF TypeInv, Sides
  <2> QED
    BY <2>3, <2>4, <2>6, <2>7, <2>8 DEF TypeInv, TypeOK
<1> QED
  BY <1>1, <1>3, <1>4, TypeInductive, PTL DEF Spec

\* No buffer of either end is overrun as long as account, friends and messages of
\* the user fit one with all their text, whatever the sizes the client tries to
\* send and the others relay.
THEOREM BuffersHold == Spec => []OverrunNeedsHistory
<1>1. TypeInv => OverrunNeedsHistory
  BY DEF TypeInv, OverrunNeedsHistory
<1> QED
  BY <1>1, TypeInductive, PTL

\* One more frame read, the next one.
LEMMA FirstOfAppend ==
  ASSUME NEW S, NEW g \in Seq(S), NEW from, FirstOf(g, from)
  PROVE  /\ FirstOf(Append(g, Units(from[Len(g) + 1])), from)
         /\ Len(Append(g, Units(from[Len(g) + 1]))) = Len(g) + 1
<1> DEFINE u == Units(from[Len(g) + 1])
           h == Append(g, u)
           T == S \cup {u}
<1>1. g \in Seq(T) /\ u \in T
  BY SeqGrows
<1> HIDE DEF u, T
<1>2. Len(h) = Len(g) + 1 /\ Len(g) \in Nat /\ h[Len(g) + 1] = u /\ \A k \in 1 .. Len(g) : h[k] = g[k]
  BY <1>1, AppendProperties
<1> HIDE DEF h
<1>3. FirstOf(h, from)
  BY <1>2 DEF FirstOf, u
<1> QED
  BY <1>2, <1>3 DEF h, u

-----------------------------------------------------------------------------
(* From the client to the server.                                          *)

\* A step that touches nothing on the way to the server.
LEMMA ServerSame ==
  ASSUME ServerInv, UNCHANGED <<c2s, sending, sent, open>>,
         heads'["server"] = heads["server"], got'["server"] = got["server"]
  PROVE  ServerInv'
  BY DEF ServerInv

\* The server never reads a head that is none.
LEMMA ServerNotTorn ==
  ASSUME TypeInv, ServerInv, ReadHead("server", c2s)
  PROVE  /\ heads["server"] = NoHead /\ c2s # <<>> /\ Head(c2s).part = 0
         /\ heads' = [heads EXCEPT !["server"] = Head(c2s)]
         /\ got' = got /\ torn' = torn
<1>1. c2s # <<>> /\ heads["server"] = NoHead
  BY DEF ReadHead
<1>2. c2s \in Seq(UnitsOf(Sized)) /\ sending \in Seq(UnitsOf(Sized))
  BY SmallTyped DEF TypeInv
<1>3. c2s \o sending # <<>> /\ Head(c2s) = (c2s \o sending)[1]
  BY <1>1, <1>2, HeadOfConcat
<1>4. Chain(c2s \o sending, sent, Len(sent), Len(got["server"]), NoHead)
  BY <1>1 DEF ServerInv
<1>5. Head(c2s).part = 0
  BY <1>3, <1>4, ChainHead
<1> QED
  BY <1>1, <1>5 DEF ReadHead

\* Every step of a session keeps the chain of units to the server.
LEMMA ServerStep ==
  ASSUME TypeInv, ServerInv, Next
  PROVE  ServerInv'
<1> DEFINE r == c2s \o sending
           taken == Len(got["server"])
           head == heads["server"]
<1>1. /\ sent \in Seq(Small) /\ Len(sent) \in Nat
      /\ sending \in Seq(UnitsOf(Sized)) /\ c2s \in Seq(UnitsOf(Sized))
      /\ heads \in [Sides -> UnitsOf(Sized) \cup {NoHead}]
      /\ got \in [Sides -> Seq(Seq(UnitsOf(Sized)))]
      /\ got["server"] \in Seq(Seq(UnitsOf(Sized))) /\ taken \in Nat
      /\ "server" \in Sides /\ "client" \in Sides /\ "server" # "client"
  BY SmallTyped DEF TypeInv, Sides
<1>2. /\ Chain(r, sent, Len(sent), taken, head)
      /\ open => Complete(r, Len(sent), taken, head)
      /\ FirstOf(got["server"], sent)
  BY DEF ServerInv
<1>3. r \in Seq(UnitsOf(Sized)) /\ Len(r) = Len(c2s) + Len(sending) /\ Len(c2s) \in Nat /\ Len(sending) \in Nat
  BY <1>1, ConcatAt
<1>4. c2s \o <<>> = c2s
  BY <1>1, ConcatEmptySeq
<1> HIDE DEF r, taken, head
<1>5. ASSUME NEW kind \in {"login", "sendmsg"}, NEW size \in 1 .. MaxSize, NetWrite(kind, size)
      PROVE  ServerInv'
  <2> DEFINE frame == [kind |-> kind, number |-> Len(sent) + 1, size |-> size]
  <2>1. /\ sent' = Append(sent, frame) /\ sending' = Units(frame) /\ sending = <<>> /\ open
        /\ UNCHANGED <<open, c2s, heads, got>>
        /\ size <= BodySize
    BY <1>5 DEF NetWrite, reading
  <2>2. frame \in Small /\ frame \in Sized /\ frame.number = Len(sent) + 1
    BY <1>1, <2>1 DEF Small, Sized, Frame, Kinds
  <2> HIDE DEF frame
  <2>3. /\ Len(sent') = Len(sent) + 1 /\ sent'[Len(sent) + 1] = frame
        /\ \A k \in 1 .. Len(sent) : sent'[k] = sent[k]
    BY <1>1, <2>1, <2>2, AppendProperties
  <2>4. r = c2s
    BY <1>4, <2>1 DEF r
  <2>5. /\ Chain(c2s \o Units(frame), sent', Len(sent) + 1, taken, head)
        /\ Complete(c2s \o Units(frame), Len(sent) + 1, taken, head)
    <3>1. Chain(c2s, sent, Len(sent), taken, head) /\ Complete(c2s, Len(sent), taken, head)
      BY <1>2, <2>1, <2>4
    <3> QED
      BY <2>2, <2>3, <3>1, ChainAppend
  <2>6. FirstOf(got["server"], sent')
    <3>1. taken \in 0 .. Len(sent)
      BY <1>2 DEF Chain
    <3>2. \A k \in 1 .. taken : sent'[k] = sent[k]
      BY <1>1, <2>3, <3>1
    <3> QED
      BY <1>2, <3>2 DEF FirstOf, taken
  <2> QED
    BY <2>1, <2>3, <2>5, <2>6 DEF ServerInv, taken, head
<1>6. ASSUME NEW n \in 1 .. BodySize + 1, ClientSends(n)
      PROVE  ServerInv'
  <2>1. /\ c2s' = c2s \o SubSeq(sending, 1, n) /\ sending' = SubSeq(sending, n + 1, Len(sending))
        /\ n \in 0 .. Len(sending)
        /\ UNCHANGED <<open, heads, got, sent>>
    BY <1>6, <1>3 DEF ClientSends, reading
  <2>2. /\ SubSeq(sending, 1, n) \in Seq(UnitsOf(Sized))
        /\ SubSeq(sending, n + 1, Len(sending)) \in Seq(UnitsOf(Sized))
    BY <1>1, <2>1
  <2>3. SubSeq(sending, 1, n) \o SubSeq(sending, n + 1, Len(sending)) = sending
    BY <1>1, <2>1, PartsJoin
  <2>4. c2s' \o sending' = r
    BY <1>1, <2>1, MovedOn DEF r
  <2> QED
    BY <1>2, <2>1, <2>4 DEF ServerInv, taken, head
<1>7. ASSUME NEW size \in 1 .. BodySize, Relay(size) \/ Saves(size)
      PROVE  ServerInv'
  BY <1>7, ServerSame DEF Relay, Saves, reading
<1>8. ASSUME NEW n \in 1 .. BodySize + 1, ServerSends(n)
      PROVE  ServerInv'
  BY <1>8, ServerSame DEF ServerSends, reading
<1>9. ASSUME ServerReadsHead
      PROVE  ServerInv'
  <2>1. /\ ReadHead("server", c2s) /\ c2s' = Tail(c2s)
        /\ UNCHANGED <<open, sending, sent>>
    BY <1>9 DEF ServerReadsHead
  <2>2. /\ head = NoHead /\ c2s # <<>>
        /\ heads' = [heads EXCEPT !["server"] = Head(c2s)] /\ got' = got
    BY <2>1, ServerNotTorn DEF head
  <2>3. heads'["server"] = Head(c2s)
    BY <1>1, <2>2
  <2>4. r # <<>> /\ Head(c2s) = r[1] /\ c2s' \o sending' = Tail(r)
    BY <1>1, <2>1, <2>2, HeadOfConcat DEF r
  <2>5. /\ Chain(Tail(r), sent, Len(sent), taken, r[1])
        /\ Complete(r, Len(sent), taken, NoHead) => Complete(Tail(r), Len(sent), taken, r[1])
    BY <1>2, <2>2, <2>4, ChainHead
  <2> QED
    BY <1>2, <2>1, <2>2, <2>3, <2>4, <2>5 DEF ServerInv, taken, head
<1>10. ASSUME ServerReadsBody
       PROVE  ServerInv'
  <2> DEFINE n == head.frame.size
  <2>1. PICK body \in Body("server", c2s) :
          /\ ReadBody("server", body)
          /\ c2s' = Rest(c2s, body)
          /\ UNCHANGED <<open, sending, s2c, sent>>
    BY <1>10 DEF ServerReadsBody
  <2>2. /\ heads' = [heads EXCEPT !["server"] = NoHead]
        /\ head # NoHead /\ n \in Nat \ {0} /\ n <= Len(c2s)
        /\ body = SubSeq(c2s, 1, n) /\ Len(body) = n
        /\ got' = [got EXCEPT !["server"] = Append(@, <<head>> \o body)]
        /\ got' \in [Sides -> Seq(Seq(UnitsOf(Sized)))]
    BY <1>1, <2>1, ReadBodyTyped DEF head
  <2> HIDE DEF n
  <2>3. c2s' \o sending' = SubSeq(r, n + 1, Len(r)) /\ body = SubSeq(r, 1, n) /\ n <= Len(r)
    <3>1. n \in 0 .. Len(c2s) /\ c2s' = SubSeq(c2s, n + 1, Len(c2s)) /\ sending' = sending
      BY <1>3, <2>1, <2>2 DEF Rest
    <3>2. /\ SubSeq(c2s, n + 1, Len(c2s)) \o sending = SubSeq(r, n + 1, Len(r))
          /\ SubSeq(c2s, 1, n) = SubSeq(r, 1, n)
      BY <1>1, <3>1, FrontOfConcat DEF r
    <3>3. n <= Len(r)
      BY <1>3, <2>2
    <3> QED
      BY <2>2, <3>1, <3>2, <3>3
  <2>4. /\ <<head>> \o body = Units(sent[taken + 1])
        /\ Chain(c2s' \o sending', sent, Len(sent), taken + 1, NoHead)
        /\ Complete(r, Len(sent), taken, head) => Complete(c2s' \o sending', Len(sent), taken + 1, NoHead)
    <3>1. head # NoHead /\ head.frame.size <= Len(r)
      BY <2>2, <2>3 DEF n
    <3>2. /\ <<head>> \o SubSeq(r, 1, head.frame.size) = Units(sent[taken + 1])
          /\ Chain(SubSeq(r, head.frame.size + 1, Len(r)), sent, Len(sent), taken + 1, NoHead)
          /\ Complete(r, Len(sent), taken, head) =>
               Complete(SubSeq(r, head.frame.size + 1, Len(r)), Len(sent), taken + 1, NoHead)
      BY <1>2, <3>1, ChainBody
    <3> QED
      BY <2>3, <3>2 DEF n
  <2>5. /\ heads'["server"] = NoHead
        /\ got'["server"] = Append(got["server"], Units(sent[taken + 1]))
    BY <1>1, <2>2, <2>4
  <2>6. FirstOf(got'["server"], sent) /\ Len(got'["server"]) = taken + 1
    <3> DEFINE g == got["server"]
               h == got'["server"]
    <3>1. g \in Seq(Seq(UnitsOf(Sized))) /\ h \in Seq(Seq(UnitsOf(Sized)))
      BY <1>1, <2>2
    <3>2. h = Append(g, Units(sent[taken + 1])) /\ FirstOf(g, sent) /\ taken = Len(g)
      BY <1>2, <2>5 DEF taken
    <3> HIDE DEF g, h
    <3>3. FirstOf(h, sent) /\ Len(h) = taken + 1
      BY <3>1, <3>2, FirstOfAppend
    <3> QED
      BY <3>3 DEF h
  <2> QED
    BY <1>2, <2>1, <2>4, <2>5, <2>6 DEF ServerInv, taken, head
<1>11. ASSUME ClientReadsHead
       PROVE  ServerInv'
  <2>1. /\ UNCHANGED <<open, sending, c2s, sent>> /\ got' = got
        /\ heads' = heads \/ heads' = [heads EXCEPT !["client"] = Head(s2c)]
    BY <1>11 DEF ClientReadsHead, ReadHead
  <2>2. heads'["server"] = heads["server"]
    BY <1>1, <2>1
  <2> QED
    BY <2>1, <2>2, ServerSame
<1>12. ASSUME ClientReadsBody
       PROVE  ServerInv'
  <2>1. PICK body \in Body("client", s2c) :
          /\ ReadBody("client", body)
          /\ UNCHANGED <<open, sending, c2s, sent>>
    BY <1>12 DEF ClientReadsBody
  <2>2. heads'["server"] = heads["server"] /\ got'["server"] = got["server"]
    BY <1>1, <2>1 DEF ReadBody
  <2> QED
    BY <2>1, <2>2, ServerSame
<1>13. ASSUME Ends
       PROVE  ServerInv'
  <2>1. open' = FALSE /\ sending' = <<>> /\ UNCHANGED <<c2s, heads, got, sent>>
    BY <1>13 DEF Ends, reading
  <2>2. Chain(c2s, sent, Len(sent), taken, head)
    <3>1. Chain(c2s \o sending, sent, Len(sent), taken, head) /\ Len(sent) <= Len(sent)
      BY <1>1, <1>2 DEF r
    <3>2. \A k \in 1 .. Len(sent) : sent[k] = sent[k]
      OBVIOUS
    <3> QED
      BY <1>1, <3>1, <3>2, ChainPrefix
  <2> QED
    BY <1>2, <1>4, <2>1, <2>2 DEF ServerInv, taken, head
<1> QED
  BY <1>5, <1>6, <1>7, <1>8, <1>9, <1>10, <1>11, <1>12, <1>13 DEF Next

\* What the server serves is what the client wrote, whole and in order.
THEOREM ServedAreSent == Spec => []ServedIntact
<1>1. Init => ServerInv
  <2> SUFFICES ASSUME Init PROVE ServerInv
    OBVIOUS
  <2>1. c2s = <<>> /\ sending = <<>> /\ sent = <<>> /\ heads["server"] = NoHead /\ got["server"] = <<>>
    BY DEF Init
  <2>2. <<>> \o <<>> = <<>> /\ <<>> \in Seq(UnitsOf(Sized)) /\ Len(<<>>) = 0
    BY ConcatEmptySeq
  <2> QED
    BY <2>1, <2>2 DEF ServerInv, Chain, Complete, Begins, Whole, Linked, FirstOf
<1>2. TypeInv /\ ServerInv /\ [Next]_vars => ServerInv'
  <2>1. ServerInv /\ UNCHANGED vars => ServerInv'
    BY ServerSame DEF vars
  <2> QED
    BY <2>1, ServerStep
<1>3. TypeInv /\ ServerInv => ServedIntact
  <2> SUFFICES ASSUME TypeInv, ServerInv PROVE ServedIntact
    OBVIOUS
  <2>1. got["server"] \in Seq(Seq(UnitsOf(Sized)))
    BY DEF TypeInv, Sides
  <2>2. Len(got["server"]) \in 0 .. Len(sent) /\ FirstOf(got["server"], sent)
    BY DEF ServerInv, Chain
  <2>3. DOMAIN got["server"] = 1 .. Len(got["server"]) /\ Len(got["server"]) <= Len(sent)
    BY <2>1, <2>2
  <2> QED
    BY <2>2, <2>3 DEF ServedIntact, Intact, FirstOf
<1> QED
  BY <1>1, <1>2, <1>3, TypeInductive, PTL DEF Spec

-----------------------------------------------------------------------------
(* From the server to the client.                                          *)

\* A step that touches nothing on the way to the client.
LEMMA ClientSame ==
  ASSUME ClientInv, UNCHANGED <<s2c, pending, written, open, torn>>, overlapped' = overlapped,
         heads'["client"] = heads["client"], got'["client"] = got["client"]
  PROVE  ClientInv'
  BY DEF ClientInv, PendingInv, Begun, NotBegun

\* A write of which the socket took nothing is whole.
LEMMA WholeOrAlone ==
  ASSUME TypeInv, PendingInv, NEW k \in 1 .. Len(pending)
  PROVE  LET frame == written[Len(written) - Len(pending) + k]
             left == Len(pending[k])
         IN  /\ frame \in Sized /\ frame.size \in Nat \ {0}
             /\ Len(written) - Len(pending) + k \in 1 .. Len(written)
             /\ frame.number = Len(written) - Len(pending) + k
             /\ pending[k] \in Seq(UnitsOf(Sized))
             /\ left \in 1 .. frame.size + 1 /\ pending[k] # <<>>
             /\ \A j \in 1 .. left : pending[k][j] = [frame |-> frame, part |-> frame.size - left + j]
             /\ IsRest(pending[k]) <=> left <= frame.size
             /\ IsRest(pending[k]) => Len(pending) = 1
             /\ ~IsRest(pending[k]) => pending[k] = Units(frame)
<1> DEFINE m == Len(written) - Len(pending) + k
           frame == written[m]
           left == Len(pending[k])
<1>1. /\ Len(written) \in Nat /\ Len(pending) \in Nat /\ Len(pending) <= Len(written)
      /\ m \in 1 .. Len(written) /\ frame \in Sized /\ frame.number = m
  <2>1. Len(written) \in Nat /\ Len(pending) \in Nat /\ Len(pending) <= Len(written) /\ written \in Seq(Sized)
    BY DEF TypeInv, PendingInv
  <2>2. m \in 1 .. Len(written)
    BY <2>1
  <2> QED
    BY <2>1, <2>2 DEF PendingInv
<1>2. frame.size \in Nat \ {0}
  BY <1>1 DEF Sized, Frame
<1>3. pending[k] \in Seq(UnitsOf(Sized))
  <2>1. pending[k] \in Seq(UnitsOf(Fitting(saved))) /\ saved \in Nat
    BY DEF TypeInv
  <2> QED
    BY <2>1, FittingGrows
<1>4. /\ left \in 1 .. frame.size + 1 /\ (left <= frame.size => Len(pending) = 1)
      /\ \A j \in 1 .. left : pending[k][j] = [frame |-> frame, part |-> frame.size - left + j]
  BY DEF PendingInv
<1> DEFINE p == pending[k]
<1>5. /\ p \in Seq(UnitsOf(Sized)) /\ Len(p) = left /\ p # <<>>
  BY <1>2, <1>3, <1>4
<1>6. p[1].part = frame.size - left + 1 /\ 1 \in 1 .. left
  <2>1. 1 \in 1 .. left
    BY <1>2, <1>4
  <2>2. p[1] = [frame |-> frame, part |-> frame.size - left + 1]
    BY <1>4, <2>1
  <2> QED
    BY <2>1, <2>2
<1> HIDE DEF m, frame, left, p
<1>7. IsRest(p) <=> left <= frame.size
  BY <1>2, <1>4, <1>6 DEF IsRest
<1>8. ASSUME ~IsRest(p) PROVE p = Units(frame)
  <2>1. left = frame.size + 1
    BY <1>2, <1>4, <1>7, <1>8
  <2>2. /\ Units(frame) \in Seq(UnitsOf(Sized)) /\ Len(Units(frame)) = frame.size + 1
        /\ \A j \in 1 .. frame.size + 1 : Units(frame)[j] = [frame |-> frame, part |-> j - 1]
    BY <1>1, UnitsFields
  <2>3. ASSUME NEW j \in 1 .. Len(p) PROVE p[j] = Units(frame)[j]
    <3>1. j \in 1 .. left /\ j \in 1 .. frame.size + 1 /\ frame.size - left + j = j - 1
      BY <1>2, <1>5, <2>1
    <3>2. p[j] = [frame |-> frame, part |-> frame.size - left + j]
      BY <1>4, <3>1 DEF p
    <3> QED
      BY <2>2, <3>1, <3>2
  <2> QED
    BY <1>5, <2>1, <2>2, <2>3, SeqEqual
<1> QED
  BY <1>1, <1>2, <1>3, <1>4, <1>5, <1>7, <1>8 DEF m, frame, left, p

\* The state of the direction to the client, with the parts of Begun spelled out.
LEMMA ClientFacts ==
  ASSUME TypeInv, ClientInv, ~overlapped
  PROVE  /\ Begun \in Seq(UnitsOf(Sized)) /\ s2c \in Seq(UnitsOf(Sized))
         /\ NotBegun \in 0 .. Len(pending) /\ Len(pending) \in Nat /\ Len(written) \in Nat
         /\ Len(pending) <= Len(written) /\ PendingInv /\ ~torn
         /\ Chain(s2c \o Begun, written, Len(written) - NotBegun, Len(got["client"]), heads["client"])
         /\ open => Complete(s2c \o Begun, Len(written) - NotBegun, Len(got["client"]), heads["client"])
         /\ FirstOf(got["client"], written) /\ Len(got["client"]) \in 0 .. Len(written) - NotBegun
         /\ got \in [Sides -> Seq(Seq(UnitsOf(Sized)))]
         /\ heads \in [Sides -> UnitsOf(Sized) \cup {NoHead}]
<1>1. /\ PendingInv /\ ~torn
      /\ Chain(s2c \o Begun, written, Len(written) - NotBegun, Len(got["client"]), heads["client"])
      /\ open => Complete(s2c \o Begun, Len(written) - NotBegun, Len(got["client"]), heads["client"])
      /\ FirstOf(got["client"], written)
  BY DEF ClientInv
<1>2. /\ saved \in Nat /\ s2c \in Seq(UnitsOf(Fitting(saved))) /\ written \in Seq(Sized)
      /\ pending \in Seq(Seq(UnitsOf(Fitting(saved))))
      /\ got \in [Sides -> Seq(Seq(UnitsOf(Sized)))]
      /\ heads \in [Sides -> UnitsOf(Sized) \cup {NoHead}]
  BY DEF TypeInv
<1>3. s2c \in Seq(UnitsOf(Sized)) /\ Len(pending) \in Nat /\ Len(written) \in Nat
  BY <1>2, FittingGrows
<1>4. Begun \in Seq(UnitsOf(Sized))
  <2>1. CASE pending # <<>> /\ IsRest(pending[1])
    <3>1. 1 \in 1 .. Len(pending)
      BY <1>2, <2>1, EmptySeq
    <3>2. Begun = pending[1] /\ pending[1] \in Seq(UnitsOf(Fitting(saved)))
      BY <1>2, <2>1, <3>1 DEF Begun
    <3> QED
      BY <1>2, <3>2, FittingGrows
  <2>2. CASE ~(pending # <<>> /\ IsRest(pending[1]))
    <3>1. Begun = <<>> /\ \A S : <<>> \in Seq(S)
      BY <2>2 DEF Begun
    <3> QED
      BY <3>1
  <2> QED
    BY <2>1, <2>2
<1>5. NotBegun \in 0 .. Len(pending)
  BY <1>3 DEF NotBegun
<1>6. Len(pending) <= Len(written) /\ Len(got["client"]) \in 0 .. Len(written) - NotBegun
  BY <1>1 DEF PendingInv, Chain
<1> QED
  BY <1>1, <1>2, <1>3, <1>4, <1>5, <1>6

\* A write while no other has begun: the frames queue up whole.
LEMMA WriteStep ==
  ASSUME NEW kinds, NEW sizes, TypeInv, ClientInv, Fits(kinds, sizes), Write(kinds, sizes),
         UNCHANGED <<s2c, open, torn>>,
         heads'["client"] = heads["client"], got'["client"] = got["client"]
  PROVE  ClientInv'
<1> SUFFICES ASSUME ~overlapped'
             PROVE  ClientInv'
  BY DEF ClientInv
<1> DEFINE frames == Frames(kinds, sizes)
           units == [k \in DOMAIN frames |-> Units(frames[k])]
           c == Len(kinds)
           d == Len(written) - Len(pending)
           taken == Len(got["client"])
           head == heads["client"]
           T == Seq(UnitsOf(Fitting(saved)))
<1>1. /\ written' = written \o frames /\ pending' \in Started(units)
      /\ ~overlapped /\ \A k \in DOMAIN pending : ~IsRest(pending[k])
  BY DEF Write, Frames
<1>2. /\ frames \in Seq(Fitting(saved)) /\ Len(frames) = c
      /\ \A k \in 1 .. c : frames[k] \in Sized /\ frames[k].number = Len(written) + k
      /\ units \in Seq(T) /\ Len(units) = c
      /\ \A k \in 1 .. c : units[k] = Units(frames[k])
  BY FramesTyped
<1>3. /\ saved \in Nat /\ written \in Seq(Sized) /\ pending \in Seq(T)
      /\ c \in Nat /\ Fitting(saved) \subseteq Sized
  BY DEF TypeInv, Fits, Fitting
<1>4. /\ s2c \in Seq(UnitsOf(Sized)) /\ d \in Nat /\ Len(pending) \in Nat /\ Len(written) \in Nat
      /\ d + Len(pending) = Len(written) /\ PendingInv /\ ~torn
      /\ FirstOf(got["client"], written)
  BY <1>1, ClientFacts
<1> HIDE DEF frames, units, c, d, T
<1>5. pending' = pending \o units
  <2>1. pending # <<>> => ~IsRest(Last(pending))
    <3>1. pending # <<>> => Len(pending) \in DOMAIN pending
      BY <1>3, EmptySeq
    <3> QED
      BY <1>1, <3>1 DEF Last
  <2> QED
    BY <1>1, <2>1 DEF Started
<1>6. Begun = <<>> /\ NotBegun = Len(pending)
  <2>1. pending # <<>> => 1 \in DOMAIN pending
    BY <1>3, EmptySeq
  <2> QED
    BY <1>1, <2>1 DEF Begun, NotBegun
<1>7. /\ Len(pending') = Len(pending) + c
      /\ \A k \in 1 .. Len(pending) : pending'[k] = pending[k]
      /\ \A k \in Len(pending) + 1 .. Len(pending) + c : pending'[k] = units[k - Len(pending)]
  <2>1. pending \in Seq(T) /\ units \in Seq(T)
    BY <1>2, <1>3
  <2>2. /\ Len(pending \o units) = Len(pending) + Len(units)
        /\ \A k \in 1 .. Len(pending) : (pending \o units)[k] = pending[k]
        /\ \A k \in Len(pending) + 1 .. Len(pending) + Len(units) :
             (pending \o units)[k] = units[k - Len(pending)]
    BY <2>1, ConcatAt
  <2> QED
    BY <1>2, <1>5, <2>2
<1>8. /\ Len(written') = Len(written) + c
      /\ \A k \in 1 .. Len(written) : written'[k] = written[k]
      /\ \A k \in Len(written) + 1 .. Len(written) + c : written'[k] = frames[k - Len(written)]
  <2>1. frames \in Seq(Sized)
    BY <1>2, <1>3, SeqGrows
  <2> QED
    BY <1>1, <1>2, <1>3, <2>1, ConcatAt
<1>9. ASSUME NEW k \in 1 .. Len(pending')
      PROVE  /\ written'[d + k] \in Sized /\ pending'[k] = Units(written'[d + k])
  <2>1. CASE k \in 1 .. Len(pending)
    <3>1. k \in DOMAIN pending
      BY <1>3, <2>1
    <3>2. written[d + k] \in Sized /\ pending[k] = Units(written[d + k]) /\ d + k \in 1 .. Len(written)
      BY <1>1, <1>4, <2>1, <3>1, WholeOrAlone DEF d
    <3> QED
      BY <1>7, <1>8, <2>1, <3>2
  <2>2. CASE k \in Len(pending) + 1 .. Len(pending) + c
    <3>1. k - Len(pending) \in 1 .. c /\ d + k \in Len(written) + 1 .. Len(written) + c
          /\ (d + k) - Len(written) = k - Len(pending)
      BY <1>3, <1>4, <2>2
    <3>2. pending'[k] = Units(frames[k - Len(pending)]) /\ frames[k - Len(pending)] \in Sized
      BY <1>2, <1>7, <2>2, <3>1
    <3>3. written'[d + k] = frames[k - Len(pending)]
      BY <1>8, <3>1
    <3> QED
      BY <3>2, <3>3
  <2> QED
    BY <1>3, <1>4, <1>7, <2>1, <2>2
<1>10. PendingInv'
  <2>1. Len(pending') <= Len(written') /\ Len(written') - Len(pending') = d
    BY <1>3, <1>4, <1>7, <1>8 DEF d
  <2>2. ASSUME NEW k \in 1 .. Len(written') PROVE written'[k].number = k
    <3>1. CASE k \in 1 .. Len(written)
      BY <1>4, <1>8, <3>1 DEF PendingInv
    <3>2. CASE k \in Len(written) + 1 .. Len(written) + c
      <4>0. Len(written) \in Nat /\ c \in Nat
        BY <1>3, <1>4
      <4>1. k - Len(written) \in 1 .. c /\ Len(written) + (k - Len(written)) = k
        BY <3>2, <4>0
      <4> QED
        BY <1>2, <1>8, <3>2, <4>1
    <3> QED
      BY <1>3, <1>4, <1>8, <3>1, <3>2
  <2>3. ASSUME NEW k \in 1 .. Len(pending')
        PROVE  LET frame == written'[d + k]
                   left == Len(pending'[k])
               IN  /\ left \in 1 .. frame.size + 1
                   /\ left <= frame.size => Len(pending') = 1
                   /\ \A j \in 1 .. left :
                        pending'[k][j] = [frame |-> frame, part |-> frame.size - left + j]
    <3> DEFINE frame == written'[d + k]
               p == pending'[k]
    <3>1. frame \in Sized /\ p = Units(frame)
      BY <1>9
    <3> HIDE DEF frame, p
    <3>2. frame.size \in Nat
      BY <3>1 DEF Sized, Frame
    <3>3. Len(p) = frame.size + 1 /\ \A j \in 1 .. frame.size + 1 : p[j] = [frame |-> frame, part |-> j - 1]
      BY <3>1, UnitsFields
    <3>4. ASSUME NEW j \in 1 .. Len(p)
          PROVE  p[j] = [frame |-> frame, part |-> frame.size - Len(p) + j]
      <4>1. j \in 1 .. frame.size + 1 /\ frame.size - Len(p) + j = j - 1
        BY <3>2, <3>3
      <4> QED
        BY <3>3, <4>1
    <3>5. Len(p) \in 1 .. frame.size + 1 /\ ~(Len(p) <= frame.size)
      BY <3>2, <3>3
    <3> QED
      BY <3>4, <3>5 DEF frame, p
  <2> QED
    BY <2>1, <2>2, <2>3 DEF PendingInv
<1>11. Begun' = <<>> /\ NotBegun' = Len(pending')
  <2>1. ASSUME pending' # <<>> PROVE ~IsRest(pending'[1])
    <3>1. pending' \in Seq(T)
      BY <1>2, <1>3, <1>5
    <3>2. 1 \in 1 .. Len(pending')
      BY <2>1, <3>1, EmptySeq
    <3>3. written'[d + 1] \in Sized /\ pending'[1] = Units(written'[d + 1])
      BY <1>9, <3>2
    <3>4. written'[d + 1].size \in Nat
      BY <3>3 DEF Sized, Frame
    <3>5. pending'[1][1].part = 0
      <4> DEFINE f == written'[d + 1]
      <4>1. f \in Sized /\ f.size \in Nat /\ pending'[1] = Units(f)
        BY <3>3, <3>4
      <4> HIDE DEF f
      <4>2. 1 \in 1 .. f.size + 1
        BY <4>1
      <4>3. Units(f)[1] = [frame |-> f, part |-> 1 - 1]
        BY <4>1, <4>2, UnitsFields
      <4> QED
        BY <4>1, <4>3
    <3> QED
      BY <3>5 DEF IsRest
  <2> QED
    BY <2>1 DEF Begun, NotBegun
<1>12. /\ s2c \o <<>> = s2c /\ s2c' \o Begun' = s2c
       /\ Len(written') - NotBegun' = d /\ Len(written) - NotBegun = d
  BY <1>3, <1>4, <1>6, <1>7, <1>8, <1>11, ConcatEmptySeq DEF d
<1>13. /\ Chain(s2c \o <<>>, written, d, taken, head)
       /\ open => Complete(s2c, d, taken, head)
  BY <1>1, <1>6, <1>12, ClientFacts
<1>14. Chain(s2c, written', d, taken, head)
  <2>1. \A k \in 1 .. d : written'[k] = written[k]
    BY <1>4, <1>8
  <2>2. <<>> \in Seq(UnitsOf(Sized)) /\ d <= d
    BY <1>4
  <2>3. /\ s2c \in Seq(UnitsOf(Sized)) /\ d \in Nat
        /\ Chain(s2c \o <<>>, written, d, taken, head)
    BY <1>4, <1>13
  <2> DEFINE w == <<>>
  <2>4. /\ s2c \in Seq(UnitsOf(Sized)) /\ w \in Seq(UnitsOf(Sized)) /\ d \in Nat /\ d <= d
        /\ Chain(s2c \o w, written, d, taken, head)
    BY <2>2, <2>3
  <2> HIDE DEF taken, head, w
  <2> QED
    BY <2>1, <2>4, ChainPrefix
<1>15. FirstOf(got["client"], written')
  <2>1. taken \in 0 .. d
    BY <1>13 DEF Chain
  <2>2. \A k \in 1 .. taken : written'[k] = written[k]
    BY <1>4, <1>8, <2>1
  <2> QED
    BY <1>4, <2>2 DEF FirstOf
<1> QED
  BY <1>4, <1>10, <1>12, <1>13, <1>14, <1>15 DEF ClientInv

\* The socket takes the first write, or part of it when no other waits: either
\* way the chain then ends with the frame of that write.
LEMMA ServerSendsStep ==
  ASSUME TypeInv, ClientInv, NEW n \in 1 .. BodySize + 1, ServerSends(n)
  PROVE  ClientInv'
<1> SUFFICES ASSUME ~overlapped'
             PROVE  ClientInv'
  BY DEF ClientInv
<1> DEFINE p == pending[1]
           b == SubSeq(p, n + 1, Len(p))
           c == Len(pending)
           m == Len(written) - c + 1
           f == written[m]
           q == s2c \o p
           taken == Len(got["client"])
           head == heads["client"]
           T == Seq(UnitsOf(Fitting(saved)))
<1>1. /\ open /\ pending # <<>> /\ n \in Nat /\ n >= 1 /\ n <= Len(Head(pending))
      /\ s2c' = s2c \o SubSeq(Head(pending), 1, n)
      /\ pending' = Requeued(SubSeq(Head(pending), n + 1, Len(Head(pending))))
      /\ ~overlapped /\ (n < Len(Head(pending)) => ~(Len(pending) > 1))
      /\ UNCHANGED <<open, heads, got, torn, written>>
  <2>1. /\ open /\ pending # <<>> /\ n <= Len(Head(pending))
        /\ s2c' = s2c \o SubSeq(Head(pending), 1, n)
        /\ pending' = Requeued(SubSeq(Head(pending), n + 1, Len(Head(pending))))
        /\ overlapped' = (overlapped \/ (n < Len(Head(pending)) /\ Len(pending) > 1))
        /\ UNCHANGED <<open, heads, got, torn, written>>
    BY DEF ServerSends, reading
  <2>2. n \in Nat /\ n >= 1
    BY FramingAssumption
  <2>3. ~overlapped /\ ~(n < Len(Head(pending)) /\ Len(pending) > 1)
    BY <2>1
  <2> QED
    BY <2>1, <2>2, <2>3
<1>2. pending \in Seq(T) /\ written \in Seq(Sized)
  BY DEF TypeInv
<1>3. /\ s2c \in Seq(UnitsOf(Sized)) /\ Len(written) \in Nat /\ c \in Nat /\ c <= Len(written)
      /\ PendingInv /\ ~torn /\ FirstOf(got["client"], written)
  BY <1>1, ClientFacts
<1> HIDE DEF T
<1>4. Head(pending) = p /\ 1 \in 1 .. Len(pending) /\ c >= 1
  BY <1>1, <1>2, EmptySeq
<1>5. /\ f \in Sized /\ f.size \in Nat \ {0} /\ m \in 1 .. Len(written) /\ f.number = m
      /\ p \in Seq(UnitsOf(Sized)) /\ Len(p) \in 1 .. f.size + 1 /\ p # <<>>
      /\ \A j \in 1 .. Len(p) : p[j] = [frame |-> f, part |-> f.size - Len(p) + j]
      /\ IsRest(p) => Len(pending) = 1
      /\ ~IsRest(p) => p = Units(f)
  BY <1>3, <1>4, WholeOrAlone
<1>6. /\ n \in 0 .. Len(p) /\ n \in 1 .. Len(p)
      /\ s2c' = s2c \o SubSeq(p, 1, n) /\ pending' = Requeued(b)
      /\ n < Len(p) => c = 1
  <2>1. Len(p) \in Nat /\ n <= Len(p)
    BY <1>1, <1>4, <1>5
  <2>2. c \in Nat /\ c >= 1 /\ (n < Len(p) => ~(c > 1))
    BY <1>1, <1>3, <1>4
  <2>3. n < Len(p) => c = 1
    <3> HIDE DEF c
    <3> QED
      BY <2>2
  <2>4. n \in Nat /\ n >= 1
    BY <1>1
  <2>5. n \in 0 .. Len(p) /\ n \in 1 .. Len(p)
    BY <2>1, <2>4
  <2>6. s2c' = s2c \o SubSeq(p, 1, n) /\ pending' = Requeued(b)
    BY <1>1, <1>4
  <2> QED
    BY <2>3, <2>5, <2>6
<1> HIDE DEF p, c, f, q, taken, head, m
<1>7. Chain(q, written, m, taken, head) /\ Complete(q, m, taken, head)
  <2>1. /\ Chain(s2c \o Begun, written, Len(written) - NotBegun, taken, head)
        /\ Complete(s2c \o Begun, Len(written) - NotBegun, taken, head)
    BY <1>1, ClientFacts DEF taken, head
  <2>2. CASE IsRest(p)
    <3>2. c = 1 /\ Len(written) \in Nat
      BY <1>3, <1>5, <2>2 DEF c
    <3>0. c = 1 /\ Len(written) = m
      BY <3>2 DEF m
    <3>1. Begun = p /\ NotBegun = 0 /\ Len(written) = m
      BY <1>1, <1>5, <2>2, <3>0 DEF Begun, NotBegun, p
    <3>3. Len(written) - NotBegun = m
      BY <1>3, <3>1
    <3> QED
      BY <2>1, <3>1, <3>3 DEF q
  <2>3. CASE ~IsRest(p)
    <3> DEFINE last == m - 1
    <3>1. Begun = <<>> /\ NotBegun = c
      BY <2>3 DEF Begun, NotBegun, p, c
    <3>2. last = Len(written) - NotBegun /\ last + 1 = m /\ s2c \o Begun = s2c
      BY <1>3, <1>5, <3>1, ConcatEmptySeq DEF m
    <3>3. Chain(s2c, written, last, taken, head) /\ Complete(s2c, last, taken, head)
      BY <2>1, <3>2
    <3>4. /\ f \in Sized /\ written[last + 1] = f /\ f.number = last + 1
          /\ \A k \in 1 .. last : written[k] = written[k]
      BY <1>5, <3>2 DEF f
    <3> HIDE DEF last
    <3>5. /\ Chain(s2c \o Units(f), written, last + 1, taken, head)
          /\ Complete(s2c \o Units(f), last + 1, taken, head)
      BY <3>3, <3>4, ChainAppend
    <3> QED
      BY <1>5, <2>3, <3>2, <3>5 DEF q
  <2> QED
    BY <2>2, <2>3
<1>8. CASE n = Len(p)
  <2>1. b = <<>> /\ SubSeq(p, 1, n) = p
    BY <1>5, <1>8, SubSeqEmpty, SubSeqFull
  <2>2. pending' = Tail(pending) /\ s2c' = q
    BY <1>6, <2>1 DEF Requeued, q
  <2>3. pending' \in Seq(T) /\ Len(pending') = c - 1 /\ \A k \in 1 .. c - 1 : pending'[k] = pending[k + 1]
    BY <1>1, <1>2, <2>2, HeadTailProperties DEF c
  <2>4. PendingInv'
    <3>1. Len(pending') <= Len(written) /\ \A k \in 1 .. Len(written) : written[k].number = k
      BY <1>3, <1>4, <2>3 DEF PendingInv
    <3>2. ASSUME NEW k \in 1 .. Len(pending')
          PROVE  LET frame == written[Len(written) - Len(pending') + k]
                     left == Len(pending'[k])
                 IN  /\ left \in 1 .. frame.size + 1
                     /\ left <= frame.size => Len(pending') = 1
                     /\ \A j \in 1 .. left :
                          pending'[k][j] = [frame |-> frame, part |-> frame.size - left + j]
      <4>1. /\ k + 1 \in 1 .. Len(pending) /\ pending'[k] = pending[k + 1] /\ Len(pending) # 1
            /\ Len(written) - Len(pending') + k = Len(written) - Len(pending) + (k + 1)
        BY <1>3, <1>4, <2>3 DEF c
      <4> DEFINE frame == written[Len(written) - Len(pending) + (k + 1)]
                 left == Len(pending[k + 1])
      <4>2. /\ left \in 1 .. frame.size + 1
            /\ left <= frame.size => Len(pending) = 1
            /\ \A j \in 1 .. left : pending[k + 1][j] = [frame |-> frame, part |-> frame.size - left + j]
        BY <1>3, <4>1 DEF PendingInv
      <4> QED
        BY <4>1, <4>2
    <3> QED
      BY <1>1, <3>1, <3>2 DEF PendingInv
  <2>5. Begun' = <<>> /\ NotBegun' = c - 1
    <3>1. ASSUME pending' # <<>> PROVE ~IsRest(pending'[1])
      <4>1. 2 \in 1 .. Len(pending) /\ Len(pending) # 1 /\ pending'[1] = pending[2]
        BY <1>3, <2>3, <3>1, EmptySeq DEF c
      <4> QED
        BY <1>3, <4>1, WholeOrAlone
    <3> QED
      BY <2>3, <3>1 DEF Begun, NotBegun
  <2>6. s2c' \o Begun' = q /\ Len(written') - NotBegun' = m
    <3>1. q \in Seq(UnitsOf(Sized))
      BY <1>7 DEF Chain
    <3>2. q \o <<>> = q
      BY <3>1, ConcatEmptySeq
    <3> QED
      BY <1>1, <1>3, <2>2, <2>5, <3>2 DEF m
  <2> QED
    BY <1>1, <1>3, <1>7, <2>4, <2>6 DEF ClientInv, taken, head
<1>9. CASE n < Len(p)
  <2>1. /\ b \in Seq(UnitsOf(Sized)) /\ Len(b) = Len(p) - n /\ Len(b) >= 1
        /\ \A j \in 1 .. Len(p) - n : b[j] = p[n + j]
    BY <1>5, <1>6, <1>9
  <2> HIDE DEF b
  <2>2. Len(pending) = 1 /\ Tail(pending) = <<>> /\ b # <<>>
    <3>1. Len(pending) = 1 /\ b # <<>>
      BY <1>6, <1>9, <2>1 DEF c
    <3>2. Tail(pending) \in Seq(T) /\ Len(Tail(pending)) = 0
      BY <1>1, <1>2, <3>1, HeadTailProperties
    <3> QED
      BY <3>1, <3>2, EmptySeq
  <2>3. pending' = <<b>>
    <3>1. Append(<<>>, b) = <<b>>
      OBVIOUS
    <3> QED
      BY <1>6, <2>2, <3>1 DEF Requeued
  <2>4. Len(pending') = 1 /\ pending'[1] = b
    BY <2>3
  <2>5. \A j \in 1 .. Len(b) : b[j] = [frame |-> f, part |-> f.size - Len(b) + j]
    <3> SUFFICES ASSUME NEW j \in 1 .. Len(b)
                 PROVE  b[j] = [frame |-> f, part |-> f.size - Len(b) + j]
      OBVIOUS
    <3>0. f.size \in Nat /\ Len(p) \in Nat /\ n \in Nat /\ Len(b) = Len(p) - n /\ Len(b) \in Nat
      BY <1>5, <1>6, <2>1
    <3>1. n + j \in 1 .. Len(p) /\ j \in 1 .. Len(p) - n /\ f.size - Len(p) + (n + j) = f.size - Len(b) + j
      BY <3>0
    <3>2. b[j] = p[n + j] /\ p[n + j] = [frame |-> f, part |-> f.size - Len(p) + (n + j)]
      BY <1>5, <2>1, <3>1
    <3> QED
      BY <3>1, <3>2
  <2>6. Len(b) \in 1 .. f.size + 1 /\ Len(b) \in 1 .. f.size /\ 1 \in 1 .. Len(b)
    BY <1>5, <1>6, <2>1
  <2>7. b[1].part # 0
    <3>1. b[1] = [frame |-> f, part |-> f.size - Len(b) + 1]
      BY <2>5, <2>6
    <3>2. f.size - Len(b) + 1 # 0
      BY <1>5, <2>6
    <3> QED
      BY <3>1, <3>2
  <2>8. PendingInv'
    <3>1. Len(pending') <= Len(written) /\ \A k \in 1 .. Len(written) : written[k].number = k
      BY <1>3, <1>4, <2>2, <2>4 DEF PendingInv, c
    <3>2. Len(written) - Len(pending') + 1 = m
      BY <1>3, <2>2, <2>4 DEF m, c
    <3>3. \A k \in 1 .. Len(pending') : k = 1
      BY <2>4
    <3> QED
      BY <1>1, <2>4, <2>5, <2>6, <3>1, <3>2, <3>3 DEF PendingInv, f
  <2>9. Begun' = b /\ NotBegun' = 0
    <3>1. pending' # <<>> /\ IsRest(pending'[1])
      BY <2>3, <2>4, <2>7 DEF IsRest
    <3> QED
      BY <2>2, <2>4, <3>1 DEF Begun, NotBegun
  <2>10. s2c' \o Begun' = q /\ Len(written') - NotBegun' = m
    <3>1. (s2c \o SubSeq(p, 1, n)) \o SubSeq(p, n + 1, Len(p)) = s2c \o p
      BY <1>3, <1>5, <1>6, MovedOn
    <3>2. Len(written) - 0 = m
      BY <1>3, <2>2 DEF m, c
    <3> QED
      BY <1>1, <1>6, <2>9, <3>1, <3>2 DEF b, q
  <2> QED
    BY <1>1, <1>3, <1>7, <2>8, <2>10 DEF ClientInv, taken, head
<1> QED
  BY <1>5, <1>6, <1>8, <1>9

\* Every step of a session keeps the chain of units to the client.
LEMMA ClientStep ==
  ASSUME TypeInv, ServerInv, ClientInv, Next
  PROVE  ClientInv'
<1> DEFINE r == s2c \o Begun
           last == Len(written) - NotBegun
           taken == Len(got["client"])
           head == heads["client"]
<1>1. /\ heads \in [Sides -> UnitsOf(Sized) \cup {NoHead}]
      /\ got \in [Sides -> Seq(Seq(UnitsOf(Sized)))]
      /\ s2c \in Seq(UnitsOf(Sized))
      /\ "server" \in Sides /\ "client" \in Sides /\ "server" # "client"
  <2>1. s2c \in Seq(UnitsOf(Fitting(saved))) /\ saved \in Nat
    BY DEF TypeInv
  <2> QED
    BY <2>1, FittingGrows DEF TypeInv, Sides
<1>2. ASSUME ~overlapped
      PROVE  /\ Begun \in Seq(UnitsOf(Sized)) /\ last \in Nat /\ last <= Len(written)
             /\ Len(written) \in Nat /\ PendingInv /\ ~torn
             /\ Chain(r, written, last, taken, head)
             /\ open => Complete(r, last, taken, head)
             /\ FirstOf(got["client"], written)
             /\ Len(r) = Len(s2c) + Len(Begun) /\ Len(s2c) \in Nat /\ Len(Begun) \in Nat
  <2>1. /\ Begun \in Seq(UnitsOf(Sized)) /\ NotBegun \in 0 .. Len(pending) /\ Len(pending) \in Nat
        /\ Len(written) \in Nat /\ Len(pending) <= Len(written) /\ PendingInv /\ ~torn
        /\ Chain(r, written, last, taken, head)
        /\ open => Complete(r, last, taken, head)
        /\ FirstOf(got["client"], written)
    BY <1>2, ClientFacts
  <2>2. Len(r) = Len(s2c) + Len(Begun) /\ Len(s2c) \in Nat /\ Len(Begun) \in Nat
    BY <1>1, <2>1, ConcatAt
  <2>3. last \in Nat /\ last <= Len(written)
    BY <2>1
  <2> QED
    BY <2>1, <2>2, <2>3
<1>3. UNCHANGED pending => Begun' = Begun /\ NotBegun' = NotBegun
  BY DEF Begun, NotBegun
<1> HIDE DEF r, last, taken, head
<1>5. ASSUME NEW kind \in {"login", "sendmsg"}, NEW size \in 1 .. MaxSize, NetWrite(kind, size)
      PROVE  ClientInv'
  BY <1>5, ClientSame DEF NetWrite, reading
<1>6. ASSUME NEW n \in 1 .. BodySize + 1, ClientSends(n)
      PROVE  ClientInv'
  BY <1>6, ClientSame DEF ClientSends, reading
<1>7. ASSUME NEW size \in 1 .. BodySize, Relay(size) \/ Saves(size)
      PROVE  ClientInv'
  <2>1. CASE Relay(size)
    <3>1. /\ Write(<<"sendmsg">>, <<size>>) /\ "sendmsg" \in Kinds
          /\ UNCHANGED <<open, s2c, heads, got, torn>>
      BY <2>1 DEF Relay, reading, Kinds
    <3> QED
      BY <3>1, RelayFits, WriteStep
  <2>2. CASE Saves(size)
    BY <2>2, ClientSame DEF Saves, reading
  <2> QED
    BY <1>7, <2>1, <2>2
<1>8. ASSUME NEW n \in 1 .. BodySize + 1, ServerSends(n)
      PROVE  ClientInv'
  BY <1>8, ServerSendsStep
<1>9. ASSUME ServerReadsHead
      PROVE  ClientInv'
  <2>1. /\ ReadHead("server", c2s)
        /\ UNCHANGED <<open, s2c, pending, written, overlapped>>
    BY <1>9 DEF ServerReadsHead
  <2>2. heads' = [heads EXCEPT !["server"] = Head(c2s)] /\ got' = got /\ torn' = torn
    BY <2>1, ServerNotTorn
  <2>3. heads'["client"] = heads["client"] /\ got'["client"] = got["client"]
    BY <1>1, <2>2
  <2> QED
    BY <2>1, <2>2, <2>3, ClientSame
<1>10. ASSUME ServerReadsBody
       PROVE  ClientInv'
  <2> DEFINE size == heads["server"].frame.size
  <2>1. PICK body \in Body("server", c2s) :
          /\ ReadBody("server", body)
          /\ ServeLogin(size) \/ ServeSendmsg(size)
          /\ UNCHANGED <<open, sending, s2c, sent>>
    BY <1>10 DEF ServerReadsBody
  <2>2. heads'["client"] = heads["client"] /\ got'["client"] = got["client"] /\ torn' = torn
    BY <1>1, <2>1 DEF ReadBody
  <2>3. size \in 1 .. BodySize
    BY <2>1, ServedFits
  <2> HIDE DEF size
  <2>4. ASSUME NEW n \in 0 .. MaxRelayed, NEW request \in 1 .. BodySize,
               Write(<<"login_suc">> \o [k \in 1 .. n |-> "addfd"],
                     <<LoginSize>> \o [k \in 1 .. n |-> request])
        PROVE  ClientInv'
    <3>1. n \in Nat
      OBVIOUS
    <3>2. Fits(<<"login_suc">> \o [k \in 1 .. n |-> "addfd"],
               <<LoginSize>> \o [k \in 1 .. n |-> request])
      BY <3>1, LoginFits
    <3> QED
      BY <2>1, <2>2, <2>4, <3>2, WriteStep
  <2>5. ASSUME NEW kind \in Kinds, Write(<<kind>>, <<size>>)
        PROVE  ClientInv'
    BY <2>1, <2>2, <2>3, <2>5, RelayFits, WriteStep
  <2>6. CASE ServeLogin(size)
    <3>1. "login_pwerr" \in Kinds
      BY DEF Kinds
    <3> QED
      BY <2>4, <2>5, <2>6, <3>1 DEF ServeLogin
  <2>7. CASE ServeSendmsg(size)
    <3>1. "sendmsg" \in Kinds
      BY DEF Kinds
    <3>2. CASE UNCHANGED <<pending, written, overlapped, overrun>>
      BY <2>1, <2>2, <3>2, ClientSame
    <3> QED
      BY <2>5, <2>7, <3>1, <3>2 DEF ServeSendmsg
  <2> QED
    BY <2>1, <2>6, <2>7
<1>11. ASSUME ClientReadsHead
       PROVE  ClientInv'
  <2> SUFFICES ASSUME ~overlapped'
               PROVE  ClientInv'
    BY DEF ClientInv
  <2>1. /\ ReadHead("client", s2c) /\ s2c' = Tail(s2c)
        /\ UNCHANGED <<open, pending, written, overlapped>>
    BY <1>11 DEF ClientReadsHead
  <2>2. head = NoHead /\ s2c # <<>> /\ ~overlapped
    BY <2>1 DEF ReadHead, head
  <2>3. r # <<>> /\ Head(s2c) = r[1] /\ s2c' \o Begun' = Tail(r)
    BY <1>1, <1>2, <1>3, <2>1, <2>2, HeadOfConcat DEF r
  <2>4. Chain(r, written, last, taken, NoHead)
    BY <1>2, <2>2
  <2>5. /\ r[1].part = 0
        /\ Chain(Tail(r), written, last, taken, r[1])
        /\ Complete(r, last, taken, NoHead) => Complete(Tail(r), last, taken, r[1])
    BY <2>3, <2>4, ChainHead
  <2>6. heads' = [heads EXCEPT !["client"] = r[1]] /\ torn' = torn /\ got' = got
    BY <2>1, <2>3, <2>5 DEF ReadHead
  <2>7. heads'["client"] = r[1] /\ Len(written') - NotBegun' = last
    BY <1>1, <1>3, <2>1, <2>6 DEF last
  <2>8. PendingInv'
    BY <1>2, <2>1, <2>2 DEF PendingInv
  <2> QED
    BY <1>2, <2>1, <2>2, <2>3, <2>5, <2>6, <2>7, <2>8 DEF ClientInv, taken, head
<1>12. ASSUME ClientReadsBody
       PROVE  ClientInv'
  <2> SUFFICES ASSUME ~overlapped'
               PROVE  ClientInv'
    BY DEF ClientInv
  <2> DEFINE n == head.frame.size
  <2>1. PICK body \in Body("client", s2c) :
          /\ ReadBody("client", body)
          /\ s2c' = Rest(s2c, body)
          /\ UNCHANGED <<open, pending, written, overlapped>>
    BY <1>12 DEF ClientReadsBody
  <2>2. /\ heads' = [heads EXCEPT !["client"] = NoHead]
        /\ head # NoHead /\ n \in Nat \ {0} /\ n <= Len(s2c)
        /\ body = SubSeq(s2c, 1, n) /\ Len(body) = n
        /\ got' = [got EXCEPT !["client"] = Append(@, <<head>> \o body)]
        /\ got' \in [Sides -> Seq(Seq(UnitsOf(Sized)))] /\ torn' = torn
    BY <1>1, <2>1, ReadBodyTyped DEF head
  <2> HIDE DEF n
  <2>3. s2c' \o Begun' = SubSeq(r, n + 1, Len(r)) /\ body = SubSeq(r, 1, n) /\ n <= Len(r) /\ ~overlapped
    <3>0. ~overlapped
      BY <2>1
    <3>1. n \in 0 .. Len(s2c) /\ s2c' = SubSeq(s2c, n + 1, Len(s2c)) /\ Begun' = Begun
      BY <1>2, <1>3, <2>1, <2>2, <3>0 DEF Rest
    <3>2. /\ SubSeq(s2c, n + 1, Len(s2c)) \o Begun = SubSeq(r, n + 1, Len(r))
          /\ SubSeq(s2c, 1, n) = SubSeq(r, 1, n)
      BY <1>1, <1>2, <3>0, <3>1, FrontOfConcat DEF r
    <3>3. n <= Len(r)
      BY <1>2, <2>2, <3>0
    <3> QED
      BY <2>2, <3>0, <3>1, <3>2, <3>3
  <2>4. /\ <<head>> \o body = Units(written[taken + 1])
        /\ Chain(s2c' \o Begun', written, last, taken + 1, NoHead)
        /\ Complete(r, last, taken, head) => Complete(s2c' \o Begun', last, taken + 1, NoHead)
    <3>1. head # NoHead /\ head.frame.size <= Len(r) /\ Chain(r, written, last, taken, head)
      BY <1>2, <2>2, <2>3 DEF n
    <3>2. /\ <<head>> \o SubSeq(r, 1, head.frame.size) = Units(written[taken + 1])
          /\ Chain(SubSeq(r, head.frame.size + 1, Len(r)), written, last, taken + 1, NoHead)
          /\ Complete(r, last, taken, head) =>
               Complete(SubSeq(r, head.frame.size + 1, Len(r)), last, taken + 1, NoHead)
      BY <3>1, ChainBody
    <3> QED
      BY <2>3, <3>2 DEF n
  <2>5. /\ heads'["client"] = NoHead /\ Len(written') - NotBegun' = last
        /\ got'["client"] = Append(got["client"], Units(written[taken + 1]))
    BY <1>1, <1>3, <2>1, <2>2, <2>4 DEF last
  <2>6. FirstOf(got'["client"], written) /\ Len(got'["client"]) = taken + 1
    <3> DEFINE g == got["client"]
               h == got'["client"]
    <3>1. g \in Seq(Seq(UnitsOf(Sized))) /\ h \in Seq(Seq(UnitsOf(Sized)))
      BY <1>1, <2>2
    <3>2. h = Append(g, Units(written[taken + 1])) /\ FirstOf(g, written) /\ taken = Len(g)
      BY <1>2, <2>3, <2>5 DEF taken
    <3> HIDE DEF g, h
    <3>3. FirstOf(h, written) /\ Len(h) = taken + 1
      BY <3>1, <3>2, FirstOfAppend
    <3> QED
      BY <3>3 DEF h
  <2>7. PendingInv'
    BY <1>2, <2>1, <2>3 DEF PendingInv
  <2> QED
    BY <1>2, <2>1, <2>2, <2>3, <2>4, <2>5, <2>6, <2>7 DEF ClientInv, taken, head
<1>13. ASSUME Ends
       PROVE  ClientInv'
  <2> SUFFICES ASSUME ~overlapped'
               PROVE  ClientInv'
    BY DEF ClientInv
  <2>1. open' = FALSE /\ pending' = <<>> /\ UNCHANGED <<s2c, heads, got, torn, written, overlapped>>
    BY <1>13 DEF Ends, reading
  <2>2. ~overlapped
    BY <2>1
  <2>3. Begun' = <<>> /\ NotBegun' = 0
    BY <2>1 DEF Begun, NotBegun
  <2>4. Chain(s2c, written, Len(written), taken, head)
    <3>1. Chain(s2c \o Begun, written, last, taken, head) /\ \A k \in 1 .. last : written[k] = written[k]
      BY <1>2, <2>2 DEF r
    <3> QED
      BY <1>1, <1>2, <2>2, <3>1, ChainPrefix
  <2>5. s2c' \o Begun' = s2c /\ Len(written') - NotBegun' = Len(written)
    BY <1>1, <1>2, <2>1, <2>2, <2>3, ConcatEmptySeq
  <2>6. PendingInv'
    BY <1>2, <2>1, <2>2 DEF PendingInv
  <2> QED
    BY <1>2, <2>1, <2>2, <2>4, <2>5, <2>6 DEF ClientInv, taken, head
<1> QED
  BY <1>5, <1>6, <1>7, <1>8, <1>9, <1>10, <1>11, <1>12, <1>13 DEF Next

\* As long as no write went on after another had been started, the client reads
\* what the server wrote, whole and in order, and never a head that is none.
THEOREM ReadAreWritten == Spec => []ReadIntact
<1>1. Init => ServerInv /\ ClientInv
  <2> SUFFICES ASSUME Init PROVE ServerInv /\ ClientInv
    OBVIOUS
  <2>1. /\ c2s = <<>> /\ sending = <<>> /\ sent = <<>> /\ heads["server"] = NoHead /\ got["server"] = <<>>
        /\ s2c = <<>> /\ pending = <<>> /\ written = <<>> /\ heads["client"] = NoHead /\ got["client"] = <<>>
        /\ torn = FALSE
    BY DEF Init
  <2>2. <<>> \o <<>> = <<>> /\ <<>> \in Seq(UnitsOf(Sized)) /\ Len(<<>>) = 0
    BY ConcatEmptySeq
  <2>3. Begun = <<>> /\ NotBegun = 0
    BY <2>1, <2>2 DEF Begun, NotBegun
  <2>4. ServerInv
    BY <2>1, <2>2 DEF ServerInv, Chain, Complete, Begins, Whole, Linked, FirstOf
  <2>5. ClientInv
    BY <2>1, <2>2, <2>3 DEF ClientInv, PendingInv, Chain, Complete, Begins, Whole, Linked, FirstOf
  <2> QED
    BY <2>4, <2>5
<1>2. TypeInv /\ ServerInv /\ ClientInv /\ [Next]_vars => (ServerInv /\ ClientInv)'
  <2>1. ServerInv /\ UNCHANGED vars => ServerInv'
    BY ServerSame DEF vars
  <2>2. ClientInv /\ UNCHANGED vars => ClientInv'
    BY ClientSame DEF vars
  <2> QED
    BY <2>1, <2>2, ServerStep, ClientStep
<1>3. TypeInv /\ ClientInv => ReadIntact
  <2> SUFFICES ASSUME TypeInv, ClientInv, ~overlapped
               PROVE  ~torn /\ Intact(got["client"], written)
    BY DEF ReadIntact
  <2>1. /\ ~torn /\ FirstOf(got["client"], written) /\ got["client"] \in Seq(Seq(UnitsOf(Sized)))
        /\ Len(got["client"]) \in 0 .. Len(written) - NotBegun /\ NotBegun \in 0 .. Len(pending)
        /\ Len(written) \in Nat /\ Len(pending) \in Nat
    BY ClientFacts DEF Sides
  <2>2. DOMAIN got["client"] = 1 .. Len(got["client"]) /\ Len(got["client"]) <= Len(written)
    BY <2>1
  <2> QED
    BY <2>1, <2>2 DEF Intact, FirstOf
<1> QED
  BY <1>1, <1>2, <1>3, TypeInductive, PTL DEF Spec
=============================================================================
