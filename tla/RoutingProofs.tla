---------------------------- MODULE RoutingProofs ----------------------------
(***************************************************************************)
(* What reaches a client is meant for the user in its window, and what its *)
(* user sees is backed by the server, for every number of processes and    *)
(* users: RightRecipient, RequestsReplayed and FriendsBacked of VChat.     *)
(*                                                                         *)
(* All three speak of the frames that are on their way to a client, in the *)
(* order in which they will be handled: Stream(p).                         *)
(***************************************************************************)
EXTENDS VChatProofs

-----------------------------------------------------------------------------
(* The stream to a client.                                                 *)

\* Taking the first element of the second sequence to the end of the first.
LEMMA MoveHead ==
  ASSUME NEW S, NEW s \in Seq(S), NEW t \in Seq(S), t # <<>>
  PROVE  Append(s, Head(t)) \o Tail(t) = s \o t
<1>1. /\ Head(t) \in S /\ Tail(t) \in Seq(S) /\ Len(t) \in Nat \ {0} /\ Len(Tail(t)) = Len(t) - 1
      /\ \A i \in 1 .. Len(Tail(t)) : Tail(t)[i] = t[i + 1]
      /\ Head(t) = t[1]
  BY HeadTailProperties
<1>2. Append(s, Head(t)) \in Seq(S) /\ Len(Append(s, Head(t))) = Len(s) + 1
  BY <1>1, AppendProperties
<1> DEFINE a == Append(s, Head(t)) \o Tail(t)
           b == s \o t
<1>3. a \in Seq(S) /\ b \in Seq(S) /\ Len(a) = Len(b)
  BY <1>1, <1>2, ConcatProperties
<1>4. ASSUME NEW i \in 1 .. Len(a) PROVE a[i] = b[i]
  BY <1>1, <1>2, <1>4
<1> QED
  BY <1>3, <1>4, SeqEqual

LEMMA TailOfConcat ==
  ASSUME NEW S, NEW s \in Seq(S), NEW t \in Seq(S), s # <<>>
  PROVE  s \o t # <<>> /\ Head(s \o t) = Head(s) /\ Tail(s \o t) = Tail(s) \o t
<1>1. /\ Tail(s) \in Seq(S) /\ Len(s) \in Nat \ {0} /\ Len(Tail(s)) = Len(s) - 1
      /\ \A i \in 1 .. Len(Tail(s)) : Tail(s)[i] = s[i + 1]
      /\ Head(s) = s[1]
  BY HeadTailProperties
<1> DEFINE a == Tail(s \o t)
           b == Tail(s) \o t
<1>2. s \o t \in Seq(S) /\ s \o t # <<>> /\ Len(s \o t) = Len(s) + Len(t)
  BY <1>1, ConcatProperties
<1>3. a \in Seq(S) /\ b \in Seq(S) /\ Len(a) = Len(b) /\ Len(b) = Len(s) - 1 + Len(t)
  BY <1>1, <1>2, ConcatProperties, HeadTailProperties
<1>4. ASSUME NEW i \in 1 .. Len(a) PROVE a[i] = b[i]
  <2>1. a[i] = (s \o t)[i + 1]
    BY <1>2, <1>4, HeadTailProperties
  <2> QED
    BY <1>1, <1>3, <1>4, <2>1, ConcatProperties
<1>5. a = b
  BY <1>3, <1>4, SeqEqual
<1>6. Head(s \o t) = Head(s)
  BY <1>1, <1>2, ConcatProperties
<1> QED
  BY <1>2, <1>5, <1>6

LEMMA StreamType ==
  ASSUME TypeOK, NEW p \in Proc
  PROVE  /\ s2c[p] \in Seq(ServerFrame) /\ outq[p] \in Seq(ServerFrame)
         /\ c2s[p] \in Seq(ClientFrame) /\ Stream(p) \in Seq(ServerFrame)
BY ConcatProperties DEF Stream, TypeOK, ConnectionTypeOK

\* A write to an object, in a step that delivers nothing.
LEMMA WriteStream ==
  ASSUME TypeOK, NEW p \in Proc, NEW written \in Seq(ServerFrame), Write(p, written), s2c' = s2c
  PROVE  /\ Stream(p)' = Stream(p) \o written
         /\ \A q \in Proc \ {p} : Stream(q)' = Stream(q)
<1>1. outq \in [Proc -> Seq(ServerFrame)] /\ s2c[p] \in Seq(ServerFrame)
  BY DEF TypeOK, ConnectionTypeOK
<1>2. outq' = [outq EXCEPT ![p] = outq[p] \o written]
  BY DEF Write
<1>3. \A q \in Proc \ {p} : Stream(q)' = Stream(q)
  BY <1>1, <1>2 DEF Stream
<1>4. Stream(p)' = s2c[p] \o (outq[p] \o written)
  BY <1>1, <1>2 DEF Stream
<1>5. (s2c[p] \o outq[p]) \o written = s2c[p] \o (outq[p] \o written)
  <2>1. \A a, b, c \in Seq(ServerFrame) : (a \o b) \o c = a \o (b \o c)
    BY ConcatAssociative
  <2>2. outq[p] \in Seq(ServerFrame)
    BY <1>1
  <2> QED
    BY <1>1, <2>1, <2>2, Zenon
<1> QED
  BY <1>3, <1>4, <1>5 DEF Stream

\* A frame relayed to a user goes to the end of one stream at most; unless a
\* destroyed object is used, that of the session the cache has for him.
LEMMA DeliverStream ==
  ASSUME TypeOK, NEW u \in User, NEW frame \in ServerFrame, Deliver(u, frame), s2c' = s2c,
         NEW q \in Proc
  PROVE  \/ Stream(q)' = Stream(q)
         \/ /\ Stream(q)' = Stream(q) \o <<frame>>
            /\ q \in connections /\ (online[u] = q \/ wild')
<1>1. CASE outq' = outq
  BY <1>1 DEF Stream
<1>2. ASSUME online[u] \in Proc, NEW r \in Reached(online[u]), Write(r, <<frame>>), wild' = (wild \/ r # online[u])
      PROVE  \/ Stream(q)' = Stream(q)
             \/ /\ Stream(q)' = Stream(q) \o <<frame>>
                /\ q \in connections /\ (online[u] = q \/ wild')
  <2>1. r \in connections /\ r \in Proc
    BY <1>2 DEF Reached, TypeOK, ConnectionTypeOK
  <2>2. <<frame>> \in Seq(ServerFrame)
    OBVIOUS
  <2> QED
    BY <1>2, <2>1, <2>2, WriteStream
<1>3. online[u] # NoConn => online[u] \in Proc
  BY DEF TypeOK, ServiceTypeOK
<1> QED
  BY <1>1, <1>2, <1>3 DEF Deliver, WriteThrough

-----------------------------------------------------------------------------
(* Sequences of frames.                                                    *)

LoginMethods == {"login", "login_suc", "login_noid", "login_pwerr"}

\* Frames of a login, and that there is no more than one.
Has(s) == \E k \in 1 .. Len(s) : s[k].method \in LoginMethods

AtMostOne(s) ==
  \A j, k \in 1 .. Len(s) : s[j].method \in LoginMethods /\ s[k].method \in LoginMethods => j = k

\* A login as u is handled before the k-th frame of s.
Lets(s, k, u) == \E j \in 1 .. k - 1 : s[j].method = "login_suc" /\ s[j].id = u

LetsAll(s, u) == Lets(s, Len(s) + 1, u)

\* Every relayed frame of s is for the user the window has by then, if it has
\* m now.
Routed(s, m) ==
  \A k \in 1 .. Len(s) : s[k].method \in Relayed =>
    m = Addressee(s[k]) \/ Lets(s, k, Addressee(s[k]))

\* Frames that have nothing to do with a login leave things as they are.
LEMMA OneConcat ==
  ASSUME NEW S, NEW s \in Seq(S), NEW w \in Seq(S), AtMostOne(s), ~Has(w)
  PROVE  AtMostOne(s \o w) /\ (Has(s \o w) => Has(s))
<1>1. /\ Len(s) \in Nat /\ Len(w) \in Nat /\ Len(s \o w) = Len(s) + Len(w)
      /\ \A k \in 1 .. Len(s) : (s \o w)[k] = s[k]
      /\ \A k \in Len(s) + 1 .. Len(s) + Len(w) : (s \o w)[k] = w[k - Len(s)]
  BY ConcatProperties
<1>2. ASSUME NEW k \in 1 .. Len(s \o w), (s \o w)[k].method \in LoginMethods
      PROVE  k \in 1 .. Len(s) /\ s[k].method \in LoginMethods
  <2>1. CASE k \in 1 .. Len(s)
    BY <1>1, <1>2, <2>1
  <2>2. CASE k \notin 1 .. Len(s)
    <3>1. k - Len(s) \in 1 .. Len(w) /\ (s \o w)[k] = w[k - Len(s)]
      BY <1>1, <1>2, <2>2
    <3> QED
      BY <1>2, <3>1 DEF Has
  <2> QED
    BY <2>1, <2>2
<1> QED
  BY <1>2 DEF AtMostOne, Has

\* The answer to a login, as the first of the frames appended.
LEMMA OneAnswer ==
  ASSUME NEW S, NEW s \in Seq(S), NEW w \in Seq(S), ~Has(s),
         \A k \in 2 .. Len(w) : w[k].method \notin LoginMethods
  PROVE  AtMostOne(s \o w)
<1>1. /\ Len(s) \in Nat /\ Len(w) \in Nat /\ Len(s \o w) = Len(s) + Len(w)
      /\ \A k \in 1 .. Len(s) : (s \o w)[k] = s[k]
      /\ \A k \in Len(s) + 1 .. Len(s) + Len(w) : (s \o w)[k] = w[k - Len(s)]
  BY ConcatProperties
<1>2. ASSUME NEW k \in 1 .. Len(s \o w), (s \o w)[k].method \in LoginMethods
      PROVE  k = Len(s) + 1
  <2>1. k \notin 1 .. Len(s)
    BY <1>1, <1>2 DEF Has
  <2>2. k - Len(s) \in 1 .. Len(w) /\ (s \o w)[k] = w[k - Len(s)]
    BY <1>1, <1>2, <2>1
  <2>3. k - Len(s) \notin 2 .. Len(w)
    BY <1>2, <2>2
  <2> QED
    BY <1>1, <2>2, <2>3
<1> QED
  BY <1>2 DEF AtMostOne

LEMMA OneTail ==
  ASSUME NEW S, NEW s \in Seq(S), s # <<>>, AtMostOne(s)
  PROVE  /\ AtMostOne(Tail(s)) /\ (Has(Tail(s)) => Has(s))
         /\ Head(s).method \in LoginMethods => Has(s) /\ ~Has(Tail(s))
<1>1. /\ Tail(s) \in Seq(S) /\ Len(s) \in Nat \ {0} /\ Len(Tail(s)) = Len(s) - 1
      /\ \A i \in 1 .. Len(Tail(s)) : Tail(s)[i] = s[i + 1]
      /\ Head(s) = s[1]
  BY HeadTailProperties
<1>2. \A k \in 1 .. Len(Tail(s)) : k + 1 \in 1 .. Len(s) /\ Tail(s)[k] = s[k + 1] /\ k + 1 # 1
  BY <1>1
<1>3. AtMostOne(Tail(s))
  <2> SUFFICES ASSUME NEW j \in 1 .. Len(Tail(s)), NEW k \in 1 .. Len(Tail(s)),
                      Tail(s)[j].method \in LoginMethods, Tail(s)[k].method \in LoginMethods
               PROVE  j = k
    BY DEF AtMostOne
  <2>1. j + 1 = k + 1
    BY <1>2 DEF AtMostOne
  <2> QED
    BY <1>1, <2>1
<1>4. Has(Tail(s)) => Has(s)
  BY <1>2 DEF Has
<1>5. ASSUME Head(s).method \in LoginMethods PROVE Has(s) /\ ~Has(Tail(s))
  <2>1. 1 \in 1 .. Len(s) /\ s[1].method \in LoginMethods
    BY <1>1, <1>5
  <2> QED
    BY <1>2, <2>1 DEF Has, AtMostOne
<1> QED
  BY <1>3, <1>4, <1>5

LEMMA OnePrefix ==
  ASSUME NEW S, NEW s \in Seq(S), NEW w \in Seq(S), AtMostOne(s \o w)
  PROVE  AtMostOne(s) /\ (Has(s) => Has(s \o w))
<1>1. /\ Len(s) \in Nat /\ Len(w) \in Nat /\ Len(s \o w) = Len(s) + Len(w)
      /\ \A k \in 1 .. Len(s) : (s \o w)[k] = s[k]
  BY ConcatProperties
<1>2. \A k \in 1 .. Len(s) : k \in 1 .. Len(s \o w) /\ (s \o w)[k] = s[k]
  BY <1>1
<1> QED
  BY <1>2 DEF AtMostOne, Has

\* A login that is handled before the end of a sequence stays so.
LEMMA LetsConcat ==
  ASSUME NEW S, NEW s \in Seq(S), NEW w \in Seq(S), NEW u, LetsAll(s, u) \/ LetsAll(w, u)
  PROVE  LetsAll(s \o w, u)
<1>1. /\ Len(s) \in Nat /\ Len(w) \in Nat /\ Len(s \o w) = Len(s) + Len(w)
      /\ \A k \in 1 .. Len(s) : (s \o w)[k] = s[k]
      /\ \A k \in Len(s) + 1 .. Len(s) + Len(w) : (s \o w)[k] = w[k - Len(s)]
  BY ConcatProperties
<1>2. CASE LetsAll(s, u)
  <2>1. PICK j \in 1 .. Len(s) : s[j].method = "login_suc" /\ s[j].id = u
    BY <1>1, <1>2 DEF LetsAll, Lets
  <2>2. j \in 1 .. (Len(s \o w) + 1) - 1 /\ (s \o w)[j] = s[j]
    BY <1>1, <2>1
  <2> QED
    BY <2>1, <2>2 DEF LetsAll, Lets
<1>3. CASE LetsAll(w, u)
  <2>1. PICK j \in 1 .. Len(w) : w[j].method = "login_suc" /\ w[j].id = u
    BY <1>1, <1>3 DEF LetsAll, Lets
  <2>2. j + Len(s) \in 1 .. (Len(s \o w) + 1) - 1 /\ (s \o w)[j + Len(s)] = w[j]
    <3>1. j + Len(s) \in Len(s) + 1 .. Len(s) + Len(w) /\ (j + Len(s)) - Len(s) = j
      BY <1>1, <2>1
    <3> QED
      BY <1>1, <3>1
  <2> QED
    BY <2>1, <2>2 DEF LetsAll, Lets
<1> QED
  BY <1>2, <1>3

LEMMA RoutedConcat ==
  ASSUME NEW S, NEW s \in Seq(S), NEW w \in Seq(S), NEW m, Routed(s, m),
         \A k \in 1 .. Len(w) : w[k].method \in Relayed =>
           \/ m = Addressee(w[k]) \/ LetsAll(s, Addressee(w[k])) \/ Lets(w, k, Addressee(w[k]))
  PROVE  Routed(s \o w, m)
<1>1. /\ Len(s) \in Nat /\ Len(w) \in Nat /\ Len(s \o w) = Len(s) + Len(w)
      /\ \A k \in 1 .. Len(s) : (s \o w)[k] = s[k]
      /\ \A k \in Len(s) + 1 .. Len(s) + Len(w) : (s \o w)[k] = w[k - Len(s)]
  BY ConcatProperties
<1> SUFFICES ASSUME NEW k \in 1 .. Len(s \o w), (s \o w)[k].method \in Relayed
             PROVE  m = Addressee((s \o w)[k]) \/ Lets(s \o w, k, Addressee((s \o w)[k]))
  BY DEF Routed
<1> DEFINE u == Addressee((s \o w)[k])
<1>2. CASE k \in 1 .. Len(s)
  <2>1. (s \o w)[k] = s[k]
    BY <1>1, <1>2
  <2>2. m = u \/ Lets(s, k, u)
    BY <1>2, <2>1 DEF Routed
  <2>3. \A j \in 1 .. k - 1 : (s \o w)[j] = s[j]
    BY <1>1, <1>2
  <2> HIDE DEF u
  <2>4. m = u \/ Lets(s \o w, k, u)
    BY <2>2, <2>3 DEF Lets
  <2> QED
    BY <2>4 DEF u
<1>3. CASE k \notin 1 .. Len(s)
  <2> DEFINE i == k - Len(s)
  <2>1. i \in 1 .. Len(w) /\ (s \o w)[k] = w[i]
    BY <1>1, <1>3
  <2>2. m = u \/ LetsAll(s, u) \/ Lets(w, i, u)
    BY <2>1
  <2> HIDE DEF u
  <2>3. CASE LetsAll(s, u)
    <3>1. PICK j \in 1 .. Len(s) : s[j].method = "login_suc" /\ s[j].id = u
      BY <1>1, <2>3 DEF LetsAll, Lets
    <3>2. j \in 1 .. k - 1 /\ (s \o w)[j] = s[j]
      BY <1>1, <1>3, <3>1
    <3> QED
      BY <3>1, <3>2 DEF Lets, u
  <2>4. CASE Lets(w, i, u)
    <3>1. PICK j \in 1 .. i - 1 : w[j].method = "login_suc" /\ w[j].id = u
      BY <2>4 DEF Lets
    <3>2. j + Len(s) \in 1 .. k - 1 /\ (s \o w)[j + Len(s)] = w[j]
      <4>1. /\ j + Len(s) \in Len(s) + 1 .. Len(s) + Len(w) /\ (j + Len(s)) - Len(s) = j
            /\ j + Len(s) \in 1 .. k - 1
        BY <1>1, <2>1, <3>1
      <4> QED
        BY <1>1, <4>1
    <3> QED
      BY <3>1, <3>2 DEF Lets, u
  <2> QED
    BY <2>2, <2>3, <2>4 DEF u
<1> QED
  BY <1>2, <1>3

LEMMA RoutedPrefix ==
  ASSUME NEW S, NEW s \in Seq(S), NEW w \in Seq(S), NEW m, Routed(s \o w, m)
  PROVE  Routed(s, m)
<1>1. /\ Len(s) \in Nat /\ Len(w) \in Nat /\ Len(s \o w) = Len(s) + Len(w)
      /\ \A k \in 1 .. Len(s) : (s \o w)[k] = s[k]
  BY ConcatProperties
<1> SUFFICES ASSUME NEW k \in 1 .. Len(s), s[k].method \in Relayed
             PROVE  m = Addressee(s[k]) \/ Lets(s, k, Addressee(s[k]))
  BY DEF Routed
<1>2. k \in 1 .. Len(s \o w) /\ (s \o w)[k] = s[k]
  BY <1>1
<1>3. m = Addressee(s[k]) \/ Lets(s \o w, k, Addressee(s[k]))
  BY <1>2 DEF Routed
<1>4. \A j \in 1 .. k - 1 : (s \o w)[j] = s[j]
  BY <1>1
<1> QED
  BY <1>3, <1>4 DEF Lets

\* The first frame is handled: a login makes its id the user of the window.
LEMMA RoutedTail ==
  ASSUME NEW S, NEW s \in Seq(S), s # <<>>, NEW m, NEW n, Routed(s, m),
         Head(s).method = "login_suc" => n = Head(s).id,
         Head(s).method # "login_suc" => n = m,
         \A k \in 1 .. Len(s) :
           s[k].method \in Relayed /\ Head(s).method = "login_suc" => m # Addressee(s[k])
  PROVE  Routed(Tail(s), n)
<1>1. /\ Tail(s) \in Seq(S) /\ Len(s) \in Nat \ {0} /\ Len(Tail(s)) = Len(s) - 1
      /\ \A i \in 1 .. Len(Tail(s)) : Tail(s)[i] = s[i + 1]
      /\ Head(s) = s[1]
  BY HeadTailProperties
<1> SUFFICES ASSUME NEW k \in 1 .. Len(Tail(s)), Tail(s)[k].method \in Relayed,
                    NEW u, u = Addressee(Tail(s)[k])
             PROVE  n = u \/ Lets(Tail(s), k, u)
  BY DEF Routed
<1>2. k + 1 \in 1 .. Len(s) /\ Tail(s)[k] = s[k + 1] /\ s[k + 1].method \in Relayed /\ u = Addressee(s[k + 1])
  BY <1>1
<1>3. CASE m = u
  BY <1>2, <1>3
<1>4. CASE Lets(s, k + 1, u)
  <2>1. PICK j \in 1 .. (k + 1) - 1 : s[j].method = "login_suc" /\ s[j].id = u
    BY <1>4 DEF Lets
  <2>2. CASE j = 1
    BY <1>1, <2>1, <2>2
  <2>3. CASE j # 1
    <3>1. j - 1 \in 1 .. k - 1 /\ Tail(s)[j - 1] = s[j]
      <4>1. j - 1 \in 1 .. Len(Tail(s)) /\ (j - 1) + 1 = j /\ j - 1 \in 1 .. k - 1
        BY <1>1, <2>1, <2>3
      <4> QED
        BY <1>1, <4>1
    <3> QED
      BY <2>1, <3>1 DEF Lets
  <2> QED
    BY <2>2, <2>3
<1> QED
  BY <1>2, <1>3, <1>4 DEF Routed

LEMMA LetsTail ==
  ASSUME NEW S, NEW s \in Seq(S), s # <<>>, NEW u, LetsAll(s, u)
  PROVE  (Head(s).method = "login_suc" /\ Head(s).id = u) \/ LetsAll(Tail(s), u)
<1>1. /\ Tail(s) \in Seq(S) /\ Len(s) \in Nat \ {0} /\ Len(Tail(s)) = Len(s) - 1
      /\ \A i \in 1 .. Len(Tail(s)) : Tail(s)[i] = s[i + 1]
      /\ Head(s) = s[1]
  BY HeadTailProperties
<1>2. PICK j \in 1 .. Len(s) : s[j].method = "login_suc" /\ s[j].id = u
  BY <1>1 DEF LetsAll, Lets
<1>3. CASE j = 1
  BY <1>1, <1>2, <1>3
<1>4. CASE j # 1
  <2>1. j - 1 \in 1 .. Len(Tail(s)) /\ (j - 1) + 1 = j /\ j - 1 \in 1 .. (Len(Tail(s)) + 1) - 1
    BY <1>1, <1>2, <1>4
  <2>2. Tail(s)[j - 1] = s[j]
    BY <1>1, <2>1
  <2> QED
    BY <1>2, <2>1, <2>2 DEF LetsAll, Lets
<1> QED
  BY <1>3, <1>4

\* A frame is somewhere in a sequence.
Holds(s, f) == \E k \in 1 .. Len(s) : s[k] = f

LEMMA HoldsConcat ==
  ASSUME NEW S, NEW s \in Seq(S), NEW w \in Seq(S), NEW f, Holds(s, f) \/ Holds(w, f)
  PROVE  Holds(s \o w, f)
<1>1. /\ Len(s) \in Nat /\ Len(w) \in Nat /\ Len(s \o w) = Len(s) + Len(w)
      /\ \A k \in 1 .. Len(s) : (s \o w)[k] = s[k]
      /\ \A k \in Len(s) + 1 .. Len(s) + Len(w) : (s \o w)[k] = w[k - Len(s)]
  BY ConcatProperties
<1>2. CASE Holds(s, f)
  <2>1. \A k \in 1 .. Len(s) : k \in 1 .. Len(s \o w) /\ (s \o w)[k] = s[k]
    BY <1>1
  <2> QED
    BY <1>2, <2>1 DEF Holds
<1>3. CASE Holds(w, f)
  <2>1. ASSUME NEW k \in 1 .. Len(w)
        PROVE  Len(s) + k \in 1 .. Len(s \o w) /\ (s \o w)[Len(s) + k] = w[k]
    <3>1. Len(s) + k \in Len(s) + 1 .. Len(s) + Len(w) /\ (Len(s) + k) - Len(s) = k
      BY <1>1, <2>1
    <3> QED
      BY <1>1, <3>1
  <2> QED
    BY <1>3, <2>1 DEF Holds
<1> QED
  BY <1>2, <1>3

LEMMA HoldsTail ==
  ASSUME NEW S, NEW s \in Seq(S), s # <<>>, NEW f, Holds(s, f)
  PROVE  f = Head(s) \/ Holds(Tail(s), f)
<1>1. /\ Tail(s) \in Seq(S) /\ Len(s) \in Nat \ {0} /\ Len(Tail(s)) = Len(s) - 1
      /\ \A i \in 1 .. Len(Tail(s)) : Tail(s)[i] = s[i + 1]
      /\ Head(s) = s[1]
  BY HeadTailProperties
<1>2. PICK k \in 1 .. Len(s) : s[k] = f
  BY DEF Holds
<1>3. CASE k # 1
  <2>1. k - 1 \in 1 .. Len(Tail(s)) /\ (k - 1) + 1 = k
    BY <1>1, <1>3
  <2> QED
    BY <1>1, <1>2, <2>1 DEF Holds
<1> QED
  BY <1>1, <1>2, <1>3

-----------------------------------------------------------------------------
(* The inductive invariant.  It is about a server that has had no failing  *)
(* Store call and has used no destroyed object.                            *)

Sound == faults = 0 /\ ~wild

\* Before it connects a client is unknown to the server, and knows nothing.
Fresh(p) ==
  phase[p] = "new" =>
    /\ p \notin connections /\ \A u \in User : online[u] # p
    /\ c2s[p] = <<>> /\ Stream(p) = <<>>
    /\ me[p] = Nobody /\ friends[p] = {}

\* The dialog waits for the answer to one login: either the request is on its
\* way or the answer, and nobody is logged in yet.
OneLogin(p) ==
  /\ AtMostOne(c2s[p]) /\ AtMostOne(Stream(p))
  /\ ~(Has(c2s[p]) /\ Has(Stream(p)))
  /\ Has(c2s[p]) \/ Has(Stream(p)) => me[p] = Nobody /\ waiting[p] = "login"

\* The cache has the session for a user whom the window has, or will have once
\* it has handled what is on its way to it.
RoutedTo(p) ==
  /\ Routed(Stream(p), me[p])
  /\ \A u \in User : online[u] = p => me[p] = u \/ LetsAll(Stream(p), u)

Replayed(p) ==
  \A u \in User : online[u] = p =>
    \A k \in 1 .. Len(apply[u]) :
      \/ apply[u][k] \in requests[p] \cup friends[p]
      \/ Holds(Stream(p), FriendFrame("addfd", apply[u][k], u))

\* The frames that add to a list of friends, backed by rows.
BackedDown ==
  {f \in ServerFrame :
     /\ f.method = "login_suc" => \A w \in f.friends : friendinfo[<<f.id, w>>] > 0
     /\ f.method = "accept_addfd" => friendinfo[<<f.friendid, f.userid>>] > 0}

InSession(p) == up /\ phase[p] = "on" /\ p \in connections

Backed(p) ==
  InSession(p) =>
    /\ me[p] = Nobody => friends[p] = {}
    /\ me[p] # Nobody => \A w \in friends[p] :
         friendinfo[<<me[p], w>>] > 0 \/ Holds(c2s[p], FriendFrame("accept_addfd", me[p], w))
    /\ Stream(p) \in Seq(BackedDown)

Well(p) ==
  /\ Fresh(p)
  /\ phase[p] = "on" => OneLogin(p) /\ RoutedTo(p) /\ Replayed(p) /\ Backed(p)

RoutingInv == Sound => \A p \in Proc : Well(p)

-----------------------------------------------------------------------------
(* A process that does nothing itself.                                     *)

\* The server has taken at most one request from the channel of q; with the
\* acceptance of a friend request, its row is there.
Taken(q) ==
  \/ c2s'[q] = c2s[q]
  \/ /\ c2s[q] # <<>> /\ c2s'[q] = Tail(c2s[q])
     /\ up' /\ Head(c2s[q]).method = "accept_addfd"
          => friendinfo'[<<Head(c2s[q]).userid, Head(c2s[q]).friendid>>] > 0

\* The server may write f to q: it answers no login, and is relayed to where
\* its addressee was last seen.
MayGet(q, f) ==
  /\ q \in connections
  /\ f \in ServerFrame /\ f.method \notin LoginMethods
  /\ f.method \in Relayed => Addressee(f) \in User /\ online[Addressee(f)] = q
  /\ up' /\ f.method = "accept_addfd" => friendinfo'[<<f.friendid, f.userid>>] > 0

Given(q) ==
  \/ Stream(q)' = Stream(q)
  \/ \E f \in ServerFrame : MayGet(q, f) /\ Stream(q)' = Stream(q) \o <<f>>

RowsStay == \A u, w \in User : friendinfo[<<u, w>>] > 0 => friendinfo'[<<u, w>>] > 0

Quiet(q) ==
  /\ phase'[q] = phase[q] /\ me'[q] = me[q] /\ waiting'[q] = waiting[q]
  /\ friends'[q] = friends[q] /\ requests'[q] = requests[q]
  /\ q \in connections' => q \in connections
  /\ up' => up
  /\ \A u \in User : online'[u] = q => online[u] = q /\ apply'[u] = apply[u]
  /\ RowsStay
  /\ Taken(q) /\ Given(q)

LEMMA TakenTail ==
  ASSUME TypeOK, NEW q \in Proc, c2s[q] # <<>>
  PROVE  /\ c2s[q] \in Seq(ClientFrame)
         /\ Head(c2s[q]) \in ClientFrame /\ Tail(c2s[q]) \in Seq(ClientFrame)
         /\ Head(c2s[q]) = c2s[q][1] /\ 1 \in 1 .. Len(c2s[q])
BY StreamType, HeadTailProperties

LEMMA QuietOne ==
  ASSUME TypeOK, NEW q \in Proc, OneLogin(q), Quiet(q)
  PROVE  OneLogin(q)'
<1>1. AtMostOne(c2s'[q]) /\ (Has(c2s'[q]) => Has(c2s[q]))
  BY TakenTail, OneTail DEF Quiet, Taken, OneLogin
<1>2. AtMostOne(Stream(q)') /\ (Has(Stream(q)') => Has(Stream(q)))
  <2>1. ASSUME NEW f \in ServerFrame, MayGet(q, f), Stream(q)' = Stream(q) \o <<f>>
        PROVE  AtMostOne(Stream(q)') /\ (Has(Stream(q)') => Has(Stream(q)))
    <3>1. <<f>> \in Seq(ServerFrame) /\ ~Has(<<f>>)
      BY <2>1 DEF MayGet, Has
    <3> QED
      BY <2>1, <3>1, StreamType, OneConcat DEF OneLogin
  <2> QED
    BY <2>1 DEF Quiet, Given, OneLogin
<1> QED
  BY <1>1, <1>2 DEF OneLogin, Quiet

LEMMA QuietRouted ==
  ASSUME TypeOK, NEW q \in Proc, RoutedTo(q), Quiet(q)
  PROVE  RoutedTo(q)'
<1>1. CASE Stream(q)' = Stream(q)
  BY <1>1 DEF Quiet, RoutedTo
<1>2. ASSUME NEW f \in ServerFrame, MayGet(q, f), Stream(q)' = Stream(q) \o <<f>>
      PROVE  RoutedTo(q)'
  <2>1. Stream(q) \in Seq(ServerFrame) /\ <<f>> \in Seq(ServerFrame)
    BY StreamType
  <2>2. f.method \in Relayed => me[q] = Addressee(f) \/ LetsAll(Stream(q), Addressee(f))
    BY <1>2 DEF MayGet, RoutedTo
  <2>3. \A k \in 1 .. Len(<<f>>) : <<f>>[k] = f
    OBVIOUS
  <2>4. Routed(Stream(q) \o <<f>>, me[q])
    BY <2>1, <2>2, <2>3, RoutedConcat DEF RoutedTo
  <2>5. \A u \in User : LetsAll(Stream(q), u) => LetsAll(Stream(q) \o <<f>>, u)
    BY <2>1, LetsConcat
  <2> QED
    BY <1>2, <2>4, <2>5 DEF Quiet, RoutedTo
<1> QED
  BY <1>1, <1>2 DEF Quiet, Given

LEMMA QuietReplayed ==
  ASSUME TypeOK, NEW q \in Proc, Replayed(q), Quiet(q)
  PROVE  Replayed(q)'
<1>1. ASSUME NEW f, Holds(Stream(q), f) PROVE Holds(Stream(q)', f)
  <2>1. ASSUME NEW g \in ServerFrame, Stream(q)' = Stream(q) \o <<g>>
        PROVE  Holds(Stream(q)', f)
    <3>1. Stream(q) \in Seq(ServerFrame) /\ <<g>> \in Seq(ServerFrame)
      BY StreamType
    <3> QED
      BY <1>1, <2>1, <3>1, HoldsConcat
  <2> QED
    BY <1>1, <2>1 DEF Quiet, Given
<1> QED
  BY <1>1 DEF Quiet, Replayed

\* Rows stay, so what was backed stays so.
LEMMA BackedStays ==
  ASSUME RowsStay
  PROVE  BackedDown \subseteq BackedDown'
<1> SUFFICES ASSUME NEW f \in BackedDown PROVE f \in BackedDown'
  OBVIOUS
<1>1. f \in ServerFrame
  BY DEF BackedDown
<1>2. f.method = "login_suc" => f.id \in User /\ f.friends \in SUBSET User
  BY <1>1, ServerFrameFields
<1>3. f.method = "accept_addfd" => f.userid \in User /\ f.friendid \in User
  BY <1>1, ServerFrameFields, RelayFrameFields
<1> QED
  BY <1>1, <1>2, <1>3 DEF BackedDown, RowsStay

LEMMA QuietBacked ==
  ASSUME TypeOK, NEW q \in Proc, Backed(q), Quiet(q)
  PROVE  Backed(q)'
<1> SUFFICES ASSUME InSession(q)'
             PROVE  /\ me'[q] = Nobody => friends'[q] = {}
                    /\ me'[q] # Nobody => \A w \in friends'[q] :
                         \/ friendinfo'[<<me'[q], w>>] > 0
                         \/ Holds(c2s'[q], FriendFrame("accept_addfd", me'[q], w))
                    /\ Stream(q)' \in Seq(BackedDown')
  BY DEF Backed
<1>1. InSession(q) /\ up' /\ q \in connections
  BY DEF InSession, Quiet
<1>2. BackedDown \subseteq BackedDown'
  BY BackedStays DEF Quiet
<1>3. Stream(q) \in Seq(BackedDown')
  BY <1>1, <1>2 DEF Backed
<1>4. Stream(q)' \in Seq(BackedDown')
  <2>1. ASSUME NEW f \in ServerFrame, MayGet(q, f), Stream(q)' = Stream(q) \o <<f>>
        PROVE  Stream(q)' \in Seq(BackedDown')
    <3>1. f \in BackedDown'
      BY <1>1, <2>1 DEF MayGet, BackedDown, LoginMethods
    <3>2. <<f>> \in Seq(BackedDown')
      BY <3>1
    <3> QED
      BY <1>3, <2>1, <3>2, ConcatProperties
  <2> QED
    BY <1>3, <2>1 DEF Quiet, Given
<1>5. ASSUME me[q] # Nobody, NEW w \in friends[q]
      PROVE  \/ friendinfo'[<<me[q], w>>] > 0
             \/ Holds(c2s'[q], FriendFrame("accept_addfd", me[q], w))
  <2>1. me[q] \in User /\ w \in User
    BY <1>5 DEF TypeOK, ClientTypeOK
  <2>2. CASE friendinfo[<<me[q], w>>] > 0
    BY <2>1, <2>2 DEF Quiet, RowsStay
  <2>3. CASE Holds(c2s[q], FriendFrame("accept_addfd", me[q], w)) /\ c2s'[q] # c2s[q]
    <3>1. c2s[q] # <<>> /\ c2s'[q] = Tail(c2s[q])
      BY <2>3 DEF Quiet, Taken
    <3>2. Head(c2s[q]) = FriendFrame("accept_addfd", me[q], w) \/ Holds(c2s'[q], FriendFrame("accept_addfd", me[q], w))
      BY <2>3, <3>1, TakenTail, HoldsTail
    <3> QED
      BY <1>1, <2>3, <3>2 DEF Quiet, Taken, FriendFrame
  <2> QED
    BY <1>1, <1>5, <2>2, <2>3 DEF Backed
<1> QED
  BY <1>1, <1>4, <1>5 DEF Quiet, Backed

LEMMA QuietWell ==
  ASSUME TypeOK, NEW q \in Proc, Well(q), Quiet(q)
  PROVE  Well(q)'
<1>1. Fresh(q)'
  <2> SUFFICES ASSUME phase[q] = "new"
               PROVE  /\ q \notin connections' /\ \A u \in User : online'[u] # q
                      /\ c2s'[q] = <<>> /\ Stream(q)' = <<>>
                      /\ me'[q] = Nobody /\ friends'[q] = {}
    BY DEF Fresh, Quiet
  <2> QED
    BY DEF Well, Fresh, Quiet, Taken, Given, MayGet
<1>2. ASSUME phase'[q] = "on" PROVE OneLogin(q)' /\ RoutedTo(q)' /\ Replayed(q)' /\ Backed(q)'
  BY <1>2, QuietOne, QuietRouted, QuietReplayed, QuietBacked DEF Well, Quiet
<1> QED
  BY <1>1, <1>2 DEF Well

-----------------------------------------------------------------------------
(* The steps of the sessions, and the ends and starts of the server.       *)

LEMMA RowsStayInsert ==
  ASSUME TypeOK, NEW u \in User, NEW w \in User, friendinfo' = insertFriend(friendinfo, u, w)
  PROVE  RowsStay
<1> SUFFICES ASSUME NEW a \in User, NEW b \in User, friendinfo[<<a, b>>] > 0
             PROVE  friendinfo'[<<a, b>>] > 0
  BY DEF RowsStay
<1>1. friendinfo \in [User \X User -> Nat] /\ friendinfo[<<a, b>>] \in Nat
  BY DEF TypeOK, StoreTypeOK
<1>2. friendinfo'[<<a, b>>] \in {friendinfo[<<a, b>>], friendinfo[<<a, b>>] + 1}
  BY <1>1 DEF insertFriend
<1> QED
  BY <1>1, <1>2

\* The handler of a write hands on the oldest frame; the stream stays the same.
LEMMA WriteDoneStream ==
  ASSUME TypeOK, NEW p \in Proc, NEW q \in Proc, WriteDone(p), phase[q] = "on"
  PROVE  Stream(q)' = Stream(q)
<1>1. /\ s2c \in [Proc -> Seq(ServerFrame)] /\ outq \in [Proc -> Seq(ServerFrame)]
      /\ outq[p] # <<>>
      /\ s2c[p] \in Seq(ServerFrame) /\ outq[p] \in Seq(ServerFrame)
  BY DEF TypeOK, ConnectionTypeOK, WriteDone
<1>2. CASE q = p
  <2>1. s2c'[p] = Append(s2c[p], Head(outq[p])) /\ outq'[p] = Tail(outq[p])
    BY <1>1, <1>2 DEF WriteDone
  <2>2. Append(s2c[p], Head(outq[p])) \o Tail(outq[p]) = s2c[p] \o outq[p]
    BY <1>1, MoveHead
  <2> QED
    BY <1>2, <2>1, <2>2 DEF Stream
<1>3. CASE q # p
  BY <1>1, <1>3 DEF Stream, WriteDone
<1> QED
  BY <1>2, <1>3

\* A session that stands through a step of the sessions is left alone by it.
LEMMA SessionWell ==
  ASSUME TypeOK, NEW p \in Proc, Session(p), ~wild', NEW q \in Proc, Well(q)
  PROVE  Well(q)'
<1> USE DEF TypeOK, ConnectionTypeOK
<1>1. /\ UNCHANGED <<friendinfo, online, apply, me, friends, requests, waiting>>
      /\ UNCHANGED up /\ UNCHANGED wild
  BY DEF Session, Accept, WriteDone, ReadError, WriteError, StaleHandler, NetStops, ConnectFails,
         Reset, Leave, serverSide, tables, cache, clientVars, info
<1>2. RowsStay
  BY <1>1 DEF RowsStay
<1>3. ASSUME phase'[q] = phase[q], c2s'[q] = c2s[q], Stream(q)' = Stream(q),
             q \in connections' => q \in connections
      PROVE  Well(q)'
  <2>1. Quiet(q)
    BY <1>1, <1>2, <1>3 DEF Quiet, Taken, Given
  <2> QED
    BY <2>1, QuietWell
<1>4. ASSUME phase'[q] \notin {"new", "on"} PROVE Well(q)'
  BY <1>4 DEF Well, Fresh
<1>5. ASSUME NEW a \in Addr, Accept(p, a) PROVE Well(q)'
  <2>1. UNCHANGED <<outq, c2s, s2c>> /\ Stream(q)' = Stream(q)
    BY <1>5 DEF Accept, Stream
  <2>2. CASE q # p
    BY <1>3, <1>5, <2>1, <2>2 DEF Accept
  <2>3. CASE q = p
    <3>1. /\ \A u \in User : online[u] # q
          /\ c2s'[q] = <<>> /\ Stream(q)' = <<>> /\ me'[q] = Nobody /\ friends'[q] = {}
          /\ phase'[q] = "on"
      BY <1>1, <1>5, <2>1, <2>3 DEF Accept, Well, Fresh
    <3>2. OneLogin(q)'
      BY <3>1 DEF OneLogin, AtMostOne, Has
    <3>3. RoutedTo(q)'
      BY <1>1, <3>1 DEF RoutedTo, Routed
    <3>4. Replayed(q)'
      BY <1>1, <3>1 DEF Replayed
    <3>5. Backed(q)'
      BY <3>1 DEF Backed
    <3> QED
      BY <3>1, <3>2, <3>3, <3>4, <3>5 DEF Well, Fresh
  <2> QED
    BY <2>2, <2>3
<1>6. CASE WriteDone(p)
  <2>1. phase'[q] = phase[q] /\ c2s'[q] = c2s[q] /\ connections' = connections
    BY <1>6 DEF WriteDone
  <2>2. CASE phase[q] = "on"
    BY <1>3, <1>6, <2>1, <2>2, WriteDoneStream
  <2>3. CASE phase[q] = "new"
    <3>1. q # p
      BY <1>6, <2>3 DEF WriteDone, Well, Fresh
    <3> QED
      BY <1>3, <1>6, <2>1, <3>1 DEF WriteDone, Stream
  <2> QED
    BY <1>4, <2>1, <2>2, <2>3
<1>7. CASE ReadError(p) \/ WriteError(p)
  <2>1. CASE q = p
    BY <1>4, <1>7, <2>1 DEF ReadError, WriteError
  <2>2. CASE q # p
    BY <1>3, <1>7, <2>2 DEF ReadError, WriteError, Destroy, Stream
  <2> QED
    BY <2>1, <2>2
<1>8. CASE NetStops(p) \/ ConnectFails(p) \/ Reset(p) \/ Leave(p)
  <2>1. CASE q = p
    BY <1>4, <1>8, <2>1 DEF NetStops, ConnectFails, Reset, Leave
  <2>2. CASE q # p
    BY <1>3, <1>8, <2>2 DEF NetStops, ConnectFails, Reset, Leave, Stream, serverSide
  <2> QED
    BY <2>1, <2>2
<1>9. ~StaleHandler(p)
  BY DEF StaleHandler
<1> QED
  BY <1>5, <1>6, <1>7, <1>8, <1>9 DEF Session

\* Killed after the first of two rows, the server has taken a request and
\* answers nobody.
LEMMA KilledWell ==
  ASSUME TypeOK, NEW p \in Proc, Killed(p), NEW q \in Proc, Well(q)
  PROVE  Well(q)'
<1>1. /\ Head(c2s[p]) \in ClientFrame /\ Head(c2s[p]).method = "accept_addfd" /\ c2s[p] # <<>>
      /\ c2s' = [c2s EXCEPT ![p] = Tail(c2s[p])] /\ c2s \in [Proc -> Seq(ClientFrame)]
  BY ServeType DEF Killed, Serve, TypeOK, ConnectionTypeOK
<1>2. RowsStay
  <2>1. Head(c2s[p]).userid \in User /\ Head(c2s[p]).friendid \in User
    BY <1>1, ClientFrameFields, RelayFrameFields
  <2> QED
    BY <2>1, RowsStayInsert DEF Killed, AcceptKilled, FirstRow
<1>3. Quiet(q)
  <2>1. Taken(q)
    BY <1>1 DEF Taken, Killed, AcceptKilled
  <2>2. Given(q)
    BY DEF Given, Stream, Killed, AcceptKilled, Serve
  <2> QED
    BY <1>2, <2>1, <2>2 DEF Quiet, Killed, AcceptKilled, Serve, cache, clientVars, info
<1> QED
  BY <1>3, QuietWell

LEMMA StopsWell ==
  ASSUME TypeOK, Stops \/ UNCHANGED vars, NEW q \in Proc, Well(q)
  PROVE  Well(q)'
<1>1. /\ UNCHANGED <<connections, outq, phase, c2s, s2c>> /\ (up' => up)
      /\ UNCHANGED <<friendinfo, online, apply, me, friends, requests, waiting>>
  BY DEF Stops, ServerStops, vars, netVars, tables, cache, clientVars, info
<1>2. Taken(q) /\ Given(q) /\ RowsStay
  BY <1>1 DEF Taken, Given, RowsStay, Stream
<1>3. Quiet(q)
  BY <1>1, <1>2 DEF Quiet
<1> QED
  BY <1>3, QuietWell

\* A new server process has no pointer to any session, and what was on its way
\* to the clients when the old one ended still arrives.
LEMMA StartsWell ==
  ASSUME TypeOK, Starts, NEW q \in Proc, Well(q)
  PROVE  Well(q)'
<1>1. /\ s2c[q] \in Seq(ServerFrame) /\ outq[q] \in Seq(ServerFrame)
      /\ Stream(q)' = s2c[q]
  <2>1. s2c[q] \in Seq(ServerFrame) /\ outq[q] \in Seq(ServerFrame)
    BY StreamType
  <2>2. s2c'[q] = s2c[q] /\ outq'[q] = <<>>
    BY DEF Starts, ServerStarts
  <2> QED
    BY <2>1, <2>2, ConcatEmptySeq DEF Stream
<1>2. /\ c2s'[q] = <<>> /\ q \notin connections' /\ phase' = phase
      /\ UNCHANGED <<me, friends, waiting>>
      /\ \A u \in User : online'[u] # q
  BY ServiceAssumption DEF Starts, ServerStarts, clientVars, info
<1>3. ASSUME phase[q] = "new" PROVE Stream(q)' = <<>>
  BY <1>1, <1>3, ConcatSimplifications DEF Well, Fresh, Stream
<1>4. Fresh(q)'
  BY <1>2, <1>3 DEF Well, Fresh
<1>5. ASSUME phase[q] = "on" PROVE OneLogin(q)' /\ RoutedTo(q)' /\ Replayed(q)' /\ Backed(q)'
  <2>1. AtMostOne(s2c[q]) /\ (Has(s2c[q]) => Has(Stream(q)))
    BY <1>1, <1>5, OnePrefix DEF Well, OneLogin, Stream
  <2>2. AtMostOne(<<>>) /\ ~Has(<<>>)
    BY DEF AtMostOne, Has
  <2>3. OneLogin(q)'
    BY <1>1, <1>2, <1>5, <2>1, <2>2 DEF Well, OneLogin
  <2>4. Routed(s2c[q], me[q])
    BY <1>1, <1>5, RoutedPrefix DEF Well, RoutedTo, Stream
  <2> QED
    BY <1>1, <1>2, <2>3, <2>4 DEF RoutedTo, Replayed, Backed, InSession
<1> QED
  BY <1>2, <1>4, <1>5 DEF Well

-----------------------------------------------------------------------------
(* A client handles the first frame on its way to it.                      *)

\* What the handlers do to the client's data, as far as the frame f decides it.
HandledAs(p, f) ==
  /\ f.method = "login_suc" => me'[p] = f.id /\ friends'[p] = friends[p] \cup f.friends
  /\ f.method # "login_suc" => me'[p] = me[p]
  /\ f.method = "accept_addfd" => friends'[p] = friends[p] \cup {f.userid}
  /\ f.method \notin {"login_suc", "accept_addfd"} => friends'[p] = friends[p]
  /\ f.method = "addfd" => f.userid \in requests'[p]
  /\ requests[p] \subseteq requests'[p]
  /\ f.method \notin LoginMethods /\ waiting[p] = "login" => waiting'[p] = "login"

LEMMA HandlesFacts ==
  ASSUME TypeOK, NEW p \in Proc, Handles(p)
  PROVE  /\ UNCHANGED <<friendinfo, faults, online, apply, up, connections, outq, wild, phase, c2s>>
         /\ s2c[p] # <<>> /\ s2c' = [s2c EXCEPT ![p] = Tail(s2c[p])]
         /\ HandledAs(p, Head(s2c[p]))
         /\ \A q \in Proc \ {p} :
              UNCHANGED <<me[q], friends[q], requests[q], waiting[q]>>
<1> DEFINE f == Head(s2c[p])
<1>1. PICK methods : Receive(p, methods)
  BY DEF Handles, handle
<1>2. UNCHANGED <<friendinfo, faults, online, apply, up, connections, outq, wild, phase, c2s>>
  BY <1>1 DEF Handles, Receive, tables, cache, serverSide
<1>3. s2c[p] # <<>> /\ s2c' = [s2c EXCEPT ![p] = Tail(s2c[p])]
  BY <1>1 DEF Receive
<1> USE DEF TypeOK, ClientTypeOK, info, HandledAs, LoginMethods
<1>4. CASE Receive(p, {"login_suc"}) /\ handle_login(p, f)
  <2>1. f.method = "login_suc"
    BY <1>4 DEF Receive
  <2> QED
    BY <1>2, <1>3, <1>4, <2>1 DEF handle_login
<1>5. CASE Receive(p, {"login_noid", "login_pwerr"}) /\ handle_answer(p, "login")
  <2>1. f.method \in {"login_noid", "login_pwerr"}
    BY <1>5 DEF Receive
  <2> QED
    BY <1>2, <1>3, <1>5, <2>1 DEF handle_answer
<1>6. CASE Receive(p, {"signin_suc", "signin_idexist"}) /\ handle_answer(p, "signin")
  <2>1. f.method \in {"signin_suc", "signin_idexist"}
    BY <1>6 DEF Receive
  <2> QED
    BY <1>2, <1>3, <1>6, <2>1 DEF handle_answer
<1>7. CASE Receive(p, {"findfd_suc"}) /\ handle_find(p, f)
  <2>1. f.method = "findfd_suc"
    BY <1>7 DEF Receive
  <2> QED
    BY <1>2, <1>3, <1>7, <2>1 DEF handle_find
<1>8. CASE Receive(p, {"addfd"}) /\ handle_addfd(p, f)
  <2>1. f.method = "addfd"
    BY <1>8 DEF Receive
  <2> QED
    BY <1>2, <1>3, <1>8, <2>1 DEF handle_addfd
<1>9. CASE Receive(p, {"accept_addfd"}) /\ handle_accept(p, f)
  <2>1. f.method = "accept_addfd"
    BY <1>9 DEF Receive
  <2> QED
    BY <1>2, <1>3, <1>9, <2>1 DEF handle_accept
<1>10. CASE Receive(p, {"sendmsg"}) /\ handle_msg(p, f)
  <2>1. f.method = "sendmsg"
    BY <1>10 DEF Receive
  <2> QED
    BY <1>2, <1>3, <1>10, <2>1 DEF handle_msg
<1>11. CASE Receive(p, {"findfd_err", "refuse_addfd"}) /\ handle_other
  <2>1. f.method \in {"findfd_err", "refuse_addfd"}
    BY <1>11 DEF Receive
  <2> QED
    BY <1>2, <1>3, <1>11, <2>1 DEF handle_other
<1> QED
  BY <1>4, <1>5, <1>6, <1>7, <1>8, <1>9, <1>10, <1>11 DEF Handles, handle

\* It handles the first frame of its stream.
LEMMA HandlerStream ==
  ASSUME TypeOK, NEW p \in Proc, Handles(p)
  PROVE  /\ UNCHANGED <<friendinfo, faults, online, apply, up, connections, outq, wild, phase, c2s>>
         /\ phase[p] = "on" /\ c2s[p] \in Seq(ClientFrame)
         /\ Stream(p) \in Seq(ServerFrame) /\ Stream(p) # <<>> /\ Stream(p)' = Tail(Stream(p))
         /\ HandledAs(p, Head(Stream(p))) /\ Head(Stream(p)) = Head(s2c[p])
<1>1. /\ s2c[p] \in Seq(ServerFrame) /\ outq[p] \in Seq(ServerFrame) /\ Stream(p) \in Seq(ServerFrame)
      /\ c2s[p] \in Seq(ClientFrame)
  BY StreamType
<1>2. /\ UNCHANGED <<friendinfo, faults, online, apply, up, connections, outq, wild, phase, c2s>>
      /\ s2c[p] # <<>> /\ s2c'[p] = Tail(s2c[p])
      /\ HandledAs(p, Head(s2c[p])) /\ phase[p] = "on"
  <2>1. phase[p] = "on"
    BY DEF Handles, handle, Receive
  <2> QED
    BY <2>1, HandlesFacts DEF TypeOK, ConnectionTypeOK
<1>3. s2c[p] \o outq[p] # <<>> /\ Head(s2c[p] \o outq[p]) = Head(s2c[p])
      /\ Tail(s2c[p] \o outq[p]) = Tail(s2c[p]) \o outq[p]
  BY <1>1, <1>2, TailOfConcat
<1> QED
  BY <1>1, <1>2, <1>3 DEF Stream

LEMMA HandlerOne ==
  ASSUME TypeOK, NEW p \in Proc, Handles(p), OneLogin(p)
  PROVE  /\ OneLogin(p)'
         /\ Head(Stream(p)).method \in LoginMethods
              => Has(Stream(p)) /\ ~Has(Tail(Stream(p))) /\ ~Has(c2s[p]) /\ me[p] = Nobody
<1> DEFINE s == Stream(p)
           f == Head(s)
<1>1. /\ c2s' = c2s /\ s \in Seq(ServerFrame) /\ s # <<>> /\ Stream(p)' = Tail(s) /\ HandledAs(p, f)
  BY HandlerStream
<1>2. AtMostOne(Tail(s)) /\ (Has(Tail(s)) => Has(s))
  BY <1>1, OneTail DEF OneLogin
<1>3. f.method \in LoginMethods => Has(s) /\ ~Has(Tail(s)) /\ ~Has(c2s[p]) /\ me[p] = Nobody
  BY <1>1, OneTail DEF OneLogin
<1> HIDE DEF s, f
<1>4. Has(c2s[p]) \/ Has(Tail(s)) => me'[p] = Nobody /\ waiting'[p] = "login"
  <2>1. ASSUME Has(c2s[p]) \/ Has(Tail(s)) PROVE f.method \notin LoginMethods
    BY <1>3, <2>1
  <2>2. Has(c2s[p]) \/ Has(s) => me[p] = Nobody /\ waiting[p] = "login"
    BY DEF OneLogin, s
  <2> QED
    BY <1>1, <1>2, <2>1, <2>2 DEF HandledAs, LoginMethods
<1>5. OneLogin(p)'
  BY <1>1, <1>2, <1>4 DEF OneLogin, s
<1> QED
  BY <1>3, <1>5 DEF s, f

\* The window that handles a frame, before and after.
LEMMA HandlerWell ==
  ASSUME TypeOK, NEW p \in Proc, Handles(p), Well(p)
  PROVE  Well(p)'
<1> DEFINE s == Stream(p)
           f == Head(s)
<1>1. /\ s \in Seq(ServerFrame) /\ c2s[p] \in Seq(ClientFrame)
  BY StreamType
<1>2. /\ UNCHANGED <<friendinfo, online, apply, up, connections, outq, phase, c2s>>
      /\ phase[p] = "on"
  BY HandlerStream
<1>3. s # <<>> /\ Stream(p)' = Tail(s) /\ HandledAs(p, f)
  BY HandlerStream
<1>4. f \in ServerFrame /\ Tail(s) \in Seq(ServerFrame) /\ 1 \in 1 .. Len(s) /\ f = s[1]
  BY <1>1, <1>3, HeadTailProperties
<1>5. f.method = "login_suc" => f.id \in User /\ f.friends \in SUBSET User
  BY <1>4, ServerFrameFields
<1>6. f.method \in LoginMethods => Has(s) /\ ~Has(Tail(s)) /\ ~Has(c2s[p]) /\ me[p] = Nobody
  BY <1>2, HandlerOne DEF Well
<1>7. OneLogin(p)'
  BY <1>2, HandlerOne DEF Well
<1> HIDE DEF s, f
<1>8. RoutedTo(p)'
  <2>1. f.method = "login_suc" => me[p] = Nobody
    BY <1>6 DEF LoginMethods
  <2>2. ASSUME NEW k \in 1 .. Len(s), s[k].method \in Relayed PROVE Addressee(s[k]) # Nobody
    <3>1. s[k] \in ServerFrame
      BY <1>1, <2>2
    <3>2. s[k] \in RelayFrame
      BY <2>2, <3>1, ServerFrameFields DEF Relayed
    <3>3. Addressee(s[k]) \in User
      BY <2>2, <3>2, RelayFrameFields DEF Addressee, Relayed
    <3> QED
      BY <3>3, ClientAssumption
  <2>3. Routed(s, me[p])
    BY <1>2 DEF Well, RoutedTo, s
  <2>4. Routed(Tail(s), me'[p])
    <3> DEFINE m == me[p]
               n == me'[p]
    <3>1. /\ Head(s).method = "login_suc" => n = Head(s).id
          /\ Head(s).method # "login_suc" => n = m
          /\ \A k \in 1 .. Len(s) :
               s[k].method \in Relayed /\ Head(s).method = "login_suc" => m # Addressee(s[k])
      BY <1>3, <2>1, <2>2 DEF HandledAs, f
    <3>2. Routed(s, m)
      BY <2>3
    <3> HIDE DEF m, n
    <3>3. Routed(Tail(s), n)
      BY <1>1, <1>3, <3>1, <3>2, RoutedTail
    <3> QED
      BY <3>3 DEF n
  <2>5. ASSUME NEW u \in User, online[u] = p PROVE me'[p] = u \/ LetsAll(Tail(s), u)
    <3>1. me[p] = u \/ LetsAll(s, u)
      BY <1>2, <2>5 DEF Well, RoutedTo, s
    <3>2. CASE me[p] = u
      <4>1. me[p] # Nobody
        BY <3>2, ClientAssumption
      <4> QED
        BY <1>3, <2>1, <3>2, <4>1 DEF HandledAs
    <3>3. CASE LetsAll(s, u)
      BY <1>1, <1>3, <3>3, LetsTail DEF HandledAs, f
    <3> QED
      BY <3>1, <3>2, <3>3
  <2> QED
    BY <1>2, <1>3, <2>4, <2>5 DEF RoutedTo
<1>9. Replayed(p)'
  <2> SUFFICES ASSUME NEW u \in User, online[u] = p, NEW k \in 1 .. Len(apply[u])
               PROVE  \/ apply[u][k] \in requests'[p] \cup friends'[p]
                      \/ Holds(Tail(s), FriendFrame("addfd", apply[u][k], u))
    BY <1>2, <1>3 DEF Replayed
  <2> DEFINE g == FriendFrame("addfd", apply[u][k], u)
  <2>1. requests[p] \cup friends[p] \subseteq requests'[p] \cup friends'[p]
    BY <1>3 DEF HandledAs
  <2>2. apply[u][k] \in requests[p] \cup friends[p] \/ Holds(s, g)
    BY <1>2 DEF Well, Replayed, s
  <2>3. Holds(s, g) => g = f \/ Holds(Tail(s), g)
    BY <1>1, <1>3, HoldsTail DEF f
  <2>4. g.method = "addfd" /\ g.userid = apply[u][k]
    BY DEF FriendFrame
  <2> QED
    BY <1>3, <2>1, <2>2, <2>3, <2>4 DEF HandledAs
<1>10. Backed(p)'
  <2> SUFFICES ASSUME up, p \in connections
               PROVE  /\ me'[p] = Nobody => friends'[p] = {}
                      /\ me'[p] # Nobody => \A w \in friends'[p] :
                           \/ friendinfo[<<me'[p], w>>] > 0
                           \/ Holds(c2s[p], FriendFrame("accept_addfd", me'[p], w))
                      /\ Tail(s) \in Seq(BackedDown)
    <3>1. BackedDown' = BackedDown
      BY <1>2 DEF BackedDown
    <3> QED
      BY <1>2, <1>3, <3>1 DEF Backed, InSession
  <2>1. /\ me[p] = Nobody => friends[p] = {}
        /\ me[p] # Nobody => \A w \in friends[p] :
             friendinfo[<<me[p], w>>] > 0 \/ Holds(c2s[p], FriendFrame("accept_addfd", me[p], w))
        /\ s \in Seq(BackedDown)
    BY <1>2 DEF Well, Backed, InSession, s
  <2>2. f \in BackedDown /\ Tail(s) \in Seq(BackedDown)
    BY <1>3, <2>1, HeadTailProperties DEF f
  <2>3. CASE f.method = "login_suc"
    <3>1. me'[p] = f.id /\ f.id # Nobody /\ friends'[p] = f.friends
      BY <1>3, <1>5, <1>6, <2>1, <2>3, ClientAssumption DEF HandledAs, LoginMethods
    <3> QED
      BY <2>2, <2>3, <3>1 DEF BackedDown
  <2>4. CASE f.method = "accept_addfd"
    <3>1. me[p] = f.friendid
      <4>1. Routed(s, me[p])
        BY <1>2 DEF Well, RoutedTo, s
      <4>2. me[p] = Addressee(s[1]) \/ Lets(s, 1, Addressee(s[1]))
        BY <1>4, <2>4, <4>1 DEF Routed, Relayed
      <4> QED
        BY <1>4, <2>4, <4>2 DEF Lets, Addressee
    <3>2. f.friendid \in User /\ me'[p] = me[p] /\ friends'[p] = friends[p] \cup {f.userid}
      BY <1>3, <1>4, <2>4, ServerFrameFields, RelayFrameFields DEF HandledAs
    <3>3. friendinfo[<<me[p], f.userid>>] > 0
      BY <2>2, <2>4, <3>1 DEF BackedDown
    <3> QED
      BY <2>1, <2>2, <3>1, <3>2, <3>3, ClientAssumption
  <2>5. CASE f.method \notin {"login_suc", "accept_addfd"}
    BY <1>3, <2>1, <2>2, <2>5 DEF HandledAs
  <2> QED
    BY <2>3, <2>4, <2>5
<1> QED
  BY <1>2, <1>7, <1>8, <1>9, <1>10 DEF Well, Fresh

LEMMA HandlesWell ==
  ASSUME TypeOK, NEW p \in Proc, Handles(p), NEW q \in Proc, Well(q)
  PROVE  Well(q)'
<1>1. CASE q = p
  BY <1>1, HandlerWell
<1>2. CASE q # p
  <2>1. s2c'[q] = s2c[q]
    BY <1>2, HandlesFacts DEF TypeOK, ConnectionTypeOK
  <2>2. Taken(q) /\ Given(q) /\ RowsStay
    BY <2>1, HandlesFacts DEF Taken, Given, RowsStay, Stream
  <2>3. Quiet(q)
    BY <1>2, <2>2, HandlesFacts DEF Quiet
  <2> QED
    BY <2>3, QuietWell
<1> QED
  BY <1>1, <1>2

-----------------------------------------------------------------------------
(* A user asks for something.                                              *)

\* What the operations do to the client's data, as far as the frame f decides it.
AskedAs(p, f) ==
  /\ f \in ClientFrame
  /\ c2s'[p] = IF phase[p] = "on" /\ p \in connections THEN Append(c2s[p], f) ELSE c2s[p]
  /\ f.method \in LoginMethods => me[p] = Nobody /\ waiting[p] = "none" /\ waiting'[p] = "login"
  /\ waiting'[p] = waiting[p] \/ waiting[p] = "none"
  /\ requests[p] \cup friends[p] \subseteq requests'[p] \cup friends'[p]
  /\ \/ friends'[p] = friends[p]
     \/ /\ me[p] # Nobody
        /\ \E u \in User : friends'[p] = friends[p] \cup {u} /\ f = FriendFrame("accept_addfd", me[p], u)

Others(p) == \A q \in Proc \ {p} : UNCHANGED <<c2s[q], friends[q], requests[q], waiting[q]>>

LEMMA AsksFacts ==
  ASSUME TypeOK, NEW p \in Proc, UserAsks(p)
  PROVE  me' = me /\ Others(p) /\ \E f \in ClientFrame : AskedAs(p, f)
<1> USE DEF TypeOK, ClientTypeOK, ConnectionTypeOK, info, LoginMethods
<1>1. ASSUME NEW f \in ClientFrame, ClientWrite(p, f)
      PROVE  /\ c2s'[p] = IF phase[p] = "on" /\ p \in connections THEN Append(c2s[p], f) ELSE c2s[p]
             /\ \A q \in Proc \ {p} : c2s'[q] = c2s[q]
  BY <1>1 DEF ClientWrite
<1> DEFINE G == me' = me /\ Others(p) /\ \E f \in ClientFrame : AskedAs(p, f)
<1>2. ASSUME NEW id \in User, NEW password \in Password, Login(p, id, password) PROVE G
  <2> DEFINE f == [method |-> "login", id |-> id, password |-> password]
  <2>1. f \in ClientFrame
    BY DEF ClientFrame
  <2>2. AskedAs(p, f)
    BY <1>1, <1>2, <2>1 DEF Login, AskedAs
  <2> QED
    BY <1>1, <1>2, <2>1, <2>2 DEF Login, Others
<1>3. ASSUME NEW id \in User, NEW password \in Password, Signin(p, id, password) PROVE G
  <2> DEFINE f == [method |-> "signin", id |-> id, password |-> password]
  <2>1. f \in ClientFrame
    BY DEF ClientFrame
  <2>2. AskedAs(p, f)
    BY <1>1, <1>3, <2>1 DEF Signin, AskedAs
  <2> QED
    BY <1>1, <1>3, <2>1, <2>2 DEF Signin, Others
<1>4. ASSUME NEW u \in User, NEW text \in Text, Sendmsg(p, u, text) PROVE G
  <2> DEFINE f == [method |-> "sendmsg",
                   row |-> [sender |-> me[p], receiver |-> u, message |-> text]]
  <2>1. f \in ClientFrame
    BY <1>4 DEF Sendmsg, ClientFrame, RelayFrame, Message
  <2>2. AskedAs(p, f)
    BY <1>1, <1>4, <2>1 DEF Sendmsg, AskedAs
  <2> QED
    BY <1>1, <1>4, <2>1, <2>2 DEF Sendmsg, Others
<1>5. ASSUME NEW u \in Searches, NEW by \in {"id", "name"}, Find(p, by, u) PROVE G
  <2> DEFINE f == [method |-> "findfd", by |-> by, id |-> me[p], findid |-> u]
  <2>1. f \in ClientFrame
    BY <1>5, ClientAssumption DEF Find, ClientFrame
  <2>2. AskedAs(p, f)
    BY <1>1, <1>5, <2>1 DEF Find, AskedAs
  <2> QED
    BY <1>1, <1>5, <2>1, <2>2 DEF Find, Others
<1>6. ASSUME NEW u \in User, me[p] # Nobody, NEW m \in {"addfd", "accept_addfd", "refuse_addfd"}
      PROVE  FriendFrame(m, me[p], u) \in ClientFrame /\ FriendFrame(m, me[p], u).method = m
  BY <1>6, MadeFrames, RelayIsFrame DEF FriendFrame
<1>7. ASSUME NEW u \in User, Addfriend(p, u) PROVE G
  <2> DEFINE f == FriendFrame("addfd", me[p], u)
  <2>1. f \in ClientFrame /\ f.method = "addfd"
    BY <1>6, <1>7 DEF Addfriend
  <2>2. AskedAs(p, f)
    BY <1>1, <1>7, <2>1 DEF Addfriend, AskedAs
  <2> QED
    BY <1>1, <1>7, <2>1, <2>2 DEF Addfriend, Others
<1>8. ASSUME NEW u \in User, Refuse_addfd(p, u) PROVE G
  <2> DEFINE f == FriendFrame("refuse_addfd", me[p], u)
  <2>1. f \in ClientFrame /\ f.method = "refuse_addfd"
    BY <1>6, <1>8 DEF Refuse_addfd
  <2>2. AskedAs(p, f)
    BY <1>1, <1>8, <2>1 DEF Refuse_addfd, AskedAs
  <2> QED
    BY <1>1, <1>8, <2>1, <2>2 DEF Refuse_addfd, Others
<1>9. ASSUME NEW u \in User, Accept_addfd(p, u) PROVE G
  <2> DEFINE f == FriendFrame("accept_addfd", me[p], u)
  <2>1. f \in ClientFrame /\ f.method = "accept_addfd"
    BY <1>6, <1>9 DEF Accept_addfd
  <2>2. \/ /\ requests' = [requests EXCEPT ![p] = @ \ {u}]
           /\ friends' = [friends EXCEPT ![p] = @ \cup {u}]
        \/ UNCHANGED <<requests, friends>>
    BY <1>9 DEF Accept_addfd
  <2>3. AskedAs(p, f)
    <3>1. me[p] # Nobody /\ waiting' = waiting
      BY <1>9 DEF Accept_addfd
    <3>2. \/ friends'[p] = friends[p] /\ requests'[p] = requests[p]
          \/ friends'[p] = friends[p] \cup {u} /\ requests'[p] = requests[p] \ {u}
      BY <2>2
    <3>3. c2s'[p] = IF phase[p] = "on" /\ p \in connections THEN Append(c2s[p], f) ELSE c2s[p]
      BY <1>1, <1>9, <2>1 DEF Accept_addfd
    <3> QED
      BY <2>1, <3>1, <3>2, <3>3 DEF AskedAs
  <2> QED
    BY <1>1, <1>9, <2>1, <2>2, <2>3 DEF Accept_addfd, Others
<1>10. \A l \in Logins \cup Signins : l[1] \in User /\ l[2] \in Password
  BY ClientAssumption
<1> QED
  BY <1>2, <1>3, <1>4, <1>5, <1>7, <1>8, <1>9, <1>10
  DEF UserAsks, Dialog, ChatPage, SearchBox, FoundList, RequestList

LEMMA AskerOne ==
  ASSUME TypeOK, NEW p \in Proc, UserAsks(p), OneLogin(p), NEW f \in ClientFrame, AskedAs(p, f)
  PROVE  OneLogin(p)'
<1>1. Stream(p)' = Stream(p) /\ me' = me
  BY AsksLeaves, AsksFacts DEF serverSide, Stream
<1>2. c2s[p] \in Seq(ClientFrame) /\ <<f>> \in Seq(ClientFrame) /\ Append(c2s[p], f) = c2s[p] \o <<f>>
  <2>1. c2s[p] \in Seq(ClientFrame)
    BY StreamType
  <2> QED
    BY <2>1, AppendIsConcat
<1>3. c2s'[p] = c2s[p] \/ c2s'[p] = c2s[p] \o <<f>>
  BY <1>2 DEF AskedAs
<1>4. CASE c2s'[p] = c2s[p] \o <<f>> /\ f.method \in LoginMethods
  <2>1. ~Has(c2s[p]) /\ ~Has(Stream(p)) /\ me[p] = Nobody /\ waiting'[p] = "login"
    BY <1>4 DEF AskedAs, OneLogin
  <2>2. AtMostOne(c2s[p] \o <<f>>)
    <3>1. \A k \in 2 .. Len(<<f>>) : <<f>>[k].method \notin LoginMethods
      OBVIOUS
    <3> QED
      BY <1>2, <2>1, <3>1, OneAnswer
  <2> QED
    BY <1>1, <1>4, <2>1, <2>2 DEF OneLogin
<1>5. CASE c2s'[p] = c2s[p] \o <<f>> /\ f.method \notin LoginMethods
  <2>1. ~Has(<<f>>)
    BY <1>5 DEF Has
  <2>2. AtMostOne(c2s[p] \o <<f>>) /\ (Has(c2s[p] \o <<f>>) => Has(c2s[p]))
    BY <1>2, <2>1, OneConcat DEF OneLogin
  <2> QED
    BY <1>1, <1>5, <2>2 DEF OneLogin, AskedAs
<1>6. CASE c2s'[p] = c2s[p]
  BY <1>1, <1>6 DEF OneLogin, AskedAs
<1> QED
  BY <1>3, <1>4, <1>5, <1>6

\* The window of the user who asks, before and after.
LEMMA AskerWell ==
  ASSUME TypeOK, NEW p \in Proc, UserAsks(p), Well(p),
         UNCHANGED <<friendinfo, online, apply>>
  PROVE  Well(p)'
<1>1. /\ UNCHANGED <<up, connections, phase>> /\ Stream(p)' = Stream(p) /\ me' = me
  BY AsksLeaves, AsksFacts DEF serverSide, Stream
<1>2. PICK f \in ClientFrame : AskedAs(p, f)
  BY AsksFacts
<1>3. c2s[p] \in Seq(ClientFrame) /\ <<f>> \in Seq(ClientFrame) /\ Append(c2s[p], f) = c2s[p] \o <<f>>
  <2>1. c2s[p] \in Seq(ClientFrame)
    BY StreamType
  <2> QED
    BY <2>1, AppendIsConcat
<1>5. Fresh(p)'
  <2> SUFFICES ASSUME phase[p] = "new" PROVE c2s'[p] = <<>> /\ friends'[p] = {}
    BY <1>1 DEF Well, Fresh
  <2> QED
    BY <1>2 DEF AskedAs, Well, Fresh
<1> SUFFICES ASSUME phase[p] = "on" PROVE OneLogin(p)' /\ RoutedTo(p)' /\ Replayed(p)' /\ Backed(p)'
  BY <1>1, <1>5 DEF Well
<1>6. OneLogin(p)'
  BY <1>2, AskerOne DEF Well
<1>7. RoutedTo(p)'
  BY <1>1 DEF Well, RoutedTo
<1>8. Replayed(p)'
  BY <1>1, <1>2 DEF Well, Replayed, AskedAs
<1>9. Backed(p)'
  <2> SUFFICES ASSUME up, p \in connections
               PROVE  /\ me[p] = Nobody => friends'[p] = {}
                      /\ me[p] # Nobody => \A w \in friends'[p] :
                           \/ friendinfo[<<me[p], w>>] > 0
                           \/ Holds(c2s'[p], FriendFrame("accept_addfd", me[p], w))
                      /\ Stream(p) \in Seq(BackedDown)
    <3>1. BackedDown' = BackedDown
      BY DEF BackedDown
    <3> QED
      BY <1>1, <3>1 DEF Backed, InSession
  <2>1. /\ me[p] = Nobody => friends[p] = {}
        /\ me[p] # Nobody => \A w \in friends[p] :
             friendinfo[<<me[p], w>>] > 0 \/ Holds(c2s[p], FriendFrame("accept_addfd", me[p], w))
        /\ Stream(p) \in Seq(BackedDown)
    BY DEF Well, Backed, InSession
  <2>2. c2s'[p] = c2s[p] \o <<f>>
    BY <1>2, <1>3 DEF AskedAs
  <2>3. ASSUME NEW g, Holds(c2s[p], g) \/ g = f PROVE Holds(c2s'[p], g)
    <3>1. Holds(<<f>>, f)
      BY DEF Holds
    <3>2. Holds(c2s[p] \o <<f>>, g)
      BY <1>3, <2>3, <3>1, HoldsConcat
    <3> QED
      BY <2>2, <3>2
  <2> QED
    BY <1>2, <2>1, <2>3 DEF AskedAs
<1> QED
  BY <1>6, <1>7, <1>8, <1>9

LEMMA AsksWell ==
  ASSUME TypeOK, NEW p \in Proc, Asks(p), NEW q \in Proc, Well(q)
  PROVE  Well(q)'
<1>1. UNCHANGED <<friendinfo, online, apply>>
  BY DEF Asks, tables, cache
<1>2. CASE UserAsks(p) /\ q = p
  BY <1>1, <1>2, AskerWell
<1>3. CASE UserAsks(p) /\ q # p
  <2>1. UNCHANGED <<up, connections, outq, phase, s2c, me>> /\ Others(p)
    BY <1>3, AsksLeaves, AsksFacts DEF serverSide
  <2>2. Taken(q) /\ Given(q) /\ RowsStay
    BY <1>1, <1>3, <2>1 DEF Taken, Given, RowsStay, Stream, Others
  <2>3. Quiet(q)
    BY <1>1, <1>3, <2>1, <2>2 DEF Quiet, Others
  <2> QED
    BY <2>3, QuietWell
<1>4. ASSUME NEW u \in User, OpenChat(p, u) PROVE Well(q)'
  <2>1. /\ UNCHANGED <<up, connections, outq, c2s, me, friends, requests, waiting>>
        /\ phase' = [phase EXCEPT ![p] = "gone"] /\ s2c' = [s2c EXCEPT ![p] = <<>>]
    BY <1>4 DEF OpenChat, Leave, serverSide, clientVars, info
  <2>2. CASE q = p
    BY <2>1, <2>2 DEF Well, Fresh, TypeOK, ConnectionTypeOK
  <2>3. CASE q # p
    <3>1. Taken(q) /\ Given(q) /\ RowsStay
      BY <1>1, <2>1, <2>3 DEF Taken, Given, RowsStay, Stream, TypeOK, ConnectionTypeOK
    <3>2. Quiet(q)
      BY <1>1, <2>1, <2>3, <3>1 DEF Quiet, TypeOK, ConnectionTypeOK
    <3> QED
      BY <3>2, QuietWell
  <2> QED
    BY <2>2, <2>3
<1> QED
  BY <1>2, <1>3, <1>4 DEF Asks

-----------------------------------------------------------------------------
(* The server handles a request.                                           *)

\* What the dispatch of p's request leaves alone, whatever the handler does.
Dispatched(p) ==
  /\ up /\ p \in connections /\ c2s[p] # <<>>
  /\ c2s' = [c2s EXCEPT ![p] = Tail(c2s[p])]
  /\ UNCHANGED <<connections, phase, s2c, me, friends, requests, waiting>>

LEMMA ServeDispatches ==
  ASSUME TypeOK, NEW p \in Proc, Serves(p), NEW m, Serve(p, m)
  PROVE  Dispatched(p) /\ Head(c2s[p]) \in ClientFrame /\ Head(c2s[p]).method = m
BY ServeType DEF Serves, Serve, Dispatched, clientVars, info

\* A handler that writes one frame, not to answer a login.
LEMMA DispatchQuiet ==
  ASSUME TypeOK, NEW p \in Proc, Dispatched(p), NEW q \in Proc, Given(q), RowsStay,
         \A u \in User : online'[u] = online[u] /\ (online[u] # NoConn => apply'[u] = apply[u]),
         up' /\ Head(c2s[p]).method = "accept_addfd"
           => friendinfo'[<<Head(c2s[p]).userid, Head(c2s[p]).friendid>>] > 0
  PROVE  Quiet(q)
<1>1. Taken(q)
  BY DEF Taken, Dispatched, TypeOK, ConnectionTypeOK
<1>2. q # NoConn
  BY ServiceAssumption
<1> QED
  BY <1>1, <1>2 DEF Quiet, Dispatched

LEMMA DeliverGiven ==
  ASSUME TypeOK, NEW p \in Proc, Dispatched(p), ~wild', NEW u \in User, NEW f \in ServerFrame,
         Deliver(u, f), f.method \notin LoginMethods,
         f.method \in Relayed => Addressee(f) = u,
         f.method = "accept_addfd" => friendinfo'[<<f.friendid, f.userid>>] > 0,
         NEW q \in Proc
  PROVE  Given(q)
<1>1. \/ Stream(q)' = Stream(q)
      \/ Stream(q)' = Stream(q) \o <<f>> /\ q \in connections /\ online[u] = q
  BY DeliverStream DEF Dispatched
<1> QED
  BY <1>1 DEF Given, MayGet

\* The answer to p himself.
LEMMA WriteGiven ==
  ASSUME TypeOK, NEW p \in Proc, Dispatched(p), NEW m \in {"signin_suc", "signin_idexist"},
         Write(p, <<Reply(m)>>), NEW q \in Proc
  PROVE  Given(q)
<1> DEFINE f == Reply(m)
<1>1. f \in ServerFrame /\ f.method = m /\ <<f>> \in Seq(ServerFrame)
  BY MadeFrames DEF Reply
<1>2. Stream(p)' = Stream(p) \o <<f>> /\ \A r \in Proc \ {p} : Stream(r)' = Stream(r)
  BY <1>1, WriteStream DEF Dispatched
<1>3. MayGet(p, f)
  BY <1>1 DEF MayGet, Dispatched, LoginMethods, Relayed
<1> HIDE DEF f
<1> QED
  BY <1>1, <1>2, <1>3 DEF Given

\* The handlers other than that of a login.
LEMMA ServesQuiet ==
  ASSUME TypeOK, KnownInv, faults' = 0, ~wild', NEW p \in Proc, NEW q \in Proc, Serves(p),
         Head(c2s[p]).method # "login"
  PROVE  Quiet(q)
<1> DEFINE f == Head(c2s[p])
<1>0. faults = 0
  BY NoneFailing
  DEF Serves, Service, signin, login, sendmsg, find, addfriend, accept_addfd, refuse_addfd
<1>1. CASE Serve(p, "signin") /\ signin(p, f)
  <2>1. Dispatched(p) /\ f.method = "signin"
    BY <1>1, ServeDispatches
  <2>2. PICK m \in {"signin_suc", "signin_idexist"} : Write(p, <<Reply(m)>>)
    BY <1>1 DEF signin
  <2>3. UNCHANGED <<friendinfo, online, apply>>
    BY <1>1 DEF signin, cache
  <2>4. Given(q) /\ RowsStay
    BY <2>1, <2>2, <2>3, WriteGiven DEF RowsStay
  <2> QED
    BY <2>1, <2>3, <2>4, DispatchQuiet
<1>2. CASE Serve(p, "findfd") /\ find(p, f)
  <2>1. Dispatched(p) /\ f \in ClientFrame /\ f.method = "findfd"
    BY <1>2, ServeDispatches
  <2>2. f.id \in User /\ f.findid \in User
    BY <2>1, ClientFrameFields
  <2>3. PICK g \in ServerFrame : g.method \in {"findfd_suc", "findfd_err"} /\ Deliver(f.id, g)
    <3>1. /\ Reply("findfd_err") \in ServerFrame
          /\ [method |-> "findfd_suc", id |-> f.findid] \in ServerFrame
      BY <2>2, MadeFrames
    <3> QED
      BY <1>2, <3>1 DEF find, Reply
  <2>4. UNCHANGED <<friendinfo, online, apply>>
    BY <1>2 DEF find, cache, tables
  <2>5. Given(q) /\ RowsStay
    BY <2>1, <2>2, <2>3, <2>4, DeliverGiven DEF RowsStay, LoginMethods, Relayed
  <2> QED
    BY <2>1, <2>4, <2>5, DispatchQuiet
<1>3. ASSUME NEW m \in {"addfd", "accept_addfd", "refuse_addfd", "sendmsg"}, Serve(p, m)
      PROVE  Dispatched(p) /\ f \in ServerFrame /\ f \in RelayFrame /\ f.method = m
  <2>1. Dispatched(p) /\ f \in ClientFrame /\ f.method = m
    BY <1>3, ServeDispatches
  <2> QED
    BY <2>1, ClientFrameFields, RelayIsFrame
<1>4. CASE Serve(p, "sendmsg") /\ sendmsg(p, f)
  <2>1. Dispatched(p) /\ f \in ServerFrame /\ f.method = "sendmsg" /\ f.row.receiver \in User
    BY <1>3, <1>4, RelayFrameFields
  <2>2. Deliver(f.row.receiver, f) /\ UNCHANGED <<friendinfo, online, apply>>
    BY <1>4 DEF sendmsg, cache
  <2>3. Given(q) /\ RowsStay
    BY <2>1, <2>2, DeliverGiven DEF RowsStay, LoginMethods, Relayed, Addressee
  <2> QED
    BY <2>1, <2>2, <2>3, DispatchQuiet
<1>5. CASE Serve(p, "addfd") /\ addfriend(p, f)
  <2>1. Dispatched(p) /\ f \in ServerFrame /\ f.method = "addfd" /\ f.friendid \in User
    BY <1>3, <1>5, RelayFrameFields
  <2>2. Deliver(f.friendid, f) /\ UNCHANGED <<friendinfo, online>>
    BY <1>5 DEF addfriend, tables
  <2>3. \A u \in User : online[u] # NoConn => apply'[u] = apply[u]
    BY <1>5, <2>1 DEF addfriend, TypeOK, ServiceTypeOK
  <2>4. Given(q) /\ RowsStay
    BY <2>1, <2>2, DeliverGiven DEF RowsStay, LoginMethods, Relayed, Addressee
  <2> QED
    BY <2>1, <2>2, <2>3, <2>4, DispatchQuiet
<1>6. CASE Serve(p, "refuse_addfd") /\ refuse_addfd(p, f)
  <2>1. Dispatched(p) /\ f \in ServerFrame /\ f.method = "refuse_addfd" /\ f.userid \in User
    BY <1>3, <1>6, RelayFrameFields
  <2>2. Deliver(f.userid, f) /\ UNCHANGED <<friendinfo, online, apply>>
    BY <1>6 DEF refuse_addfd, cache, tables
  <2>3. Given(q) /\ RowsStay
    BY <2>1, <2>2, DeliverGiven DEF RowsStay, LoginMethods, Relayed, Addressee
  <2> QED
    BY <2>1, <2>2, <2>3, DispatchQuiet
<1>7. CASE Serve(p, "accept_addfd") /\ accept_addfd(p, f)
  <2>1. Dispatched(p) /\ f \in ServerFrame /\ f \in RelayFrame /\ f.method = "accept_addfd"
    BY <1>3, <1>7
  <2>2. f \in KnownUp
    BY <1>0, <1>7, KnownServe
  <2>3. f.userid \in User /\ f.friendid \in User /\ f.friendid \in Registered
    BY <2>1, <2>2, RelayFrameFields DEF KnownUp, Known
  <2>4. PICK bad \in SUBSET AcceptCalls :
          /\ Failing(AcceptCalls, bad)
          /\ \E requester \in Requester(f, bad) : Deliver(requester, f)
          /\ UNCHANGED cache
    BY <1>7 DEF accept_addfd
  <2>5. bad = {}
    BY <2>4, NoneFailing
  <2>6. Deliver(f.friendid, f) /\ UNCHANGED <<online, apply>>
    BY <2>3, <2>4, <2>5 DEF Requester, Registered, cache
  <2> DEFINE first == insertFriend(friendinfo, f.friendid, f.userid)
  <2>7. friendinfo' = insertFriend(first, f.userid, f.friendid)
    BY <1>7, <2>1, <2>2, AcceptMirrors
  <2>8. first \in [User \X User -> Nat] /\ friendinfo \in [User \X User -> Nat]
    BY <2>3, InsertFriendType DEF TypeOK, StoreTypeOK
  <2>9. /\ first[<<f.friendid, f.userid>>] > 0
        /\ \A a, b \in User : friendinfo[<<a, b>>] > 0 => first[<<a, b>>] > 0
    BY <2>3, <2>8 DEF insertFriend
  <2> HIDE DEF first
  <2>10. /\ friendinfo'[<<f.userid, f.friendid>>] > 0
         /\ \A a, b \in User : first[<<a, b>>] > 0 => friendinfo'[<<a, b>>] > 0
    BY <2>3, <2>7, <2>8 DEF insertFriend
  <2>11. RowsStay /\ friendinfo'[<<f.friendid, f.userid>>] > 0
    BY <2>3, <2>9, <2>10 DEF RowsStay
  <2>12. Given(q)
    BY <2>1, <2>3, <2>6, <2>11, DeliverGiven DEF LoginMethods, Relayed, Addressee
  <2> QED
    BY <2>1, <2>6, <2>10, <2>11, <2>12, DispatchQuiet
<1>8. ~Serve(p, "login")
  BY DEF Serve
<1> QED
  BY <1>1, <1>2, <1>4, <1>5, <1>6, <1>7, <1>8 DEF Serves, Service

\* The answer to a login: w is appended to the stream of the window that asks.
AnswerTo(p, w) ==
  /\ w \in Seq(BackedDown)
  /\ Stream(p)' = Stream(p) \o w
  /\ \A k \in 2 .. Len(w) : w[k].method \notin LoginMethods
  /\ \A k \in 1 .. Len(w) : w[k].method \in Relayed => Lets(w, k, Addressee(w[k]))
  /\ \A u \in User : online'[u] = p =>
       \/ online[u] = p
       \/ /\ LetsAll(w, u)
          /\ \A k \in 1 .. Len(apply[u]) : Holds(w, FriendFrame("addfd", apply[u][k], u))

LEMMA AnswerOne ==
  ASSUME TypeOK, NEW p \in Proc, Dispatched(p), Head(c2s[p]).method = "login", OneLogin(p),
         NEW w \in Seq(ServerFrame), Stream(p)' = Stream(p) \o w,
         \A k \in 2 .. Len(w) : w[k].method \notin LoginMethods
  PROVE  OneLogin(p)' /\ ~Has(Stream(p)) /\ me[p] = Nobody
<1>1. me' = me /\ waiting' = waiting /\ c2s'[p] = Tail(c2s[p]) /\ Stream(p) \in Seq(ServerFrame)
  BY StreamType DEF Dispatched, TypeOK, ConnectionTypeOK
<1>2. c2s[p] \in Seq(ClientFrame) /\ c2s[p] # <<>> /\ Head(c2s[p]).method \in LoginMethods
  BY TakenTail DEF Dispatched, LoginMethods
<1>3. AtMostOne(Tail(c2s[p])) /\ Has(c2s[p]) /\ ~Has(Tail(c2s[p]))
  BY <1>2, OneTail DEF OneLogin
<1>4. ~Has(Stream(p)) /\ me[p] = Nobody /\ waiting[p] = "login"
  BY <1>3 DEF OneLogin
<1>5. AtMostOne(Stream(p) \o w)
  BY <1>1, <1>4, OneAnswer
<1> QED
  BY <1>1, <1>3, <1>4, <1>5 DEF OneLogin

LEMMA AnswerWell ==
  ASSUME TypeOK, NEW p \in Proc, Dispatched(p), Head(c2s[p]).method = "login",
         UNCHANGED <<friendinfo, apply, up>>, NEW w, AnswerTo(p, w), Well(p)
  PROVE  Well(p)'
<1> DEFINE s == Stream(p)
<1>1. /\ phase' = phase /\ connections' = connections /\ phase[p] # "new"
      /\ me' = me /\ friends' = friends /\ requests' = requests /\ waiting' = waiting
      /\ c2s'[p] = Tail(c2s[p]) /\ Stream(p)' = s \o w
  BY DEF Dispatched, Well, Fresh, AnswerTo, TypeOK, ConnectionTypeOK
<1>2. w \in Seq(ServerFrame) /\ s \in Seq(ServerFrame) /\ w \in Seq(BackedDown)
  <2>1. BackedDown \subseteq ServerFrame
    BY DEF BackedDown
  <2> QED
    BY <2>1, StreamType DEF AnswerTo
<1>3. c2s[p] \in Seq(ClientFrame) /\ c2s[p] # <<>> /\ Head(c2s[p]).method \in LoginMethods
  BY TakenTail DEF Dispatched, LoginMethods
<1> SUFFICES ASSUME phase[p] = "on" PROVE OneLogin(p)' /\ RoutedTo(p)' /\ Replayed(p)' /\ Backed(p)'
  BY <1>1 DEF Well, Fresh
<1>4. OneLogin(p) /\ RoutedTo(p) /\ Replayed(p) /\ Backed(p)
  BY DEF Well
<1>5. OneLogin(p)' /\ me[p] = Nobody
  BY <1>2, <1>4, AnswerOne DEF AnswerTo
<1>6. RoutedTo(p)'
  <2>1. Routed(s \o w, me[p])
    BY <1>2, <1>4, RoutedConcat DEF RoutedTo, AnswerTo
  <2>2. ASSUME NEW u \in User, online'[u] = p PROVE me[p] = u \/ LetsAll(s \o w, u)
    <3>1. me[p] = u \/ LetsAll(s, u) \/ LetsAll(w, u)
      BY <1>4, <2>2 DEF RoutedTo, AnswerTo
    <3> HIDE DEF s
    <3> QED
      BY <1>2, <3>1, LetsConcat
  <2> QED
    BY <1>1, <2>1, <2>2 DEF RoutedTo
<1>7. Replayed(p)'
  <2> SUFFICES ASSUME NEW u \in User, online'[u] = p, NEW k \in 1 .. Len(apply[u])
               PROVE  \/ apply[u][k] \in requests[p] \cup friends[p]
                      \/ Holds(s \o w, FriendFrame("addfd", apply[u][k], u))
    BY <1>1 DEF Replayed
  <2> DEFINE g == FriendFrame("addfd", apply[u][k], u)
  <2>1. apply[u][k] \in requests[p] \cup friends[p] \/ Holds(s, g) \/ Holds(w, g)
    BY <1>4 DEF Replayed, AnswerTo
  <2>2. Holds(s, g) \/ Holds(w, g) => Holds(s \o w, g)
    <3> HIDE DEF s, g
    <3> QED
      BY <1>2, HoldsConcat
  <2> QED
    BY <2>1, <2>2
<1>8. Backed(p)'
  <2> SUFFICES ASSUME up, p \in connections
               PROVE  /\ me[p] = Nobody => friends[p] = {}
                      /\ me[p] # Nobody => \A v \in friends[p] :
                           \/ friendinfo[<<me[p], v>>] > 0
                           \/ Holds(Tail(c2s[p]), FriendFrame("accept_addfd", me[p], v))
                      /\ s \o w \in Seq(BackedDown)
    <3>1. BackedDown' = BackedDown
      BY DEF BackedDown
    <3> QED
      BY <1>1, <3>1 DEF Backed, InSession
  <2>1. friends[p] = {} /\ s \in Seq(BackedDown)
    BY <1>4, <1>5 DEF Backed, InSession
  <2> QED
    BY <1>2, <1>5, <2>1, ConcatProperties
<1> QED
  BY <1>5, <1>6, <1>7, <1>8

\* What a login is answered with, if no Store call fails.
LEMMA LoginAnswers ==
  ASSUME TypeOK, NEW p \in Proc, Dispatched(p), NEW value \in ClientFrame, value.method = "login",
         login(p, value), faults' = 0
  PROVE  /\ UNCHANGED <<friendinfo, apply, up, wild>>
         /\ \A q \in Proc \ {p} :
              Stream(q)' = Stream(q) /\ \A u \in User : online'[u] = q => online[u] = q
         /\ \E w : AnswerTo(p, w)
<1>0. value.id \in User /\ s2c' = s2c
  BY ClientFrameFields DEF Dispatched
<1> DEFINE id == value.id
           answer == [method |-> "login_suc", id |-> id,
                      friends |-> getFriend(id), rows |-> getMessage(id)]
           full == <<answer>> \o Replay(id)
<1>1. PICK bad \in SUBSET LoginCalls :
    /\ Failing(LoginCalls, bad)
    /\ \/ /\ \E m \in {"login_noid", "login_pwerr"} : Write(p, <<Reply(m)>>)
          /\ UNCHANGED online
       \/ /\ online' = [online EXCEPT ![value.id] = p]
          /\ LoginAnswer(p, value, bad)
    /\ UNCHANGED <<tables, apply, up, wild>>
  BY DEF login
<1>2. bad = {} /\ UNCHANGED <<friendinfo, apply, up, wild>>
  BY <1>1, NoneFailing DEF tables
<1>3. ASSUME NEW m \in {"login_noid", "login_pwerr"}, Write(p, <<Reply(m)>>), UNCHANGED online
      PROVE  /\ \A q \in Proc \ {p} :
                  Stream(q)' = Stream(q) /\ \A u \in User : online'[u] = q => online[u] = q
             /\ \E w : AnswerTo(p, w)
  <2> DEFINE f == Reply(m)
  <2>1. f \in ServerFrame /\ f.method = m /\ <<f>> \in Seq(ServerFrame)
    BY MadeFrames DEF Reply
  <2>2. Stream(p)' = Stream(p) \o <<f>> /\ \A q \in Proc \ {p} : Stream(q)' = Stream(q)
    BY <1>0, <1>3, <2>1, WriteStream
  <2>3. f \in BackedDown
    BY <2>1 DEF BackedDown
  <2> HIDE DEF f
  <2>4. AnswerTo(p, <<f>>)
    <3>1. <<f>> \in Seq(BackedDown)
      BY <2>3
    <3>2. \A k \in 1 .. Len(<<f>>) : <<f>>[k].method \notin Relayed
      BY <2>1 DEF Relayed
    <3> QED
      BY <1>3, <2>2, <3>1, <3>2 DEF AnswerTo
  <2> QED
    BY <1>3, <2>2, <2>4
<1>4. ASSUME online' = [online EXCEPT ![value.id] = p], LoginAnswer(p, value, bad)
      PROVE  /\ \A q \in Proc \ {p} :
                  Stream(q)' = Stream(q) /\ \A u \in User : online'[u] = q => online[u] = q
             /\ \E w : AnswerTo(p, w)
  <2>1. Write(p, full)
    BY <1>2, <1>4 DEF LoginAnswer
  <2>2. apply[id] \in Seq(User) /\ online \in [User -> Proc \cup {NoConn}]
    BY <1>0 DEF TypeOK, ServiceTypeOK
  <2>3. /\ answer \in BackedDown /\ answer \in ServerFrame
        /\ answer.method = "login_suc" /\ answer.id = id
    <3>1. getFriend(id) \in SUBSET User /\ \A w \in getFriend(id) : friendinfo[<<id, w>>] > 0
      BY DEF getFriend
    <3>3. getMessage(id) \in Seq(Message)
      BY GetMessageType DEF TypeOK, StoreTypeOK
    <3>4. answer \in ServerFrame
      BY <1>0, <3>1, <3>3 DEF ServerFrame
    <3> QED
      BY <3>1, <3>4 DEF BackedDown
  <2>4. /\ Replay(id) \in Seq(BackedDown) /\ Replay(id) \in Seq(ServerFrame)
        /\ Len(Replay(id)) = Len(apply[id])
        /\ \A k \in 1 .. Len(apply[id]) : Replay(id)[k] = FriendFrame("addfd", apply[id][k], id)
    <3>1. ASSUME NEW k \in 1 .. Len(apply[id])
          PROVE  FriendFrame("addfd", apply[id][k], id) \in BackedDown \cap ServerFrame
      <4>1. apply[id][k] \in User
        BY <2>2, <3>1
      <4> QED
        BY <1>0, <4>1, MadeFrames, RelayIsFrame DEF BackedDown, FriendFrame
    <3> QED
      BY <2>2, <3>1 DEF Replay
  <2> HIDE DEF answer
  <2>5. /\ full \in Seq(BackedDown) /\ full \in Seq(ServerFrame)
        /\ Len(full) = 1 + Len(apply[id]) /\ Len(apply[id]) \in Nat
        /\ full[1] = answer
        /\ \A k \in 2 .. Len(full) : full[k] = Replay(id)[k - 1]
    <3>1. <<answer>> \in Seq(BackedDown) /\ <<answer>> \in Seq(ServerFrame)
          /\ Len(<<answer>>) = 1 /\ <<answer>>[1] = answer
      BY <2>3
    <3> QED
      BY <2>2, <2>4, <3>1, ConcatProperties
  <2>6. ASSUME NEW k \in 2 .. Len(full)
        PROVE  /\ k - 1 \in 1 .. Len(apply[id])
               /\ full[k] = FriendFrame("addfd", apply[id][k - 1], id)
               /\ full[k].method = "addfd" /\ full[k].friendid = id
    <3>1. /\ k - 1 \in 1 .. Len(apply[id])
          /\ full[k] = FriendFrame("addfd", apply[id][k - 1], id)
      BY <2>4, <2>5
    <3>2. \A a : /\ FriendFrame("addfd", a, id).method = "addfd"
                 /\ FriendFrame("addfd", a, id).friendid = id
      BY DEF FriendFrame
    <3> QED
      BY <3>1, <3>2
  <2>7. Stream(p)' = Stream(p) \o full /\ \A q \in Proc \ {p} : Stream(q)' = Stream(q)
    <3> HIDE DEF full
    <3> QED
      BY <1>0, <2>1, <2>5, WriteStream
  <2> HIDE DEF full
  <2>8. \A k \in 1 .. Len(full) : full[k].method \in Relayed => Lets(full, k, Addressee(full[k]))
    <3> SUFFICES ASSUME NEW k \in 1 .. Len(full), full[k].method \in Relayed
                 PROVE  Lets(full, k, Addressee(full[k]))
      OBVIOUS
    <3>1. k # 1
      BY <2>3, <2>5 DEF Relayed
    <3>2. k \in 2 .. Len(full) /\ 1 \in 1 .. k - 1
      BY <2>5, <3>1
    <3>3. Addressee(full[k]) = id
      BY <2>6, <3>2 DEF Addressee
    <3> QED
      BY <2>3, <2>5, <3>2, <3>3 DEF Lets
  <2>9. LetsAll(full, id) /\ \A k \in 1 .. Len(apply[id]) : Holds(full, FriendFrame("addfd", apply[id][k], id))
    <3>1. LetsAll(full, id)
      <4>1. 1 \in 1 .. (Len(full) + 1) - 1
        BY <2>5
      <4> QED
        BY <2>3, <2>5, <4>1 DEF LetsAll, Lets
    <3>2. ASSUME NEW k \in 1 .. Len(apply[id])
          PROVE  Holds(full, FriendFrame("addfd", apply[id][k], id))
      <4>1. k + 1 \in 2 .. Len(full) /\ (k + 1) - 1 = k /\ k + 1 \in 1 .. Len(full)
        BY <2>5, <3>2
      <4>2. full[k + 1] = FriendFrame("addfd", apply[id][k], id)
        BY <2>6, <4>1
      <4> QED
        BY <4>1, <4>2 DEF Holds
    <3> QED
      BY <3>1, <3>2
  <2>10. \A k \in 2 .. Len(full) : full[k].method \notin LoginMethods
    BY <2>6 DEF LoginMethods
  <2>11. \A u \in User : online'[u] = (IF u = id THEN p ELSE online[u])
    BY <1>4, <2>2
  <2>12. AnswerTo(p, full)
    BY <2>5, <2>7, <2>8, <2>9, <2>10, <2>11 DEF AnswerTo
  <2>13. \A q \in Proc \ {p}, u \in User : online'[u] = q => online[u] = q
    BY <2>11
  <2> QED
    BY <2>7, <2>12, <2>13
<1> QED
  BY <1>1, <1>2, <1>3, <1>4

LEMMA ServesWell ==
  ASSUME TypeOK, KnownInv, faults' = 0, ~wild', NEW p \in Proc, Serves(p), NEW q \in Proc, Well(q)
  PROVE  Well(q)'
<1> DEFINE f == Head(c2s[p])
<1>1. CASE f.method # "login"
  BY <1>1, ServesQuiet, QuietWell
<1>2. CASE f.method = "login"
  <2>1. Serve(p, "login") /\ login(p, f)
    BY <1>2 DEF Serves, Service, Serve
  <2>2. Dispatched(p) /\ f \in ClientFrame
    BY <2>1, ServeDispatches
  <2>3. /\ UNCHANGED <<friendinfo, apply, up>>
        /\ \A r \in Proc \ {p} :
             Stream(r)' = Stream(r) /\ \A u \in User : online'[u] = r => online[u] = r
        /\ \E w : AnswerTo(p, w)
    BY <1>2, <2>1, <2>2, LoginAnswers
  <2>4. CASE q = p
    BY <1>2, <2>2, <2>3, <2>4, AnswerWell
  <2>5. CASE q # p
    <3>1. c2s'[q] = c2s[q]
      BY <2>2, <2>5 DEF Dispatched, TypeOK, ConnectionTypeOK
    <3>2. Taken(q) /\ Given(q) /\ RowsStay
      BY <2>3, <2>5, <3>1 DEF Taken, Given, RowsStay
    <3>3. Quiet(q)
      BY <2>2, <2>3, <2>5, <3>2 DEF Quiet, Dispatched
    <3> QED
      BY <3>3, QuietWell
  <2> QED
    BY <2>4, <2>5
<1> QED
  BY <1>1, <1>2

-----------------------------------------------------------------------------
\* A destroyed object that has been used stays in the history.
LEMMA WildStays ==
  ASSUME wild, [Next]_vars
  PROVE  wild'
<1>1. ASSUME NEW u, NEW f, Deliver(u, f) PROVE wild'
  BY <1>1 DEF Deliver, WriteThrough
<1>2. ASSUME NEW p \in Proc, Serves(p) PROVE wild'
  BY <1>1, <1>2
  DEF Serves, Service, signin, login, sendmsg, find, addfriend, accept_addfd, refuse_addfd
<1>3. ASSUME NEW p \in Proc, Session(p) PROVE wild'
  BY <1>3
  DEF Session, Accept, WriteDone, ReadError, WriteError, StaleHandler, NetStops, ConnectFails,
      Reset, Leave, serverSide
<1>4. ASSUME NEW p \in Proc, Killed(p) \/ Handles(p) \/ Asks(p) PROVE wild'
  BY <1>4, AsksLeaves
  DEF Killed, AcceptKilled, Handles, handle, Receive, Asks, OpenChat, Leave, serverSide
<1>5. CASE Stops \/ Starts \/ UNCHANGED vars
  BY <1>5 DEF Stops, ServerStops, Starts, ServerStarts, vars, netVars
<1> QED
  BY <1>2, <1>3, <1>4, <1>5 DEF Next

LEMMA RoutingAlways == Spec => []RoutingInv
<1>1. Init => RoutingInv
  <2> SUFFICES ASSUME Init, NEW p \in Proc PROVE Well(p)
    BY DEF RoutingInv
  <2>1. \A u \in User : online[u] # p
    BY ServiceAssumption DEF Init, ServiceInit
  <2> QED
    BY <2>1 DEF Init, ConnectionInit, ClientInit, Well, Fresh, Stream
<1>2. TypeOK /\ KnownInv /\ RoutingInv /\ [Next]_vars => RoutingInv'
  <2> SUFFICES ASSUME TypeOK, KnownInv, RoutingInv, [Next]_vars, faults' = 0, ~wild', NEW q \in Proc
               PROVE  Well(q)'
    BY DEF RoutingInv, Sound
  <2>1. Well(q)
    BY FriendSteps, WildStays DEF RoutingInv, Sound
  <2>2. ASSUME NEW p \in Proc, Session(p) \/ Serves(p) \/ Killed(p) \/ Handles(p) \/ Asks(p)
        PROVE  Well(q)'
    BY <2>1, <2>2, SessionWell, ServesWell, KilledWell, HandlesWell, AsksWell
  <2> QED
    BY <2>1, <2>2, StopsWell, StartsWell DEF Next
<1> QED
  BY <1>1, <1>2, TypeCorrect, KnownAlways, PTL DEF Spec

\* Why it holds: the cache gets a session for a user in the step that writes
\* the answer to his login, and a window has one login at a time on its way,
\* so what is written to the session after that is handled after it.
THEOREM RelayedToTheRightUser == Spec => []RightRecipient
<1>1. RoutingInv => RightRecipient
  <2> SUFFICES ASSUME RoutingInv, Sound, NEW p \in Proc, phase[p] = "on",
                      NEW k \in DOMAIN Stream(p), Stream(p)[k].method \in Relayed
               PROVE  \/ me[p] = Addressee(Stream(p)[k])
                      \/ \E j \in 1 .. k - 1 : /\ Stream(p)[j].method = "login_suc"
                                               /\ Stream(p)[j].id = Addressee(Stream(p)[k])
    BY DEF RightRecipient, Sound
  <2>1. Routed(Stream(p), me[p])
    BY DEF RoutingInv, Well, RoutedTo
  <2>2. k \in 1 .. Len(Stream(p))
    BY <2>1
  <2> QED
    BY <2>1, <2>2 DEF Routed, Lets
<1> QED
  BY <1>1, RoutingAlways, PTL

\* No request that waited for a user is lost between his login and his list.
THEOREM WaitingRequestsArrive == Spec => []RequestsReplayed
<1>1. TypeOK /\ RoutingInv => RequestsReplayed
  <2> SUFFICES ASSUME TypeOK, RoutingInv, NEW p \in Proc, NEW u \in User, Live(p, u),
                      NEW k \in DOMAIN apply[u]
               PROVE  \/ apply[u][k] \in requests[p] \cup friends[p]
                      \/ \E j \in DOMAIN Stream(p) :
                           Stream(p)[j] = FriendFrame("addfd", apply[u][k], u)
    BY DEF RequestsReplayed
  <2>1. Replayed(p) /\ online[u] = p
    BY DEF RoutingInv, Sound, Well, Live
  <2>2. k \in 1 .. Len(apply[u]) /\ DOMAIN Stream(p) = 1 .. Len(Stream(p))
    BY StreamType DEF TypeOK, ServiceTypeOK
  <2> QED
    BY <2>1, <2>2 DEF Replayed, Holds
<1> QED
  BY <1>1, RoutingAlways, TypeCorrect, PTL

\* No friend is only in a list: each has a row, or the request for it is on
\* its way, whoever of the two accepted.
THEOREM ListedFriendsAreBacked == Spec => []FriendsBacked
<1>1. TypeOK /\ RoutingInv => FriendsBacked
  <2> SUFFICES ASSUME TypeOK, RoutingInv, NEW p \in Proc, NEW u \in User, Live(p, u),
                      NEW w \in friends[p]
               PROVE  \/ friendinfo[<<u, w>>] > 0
                      \/ \E k \in DOMAIN c2s[p] : c2s[p][k] = FriendFrame("accept_addfd", u, w)
    BY DEF FriendsBacked
  <2>1. Backed(p) /\ InSession(p) /\ me[p] = u
    BY DEF RoutingInv, Sound, Well, Live, InSession
  <2>2. DOMAIN c2s[p] = 1 .. Len(c2s[p])
    BY StreamType
  <2> QED
    BY <2>1, <2>2, ClientAssumption DEF Backed, Holds
<1> QED
  BY <1>1, RoutingAlways, TypeCorrect, PTL
=============================================================================
