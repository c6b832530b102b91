----------------------- MODULE EventQueuePlaceProofs ------------------------
(***************************************************************************)
(* Where an event may be: in one table of the queue or in one batch, at    *)
(* one position, and only until it is settled.  From this, that nothing is *)
(* prompted twice, brought back, stranded, or shed by anything but a cap.  *)
(***************************************************************************)
EXTENDS EventQueueProofs

-----------------------------------------------------------------------------
(* The contents of sequences of events. *)

LEMMA SeqFacts ==
    ASSUME NEW q \in Seq(Event)
    PROVE  /\ Len(q) \in Nat /\ DOMAIN q = 1..Len(q)
           /\ \A i \in 1..Len(q) : q[i] \in Event
           /\ Elems(q) \subseteq Event
           /\ \A e : e \in Elems(q) <=> \E i \in 1..Len(q) : q[i] = e
<1>1. Len(q) \in Nat /\ DOMAIN q = 1..Len(q)
  BY LenProperties
<1>2. \A i \in 1..Len(q) : q[i] \in Event
  BY ElementOfSeq
<1> QED
  BY <1>1, <1>2 DEF Elems

LEMMA EmptyContents == /\ <<>> \in Seq(Event) /\ Elems(<<>>) = {} /\ Distinct(<<>>)
                       /\ Len(<<>>) = 0
BY EmptySeq DEF Elems, Distinct

LEMMA NoElems ==
    ASSUME NEW q \in Seq(Event), Elems(q) = {}
    PROVE  q = <<>>
<1>1. Len(q) \in Nat /\ \A i \in 1..Len(q) : q[i] \in Elems(q)
  BY SeqFacts
<1>2. Len(q) = 0
  BY <1>1
<1> QED
  BY <1>2, EmptySeq

LEMMA Slice ==
    ASSUME NEW q \in Seq(Event), NEW m \in Nat \ {0}, NEW n \in Nat, m <= n + 1, n <= Len(q)
    PROVE  LET r == SubSeq(q, m, n) IN
           /\ r \in Seq(Event) /\ Len(r) = n - m + 1
           /\ \A e : e \in Elems(r) <=> \E i \in m..n : q[i] = e
           /\ Distinct(q) => Distinct(r)
<1> DEFINE r == SubSeq(q, m, n)
<1>1. Len(q) \in Nat /\ DOMAIN q = 1..Len(q) /\ \A i \in 1..Len(q) : q[i] \in Event
  BY SeqFacts
<1>2. m \in Int /\ n \in Int /\ \A i \in m..n : i \in 1..Len(q) /\ q[i] \in Event
  BY <1>1
<1>3. /\ r \in Seq(Event) /\ Len(r) = (IF m <= n THEN n - m + 1 ELSE 0)
      /\ \A i \in 1..(n - m + 1) : r[i] = q[m + i - 1]
  BY <1>2, SubSeqProperties
<1>4. Len(r) = n - m + 1
  BY <1>3
<1> HIDE DEF r
<1>5. DOMAIN r = 1..(n - m + 1)
  BY <1>3, <1>4, SeqFacts
<1>6. ASSUME NEW e PROVE e \in Elems(r) <=> \E i \in m..n : q[i] = e
  <2>1. ASSUME NEW i \in 1..(n - m + 1) PROVE m + i - 1 \in m..n /\ r[i] = q[m + i - 1]
    BY <1>3
  <2>2. ASSUME NEW i \in m..n
        PROVE  i - m + 1 \in 1..(n - m + 1) /\ r[i - m + 1] = q[i]
    <3>1. i - m + 1 \in 1..(n - m + 1) /\ m + (i - m + 1) - 1 = i
      OBVIOUS
    <3> QED
      BY <1>3, <3>1
  <2> QED
    BY <1>5, <2>1, <2>2 DEF Elems
<1>7. ASSUME Distinct(q) PROVE Distinct(r)
  <2> SUFFICES ASSUME NEW i \in 1..(n - m + 1), NEW j \in 1..(n - m + 1), r[i] = r[j]
               PROVE  i = j
    BY <1>5 DEF Distinct
  <2>1. m + i - 1 \in DOMAIN q /\ m + j - 1 \in DOMAIN q
    BY <1>1
  <2>2. q[m + i - 1] = q[m + j - 1]
    BY <1>3
  <2>3. m + i - 1 = m + j - 1
    BY <1>7, <2>1, <2>2 DEF Distinct
  <2> QED
    BY <2>3
<1> QED
  BY <1>3, <1>4, <1>6, <1>7 DEF r

(* A queue cut in two. *)
LEMMA Cut ==
    ASSUME NEW q \in Seq(Event), NEW n \in Nat, n <= Len(q)
    PROVE  LET front == SubSeq(q, 1, n)
               back == SubSeq(q, n + 1, Len(q))
           IN  /\ front \in Seq(Event) /\ back \in Seq(Event)
               /\ Len(front) = n /\ Len(back) = Len(q) - n
               /\ Elems(front) \cup Elems(back) = Elems(q)
               /\ Distinct(q) => /\ Distinct(front) /\ Distinct(back)
                                 /\ Elems(front) \cap Elems(back) = {}
<1> DEFINE front == SubSeq(q, 1, n)
           back == SubSeq(q, n + 1, Len(q))
<1>1. Len(q) \in Nat /\ DOMAIN q = 1..Len(q) /\ \A e : e \in Elems(q) <=> \E i \in 1..Len(q) : q[i] = e
  BY SeqFacts
<1>2. /\ front \in Seq(Event) /\ Len(front) = n - 1 + 1
      /\ \A e : e \in Elems(front) <=> \E i \in 1..n : q[i] = e
      /\ Distinct(q) => Distinct(front)
  BY Slice
<1>3. /\ back \in Seq(Event) /\ Len(back) = Len(q) - (n + 1) + 1
      /\ \A e : e \in Elems(back) <=> \E i \in (n + 1)..Len(q) : q[i] = e
      /\ Distinct(q) => Distinct(back)
  <2>1. n + 1 \in Nat \ {0} /\ n + 1 <= Len(q) + 1 /\ Len(q) <= Len(q) /\ Len(q) \in Nat
    BY <1>1
  <2> QED
    BY <2>1, Slice
<1> HIDE DEF front, back
<1>4. Len(front) = n /\ Len(back) = Len(q) - n
  BY <1>1, <1>2, <1>3
<1>5. Elems(front) \cup Elems(back) = Elems(q)
  <2>1. \A i : i \in 1..Len(q) <=> i \in 1..n \/ i \in (n + 1)..Len(q)
    BY <1>1
  <2> QED
    BY <1>1, <1>2, <1>3, <2>1
<1>6. ASSUME Distinct(q) PROVE Elems(front) \cap Elems(back) = {}
  <2> SUFFICES ASSUME NEW e, e \in Elems(front), e \in Elems(back) PROVE FALSE
    OBVIOUS
  <2>1. PICK i \in 1..n : q[i] = e
    BY <1>2
  <2>2. PICK j \in (n + 1)..Len(q) : q[j] = e
    BY <1>3
  <2>3. i \in DOMAIN q /\ j \in DOMAIN q
    BY <1>1
  <2>4. i = j
    BY <1>6, <2>1, <2>2, <2>3 DEF Distinct
  <2> QED
    BY <1>1, <2>4
<1> QED
  BY <1>2, <1>3, <1>4, <1>5, <1>6 DEF front, back

LEMMA Joined ==
    ASSUME NEW p \in Seq(Event), NEW q \in Seq(Event)
    PROVE  /\ p \o q \in Seq(Event)
           /\ Elems(p \o q) = Elems(p) \cup Elems(q)
           /\ Distinct(p) /\ Distinct(q) /\ Elems(p) \cap Elems(q) = {} => Distinct(p \o q)
<1> DEFINE r == p \o q
           m == Len(p)
           n == Len(q)
<1>1. /\ m \in Nat /\ DOMAIN p = 1..m /\ \A e : e \in Elems(p) <=> \E i \in 1..m : p[i] = e
      /\ n \in Nat /\ DOMAIN q = 1..n /\ \A e : e \in Elems(q) <=> \E i \in 1..n : q[i] = e
  BY SeqFacts
<1>2. /\ r \in Seq(Event) /\ Len(r) = m + n
      /\ \A i \in 1..(m + n) : r[i] = IF i <= m THEN p[i] ELSE q[i - m]
  BY ConcatProperties
<1> HIDE DEF r, m, n
<1>3. DOMAIN r = 1..(m + n) /\ \A e : e \in Elems(r) <=> \E i \in 1..(m + n) : r[i] = e
  BY <1>2, SeqFacts
<1>4. \A i \in 1..m : i \in 1..(m + n) /\ r[i] = p[i]
  BY <1>1, <1>2
<1>5. \A i \in 1..n : m + i \in 1..(m + n) /\ r[m + i] = q[i]
  <2> SUFFICES ASSUME NEW i \in 1..n PROVE m + i \in 1..(m + n) /\ r[m + i] = q[i]
    OBVIOUS
  <2>1. m + i \in 1..(m + n) /\ ~(m + i <= m) /\ (m + i) - m = i
    BY <1>1
  <2> QED
    BY <1>2, <2>1
<1>6. \A i \in 1..(m + n) : (i \in 1..m /\ r[i] = p[i]) \/ (i - m \in 1..n /\ r[i] = q[i - m])
  <2> SUFFICES ASSUME NEW i \in 1..(m + n)
               PROVE  (i \in 1..m /\ r[i] = p[i]) \/ (i - m \in 1..n /\ r[i] = q[i - m])
    OBVIOUS
  <2>1. CASE i <= m
    BY <1>1, <1>2, <2>1
  <2>2. CASE ~(i <= m)
    BY <1>1, <1>2, <2>2
  <2> QED
    BY <2>1, <2>2
<1>7. Elems(r) = Elems(p) \cup Elems(q)
  <2>1. ASSUME NEW e \in Elems(r) PROVE e \in Elems(p) \cup Elems(q)
    BY <1>1, <1>3, <1>6
  <2>2. ASSUME NEW e \in Elems(p) PROVE e \in Elems(r)
    BY <1>1, <1>3, <1>4
  <2>3. ASSUME NEW e \in Elems(q) PROVE e \in Elems(r)
    BY <1>1, <1>3, <1>5
  <2> QED
    BY <2>1, <2>2, <2>3
<1>8. ASSUME Distinct(p), Distinct(q), Elems(p) \cap Elems(q) = {} PROVE Distinct(r)
  <2> SUFFICES ASSUME NEW i \in 1..(m + n), NEW j \in 1..(m + n), r[i] = r[j]
               PROVE  i = j
    BY <1>3 DEF Distinct
  <2>1. CASE i \in 1..m /\ r[i] = p[i] /\ j \in 1..m /\ r[j] = p[j]
    BY <1>1, <1>8, <2>1 DEF Distinct
  <2>2. CASE i - m \in 1..n /\ r[i] = q[i - m] /\ j - m \in 1..n /\ r[j] = q[j - m]
    <3>1. i - m = j - m
      BY <1>1, <1>8, <2>2 DEF Distinct
    <3> QED
      BY <1>1, <3>1
  <2>3. CASE i \in 1..m /\ r[i] = p[i] /\ j - m \in 1..n /\ r[j] = q[j - m]
    <3>1. r[i] \in Elems(p) /\ r[j] \in Elems(q)
      BY <1>1, <2>3
    <3> QED
      BY <1>8, <3>1
  <2>4. CASE i - m \in 1..n /\ r[i] = q[i - m] /\ j \in 1..m /\ r[j] = p[j]
    <3>1. r[j] \in Elems(p) /\ r[i] \in Elems(q)
      BY <1>1, <2>4
    <3> QED
      BY <1>8, <3>1
  <2> QED
    BY <1>6, <2>1, <2>2, <2>3, <2>4
<1> QED
  BY <1>2, <1>7, <1>8 DEF r

LEMMA Appended ==
    ASSUME NEW q \in Seq(Event), NEW e \in Event
    PROVE  /\ Append(q, e) \in Seq(Event)
           /\ Elems(Append(q, e)) = Elems(q) \cup {e}
           /\ Distinct(q) /\ e \notin Elems(q) => Distinct(Append(q, e))
<1> DEFINE r == Append(q, e)
           n == Len(q)
<1>1. /\ n \in Nat /\ DOMAIN q = 1..n /\ \A x : x \in Elems(q) <=> \E i \in 1..n : q[i] = x
  BY SeqFacts
<1>2. /\ r \in Seq(Event) /\ Len(r) = n + 1
      /\ \A i \in 1..n : r[i] = q[i]
      /\ r[n + 1] = e
  BY AppendProperties
<1> HIDE DEF r, n
<1>3. DOMAIN r = 1..(n + 1) /\ \A x : x \in Elems(r) <=> \E i \in 1..(n + 1) : r[i] = x
  BY <1>2, SeqFacts
<1>4. \A i : i \in 1..(n + 1) <=> i \in 1..n \/ i = n + 1
  BY <1>1
<1>5. Elems(r) = Elems(q) \cup {e}
  BY <1>1, <1>2, <1>3, <1>4
<1>6. ASSUME Distinct(q), e \notin Elems(q) PROVE Distinct(r)
  <2> SUFFICES ASSUME NEW i \in 1..(n + 1), NEW j \in 1..(n + 1), r[i] = r[j]
               PROVE  i = j
    BY <1>3 DEF Distinct
  <2>1. \A k \in 1..n : q[k] # e
    BY <1>1, <1>6
  <2> QED
    BY <1>1, <1>2, <1>4, <1>6, <2>1 DEF Distinct
<1> QED
  BY <1>2, <1>5, <1>6 DEF r

LEMMA WithoutContents ==
    ASSUME NEW q \in Seq(Event), NEW e
    PROVE  /\ Without(q, e) \in Seq(Event)
           /\ Elems(Without(q, e)) \subseteq Elems(q)
           /\ Elems(q) \ {e} \subseteq Elems(Without(q, e))
           /\ Distinct(q) => Distinct(Without(q, e)) /\ e \notin Elems(Without(q, e))
<1>1. /\ Len(q) \in Nat /\ DOMAIN q = 1..Len(q)
      /\ \A x : x \in Elems(q) <=> \E j \in 1..Len(q) : q[j] = x
  BY SeqFacts
<1>2. CASE e \notin Elems(q)
  BY <1>2 DEF Without
<1>3. CASE e \in Elems(q)
  <2> DEFINE i == CHOOSE j \in DOMAIN q : q[j] = e
             front == SubSeq(q, 1, i - 1)
             back == SubSeq(q, i + 1, Len(q))
  <2>1. i \in 1..Len(q) /\ q[i] = e
    BY <1>1, <1>3
  <2>2. Without(q, e) = front \o back
    BY <1>3 DEF Without
  <2> HIDE DEF i
  <2>3. /\ 1 \in Nat \ {0} /\ i - 1 \in Nat /\ 1 <= (i - 1) + 1 /\ i - 1 <= Len(q)
        /\ i + 1 \in Nat \ {0} /\ Len(q) \in Nat /\ i + 1 <= Len(q) + 1 /\ Len(q) <= Len(q)
    BY <1>1, <2>1
  <2>4. /\ front \in Seq(Event) /\ (Distinct(q) => Distinct(front))
        /\ \A x : x \in Elems(front) <=> \E j \in 1..(i - 1) : q[j] = x
    BY <2>3, Slice
  <2>5. /\ back \in Seq(Event) /\ (Distinct(q) => Distinct(back))
        /\ \A x : x \in Elems(back) <=> \E j \in (i + 1)..Len(q) : q[j] = x
    BY <2>3, Slice
  <2> HIDE DEF front, back
  <2>6. /\ front \o back \in Seq(Event)
        /\ Elems(front \o back) = Elems(front) \cup Elems(back)
        /\ Distinct(front) /\ Distinct(back) /\ Elems(front) \cap Elems(back) = {}
             => Distinct(front \o back)
    BY <2>4, <2>5, Joined
  <2>7. /\ \A j \in 1..(i - 1) : j \in 1..Len(q) /\ j < i
        /\ \A j \in (i + 1)..Len(q) : j \in 1..Len(q) /\ j > i
        /\ \A j \in 1..Len(q) : j # i => j \in 1..(i - 1) \/ j \in (i + 1)..Len(q)
    BY <1>1, <2>1
  <2>8. Elems(front) \cup Elems(back) \subseteq Elems(q)
    BY <1>1, <2>4, <2>5, <2>7
  <2>9. Elems(q) \ {e} \subseteq Elems(front) \cup Elems(back)
    <3> SUFFICES ASSUME NEW x \in Elems(q), x # e PROVE x \in Elems(front) \cup Elems(back)
      OBVIOUS
    <3>1. PICK j \in 1..Len(q) : q[j] = x
      BY <1>1
    <3>2. j \in 1..(i - 1) \/ j \in (i + 1)..Len(q)
      BY <2>1, <2>7, <3>1
    <3> QED
      BY <2>4, <2>5, <3>1, <3>2
  <2>10. ASSUME Distinct(q)
         PROVE  e \notin Elems(front) \cup Elems(back) /\ Elems(front) \cap Elems(back) = {}
    <3>1. \A j, k \in 1..Len(q) : q[j] = q[k] => j = k
      BY <1>1, <2>10 DEF Distinct
    <3>2. \A j \in 1..Len(q) : j \in Int
      BY <1>1
    <3>3. e \notin Elems(front)
      BY <2>1, <2>4, <2>7, <3>1, <3>2
    <3>4. e \notin Elems(back)
      BY <2>1, <2>5, <2>7, <3>1, <3>2
    <3>5. ASSUME NEW x, x \in Elems(front), x \in Elems(back) PROVE FALSE
      <4>1. PICK j \in 1..(i - 1) : q[j] = x
        BY <2>4, <3>5
      <4>2. PICK k \in (i + 1)..Len(q) : q[k] = x
        BY <2>5, <3>5
      <4>3. j = k
        BY <2>7, <3>1, <4>1, <4>2
      <4> QED
        BY <2>1, <2>7, <4>3
    <3> QED
      BY <3>3, <3>4, <3>5
  <2> QED
    BY <2>2, <2>4, <2>5, <2>6, <2>8, <2>9, <2>10
<1> QED
  BY <1>2, <1>3

(* The stable sort permutes a batch: it neither repeats nor loses an event. *)
LEMMA SortedContents ==
    ASSUME NEW q \in Seq(Event), NEW r \in SortedByCreation(q)
    PROVE  /\ r \in Seq(Event) /\ Elems(r) = Elems(q)
           /\ Distinct(q) => Distinct(r)
<1> DEFINE D == DOMAIN q
           Before(i, j) == \/ CreatedAt[q[i]] < CreatedAt[q[j]]
                           \/ CreatedAt[q[i]] = CreatedAt[q[j]] /\ i < j
<1>1. Len(q) \in Nat /\ D = 1..Len(q) /\ \A i \in D : q[i] \in Event
  BY SeqFacts
<1>2. PICK p \in [D -> D] : /\ \A i, j \in D : i < j => Before(p[i], p[j])
                            /\ r = [i \in D |-> q[p[i]]]
  BY DEF SortedByCreation
<1>3. \A i \in D : ~Before(i, i)
  <2> SUFFICES ASSUME NEW i \in D PROVE ~Before(i, i)
    OBVIOUS
  <2>1. CreatedAt[q[i]] \in Nat /\ i \in Nat
    BY <1>1, ConstantsAssumption
  <2> QED
    BY <2>1
<1> HIDE DEF Before
<1>4. \A i, j \in D : p[i] = p[j] => i = j
  <2> SUFFICES ASSUME NEW i \in D, NEW j \in D, p[i] = p[j], i # j PROVE FALSE
    OBVIOUS
  <2>1. i < j \/ j < i
    BY <1>1
  <2> QED
    BY <1>2, <1>3, <2>1
<1>5. \A k \in D : \E i \in D : p[i] = k
  <2>1. IsFiniteSet(D)
    BY <1>1, FS_Interval
  <2>2. p \in Injection(D, D)
    BY <1>2, <1>4 DEF Injection, IsInjective
  <2>3. p \in Surjection(D, D)
    <3> HIDE DEF D
    <3> QED
      BY <2>1, <2>2, FS_Injection
  <2> QED
    BY <2>3 DEF Surjection
<1>6. DOMAIN r = D /\ \A i \in D : r[i] = q[p[i]] /\ p[i] \in D
  BY <1>2
<1>7. r \in Seq(Event)
  BY SortedIsSeq
<1>8. Elems(r) = Elems(q)
  <2> HIDE DEF D
  <2> QED
    BY <1>5, <1>6 DEF Elems, D
<1>9. ASSUME Distinct(q) PROVE Distinct(r)
  BY <1>4, <1>6, <1>9 DEF Distinct
<1> QED
  BY <1>7, <1>8, <1>9

-----------------------------------------------------------------------------
(* What the operations on the pending queues take and shed. *)

AllDistinct(qs) == \A t \in Scope : Distinct(qs[t])

(* The pending events of t once s has got the events of A. *)
Gained(qs, s, A, t) == Elems(qs[t]) \cup (IF t = s THEN A ELSE {})

(* Scope s has got the events of A, and only full queues have shed any. *)
Takes(new, qs, s, A) ==
    /\ new \in Tables
    /\ \A t \in Scope : Elems(new[t]) \subseteq Gained(qs, s, A, t)
    /\ \A t \in Scope : Full(new, t) \/ Elems(new[t]) = Gained(qs, s, A, t)
    /\ AllDistinct(qs) /\ A \cap Elems(qs[s]) = {} => AllDistinct(new)

LEMMA ReplaceTakes ==
    ASSUME NEW qs \in Tables, NEW s \in Scope, NEW q \in Seq(Event), NEW A,
           Elems(q) \subseteq Elems(qs[s]) \cup A,
           Len(q) = MaxPerScope \/ Elems(q) = Elems(qs[s]) \cup A,
           Distinct(qs[s]) /\ A \cap Elems(qs[s]) = {} => Distinct(q)
    PROVE  Takes(EnforceChannelCap([qs EXCEPT ![s] = q], ChannelOf[s]), qs, s, A)
<1> DEFINE mid == [qs EXCEPT ![s] = q]
           c == ChannelOf[s]
           new == EnforceChannelCap(mid, c)
<1>1. mid \in Tables /\ \A t \in Scope : mid[t] = IF t = s THEN q ELSE qs[t]
  BY DEF Tables
<1> HIDE DEF mid, c
<1>2. /\ new \in Tables
      /\ new = mid \/ ChannelEventTotal(new, c) = MaxPerChannel
      /\ \A t \in Scope : Shrunk(new[t], mid[t])
      /\ \A t \in Scope : ChannelOf[t] # c => new[t] = mid[t]
  BY <1>1, CapEnforced
<1> HIDE DEF new
<1>3. ASSUME NEW t \in Scope
      PROVE  /\ Elems(mid[t]) \subseteq Gained(qs, s, A, t)
             /\ Len(mid[t]) = MaxPerScope \/ Elems(mid[t]) = Gained(qs, s, A, t)
  <2>1. CASE t = s
    BY <1>1, <2>1 DEF Gained
  <2>2. CASE t # s
    BY <1>1, <2>2 DEF Gained
  <2> QED
    BY <2>1, <2>2
<1>4. ASSUME NEW t \in Scope PROVE Elems(new[t]) \subseteq Gained(qs, s, A, t)
  <2>1. Elems(new[t]) \subseteq Elems(mid[t])
    BY <1>2 DEF Shrunk
  <2> QED
    BY <1>3, <2>1
<1>5. ASSUME NEW t \in Scope PROVE Full(new, t) \/ Elems(new[t]) = Gained(qs, s, A, t)
  <2>1. CASE new[t] = mid[t]
    BY <1>3, <2>1 DEF Full
  <2>2. CASE new[t] # mid[t]
    BY <1>2, <2>2 DEF Full
  <2> QED
    BY <2>1, <2>2
<1>6. ASSUME AllDistinct(qs), A \cap Elems(qs[s]) = {} PROVE AllDistinct(new)
  <2> SUFFICES ASSUME NEW t \in Scope PROVE Distinct(new[t])
    BY DEF AllDistinct
  <2>1. Distinct(mid[t])
    BY <1>1, <1>6 DEF AllDistinct
  <2> QED
    BY <1>2, <2>1 DEF Shrunk
<1> QED
  BY <1>2, <1>4, <1>5, <1>6 DEF Takes, new, mid, c

LEMMA PushBackTakes ==
    ASSUME NEW qs \in Tables, Capped(qs), NEW s \in Scope, NEW e \in Event
    PROVE  Takes(PushBack(qs, s, e), qs, s, {e})
<1> DEFINE q == qs[s]
           kept == IF Len(q) >= MaxPerScope THEN Tail(q) ELSE q
           r == Append(kept, e)
<1>1. q \in Seq(Event) /\ Len(q) \in Nat /\ MaxPerScope \in Nat \ {0} /\ Len(q) <= MaxPerScope
  BY LenProperties, ConstantsAssumption DEF Tables, Capped
<1>2. /\ kept \in Seq(Event) /\ Shrunk(kept, q)
      /\ Len(kept) = MaxPerScope - 1 \/ kept = q
  <2>1. CASE Len(q) >= MaxPerScope
    <3>1. q # <<>> /\ Len(q) = MaxPerScope
      BY <1>1, <2>1, EmptySeq
    <3>2. /\ Tail(q) \in Seq(Event) /\ Len(Tail(q)) = Len(q) - 1
          /\ \A i \in 1..(Len(q) - 1) : Tail(q)[i] = q[i + 1]
      BY <1>1, <3>1, HeadTailProperties
    <3>3. DOMAIN Tail(q) = 1..(Len(q) - 1) /\ DOMAIN q = 1..Len(q)
      BY <1>1, <3>2, SeqFacts
    <3>4. \A i \in 1..(Len(q) - 1) : i + 1 \in 1..Len(q)
      BY <1>1
    <3>5. Elems(Tail(q)) \subseteq Elems(q)
      BY <3>2, <3>3, <3>4 DEF Elems
    <3>6. Distinct(q) => Distinct(Tail(q))
      BY <1>1, <3>2, <3>3, <3>4 DEF Distinct
    <3> QED
      BY <1>1, <2>1, <3>1, <3>2, <3>5, <3>6 DEF Shrunk
  <2>2. CASE ~(Len(q) >= MaxPerScope)
    BY <1>1, <2>2 DEF Shrunk
  <2> QED
    BY <2>1, <2>2
<1>3. PushBack(qs, s, e) = EnforceChannelCap([qs EXCEPT ![s] = r], ChannelOf[s])
  BY DEF PushBack
<1> HIDE DEF kept
<1>4. /\ r \in Seq(Event) /\ Elems(r) = Elems(kept) \cup {e}
      /\ Distinct(kept) /\ e \notin Elems(kept) => Distinct(r)
  BY <1>2, Appended
<1>5. Len(r) = Len(kept) + 1
  BY <1>2, AppendProperties
<1> HIDE DEF r
<1>6. Elems(r) \subseteq Elems(q) \cup {e}
  BY <1>2, <1>4 DEF Shrunk
<1>7. Len(r) = MaxPerScope \/ Elems(r) = Elems(q) \cup {e}
  BY <1>1, <1>2, <1>4, <1>5
<1>8. Distinct(q) /\ {e} \cap Elems(q) = {} => Distinct(r)
  BY <1>2, <1>4 DEF Shrunk
<1> QED
  BY <1>3, <1>4, <1>6, <1>7, <1>8, ReplaceTakes

LEMMA PushFrontTakes ==
    ASSUME NEW qs \in Tables, NEW s \in Scope, NEW evs \in Seq(Event), Distinct(evs)
    PROVE  Takes(PushFront(qs, s, evs), qs, s, Elems(evs))
<1> DEFINE q == qs[s]
           all == evs \o q
           kept == IF Len(all) > MaxPerScope THEN SubSeq(all, 1, MaxPerScope) ELSE all
<1>1. q \in Seq(Event) /\ MaxPerScope \in Nat \ {0}
  BY ConstantsAssumption DEF Tables
<1>2. /\ all \in Seq(Event) /\ Elems(all) = Elems(evs) \cup Elems(q)
      /\ Distinct(evs) /\ Distinct(q) /\ Elems(evs) \cap Elems(q) = {} => Distinct(all)
  BY <1>1, Joined
<1>3. PushFront(qs, s, evs) = EnforceChannelCap([qs EXCEPT ![s] = kept], ChannelOf[s])
  BY DEF PushFront
<1> HIDE DEF all
<1>4. /\ kept \in Seq(Event) /\ Elems(kept) \subseteq Elems(all)
      /\ Len(kept) = MaxPerScope \/ Elems(kept) = Elems(all)
      /\ Distinct(all) => Distinct(kept)
  <2>1. CASE Len(all) > MaxPerScope
    <3>1. Len(all) \in Nat
      BY <1>2, LenProperties
    <3>2. MaxPerScope \in Nat /\ MaxPerScope <= Len(all)
      BY <1>1, <2>1, <3>1
    <3>3. /\ SubSeq(all, 1, MaxPerScope) \in Seq(Event)
          /\ Len(SubSeq(all, 1, MaxPerScope)) = MaxPerScope
          /\ Elems(SubSeq(all, 1, MaxPerScope)) \subseteq Elems(all)
          /\ Distinct(all) => Distinct(SubSeq(all, 1, MaxPerScope))
      BY <1>2, <3>2, Cut
    <3> QED
      BY <2>1, <3>3
  <2>2. CASE ~(Len(all) > MaxPerScope)
    BY <1>2, <2>2
  <2> QED
    BY <2>1, <2>2
<1> HIDE DEF kept, q
<1>5. /\ Elems(kept) \subseteq Elems(q) \cup Elems(evs)
      /\ Len(kept) = MaxPerScope \/ Elems(kept) = Elems(q) \cup Elems(evs)
      /\ Distinct(q) /\ Elems(evs) \cap Elems(q) = {} => Distinct(kept)
  BY <1>2, <1>4
<1> QED
  BY <1>3, <1>4, <1>5, ReplaceTakes DEF q

-----------------------------------------------------------------------------
(* The invariant: where an event may be. *)

(* Event e is in table k of scope x, or in the batch x of the set k. *)
Holds(k, x, e) ==
    \/ k = "queues" /\ x \in Scope /\ e \in Elems(queues[x])
    \/ k = "cancelled" /\ x \in Scope /\ e \in Elems(cancelled[x])
    \/ k = "withheld" /\ x \in Scope /\ e \in Elems(withheld[x])
    \/ k = "held" /\ x \in held /\ e \in BatchEvents(x)
    \/ k = "turns" /\ x \in turns /\ e \in BatchEvents(x)

OnePlace ==
    \A e, k, l, x, y : Holds(k, x, e) /\ Holds(l, y, e) => k = l /\ x = y

NoRepeats(b) ==
    /\ Distinct(b.events) /\ Distinct(b.cancelled)
    /\ Elems(b.events) \cap Elems(b.cancelled) = {}

TablesDistinct == AllDistinct(queues) /\ AllDistinct(cancelled) /\ AllDistinct(withheld)

(* What is kept has arrived and is not settled, but by a steer. *)
Live(e) == e \in 1..arrived /\ fate[e] \in {"open", "steered"}
KeptIsLive == \A e, k, x : Holds(k, x, e) => Live(e)

(* A steer is acknowledged once, for an event that has arrived. *)
SteersOnce ==
    \A a \in steers : /\ a[2] \in 1..arrived /\ fate[a[2]] # "steered"
                      /\ \A b \in steers : b[2] = a[2] => b = a

PlaceInv ==
    /\ OnePlace /\ TablesDistinct /\ \A b \in held \cup turns : NoRepeats(b)
    /\ KeptIsLive /\ WithheldAwaitsAck /\ SteersOnce

(* A batch that is held owns the marker of its scope, and no two share it. *)
HeldOwnsScope ==
    /\ \A b \in held : b.scope \in inFlight /\ deadline[b.scope] > 0
    /\ \A a, b \in held : a.scope = b.scope => a = b

LEMMA PlaceNow ==
    ASSUME PlaceInv
    PROVE  /\ OnePlace /\ AllDistinct(queues) /\ AllDistinct(cancelled) /\ AllDistinct(withheld)
           /\ \A b \in held \cup turns : NoRepeats(b)
           /\ KeptIsLive /\ WithheldAwaitsAck /\ SteersOnce
BY DEF PlaceInv, TablesDistinct

LEMMA TypeNow ==
    ASSUME TypeOK
    PROVE  /\ queues \in Tables /\ cancelled \in Tables /\ withheld \in Tables
           /\ \A t \in Scope : /\ queues[t] \in Seq(Event) /\ cancelled[t] \in Seq(Event)
                               /\ withheld[t] \in Seq(Event)
           /\ \A b \in held \cup turns : /\ b \in Batch /\ b.scope \in Scope
                                         /\ b.events \in Seq(Event) /\ b.cancelled \in Seq(Event)
           /\ arrived \in Nat /\ fate \in [Event -> Fate]
BY ConstantsAssumption DEF TypeOK, Tables, Batch

LEMMA HoldsType ==
    ASSUME TypeOK, NEW k, NEW x, NEW e, Holds(k, x, e)
    PROVE  e \in Event
BY TypeNow, SeqFacts DEF Holds, BatchEvents

(* Every event stays where it is, or is in one place now. *)
LEMMA OnePlaceStep ==
    ASSUME OnePlace,
           \A e : \/ \A k, x : Holds(k, x, e)' => Holds(k, x, e)
                  \/ \E l, y : \A k, x : Holds(k, x, e)' => k = l /\ x = y
    PROVE  OnePlace'
<1> SUFFICES ASSUME NEW e, NEW k, NEW l, NEW x, NEW y, Holds(k, x, e)', Holds(l, y, e)'
             PROVE  k = l /\ x = y
  BY DEF OnePlace
<1>1. CASE \A m, z : Holds(m, z, e)' => Holds(m, z, e)
  BY <1>1 DEF OnePlace
<1>2. CASE \E n, w : \A m, z : Holds(m, z, e)' => m = n /\ z = w
  BY <1>2
<1> QED
  BY <1>1, <1>2

(* Nothing comes back from nowhere. *)
LEMMA LiveStep ==
    ASSUME KeptIsLive, UNCHANGED arrived,
           \A e, k, x : Holds(k, x, e)' =>
               fate'[e] = fate[e] /\ \E l, y : Holds(l, y, e)
    PROVE  KeptIsLive'
BY DEF KeptIsLive, Live

LEMMA SteersStep ==
    ASSUME TypeOK, SteersOnce, steers' \subseteq steers, arrived' \in {arrived, arrived + 1},
           \A a \in steers' : fate'[a[2]] # "steered"
    PROVE  SteersOnce'
<1>1. arrived \in Nat
  BY TypeNow
<1> QED
  BY <1>1 DEF SteersOnce

LEMMA SettleAt ==
    ASSUME NEW S, NEW f, fate' = Settle(S, f), NEW e \in Event
    PROVE  fate'[e] = IF e \in S THEN f ELSE fate[e]
BY DEF Settle

LEMMA SteersSettled ==
    ASSUME TypeOK, SteersOnce, UNCHANGED steers, arrived' \in {arrived, arrived + 1},
           NEW S, NEW f, f # "steered", fate' = Settle(S, f)
    PROVE  SteersOnce'
<1>1. ASSUME NEW a \in steers PROVE fate'[a[2]] # "steered"
  <2>1. a[2] \in Event
    BY DEF TypeOK
  <2> QED
    BY <2>1, SettleAt DEF SteersOnce
<1> QED
  BY <1>1, SteersStep

(* The new event is nowhere yet. *)
LEMMA NewEvent ==
    ASSUME TypeOK, PlaceInv, Arrive
    PROVE  /\ arrived' = arrived + 1 /\ arrived' \in Event /\ held = {}
           /\ \A k, x : ~Holds(k, x, arrived')
           /\ \A a \in steers : a[2] # arrived'
<1>1. arrived \in Nat /\ arrived' = arrived + 1 /\ arrived' \in Event /\ held = {}
  BY TypeNow, ConstantsAssumption DEF Arrive, Event
<1>2. arrived' \notin 1..arrived
  BY <1>1
<1> QED
  BY <1>1, <1>2, PlaceNow DEF KeptIsLive, Live, SteersOnce

LEMMA LiveArrive ==
    ASSUME TypeOK, KeptIsLive, arrived' = arrived + 1, arrived' \in Event,
           fate' = Settle({arrived'}, "open"),
           \A e, k, x : Holds(k, x, e)' => e = arrived' \/ \E l, y : Holds(l, y, e)
    PROVE  KeptIsLive'
<1> SUFFICES ASSUME NEW e, NEW k, NEW x, Holds(k, x, e)' PROVE Live(e)'
  BY DEF KeptIsLive
<1>1. arrived \in Nat
  BY TypeNow
<1>2. CASE e = arrived'
  BY <1>1, <1>2, SettleAt DEF Live
<1>3. CASE e # arrived'
  <2>1. PICK l, y : Holds(l, y, e)
    BY <1>3
  <2>2. Live(e) /\ e \in Event
    BY <2>1, HoldsType DEF KeptIsLive
  <2> QED
    BY <1>1, <1>3, <2>2, SettleAt DEF Live
<1> QED
  BY <1>2, <1>3

-----------------------------------------------------------------------------
(* Every step keeps it. *)

(* A step that moves nothing. *)
LEMMA PlaceFrame ==
    ASSUME TypeOK, PlaceInv, UNCHANGED <<queues, cancelled, withheld, held, turns, steers>>,
           \/ UNCHANGED <<arrived, fate>>
           \/ \E s \in Scope : PushRefused(s)
    PROVE  PlaceInv'
<1>1. \A e, k, x : Holds(k, x, e)' <=> Holds(k, x, e)
  BY DEF Holds
<1>2. OnePlace'
  BY <1>1, PlaceNow, OnePlaceStep
<1>3. TablesDistinct' /\ (\A b \in held \cup turns : NoRepeats(b))' /\ WithheldAwaitsAck'
  BY PlaceNow DEF TablesDistinct, AllDistinct, WithheldAwaitsAck
<1>4. CASE UNCHANGED <<arrived, fate>>
  <2>1. KeptIsLive' /\ SteersOnce'
    BY <1>1, <1>4, PlaceNow DEF KeptIsLive, Live, SteersOnce
  <2> QED
    BY <1>2, <1>3, <2>1 DEF PlaceInv
<1>5. ASSUME NEW s \in Scope, PushRefused(s) PROVE PlaceInv'
  <2>1. /\ arrived' = arrived + 1 /\ fate' = Settle({arrived'}, "rejected")
        /\ \A k, x : ~Holds(k, x, arrived')
    BY <1>5, NewEvent DEF PushRefused
  <2>2. SteersOnce'
    <3>1. "rejected" # "steered" /\ arrived' \in {arrived, arrived + 1}
      BY <2>1
    <3> QED
      BY <2>1, <3>1, PlaceNow, SteersSettled
  <2>3. KeptIsLive'
    <3> SUFFICES ASSUME NEW e, NEW k, NEW x, Holds(k, x, e)' PROVE Live(e)'
      BY DEF KeptIsLive
    <3>1. Holds(k, x, e) /\ e # arrived'
      BY <1>1, <2>1
    <3>2. Live(e) /\ e \in Event /\ arrived \in Nat
      BY <3>1, HoldsType, PlaceNow, TypeNow DEF KeptIsLive
    <3>3. fate'[e] = fate[e]
      BY <2>1, <3>1, <3>2, SettleAt
    <3> QED
      BY <2>1, <3>2, <3>3 DEF Live
  <2> QED
    BY <1>2, <1>3, <2>2, <2>3 DEF PlaceInv
<1> QED
  BY <1>4, <1>5

LEMMA PlacePush ==
    ASSUME QueueInv, PlaceInv, NEW s \in Scope, Push(s)
    PROVE  PlaceInv'
<1> DEFINE new == arrived'
<1>0. TypeOK /\ Capped(queues) /\ queues \in Tables
  BY TypeNow, CapsHoldIsCapped DEF QueueInv
<1>1. /\ new = arrived + 1 /\ new \in Event /\ \A k, x : ~Holds(k, x, new)
      /\ \A a \in steers : a[2] # new
  BY <1>0, NewEvent DEF Push
<1>2. /\ queues' = PushBack(queues, s, new) /\ fate' = Settle({new}, "open")
      /\ UNCHANGED <<cancelled, withheld, held, turns, steers>>
  BY DEF Push
<1> HIDE DEF new
<1>3. Takes(queues', queues, s, {new})
  BY <1>0, <1>1, <1>2, PushBackTakes
<1>4. new \notin Elems(queues[s])
  BY <1>1 DEF Holds
<1>5. AllDistinct(queues')
  BY <1>3, <1>4, PlaceNow DEF Takes
<1>6. ASSUME NEW e, NEW k, NEW x, Holds(k, x, e)'
      PROVE  Holds(k, x, e) \/ (e = new /\ k = "queues" /\ x = s)
  <2>1. CASE k = "queues"
    <3>1. x \in Scope /\ e \in Elems(queues'[x])
      BY <1>6, <2>1 DEF Holds
    <3>2. e \in Gained(queues, s, {new}, x)
      BY <1>3, <3>1 DEF Takes
    <3> QED
      BY <2>1, <3>1, <3>2 DEF Gained, Holds
  <2>2. CASE k # "queues"
    BY <1>2, <1>6, <2>2 DEF Holds
  <2> QED
    BY <2>1, <2>2
<1>7. OnePlace'
  <2>1. ASSUME NEW e
        PROVE  \/ \A k, x : Holds(k, x, e)' => Holds(k, x, e)
               \/ \E l, y : \A k, x : Holds(k, x, e)' => k = l /\ x = y
    <3>1. CASE e = new
      BY <1>1, <1>6, <3>1
    <3>2. CASE e # new
      BY <1>6, <3>2
    <3> QED
      BY <3>1, <3>2
  <2> QED
    BY <2>1, PlaceNow, OnePlaceStep
<1>8. KeptIsLive'
  BY <1>0, <1>1, <1>2, <1>6, PlaceNow, LiveArrive DEF new
<1>9. SteersOnce'
  <2>1. "open" # "steered" /\ arrived' \in {arrived, arrived + 1}
    BY <1>1 DEF new
  <2> QED
    BY <1>0, <1>2, <2>1, PlaceNow, SteersSettled
<1>10. AllDistinct(cancelled)' /\ AllDistinct(withheld)' /\ WithheldAwaitsAck'
       /\ (\A b \in held \cup turns : NoRepeats(b))'
  BY <1>2, PlaceNow DEF AllDistinct, WithheldAwaitsAck
<1> QED
  BY <1>5, <1>7, <1>8, <1>9, <1>10 DEF PlaceInv, TablesDistinct, AllDistinct

LEMMA PlaceSteerPush ==
    ASSUME QueueInv, PlaceInv, NEW s \in Scope, SteerPush(s)
    PROVE  PlaceInv'
<1> DEFINE new == arrived'
           mid == PushBack(queues, s, new)
<1>0. TypeOK /\ Capped(queues) /\ queues \in Tables /\ withheld \in Tables
  BY TypeNow, CapsHoldIsCapped DEF QueueInv
<1>1. /\ new = arrived + 1 /\ new \in Event /\ \A k, x : ~Holds(k, x, new)
      /\ \A a \in steers : a[2] # new
  BY <1>0, NewEvent DEF SteerPush
<1>2. /\ queues' = [mid EXCEPT ![s] = Without(mid[s], new)]
      /\ withheld' = [withheld EXCEPT ![s] = Append(withheld[s], new)]
      /\ steers' = steers \cup {<<s, new>>} /\ fate' = Settle({new}, "open")
      /\ UNCHANGED <<cancelled, held, turns>>
  BY DEF SteerPush, Withhold
<1>3. Takes(mid, queues, s, {new})
  <2> HIDE DEF new
  <2> QED
    BY <1>0, <1>1, PushBackTakes
<1> HIDE DEF new, mid
<1>4. mid \in Tables /\ AllDistinct(mid)
  <2>1. new \notin Elems(queues[s])
    BY <1>1 DEF Holds
  <2> QED
    BY <1>3, <2>1, PlaceNow DEF Takes
<1>5. ASSUME NEW t \in Scope
      PROVE  Elems(queues'[t]) \subseteq Elems(queues[t]) /\ Distinct(queues'[t])
  <2>1. mid[t] \in Seq(Event) /\ Distinct(mid[t])
    BY <1>4 DEF Tables, AllDistinct
  <2>2. Elems(mid[t]) \subseteq Gained(queues, s, {new}, t)
    BY <1>3 DEF Takes
  <2>3. queues'[t] = IF t = s THEN Without(mid[s], new) ELSE mid[t]
    BY <1>2, <1>4 DEF Tables
  <2>4. CASE t = s
    <3>1. /\ Elems(Without(mid[s], new)) \subseteq Elems(mid[s])
          /\ Distinct(Without(mid[s], new)) /\ new \notin Elems(Without(mid[s], new))
      BY <2>1, <2>4, WithoutContents
    <3> QED
      BY <2>2, <2>3, <2>4, <3>1 DEF Gained
  <2>5. CASE t # s
    BY <2>1, <2>2, <2>3, <2>5 DEF Gained
  <2> QED
    BY <2>4, <2>5
<1>6. ASSUME NEW t \in Scope
      PROVE  /\ Elems(withheld'[t]) = Elems(withheld[t]) \cup (IF t = s THEN {new} ELSE {})
             /\ Distinct(withheld'[t])
  <2>1. withheld'[t] = IF t = s THEN Append(withheld[s], new) ELSE withheld[t]
    BY <1>0, <1>2 DEF Tables
  <2>2. Distinct(withheld[t]) /\ withheld[t] \in Seq(Event)
    BY <1>0, PlaceNow, TypeNow DEF AllDistinct
  <2>3. CASE t = s
    <3>1. new \notin Elems(withheld[s])
      BY <1>1 DEF Holds
    <3>2. /\ Elems(Append(withheld[s], new)) = Elems(withheld[s]) \cup {new}
          /\ Distinct(Append(withheld[s], new))
      BY <1>1, <2>2, <2>3, <3>1, Appended
    <3> QED
      BY <2>1, <2>3, <3>2
  <2>4. CASE t # s
    BY <2>1, <2>2, <2>4
  <2> QED
    BY <2>3, <2>4
<1>7. ASSUME NEW e, NEW k, NEW x, Holds(k, x, e)'
      PROVE  Holds(k, x, e) \/ (e = new /\ k = "withheld" /\ x = s)
  <2>1. CASE k = "queues"
    BY <1>5, <1>7, <2>1 DEF Holds
  <2>2. CASE k = "withheld"
    <3>1. x \in Scope /\ e \in Elems(withheld'[x])
      BY <1>7, <2>2 DEF Holds
    <3> QED
      BY <1>6, <2>2, <3>1 DEF Holds
  <2>3. CASE k \notin {"queues", "withheld"}
    BY <1>2, <1>7, <2>3 DEF Holds
  <2> QED
    BY <2>1, <2>2, <2>3
<1>8. OnePlace'
  <2>1. ASSUME NEW e
        PROVE  \/ \A k, x : Holds(k, x, e)' => Holds(k, x, e)
               \/ \E l, y : \A k, x : Holds(k, x, e)' => k = l /\ x = y
    <3>1. CASE e = new
      BY <1>1, <1>7, <3>1
    <3>2. CASE e # new
      BY <1>7, <3>2
    <3> QED
      BY <3>1, <3>2
  <2> QED
    BY <2>1, PlaceNow, OnePlaceStep
<1>9. KeptIsLive'
  BY <1>0, <1>1, <1>2, <1>7, PlaceNow, LiveArrive DEF new
<1>10. SteersOnce'
  <2>1. ASSUME NEW a \in steers
        PROVE  a[2] \in 1..arrived' /\ fate'[a[2]] # "steered" /\ a[2] # new
    <3>1. a[2] \in Event /\ a[2] \in 1..arrived /\ fate[a[2]] # "steered" /\ arrived \in Nat
      BY <1>0, PlaceNow, TypeNow DEF TypeOK, SteersOnce
    <3>2. a[2] # new
      BY <1>1
    <3>3. fate'[a[2]] = fate[a[2]]
      BY <1>2, <3>1, <3>2 DEF Settle
    <3> QED
      BY <1>1, <3>1, <3>2, <3>3 DEF new
  <2>2. new \in 1..arrived' /\ fate'[new] # "steered"
    <3>1. fate'[new] = "open"
      BY <1>1, <1>2 DEF Settle
    <3>2. arrived' = arrived + 1 /\ arrived \in Nat
      BY <1>0, <1>1, TypeNow DEF new
    <3> QED
      BY <3>1, <3>2 DEF new
  <2>3. \A a \in steers' : a \in steers \/ (a = <<s, new>> /\ a[2] = new)
    BY <1>2
  <2>4. \A a, b \in steers : b[2] = a[2] => b = a
    BY PlaceNow DEF SteersOnce
  <2> QED
    BY <2>1, <2>2, <2>3, <2>4 DEF SteersOnce
<1>11. WithheldAwaitsAck'
  <2> SUFFICES ASSUME NEW t \in Scope, NEW e \in Elems(withheld'[t]) PROVE <<t, e>> \in steers'
    BY DEF WithheldAwaitsAck
  <2> QED
    BY <1>2, <1>6, PlaceNow DEF WithheldAwaitsAck
<1>12. TablesDistinct' /\ (\A b \in held \cup turns : NoRepeats(b))'
  BY <1>2, <1>5, <1>6, PlaceNow DEF TablesDistinct, AllDistinct
<1> QED
  BY <1>8, <1>9, <1>10, <1>11, <1>12 DEF PlaceInv

(* The events of M move to one place; the others stay. *)
MoveTo(M, l, y) ==
    \A e, k, x : Holds(k, x, e)' =>
        \/ e \notin M /\ Holds(k, x, e)
        \/ e \in M /\ k = l /\ x = y /\ \E m, z : Holds(m, z, e)

LEMMA MoveStep ==
    ASSUME OnePlace, KeptIsLive, UNCHANGED <<arrived, fate>>, NEW M, NEW l, NEW y,
           MoveTo(M, l, y)
    PROVE  OnePlace' /\ KeptIsLive'
<1> USE DEF MoveTo
<1>1. OnePlace'
  <2>1. ASSUME NEW e
        PROVE  \/ \A k, x : Holds(k, x, e)' => Holds(k, x, e)
               \/ \E m, z : \A k, x : Holds(k, x, e)' => k = m /\ x = z
    <3>1. CASE e \in M
      BY <3>1
    <3>2. CASE e \notin M
      BY <3>2
    <3> QED
      BY <3>1, <3>2
  <2> QED
    BY <2>1, OnePlaceStep
<1>2. KeptIsLive'
  BY LiveStep
<1> QED
  BY <1>1, <1>2

(* What is in a table of scope s is nowhere else. *)
LEMMA Elsewhere ==
    ASSUME OnePlace, NEW l, NEW y, NEW e, Holds(l, y, e)
    PROVE  \A k, x : Holds(k, x, e) => k = l /\ x = y
BY DEF OnePlace

LEMMA PlaceExpire ==
    ASSUME QueueInv, PlaceInv, NEW s \in Scope, ExpireInFlight(s)
    PROVE  PlaceInv'
<1> DEFINE M == Elems(withheld[s])
<1>0. TypeOK /\ queues \in Tables /\ withheld \in Tables /\ withheld[s] \in Seq(Event)
  BY TypeNow DEF QueueInv
<1>1. /\ withheld' = [withheld EXCEPT ![s] = <<>>]
      /\ UNCHANGED <<cancelled, held, turns, steers, arrived, fate>>
  BY DEF ExpireInFlight
<1>2. \A e \in M : Holds("withheld", s, e)
  BY DEF Holds
<1>3. M \cap Elems(queues[s]) = {}
  <2> SUFFICES ASSUME NEW e \in M, e \in Elems(queues[s]) PROVE FALSE
    OBVIOUS
  <2>1. Holds("queues", s, e) /\ Holds("withheld", s, e)
    BY <1>2 DEF Holds
  <2> QED
    BY <2>1, PlaceNow, Elsewhere
<1>4. /\ \A t \in Scope : Elems(queues'[t]) \subseteq Gained(queues, s, M, t)
      /\ AllDistinct(queues')
  <2>1. CASE withheld[s] = <<>>
    <3>1. queues' = queues
      BY <2>1 DEF ExpireInFlight
    <3> QED
      BY <3>1, PlaceNow DEF Gained
  <2>2. CASE withheld[s] # <<>>
    <3>1. queues' = PushFront(queues, s, withheld[s])
      BY <2>2 DEF ExpireInFlight
    <3>2. Distinct(withheld[s])
      BY PlaceNow DEF AllDistinct
    <3>3. Takes(queues', queues, s, M)
      BY <1>0, <3>1, <3>2, PushFrontTakes
    <3> QED
      BY <1>3, <3>3, PlaceNow DEF Takes
  <2> QED
    BY <2>1, <2>2
<1>5. \A t \in Scope : withheld'[t] = IF t = s THEN <<>> ELSE withheld[t]
  BY <1>0, <1>1 DEF Tables
<1> HIDE DEF M
<1>6. ASSUME NEW e, NEW k, NEW x, Holds(k, x, e)'
      PROVE  \/ e \notin M /\ Holds(k, x, e)
             \/ e \in M /\ k = "queues" /\ x = s /\ \E m, z : Holds(m, z, e)
  <2>1. CASE k = "queues"
    <3>1. x \in Scope /\ e \in Gained(queues, s, M, x)
      BY <1>4, <1>6, <2>1 DEF Holds
    <3>2. CASE x = s /\ e \in M
      BY <1>2, <2>1, <3>2
    <3>3. CASE ~(x = s /\ e \in M)
      <4>1. Holds("queues", x, e)
        BY <3>1, <3>3 DEF Gained, Holds
      <4>2. e \notin M
        BY <1>2, <4>1, PlaceNow, Elsewhere
      <4> QED
        BY <2>1, <4>1, <4>2
    <3> QED
      BY <3>2, <3>3
  <2>2. CASE k = "withheld"
    <3>1. x \in Scope /\ e \in Elems(withheld'[x])
      BY <1>6, <2>2 DEF Holds
    <3>2. x # s /\ Holds("withheld", x, e)
      BY <1>5, <3>1, EmptyContents DEF Holds
    <3> QED
      BY <1>2, <2>2, <3>2, PlaceNow, Elsewhere
  <2>3. CASE k \notin {"queues", "withheld"}
    <3>1. Holds(k, x, e)
      BY <1>1, <1>6, <2>3 DEF Holds
    <3> QED
      BY <1>2, <2>3, <3>1, PlaceNow, Elsewhere
  <2> QED
    BY <2>1, <2>2, <2>3
<1>a. MoveTo(M, "queues", s)
  BY <1>6 DEF MoveTo
<1>7. OnePlace' /\ KeptIsLive'
  BY <1>1, <1>a, PlaceNow, MoveStep
<1>8. \A t \in Scope : Distinct(withheld'[t]) /\ Elems(withheld'[t]) \subseteq Elems(withheld[t])
  BY <1>5, EmptyContents, PlaceNow DEF AllDistinct
<1>9. WithheldAwaitsAck' /\ SteersOnce' /\ (\A b \in held \cup turns : NoRepeats(b))'
  BY <1>1, <1>8, PlaceNow DEF WithheldAwaitsAck, SteersOnce
<1>10. TablesDistinct'
  BY <1>1, <1>4, <1>8, PlaceNow DEF TablesDistinct, AllDistinct
<1> QED
  BY <1>7, <1>9, <1>10 DEF PlaceInv

(* A batch is handed over: its events leave the tables of its scope. *)
LEMMA PlaceHandOver ==
    ASSUME TypeOK, PlaceInv, NEW b \in Batch, NEW s \in Scope, HandOver(b), NoRepeats(b),
           UNCHANGED <<withheld, steers, arrived, fate>>,
           queues' \in Tables, AllDistinct(queues'),
           cancelled' = [cancelled EXCEPT ![s] = <<>>],
           \A t \in Scope : Elems(queues'[t]) \subseteq Elems(queues[t]),
           BatchEvents(b) \subseteq Elems(queues[s]) \cup Elems(cancelled[s]),
           BatchEvents(b) \cap Elems(queues'[s]) = {}
    PROVE  PlaceInv'
<1> DEFINE M == BatchEvents(b)
           l == IF turns' = turns \cup {b} /\ held' = held THEN "turns" ELSE "held"
<1>1. \/ turns' = turns \cup {b} /\ held' = held /\ l = "turns"
      \/ held' = held \cup {b} /\ turns' = turns /\ l = "held"
  BY DEF HandOver
<1>2. \A t \in Scope : cancelled'[t] = IF t = s THEN <<>> ELSE cancelled[t]
  BY TypeNow DEF Tables
<1>3. \A e \in M : Holds("queues", s, e) \/ Holds("cancelled", s, e)
  BY DEF Holds
<1> HIDE DEF l
<1>a. \A k, x, e : Holds(k, x, e) /\ e \in M => k \in {"queues", "cancelled"} /\ x = s
  BY <1>3, PlaceNow, Elsewhere
<1>4. ASSUME NEW e, NEW k, NEW x, Holds(k, x, e)'
      PROVE  \/ e \notin M /\ Holds(k, x, e)
             \/ e \in M /\ k = l /\ x = b /\ \E m, z : Holds(m, z, e)
  <2>1. CASE k = "queues"
    <3>1. x \in Scope /\ e \in Elems(queues'[x])
      BY <1>4, <2>1 DEF Holds
    <3>2. Holds("queues", x, e) /\ (x = s => e \notin M)
      BY <3>1 DEF Holds
    <3> QED
      BY <1>a, <2>1, <3>2
  <2>2. CASE k = "cancelled"
    <3>1. x \in Scope /\ e \in Elems(cancelled'[x])
      BY <1>4, <2>2 DEF Holds
    <3>2. x # s /\ Holds("cancelled", x, e)
      BY <1>2, <3>1, EmptyContents DEF Holds
    <3> QED
      BY <1>a, <2>2, <3>2
  <2>3. CASE k = "withheld"
    <3>1. Holds(k, x, e)
      BY <1>4, <2>3 DEF Holds
    <3> QED
      BY <1>a, <2>3, <3>1
  <2>4. CASE k \in {"held", "turns"}
    <3>1. Holds(k, x, e) \/ (k = l /\ x = b /\ e \in M)
      BY <1>1, <1>4, <2>4 DEF Holds
    <3>2. CASE Holds(k, x, e)
      BY <1>a, <2>4, <3>2
    <3>3. CASE k = l /\ x = b /\ e \in M
      BY <1>3, <3>3
    <3> QED
      BY <3>1, <3>2, <3>3
  <2>5. k \in {"queues", "cancelled", "withheld", "held", "turns"}
    BY <1>4 DEF Holds
  <2> QED
    BY <2>1, <2>2, <2>3, <2>4, <2>5
<1> HIDE DEF M
<1>b. OnePlace /\ KeptIsLive /\ UNCHANGED <<arrived, fate>>
  BY PlaceNow
<1>c. MoveTo(M, l, b)
  BY <1>4 DEF MoveTo
<1>5. OnePlace' /\ KeptIsLive'
  BY <1>b, <1>c, MoveStep
<1>6. \A t \in Scope : Distinct(cancelled'[t])
  BY <1>2, EmptyContents, PlaceNow DEF AllDistinct
<1>7. TablesDistinct'
  BY <1>6, PlaceNow DEF TablesDistinct, AllDistinct
<1>8. (\A x \in held \cup turns : NoRepeats(x))'
  BY <1>1, PlaceNow
<1>9. WithheldAwaitsAck' /\ SteersOnce'
  BY PlaceNow DEF WithheldAwaitsAck, SteersOnce
<1> QED
  BY <1>5, <1>7, <1>8, <1>9 DEF PlaceInv

LEMMA PlaceFlush ==
    ASSUME QueueInv, PlaceInv, Flush
    PROVE  PlaceInv'
<1> DEFINE s == OldestHead(queues, Ready)
           n == IF Len(queues[s]) < MaxBatch THEN Len(queues[s]) ELSE MaxBatch
           taken == SubSeq(queues[s], 1, n)
           left == SubSeq(queues[s], n + 1, Len(queues[s]))
           batch(evs) == [scope |-> s, events |-> evs, cancelled |-> cancelled[s],
                          reason |-> IF cancelled[s] = <<>> THEN "none" ELSE cancelReason[s]]
<1>0. TypeOK
  BY DEF QueueInv
<1>1. /\ Ready # {}
      /\ \E evs \in SortedByCreation(taken) : HandOver(batch(evs))
      /\ queues' = [queues EXCEPT ![s] = left]
      /\ cancelled' = [cancelled EXCEPT ![s] = <<>>]
      /\ UNCHANGED <<withheld, steers, arrived, fate>>
  BY DEF Flush, TakeInFlight
<1>2. s \in Scope
  BY <1>0, <1>1, FlushedScope DEF Ready
<1>3. queues[s] \in Seq(Event) /\ cancelled[s] \in Seq(Event) /\ Len(queues[s]) \in Nat
  BY <1>0, <1>2, TypeNow, SeqFacts
<1>4. n \in Nat /\ n <= Len(queues[s])
  BY <1>3, ConstantsAssumption
<1> HIDE DEF s, n
<1>5. Distinct(queues[s]) /\ Distinct(cancelled[s])
  BY <1>2, PlaceNow DEF AllDistinct
<1>6. /\ taken \in Seq(Event) /\ left \in Seq(Event)
      /\ Elems(taken) \cup Elems(left) = Elems(queues[s])
      /\ Distinct(taken) /\ Distinct(left) /\ Elems(taken) \cap Elems(left) = {}
  BY <1>3, <1>4, <1>5, Cut
<1> HIDE DEF taken, left
<1>7. PICK evs \in SortedByCreation(taken) : HandOver(batch(evs))
  BY <1>1
<1>8. evs \in Seq(Event) /\ Elems(evs) = Elems(taken) /\ Distinct(evs)
  BY <1>6, SortedContents
<1>9. Elems(queues[s]) \cap Elems(cancelled[s]) = {}
  <2> SUFFICES ASSUME NEW e \in Elems(queues[s]), e \in Elems(cancelled[s]) PROVE FALSE
    OBVIOUS
  <2>1. Holds("queues", s, e) /\ Holds("cancelled", s, e)
    BY <1>2 DEF Holds
  <2> QED
    BY <2>1, PlaceNow, Elsewhere
<1> DEFINE b == batch(evs)
<1>10. /\ b \in Batch /\ b.events = evs /\ b.cancelled = cancelled[s]
  BY <1>0, <1>2, <1>3, <1>8 DEF Batch, Reason, TypeOK
<1> HIDE DEF b
<1>11. HandOver(b)
  BY <1>7 DEF b
<1>12. NoRepeats(b)
  BY <1>5, <1>6, <1>8, <1>9, <1>10 DEF NoRepeats
<1>13. BatchEvents(b) = Elems(taken) \cup Elems(cancelled[s])
  BY <1>8, <1>10 DEF BatchEvents
<1>14. \A t \in Scope : queues'[t] = IF t = s THEN left ELSE queues[t]
  BY <1>0, <1>1, TypeNow DEF Tables
<1>15. queues' \in Tables
  BY <1>0, <1>1, <1>6, TypeNow DEF Tables
<1>16. AllDistinct(queues')
  BY <1>6, <1>14, PlaceNow DEF AllDistinct
<1>17. \A t \in Scope : Elems(queues'[t]) \subseteq Elems(queues[t])
  BY <1>6, <1>14
<1>18. BatchEvents(b) \subseteq Elems(queues[s]) \cup Elems(cancelled[s])
  BY <1>6, <1>13
<1>19. BatchEvents(b) \cap Elems(queues'[s]) = {}
  BY <1>2, <1>6, <1>9, <1>13, <1>14
<1> HIDE DEF batch
<1> QED
  BY <1>0, <1>1, <1>2, <1>10, <1>11, <1>12, <1>15, <1>16, <1>17, <1>18, <1>19, PlaceHandOver

LEMMA PlaceFlushCancelled ==
    ASSUME QueueInv, PlaceInv, NEW s \in Scope, FlushCancelled(s)
    PROVE  PlaceInv'
<1> DEFINE b == [scope |-> s, events |-> cancelled[s], cancelled |-> <<>>,
                 reason |-> cancelReason[s]]
<1>0. TypeOK
  BY DEF QueueInv
<1>1. HandOver(b) /\ cancelled' = [cancelled EXCEPT ![s] = <<>>]
      /\ UNCHANGED <<queues, withheld, steers, arrived, fate>>
  BY DEF FlushCancelled, TakeInFlight
<1>2. b \in Batch /\ b.events = cancelled[s] /\ b.cancelled = <<>>
  BY <1>0, EmptySeq DEF Batch, TypeOK
<1> HIDE DEF b
<1>3. NoRepeats(b) /\ BatchEvents(b) = Elems(cancelled[s])
  BY <1>2, EmptyContents, PlaceNow DEF NoRepeats, BatchEvents, AllDistinct
<1>4. Elems(queues[s]) \cap Elems(cancelled[s]) = {}
  <2> SUFFICES ASSUME NEW e \in Elems(queues[s]), e \in Elems(cancelled[s]) PROVE FALSE
    OBVIOUS
  <2>1. Holds("queues", s, e) /\ Holds("cancelled", s, e)
    BY DEF Holds
  <2> QED
    BY <2>1, PlaceNow, Elsewhere
<1>5. queues' \in Tables /\ AllDistinct(queues')
      /\ \A t \in Scope : Elems(queues'[t]) \subseteq Elems(queues[t])
  BY <1>0, <1>1, TypeNow, PlaceNow
<1>6. /\ BatchEvents(b) \subseteq Elems(queues[s]) \cup Elems(cancelled[s])
      /\ BatchEvents(b) \cap Elems(queues'[s]) = {}
  BY <1>1, <1>3, <1>4
<1> QED
  BY <1>0, <1>1, <1>2, <1>3, <1>5, <1>6, PlaceHandOver

(* What a batch holds is in no table. *)
LEMMA BatchApart ==
    ASSUME PlaceInv, NEW b \in held \cup turns, NEW e \in BatchEvents(b)
    PROVE  /\ \A k, x : Holds(k, x, e) => x = b /\ k \in {"held", "turns"}
           /\ \A k, x : Holds(k, x, e) => k = IF b \in turns THEN "turns" ELSE "held"
           /\ \E k, x : Holds(k, x, e)
<1>1. CASE b \in turns
  <2>1. Holds("turns", b, e)
    BY <1>1 DEF Holds
  <2> QED
    BY <1>1, <2>1, PlaceNow, Elsewhere
<1>2. CASE b \notin turns
  <2>1. Holds("held", b, e)
    BY <1>2 DEF Holds
  <2> QED
    BY <1>2, <2>1, PlaceNow, Elsewhere
<1> QED
  BY <1>1, <1>2

LEMMA BatchTablesApart ==
    ASSUME TypeOK, PlaceInv, NEW b \in held \cup turns
    PROVE  /\ b.events \in Seq(Event) /\ b.cancelled \in Seq(Event) /\ b.scope \in Scope
           /\ Distinct(b.events) /\ Distinct(b.cancelled)
           /\ Elems(b.events) \cap Elems(b.cancelled) = {}
           /\ BatchEvents(b) = Elems(b.events) \cup Elems(b.cancelled)
           /\ \A t \in Scope : /\ BatchEvents(b) \cap Elems(queues[t]) = {}
                               /\ BatchEvents(b) \cap Elems(cancelled[t]) = {}
<1>1. /\ b.events \in Seq(Event) /\ b.cancelled \in Seq(Event) /\ b.scope \in Scope
      /\ Distinct(b.events) /\ Distinct(b.cancelled)
      /\ Elems(b.events) \cap Elems(b.cancelled) = {}
      /\ BatchEvents(b) = Elems(b.events) \cup Elems(b.cancelled)
  BY TypeNow, PlaceNow DEF NoRepeats, BatchEvents
<1>2. ASSUME NEW t \in Scope, NEW e \in BatchEvents(b)
      PROVE  e \notin Elems(queues[t]) /\ e \notin Elems(cancelled[t])
  <2>1. ~Holds("queues", t, e) /\ ~Holds("cancelled", t, e)
    BY BatchApart
  <2> QED
    BY <2>1 DEF Holds
<1> QED
  BY <1>1, <1>2

(* Batch b is gone; its events in A are pending again, those in C are      *)
(* carried over, and the others are settled.                               *)
Comes(b, A, C) ==
    /\ \/ b \in held /\ held' = held \ {b} /\ turns' = turns
       \/ b \in turns /\ turns' = turns \ {b} /\ held' = held
    /\ A \cap C = {} /\ A \cup C \subseteq BatchEvents(b)
    /\ \A t \in Scope : /\ Elems(queues'[t]) \subseteq Gained(queues, b.scope, A, t)
                        /\ Elems(cancelled'[t]) \subseteq Gained(cancelled, b.scope, C, t)
    /\ AllDistinct(queues') /\ AllDistinct(cancelled')
    /\ UNCHANGED <<withheld, steers, arrived>>
    /\ \A e \in Event : /\ fate'[e] = "steered" => fate[e] = "steered"
                        /\ fate'[e] = fate[e] \/ (e \in BatchEvents(b) /\ e \notin A \cup C)

LEMMA PlaceComes ==
    ASSUME TypeOK, PlaceInv, NEW b \in held \cup turns, NEW A, NEW C, Comes(b, A, C)
    PROVE  PlaceInv'
<1> DEFINE s == b.scope
           l == IF b \in held /\ held' = held \ {b} /\ turns' = turns THEN "held" ELSE "turns"
<1>1. /\ \/ l = "held" /\ b \in held /\ held' = held \ {b} /\ turns' = turns
         \/ l = "turns" /\ b \in turns /\ turns' = turns \ {b} /\ held' = held
      /\ A \cap C = {} /\ A \cup C \subseteq BatchEvents(b)
      /\ \A t \in Scope : /\ Elems(queues'[t]) \subseteq Gained(queues, s, A, t)
                          /\ Elems(cancelled'[t]) \subseteq Gained(cancelled, s, C, t)
      /\ AllDistinct(queues') /\ AllDistinct(cancelled')
      /\ UNCHANGED <<withheld, steers, arrived>>
  BY DEF Comes
<1> HIDE DEF l
<1>2. \A e \in BatchEvents(b) : Holds(l, b, e)
  BY <1>1 DEF Holds
<1>3. ASSUME NEW e, NEW k, NEW x, Holds(k, x, e)'
      PROVE  \/ e \notin BatchEvents(b) /\ Holds(k, x, e)
             \/ e \in A /\ k = "queues" /\ x = s
             \/ e \in C /\ k = "cancelled" /\ x = s
  <2>1. CASE k = "queues"
    <3>1. x \in Scope /\ e \in Gained(queues, s, A, x)
      BY <1>1, <1>3, <2>1 DEF Holds
    <3>2. CASE x = s /\ e \in A
      BY <2>1, <3>2
    <3>3. CASE ~(x = s /\ e \in A)
      <4>1. Holds("queues", x, e)
        BY <3>1, <3>3 DEF Gained, Holds
      <4> QED
        BY <1>1, <1>2, <2>1, <4>1, PlaceNow, Elsewhere
    <3> QED
      BY <3>2, <3>3
  <2>2. CASE k = "cancelled"
    <3>1. x \in Scope /\ e \in Gained(cancelled, s, C, x)
      BY <1>1, <1>3, <2>2 DEF Holds
    <3>2. CASE x = s /\ e \in C
      BY <2>2, <3>2
    <3>3. CASE ~(x = s /\ e \in C)
      <4>1. Holds("cancelled", x, e)
        BY <3>1, <3>3 DEF Gained, Holds
      <4> QED
        BY <1>1, <1>2, <2>2, <4>1, PlaceNow, Elsewhere
    <3> QED
      BY <3>2, <3>3
  <2>3. CASE k \notin {"queues", "cancelled"}
    <3>1. Holds(k, x, e) /\ <<k, x>> # <<l, b>>
      BY <1>1, <1>3, <2>3 DEF Holds
    <3> QED
      BY <1>2, <3>1, PlaceNow, Elsewhere
  <2> QED
    BY <2>1, <2>2, <2>3
<1>4. OnePlace'
  <2>1. ASSUME NEW e
        PROVE  \/ \A k, x : Holds(k, x, e)' => Holds(k, x, e)
               \/ \E m, z : \A k, x : Holds(k, x, e)' => k = m /\ x = z
    <3>1. CASE e \in A
      BY <1>1, <1>3, <3>1
    <3>2. CASE e \in C
      BY <1>1, <1>3, <3>2
    <3>3. CASE e \notin A \cup C
      BY <1>3, <3>3
    <3> QED
      BY <3>1, <3>2, <3>3
  <2> QED
    BY <2>1, PlaceNow, OnePlaceStep
<1>5. KeptIsLive'
  <2>1. ASSUME NEW e, NEW k, NEW x, Holds(k, x, e)'
        PROVE  fate'[e] = fate[e] /\ \E m, z : Holds(m, z, e)
    <3>1. \E m, z : Holds(m, z, e)
      BY <1>1, <1>2, <1>3, <2>1
    <3>2. e \in Event
      BY <3>1, HoldsType
    <3>3. e \notin BatchEvents(b) \/ e \in A \cup C
      BY <1>3, <2>1
    <3> QED
      BY <3>1, <3>2, <3>3 DEF Comes
  <2> QED
    BY <1>1, <2>1, PlaceNow, LiveStep
<1>6. SteersOnce'
  <2>1. ASSUME NEW a \in steers PROVE fate'[a[2]] # "steered"
    <3>1. a[2] \in Event
      BY DEF TypeOK
    <3>2. fate[a[2]] # "steered"
      BY PlaceNow DEF SteersOnce
    <3> QED
      BY <3>1, <3>2 DEF Comes
  <2> QED
    BY <1>1, <2>1, PlaceNow, SteersStep
<1>7. TablesDistinct' /\ WithheldAwaitsAck' /\ (\A x \in held \cup turns : NoRepeats(x))'
  BY <1>1, PlaceNow DEF TablesDistinct, AllDistinct, WithheldAwaitsAck
<1> QED
  BY <1>4, <1>5, <1>6, <1>7 DEF PlaceInv

(* A scope's carry-over gets the events of evs, in whatever order. *)
LEMMA CarriedOver ==
    ASSUME TypeOK, PlaceInv, NEW s \in Scope, NEW q \in Seq(Event), NEW C,
           Elems(q) = Elems(cancelled[s]) \cup C, Distinct(q),
           cancelled' = [cancelled EXCEPT ![s] = q]
    PROVE  /\ AllDistinct(cancelled')
           /\ \A t \in Scope : Elems(cancelled'[t]) = Gained(cancelled, s, C, t)
<1>1. \A t \in Scope : cancelled'[t] = IF t = s THEN q ELSE cancelled[t]
  BY TypeNow DEF Tables
<1> QED
  BY <1>1, PlaceNow DEF AllDistinct, Gained

LEMMA PlaceReturnHeld ==
    ASSUME QueueInv, PlaceInv, NEW b \in held, ReturnHeld(b)
    PROVE  PlaceInv'
<1> DEFINE s == b.scope
           A == Elems(b.events)
           C == Elems(b.cancelled)
           q == b.cancelled \o cancelled[s]
<1>0. TypeOK /\ queues \in Tables /\ cancelled \in Tables
  BY TypeNow DEF QueueInv
<1>1. /\ held' = held \ {b} /\ queues' = PushFront(queues, s, b.events)
      /\ cancelled' = [cancelled EXCEPT ![s] = q]
      /\ UNCHANGED <<withheld, turns, steers, arrived, fate>>
  BY DEF ReturnHeld
<1>2. /\ b.events \in Seq(Event) /\ b.cancelled \in Seq(Event) /\ s \in Scope
      /\ Distinct(b.events) /\ Distinct(b.cancelled) /\ A \cap C = {}
      /\ BatchEvents(b) = A \cup C
      /\ BatchEvents(b) \cap Elems(queues[s]) = {} /\ BatchEvents(b) \cap Elems(cancelled[s]) = {}
  BY <1>0, BatchTablesApart
<1>3. Takes(queues', queues, s, A)
  BY <1>0, <1>1, <1>2, PushFrontTakes
<1>4. A \cap Elems(queues[s]) = {} /\ C \cap Elems(cancelled[s]) = {}
  BY <1>2
<1>5. AllDistinct(queues') /\ \A t \in Scope : Elems(queues'[t]) \subseteq Gained(queues, s, A, t)
  BY <1>3, <1>4, PlaceNow DEF Takes
<1>6. cancelled[s] \in Seq(Event) /\ Distinct(cancelled[s])
  BY <1>0, <1>2, TypeNow, PlaceNow DEF AllDistinct
<1>7. q \in Seq(Event) /\ Elems(q) = C \cup Elems(cancelled[s]) /\ Distinct(q)
  BY <1>2, <1>4, <1>6, Joined
<1> HIDE DEF q, A, C, s
<1>8. Elems(q) = Elems(cancelled[s]) \cup C
  BY <1>7
<1>9. AllDistinct(cancelled') /\ \A t \in Scope : Elems(cancelled'[t]) = Gained(cancelled, s, C, t)
  BY <1>0, <1>1, <1>2, <1>7, <1>8, CarriedOver
<1>10. Comes(b, A, C)
  BY <1>1, <1>2, <1>5, <1>9 DEF Comes, s
<1> QED
  BY <1>0, <1>10, PlaceComes

LEMMA PlaceTurn ==
    ASSUME QueueInv, PlaceInv, NEW b \in turns, TurnReturns(b)
    PROVE  PlaceInv'
<1> DEFINE s == b.scope
           A == Elems(b.events)
           C == Elems(b.cancelled)
<1>0. TypeOK /\ queues \in Tables /\ cancelled \in Tables
  BY TypeNow DEF QueueInv
<1>1. turns' = turns \ {b} /\ UNCHANGED <<withheld, held, steers, arrived>>
  BY DEF TurnReturns, TurnSucceeded, TurnDiscarded, TurnDeadLettered, TurnFailed, TurnCancelled,
         Returns
<1>2. /\ b.events \in Seq(Event) /\ b.cancelled \in Seq(Event) /\ s \in Scope
      /\ Distinct(b.events) /\ Distinct(b.cancelled) /\ A \cap C = {}
      /\ BatchEvents(b) = A \cup C
      /\ BatchEvents(b) \cap Elems(queues[s]) = {} /\ BatchEvents(b) \cap Elems(cancelled[s]) = {}
  BY <1>0, BatchTablesApart
<1>3. cancelled[s] \in Seq(Event) /\ Distinct(cancelled[s])
  BY <1>0, <1>2, TypeNow, PlaceNow DEF AllDistinct
<1> HIDE DEF s, A, C
<1>4. ASSUME NEW f, f # "steered", fate' = Settle(BatchEvents(b), f), UNCHANGED <<queues, cancelled>>
      PROVE  PlaceInv'
  <2>1. \A e \in Event : fate'[e] = IF e \in BatchEvents(b) THEN f ELSE fate[e]
    BY <1>4 DEF Settle
  <2>2. AllDistinct(queues') /\ AllDistinct(cancelled')
    BY <1>4, PlaceNow
  <2>3. \A t \in Scope : /\ Elems(queues'[t]) \subseteq Gained(queues, b.scope, {}, t)
                         /\ Elems(cancelled'[t]) \subseteq Gained(cancelled, b.scope, {}, t)
    BY <1>4 DEF Gained
  <2>4. Comes(b, {}, {})
    BY <1>1, <1>4, <2>1, <2>2, <2>3 DEF Comes
  <2> QED
    BY <1>0, <2>4, PlaceComes
<1>5. CASE TurnSucceeded(b)
  BY <1>4, <1>5 DEF TurnSucceeded
<1>6. CASE TurnDiscarded(b)
  BY <1>4, <1>6 DEF TurnDiscarded
<1>7. CASE TurnDeadLettered(b)
  BY <1>4, <1>7 DEF TurnDeadLettered
<1>8. CASE TurnFailed(b)
  <2>1. CASE fate' = Settle(BatchEvents(b), "dead_letter") /\ UNCHANGED <<queues, cancelled>>
    BY <1>4, <2>1
  <2>2. CASE /\ queues' = PushFront(queues, s, b.events)
             /\ fate' = Settle(C, "context_lost") /\ UNCHANGED cancelled
    <3>1. Takes(queues', queues, s, A)
      BY <1>0, <1>2, <2>2, PushFrontTakes DEF A
    <3>2. A \cap Elems(queues[s]) = {}
      BY <1>2
    <3>3. AllDistinct(queues') /\ \A t \in Scope : Elems(queues'[t]) \subseteq Gained(queues, s, A, t)
      BY <3>1, <3>2, PlaceNow DEF Takes
    <3>4. \A e \in Event : fate'[e] = IF e \in C THEN "context_lost" ELSE fate[e]
      BY <2>2 DEF Settle
    <3>5. AllDistinct(cancelled') /\ \A t \in Scope : Elems(cancelled'[t]) \subseteq Gained(cancelled, s, {}, t)
      BY <2>2, PlaceNow DEF Gained
    <3>6. Comes(b, A, {})
      BY <1>1, <1>2, <3>3, <3>4, <3>5 DEF Comes, s
    <3> QED
      BY <1>0, <3>6, PlaceComes
  <2> QED
    BY <1>8, <2>1, <2>2 DEF TurnFailed, s, C
<1>9. ASSUME NEW reason \in {"steer", "interrupt"}, TurnCancelled(b, reason) PROVE PlaceInv'
  <2> DEFINE q == cancelled[s] \o b.cancelled
             r == q \o b.events
  <2>1. cancelled' = [cancelled EXCEPT ![s] = r] /\ UNCHANGED <<queues, fate>>
    BY <1>9 DEF TurnCancelled, s
  <2>2. Elems(cancelled[s]) \cap C = {} /\ (Elems(cancelled[s]) \cup C) \cap A = {}
    BY <1>2
  <2>3. q \in Seq(Event) /\ Elems(q) = Elems(cancelled[s]) \cup C /\ Distinct(q)
    BY <1>2, <1>3, <2>2, Joined DEF C
  <2> HIDE DEF q
  <2>4. r \in Seq(Event) /\ Elems(r) = Elems(q) \cup A /\ Distinct(r)
    BY <1>2, <2>2, <2>3, Joined DEF A
  <2> HIDE DEF r
  <2>5. Elems(r) = Elems(cancelled[s]) \cup BatchEvents(b)
    BY <1>2, <2>3, <2>4
  <2>6. /\ AllDistinct(cancelled')
        /\ \A t \in Scope : Elems(cancelled'[t]) = Gained(cancelled, s, BatchEvents(b), t)
    BY <1>0, <1>2, <2>1, <2>4, <2>5, CarriedOver
  <2>7. AllDistinct(queues') /\ \A t \in Scope : Elems(queues'[t]) \subseteq Gained(queues, s, {}, t)
    BY <2>1, PlaceNow DEF Gained
  <2>8. Comes(b, {}, BatchEvents(b))
    BY <1>1, <2>1, <2>6, <2>7 DEF Comes, s
  <2> QED
    BY <1>0, <2>8, PlaceComes
<1> QED
  BY <1>5, <1>6, <1>7, <1>8, <1>9 DEF TurnReturns

(* An acknowledgement empties the side table of its event and of nothing else. *)
LEMMA AckWithheld ==
    ASSUME TypeOK, PlaceInv, NEW s \in Scope, NEW e \in Event, Acknowledge(s, e),
           withheld' = [withheld EXCEPT ![s] = Without(@, e)]
    PROVE  /\ \A t \in Scope : /\ Distinct(withheld'[t])
                               /\ Elems(withheld'[t]) \subseteq Elems(withheld[t])
           /\ e \notin Elems(withheld'[s])
           /\ WithheldAwaitsAck'
           /\ \A a \in steers' : a \in steers /\ a[2] # e
<1>1. withheld[s] \in Seq(Event) /\ Distinct(withheld[s]) /\ withheld \in Tables
  BY TypeNow, PlaceNow DEF AllDistinct
<1>2. \A t \in Scope : withheld'[t] = IF t = s THEN Without(withheld[s], e) ELSE withheld[t]
  BY <1>1 DEF Tables
<1>3. /\ Elems(Without(withheld[s], e)) \subseteq Elems(withheld[s])
      /\ Distinct(Without(withheld[s], e)) /\ e \notin Elems(Without(withheld[s], e))
  BY <1>1, WithoutContents
<1>4. \A t \in Scope : Distinct(withheld'[t]) /\ Elems(withheld'[t]) \subseteq Elems(withheld[t])
  BY <1>2, <1>3, PlaceNow DEF AllDistinct
<1>5. e \notin Elems(withheld'[s])
  BY <1>2, <1>3
<1>6. <<s, e>> \in steers /\ steers' = steers \ {<<s, e>>} /\ <<s, e>>[2] = e
  BY DEF Acknowledge
<1>7. ASSUME NEW t \in Scope, NEW d \in Elems(withheld'[t]) PROVE <<t, d>> \in steers'
  <2>1. <<t, d>> \in steers
    BY <1>4, <1>7, PlaceNow DEF WithheldAwaitsAck
  <2>2. t # s \/ d # e
    BY <1>5, <1>7
  <2> QED
    BY <1>6, <2>1, <2>2
<1>8. ASSUME NEW a \in steers' PROVE a \in steers /\ a[2] # e
  BY <1>6, <1>8, PlaceNow DEF SteersOnce
<1> QED
  BY <1>4, <1>5, <1>7, <1>8 DEF WithheldAwaitsAck

LEMMA PlaceSteerDelivered ==
    ASSUME QueueInv, PlaceInv, NEW s \in Scope, NEW e \in Event, SteerDelivered(s, e)
    PROVE  PlaceInv'
<1>0. TypeOK /\ queues \in Tables /\ queues[s] \in Seq(Event) /\ Distinct(queues[s])
  BY TypeNow, PlaceNow DEF QueueInv, AllDistinct
<1>1. /\ Acknowledge(s, e) /\ withheld' = [withheld EXCEPT ![s] = Without(@, e)]
      /\ queues' = [queues EXCEPT ![s] = Without(@, e)]
      /\ fate' = Settle({e}, "steered")
      /\ UNCHANGED <<cancelled, held, turns, arrived>>
  BY DEF SteerDelivered
<1>2. /\ \A t \in Scope : /\ Distinct(withheld'[t])
                          /\ Elems(withheld'[t]) \subseteq Elems(withheld[t])
      /\ WithheldAwaitsAck'
      /\ \A a \in steers' : a \in steers /\ a[2] # e
  BY <1>0, <1>1, AckWithheld
<1>3. \A t \in Scope : Distinct(queues'[t]) /\ Elems(queues'[t]) \subseteq Elems(queues[t])
  <2>1. \A t \in Scope : queues'[t] = IF t = s THEN Without(queues[s], e) ELSE queues[t]
    BY <1>0, <1>1 DEF Tables
  <2>2. /\ Elems(Without(queues[s], e)) \subseteq Elems(queues[s])
        /\ Distinct(Without(queues[s], e))
    BY <1>0, WithoutContents
  <2> QED
    BY <2>1, <2>2, PlaceNow DEF AllDistinct
<1>4. \A d, k, x : Holds(k, x, d)' => Holds(k, x, d)
  BY <1>1, <1>2, <1>3 DEF Holds
<1>5. OnePlace'
  BY <1>4, PlaceNow, OnePlaceStep
<1>6. TablesDistinct' /\ (\A b \in held \cup turns : NoRepeats(b))'
  BY <1>1, <1>2, <1>3, PlaceNow DEF TablesDistinct, AllDistinct
<1>7. KeptIsLive'
  <2> SUFFICES ASSUME NEW d, NEW k, NEW x, Holds(k, x, d)' PROVE Live(d)'
    BY DEF KeptIsLive
  <2>1. Holds(k, x, d)
    BY <1>4
  <2>2. Live(d) /\ d \in Event
    BY <1>0, <2>1, HoldsType, PlaceNow DEF KeptIsLive
  <2>3. fate'[d] = IF d \in {e} THEN "steered" ELSE fate[d]
    BY <1>1, <2>2, SettleAt
  <2> QED
    BY <1>1, <2>2, <2>3 DEF Live
<1>8. SteersOnce'
  <2>1. ASSUME NEW a \in steers' PROVE fate'[a[2]] # "steered"
    <3>1. a \in steers /\ a[2] # e /\ a[2] \in Event
      BY <1>0, <1>2, <2>1 DEF TypeOK
    <3>2. fate[a[2]] # "steered"
      BY <3>1, PlaceNow DEF SteersOnce
    <3>3. fate'[a[2]] = IF a[2] \in {e} THEN "steered" ELSE fate[a[2]]
      BY <1>1, <3>1, SettleAt
    <3> QED
      BY <3>1, <3>2, <3>3
  <2>2. steers' \subseteq steers /\ arrived' \in {arrived, arrived + 1}
    BY <1>1, <1>2
  <2> QED
    BY <1>0, <2>1, <2>2, PlaceNow, SteersStep
<1> QED
  BY <1>2, <1>5, <1>6, <1>7, <1>8 DEF PlaceInv

LEMMA PlaceSteerReleased ==
    ASSUME QueueInv, PlaceInv, NEW s \in Scope, NEW e \in Event, SteerReleased(s, e)
    PROVE  PlaceInv'
<1> DEFINE M == IF e \in Elems(withheld[s]) THEN {e} ELSE {}
<1>0. TypeOK /\ queues \in Tables
  BY TypeNow DEF QueueInv
<1>1. /\ Acknowledge(s, e) /\ withheld' = [withheld EXCEPT ![s] = Without(@, e)]
      /\ UNCHANGED <<cancelled, held, turns, arrived, fate>>
  BY DEF SteerReleased
<1>2. /\ \A t \in Scope : /\ Distinct(withheld'[t])
                          /\ Elems(withheld'[t]) \subseteq Elems(withheld[t])
      /\ e \notin Elems(withheld'[s])
      /\ WithheldAwaitsAck'
      /\ \A a \in steers' : a \in steers /\ a[2] # e
  BY <1>0, <1>1, AckWithheld
<1>3. \A d \in M : d = e /\ Holds("withheld", s, d)
  BY DEF Holds
<1>4. /\ \A t \in Scope : Elems(queues'[t]) \subseteq Gained(queues, s, M, t)
      /\ AllDistinct(queues')
  <2>1. CASE e \notin Elems(withheld[s])
    <3>1. queues' = queues
      BY <2>1 DEF SteerReleased
    <3> QED
      BY <3>1, PlaceNow DEF Gained
  <2>2. CASE e \in Elems(withheld[s])
    <3>1. queues' = PushFront(queues, s, <<e>>) /\ M = {e}
      BY <2>2 DEF SteerReleased
    <3>2. <<e>> \in Seq(Event) /\ Elems(<<e>>) = {e} /\ Distinct(<<e>>)
      BY DEF Elems, Distinct
    <3>3. Takes(queues', queues, s, {e})
      BY <1>0, <3>1, <3>2, PushFrontTakes
    <3>4. {e} \cap Elems(queues[s]) = {}
      <4>1. Holds("withheld", s, e)
        BY <2>2 DEF Holds
      <4>2. ~Holds("queues", s, e)
        BY <4>1, PlaceNow, Elsewhere
      <4> QED
        BY <4>2 DEF Holds
    <3> QED
      BY <3>1, <3>3, <3>4, PlaceNow DEF Takes
  <2> QED
    BY <2>1, <2>2
<1> HIDE DEF M
<1>5. ASSUME NEW d, NEW k, NEW x, Holds(k, x, d)'
      PROVE  \/ d \notin M /\ Holds(k, x, d)
             \/ d \in M /\ k = "queues" /\ x = s /\ \E m, z : Holds(m, z, d)
  <2>1. CASE k = "queues"
    <3>1. x \in Scope /\ d \in Gained(queues, s, M, x)
      BY <1>4, <1>5, <2>1 DEF Holds
    <3>2. CASE x = s /\ d \in M
      BY <1>3, <2>1, <3>2
    <3>3. CASE ~(x = s /\ d \in M)
      <4>1. Holds("queues", x, d)
        BY <3>1, <3>3 DEF Gained, Holds
      <4>2. d \notin M
        BY <1>3, <4>1, PlaceNow, Elsewhere
      <4> QED
        BY <2>1, <4>1, <4>2
    <3> QED
      BY <3>2, <3>3
  <2>2. CASE k = "withheld"
    <3>1. Holds("withheld", x, d) /\ ~(x = s /\ d = e)
      BY <1>2, <1>5, <2>2 DEF Holds
    <3> QED
      BY <1>3, <2>2, <3>1, PlaceNow, Elsewhere
  <2>3. CASE k \notin {"queues", "withheld"}
    <3>1. Holds(k, x, d)
      BY <1>1, <1>5, <2>3 DEF Holds
    <3> QED
      BY <1>3, <2>3, <3>1, PlaceNow, Elsewhere
  <2> QED
    BY <2>1, <2>2, <2>3
<1>6. MoveTo(M, "queues", s)
  BY <1>5 DEF MoveTo
<1>7. OnePlace' /\ KeptIsLive'
  BY <1>1, <1>6, PlaceNow, MoveStep
<1>8. TablesDistinct' /\ (\A b \in held \cup turns : NoRepeats(b))'
  BY <1>1, <1>2, <1>4, PlaceNow DEF TablesDistinct, AllDistinct
<1>9. SteersOnce'
  <2>1. steers' \subseteq steers /\ arrived' \in {arrived, arrived + 1}
    BY <1>1, <1>2
  <2>2. \A a \in steers' : fate'[a[2]] # "steered"
    BY <1>1, <2>1, PlaceNow DEF SteersOnce
  <2> QED
    BY <1>0, <2>1, <2>2, PlaceNow, SteersStep
<1> QED
  BY <1>2, <1>7, <1>8, <1>9 DEF PlaceInv

(* What a removed channel has pending is dropped, and was nowhere else. *)
LEMMA PlaceDrain ==
    ASSUME QueueInv, PlaceInv, NEW c \in Channel, Drain(c)
    PROVE  PlaceInv'
<1> DEFINE D == UNION {Pending(s) : s \in ScopesOf(c)}
<1>0. TypeOK
  BY DEF QueueInv
<1>1. /\ queues' = Cleared(queues, c, <<>>) /\ cancelled' = Cleared(cancelled, c, <<>>)
      /\ withheld' = Cleared(withheld, c, <<>>) /\ fate' = Settle(D, "drained")
      /\ UNCHANGED <<held, turns, steers, arrived>>
  BY DEF Drain
<1>2. ASSUME NEW t \in Scope
      PROVE  /\ queues'[t] = IF ChannelOf[t] = c THEN <<>> ELSE queues[t]
             /\ cancelled'[t] = IF ChannelOf[t] = c THEN <<>> ELSE cancelled[t]
             /\ withheld'[t] = IF ChannelOf[t] = c THEN <<>> ELSE withheld[t]
  BY <1>1 DEF Cleared
<1>3. TablesDistinct'
  BY <1>2, EmptyContents, PlaceNow DEF TablesDistinct, AllDistinct
<1>4. WithheldAwaitsAck'
  BY <1>1, <1>2, EmptyContents, PlaceNow DEF WithheldAwaitsAck
<1>5. ASSUME NEW e, NEW k, NEW x, Holds(k, x, e)'
      PROVE  /\ Holds(k, x, e)
             /\ k \in {"queues", "cancelled", "withheld"} => x \notin ScopesOf(c)
  <2>1. CASE k \in {"queues", "cancelled", "withheld"}
    <3>1. x \in Scope
      BY <1>5, <2>1 DEF Holds
    <3>2. ChannelOf[x] # c
      BY <1>2, <1>5, <2>1, <3>1, EmptyContents DEF Holds
    <3> QED
      BY <1>2, <1>5, <2>1, <3>1, <3>2 DEF Holds, ScopesOf
  <2>2. CASE k \in {"held", "turns"}
    BY <1>1, <1>5, <2>2 DEF Holds
  <2> QED
    BY <1>5, <2>1, <2>2 DEF Holds
<1>6. OnePlace'
  BY <1>5, PlaceNow, OnePlaceStep
<1>7. ASSUME NEW e, NEW k, NEW x, Holds(k, x, e)'
      PROVE  e \notin D
  <2> SUFFICES ASSUME NEW s \in ScopesOf(c), e \in Pending(s) PROVE FALSE
    OBVIOUS
  <2>1. s \in Scope
    BY DEF ScopesOf
  <2>2. PICK m \in {"queues", "cancelled", "withheld"} : Holds(m, s, e)
    BY <2>1 DEF Pending, Holds
  <2>3. Holds(k, x, e)
    BY <1>5, <1>7
  <2>4. k = m /\ x = s
    BY <2>2, <2>3, PlaceNow, Elsewhere
  <2> QED
    BY <1>5, <1>7, <2>2, <2>4
<1> HIDE DEF D
<1>8. KeptIsLive'
  <2>1. ASSUME NEW e, NEW k, NEW x, Holds(k, x, e)'
        PROVE  fate'[e] = fate[e] /\ \E m, z : Holds(m, z, e)
    <3>1. Holds(k, x, e) /\ e \notin D
      BY <1>5, <1>7, <2>1
    <3>2. e \in Event
      BY <1>0, <3>1, HoldsType
    <3>3. fate'[e] = IF e \in D THEN "drained" ELSE fate[e]
      BY <1>1, <3>2, SettleAt
    <3> QED
      BY <3>1, <3>3
  <2> QED
    BY <1>1, <2>1, PlaceNow, LiveStep
<1>9. SteersOnce'
  <2>1. "drained" # "steered" /\ arrived' \in {arrived, arrived + 1}
    BY <1>1
  <2> QED
    BY <1>0, <1>1, <2>1, PlaceNow, SteersSettled
<1>10. (\A b \in held \cup turns : NoRepeats(b))'
  BY <1>1, PlaceNow
<1> QED
  BY <1>3, <1>4, <1>6, <1>8, <1>9, <1>10 DEF PlaceInv

LEMMA PlaceInit == ASSUME Init PROVE PlaceInv
<1>1. \A t \in Scope : queues[t] = <<>> /\ cancelled[t] = <<>> /\ withheld[t] = <<>>
  BY DEF Init
<1>2. held = {} /\ turns = {} /\ steers = {}
  BY DEF Init
<1>3. \A e, k, x : ~Holds(k, x, e)
  BY <1>1, <1>2, EmptyContents DEF Holds
<1>4. OnePlace /\ KeptIsLive
  BY <1>3 DEF OnePlace, KeptIsLive
<1>5. TablesDistinct /\ WithheldAwaitsAck /\ SteersOnce
  BY <1>1, <1>2, EmptyContents DEF TablesDistinct, AllDistinct, WithheldAwaitsAck, SteersOnce
<1> QED
  BY <1>2, <1>4, <1>5 DEF PlaceInv

LEMMA PlaceNext == ASSUME QueueInv, PlaceInv, [Next]_vars PROVE PlaceInv'
<1>0. TypeOK
  BY DEF QueueInv
<1>1. CASE UNCHANGED vars
  BY <1>0, <1>1, PlaceFrame DEF vars
<1>2. ASSUME NEW s \in Scope, PushRefused(s) PROVE PlaceInv'
  <2>1. UNCHANGED <<queues, cancelled, withheld, held, turns, steers>>
    BY <1>2 DEF PushRefused, queueVars
  <2> QED
    BY <1>0, <1>2, <2>1, PlaceFrame
<1>3. ASSUME NEW a \in steers, SteerDelivered(a[1], a[2]) \/ SteerReleased(a[1], a[2])
      PROVE  PlaceInv'
  <2>1. a[1] \in Scope /\ a[2] \in Event
    BY <1>0 DEF TypeOK
  <2> QED
    BY <1>3, <2>1, PlaceSteerDelivered, PlaceSteerReleased
<1>4. ASSUME NEW c \in Channel, Rejoin(c) PROVE PlaceInv'
  BY <1>0, <1>4, PlaceFrame DEF Rejoin, queueVars
<1>5. CASE CompactExpiredState
  BY <1>0, <1>5, PlaceFrame DEF CompactExpiredState
<1>6. CASE Tick
  BY <1>0, <1>6, PlaceFrame DEF Tick
<1> QED
  BY <1>1, <1>2, <1>3, <1>4, <1>5, <1>6, PlacePush, PlaceSteerPush, PlaceExpire, PlaceFlush,
     PlaceFlushCancelled, PlaceReturnHeld, PlaceTurn, PlaceDrain DEF Next

-----------------------------------------------------------------------------
(* A held batch owns its scope. *)

LEMMA HeldHandOver ==
    ASSUME TypeOK, HeldOwnsScope, NEW b \in Batch, NEW s \in Scope \ inFlight, b.scope = s,
           HandOver(b), TakeInFlight(s)
    PROVE  HeldOwnsScope'
<1>1. /\ inFlight' = inFlight \cup {s}
      /\ \A t \in Scope : deadline'[t] = IF t = s THEN TurnDeadline ELSE deadline[t]
  BY DEF TakeInFlight, TypeOK
<1>2. TurnDeadline > 0
  BY ConstantsAssumption
<1>3. \A x \in held' : x = b \/ x \in held
  BY DEF HandOver
<1>4. \A x \in held : x.scope \in Scope /\ x.scope # s
  BY TypeNow DEF HeldOwnsScope
<1>5. \A x \in held' : x.scope \in inFlight' /\ deadline'[x.scope] > 0
  BY <1>1, <1>2, <1>3, <1>4 DEF HeldOwnsScope
<1>6. \A x, y \in held' : x.scope = y.scope => x = y
  BY <1>3, <1>4 DEF HeldOwnsScope
<1> QED
  BY <1>5, <1>6 DEF HeldOwnsScope

LEMMA HeldFlush ==
    ASSUME QueueInv, HeldOwnsScope, Flush
    PROVE  HeldOwnsScope'
<1> DEFINE s == OldestHead(queues, Ready)
           n == IF Len(queues[s]) < MaxBatch THEN Len(queues[s]) ELSE MaxBatch
           taken == SubSeq(queues[s], 1, n)
           reason == IF cancelled[s] = <<>> THEN "none" ELSE cancelReason[s]
<1>0. TypeOK
  BY DEF QueueInv
<1>1. Ready # {}
  BY DEF Flush
<1>2. s \in Ready /\ taken \in Seq(Event)
  BY <1>0, <1>1, FlushedScope
<1>3. s \in Scope \ inFlight /\ cancelled[s] \in Seq(Event) /\ reason \in Reason
  BY <1>0, <1>2, TypeNow DEF Ready, Reason, TypeOK
<1>4. PICK evs \in SortedByCreation(taken) :
          HandOver([scope |-> s, events |-> evs, cancelled |-> cancelled[s], reason |-> reason])
  BY DEF Flush
<1>5. TakeInFlight(s)
  BY DEF Flush
<1> DEFINE b == [scope |-> s, events |-> evs, cancelled |-> cancelled[s], reason |-> reason]
<1> HIDE DEF s, n, taken, reason
<1>6. evs \in Seq(Event)
  BY <1>2, <1>4, SortedContents
<1>7. b \in Batch /\ b.scope = s /\ HandOver(b)
  BY <1>3, <1>4, <1>6 DEF Batch
<1> HIDE DEF b
<1> QED
  BY <1>0, <1>3, <1>5, <1>7, HeldHandOver

LEMMA HeldFlushCancelled ==
    ASSUME QueueInv, HeldOwnsScope, NEW s \in Scope, FlushCancelled(s)
    PROVE  HeldOwnsScope'
<1> DEFINE b == [scope |-> s, events |-> cancelled[s], cancelled |-> <<>>,
                 reason |-> cancelReason[s]]
<1>0. TypeOK
  BY DEF QueueInv
<1>1. HandOver(b) /\ TakeInFlight(s) /\ s \in Scope \ inFlight
  BY DEF FlushCancelled
<1>2. cancelled[s] \in Seq(Event) /\ cancelReason[s] \in Reason /\ <<>> \in Seq(Event)
  BY <1>0, EmptyContents DEF TypeOK
<1>3. b \in Batch /\ b.scope = s
  BY <1>2 DEF Batch
<1> HIDE DEF b
<1> QED
  BY <1>0, <1>1, <1>3, HeldHandOver

LEMMA HeldReturn ==
    ASSUME QueueInv, HeldOwnsScope, NEW b \in held, ReturnHeld(b)
    PROVE  HeldOwnsScope'
<1>0. TypeOK /\ \A x \in held : x.scope \in Scope
  BY TypeNow DEF QueueInv
<1>1. held' = held \ {b} /\ inFlight' = inFlight \ {b.scope}
  BY DEF ReturnHeld, MarkComplete
<1>2. \A t \in Scope : deadline'[t] = IF t = b.scope THEN NoDeadline ELSE deadline[t]
  BY <1>0 DEF ReturnHeld, MarkComplete, TypeOK
<1>3. \A x \in held' : x \in held /\ x.scope \in Scope /\ x.scope # b.scope
  BY <1>0, <1>1 DEF HeldOwnsScope
<1> QED
  BY <1>1, <1>2, <1>3 DEF HeldOwnsScope

LEMMA HeldNext == ASSUME QueueInv, HeldOwnsScope, [Next]_vars PROVE HeldOwnsScope'
<1>0. TypeOK
  BY DEF QueueInv
<1>1. ASSUME held' = {} PROVE HeldOwnsScope'
  BY <1>1 DEF HeldOwnsScope
<1>2. CASE UNCHANGED vars
  BY <1>2 DEF vars, HeldOwnsScope
<1>3. ASSUME NEW s \in Scope, Push(s) \/ PushRefused(s) \/ SteerPush(s) PROVE HeldOwnsScope'
  BY <1>1, <1>3 DEF Push, PushRefused, SteerPush, Arrive
<1>4. ASSUME NEW s \in Scope, ExpireInFlight(s) PROVE HeldOwnsScope'
  <2>1. /\ held' = held /\ inFlight' = inFlight \ {s} /\ deadline[s] = 0
        /\ \A t \in Scope : deadline'[t] = IF t = s THEN NoDeadline ELSE deadline[t]
    BY <1>0, <1>4 DEF ExpireInFlight, Overdue, TypeOK
  <2>2. \A x \in held : x.scope \in Scope /\ x.scope # s
    BY <1>0, <2>1, TypeNow DEF HeldOwnsScope
  <2> QED
    BY <2>1, <2>2 DEF HeldOwnsScope
<1>5. ASSUME NEW b \in turns, TurnReturns(b) PROVE HeldOwnsScope'
  BY <1>1, <1>5 DEF TurnReturns, TurnSucceeded, TurnDiscarded, TurnDeadLettered, TurnFailed,
                    TurnCancelled, Returns
<1>6. ASSUME NEW a \in steers, SteerDelivered(a[1], a[2]) \/ SteerReleased(a[1], a[2])
      PROVE  HeldOwnsScope'
  BY <1>1, <1>6 DEF SteerDelivered, SteerReleased, Acknowledge
<1>7. ASSUME NEW c \in Channel, Drain(c) \/ Rejoin(c) PROVE HeldOwnsScope'
  BY <1>1, <1>7 DEF Drain, Rejoin
<1>8. CASE CompactExpiredState \/ Tick
  BY <1>1, <1>8 DEF CompactExpiredState, Tick
<1> QED
  BY <1>2, <1>3, <1>4, <1>5, <1>6, <1>7, <1>8, HeldFlush, HeldFlushCancelled, HeldReturn
     DEF Next

(* The inductive invariant of the theorems below. *)
KeepingInv == QueueInv /\ PlaceInv /\ HeldOwnsScope

LEMMA KeepingInit == Init => KeepingInv
<1>1. ASSUME Init PROVE HeldOwnsScope
  BY <1>1 DEF Init, HeldOwnsScope
<1> QED
  BY <1>1, InvInit, PlaceInit DEF KeepingInv

LEMMA KeepingNext == KeepingInv /\ [Next]_vars => KeepingInv'
BY InvNext, PlaceNext, HeldNext DEF KeepingInv

-----------------------------------------------------------------------------
(* Copies are places. *)

(* A copy of e at position i of the sequence q, which is in table m of scope x *)
(* or is one part of the batch x of the set m.                                 *)
CopyAt(k, m, x, q, i) ==
    /\ \/ m = "queues" /\ x \in Scope /\ k = <<"queues", x, i>> /\ q = queues[x]
       \/ m = "cancelled" /\ x \in Scope /\ k = <<"cancelled", x, i>> /\ q = cancelled[x]
       \/ m = "withheld" /\ x \in Scope /\ k = <<"withheld", x, i>> /\ q = withheld[x]
       \/ m = "held" /\ x \in held /\ k = <<"events", x, i>> /\ q = x.events
       \/ m = "held" /\ x \in held /\ k = <<"cancelled", x, i>> /\ q = x.cancelled
       \/ m = "turns" /\ x \in turns /\ k = <<"events", x, i>> /\ q = x.events
       \/ m = "turns" /\ x \in turns /\ k = <<"cancelled", x, i>> /\ q = x.cancelled
    /\ i \in DOMAIN q

LEMMA CopyHasPlace ==
    ASSUME NEW e \in Event, NEW k \in Copies(e)
    PROVE  \E m, x, q, i : CopyAt(k, m, x, q, i) /\ q[i] = e
<1> DEFINE table == [queues |-> queues, cancelled |-> cancelled, withheld |-> withheld]
<1>1. CASE k \in (DOMAIN table) \X Scope \X Event
           /\ k[3] \in DOMAIN table[k[1]][k[2]] /\ table[k[1]][k[2]][k[3]] = e
  <2>1. PICK t \in {"queues", "cancelled", "withheld"}, s \in Scope, i \in Event : k = <<t, s, i>>
    BY <1>1
  <2>2. i \in DOMAIN table[t][s] /\ table[t][s][i] = e
    BY <1>1, <2>1
  <2>3. CASE t = "queues"
    <3>1. CopyAt(k, "queues", s, queues[s], i) /\ queues[s][i] = e
      BY <2>1, <2>2, <2>3 DEF CopyAt
    <3> QED
      BY <3>1
  <2>4. CASE t = "cancelled"
    <3>1. CopyAt(k, "cancelled", s, cancelled[s], i) /\ cancelled[s][i] = e
      BY <2>1, <2>2, <2>4 DEF CopyAt
    <3> QED
      BY <3>1
  <2>5. CASE t = "withheld"
    <3>1. CopyAt(k, "withheld", s, withheld[s], i) /\ withheld[s][i] = e
      BY <2>1, <2>2, <2>5 DEF CopyAt
    <3> QED
      BY <3>1
  <2> QED
    BY <2>3, <2>4, <2>5
<1>2. CASE k \in {"events", "cancelled"} \X (held \cup turns) \X Event
           /\ k[3] \in DOMAIN k[2][k[1]] /\ k[2][k[1]][k[3]] = e
  <2>1. PICK p \in {"events", "cancelled"}, b \in held \cup turns, i \in Event : k = <<p, b, i>>
    BY <1>2
  <2>2. i \in DOMAIN b[p] /\ b[p][i] = e
    BY <1>2, <2>1
  <2>3. PICK m \in {"held", "turns"} : (m = "held" /\ b \in held) \/ (m = "turns" /\ b \in turns)
    BY <2>1
  <2>4. CASE p = "events"
    <3>1. CopyAt(k, m, b, b.events, i) /\ b.events[i] = e
      BY <2>1, <2>2, <2>3, <2>4 DEF CopyAt
    <3> QED
      BY <3>1
  <2>5. CASE p = "cancelled"
    <3>1. CopyAt(k, m, b, b.cancelled, i) /\ b.cancelled[i] = e
      BY <2>1, <2>2, <2>3, <2>5 DEF CopyAt
    <3> QED
      BY <3>1
  <2> QED
    BY <2>1, <2>4, <2>5
<1> QED
  BY <1>1, <1>2 DEF Copies

LEMMA CopyHolds ==
    ASSUME NEW k, NEW m, NEW x, NEW q, NEW i, CopyAt(k, m, x, q, i)
    PROVE  Holds(m, x, q[i])
<1>1. q[i] \in Elems(q)
  BY DEF CopyAt, Elems
<1> QED
  BY <1>1 DEF CopyAt, Holds, BatchEvents

LEMMA KeptHolds ==
    ASSUME NEW e \in Event, Kept(e)
    PROVE  \E m, x : Holds(m, x, e)
<1>1. PICK k : k \in Copies(e)
  BY DEF Kept
<1>2. PICK m, x, q, i : CopyAt(k, m, x, q, i) /\ q[i] = e
  BY <1>1, CopyHasPlace
<1> QED
  BY <1>2, CopyHolds

(* Two copies of an event are one. *)
LEMMA CopiesAgree ==
    ASSUME PlaceInv, NEW e \in Event, NEW k \in Copies(e), NEW l \in Copies(e)
    PROVE  k = l
<1>1. PICK m, x, q, i : CopyAt(k, m, x, q, i) /\ q[i] = e
  BY CopyHasPlace
<1>2. PICK n, y, r, j : CopyAt(l, n, y, r, j) /\ r[j] = e
  BY CopyHasPlace
<1>3. Holds(m, x, e) /\ Holds(n, y, e)
  BY <1>1, <1>2, CopyHolds
<1>4. m = n /\ x = y
  BY <1>3, PlaceNow, Elsewhere
<1>5. i \in DOMAIN q /\ j \in DOMAIN r /\ e \in Elems(q) /\ e \in Elems(r)
  BY <1>1, <1>2 DEF CopyAt, Elems
<1>6. CASE m \in {"queues", "cancelled", "withheld"}
  <2>1. q = r /\ Distinct(q) /\ k = <<m, x, i>> /\ l = <<m, x, j>>
    BY <1>1, <1>2, <1>4, <1>6, PlaceNow DEF CopyAt, AllDistinct
  <2>2. i = j
    BY <1>1, <1>2, <1>5, <2>1 DEF Distinct
  <2> QED
    BY <2>1, <2>2
<1>7. CASE m \in {"held", "turns"}
  <2>1. x \in held \cup turns
    BY <1>1, <1>7 DEF CopyAt
  <2>2. NoRepeats(x)
    BY <2>1, PlaceNow
  <2>3. \/ q = x.events /\ k = <<"events", x, i>>
        \/ q = x.cancelled /\ k = <<"cancelled", x, i>>
    BY <1>1, <1>7 DEF CopyAt
  <2>4. \/ r = x.events /\ l = <<"events", x, j>>
        \/ r = x.cancelled /\ l = <<"cancelled", x, j>>
    BY <1>2, <1>4, <1>7 DEF CopyAt
  <2>5. /\ Distinct(x.events) /\ Distinct(x.cancelled)
        /\ Elems(x.events) \cap Elems(x.cancelled) = {}
    BY <2>2 DEF NoRepeats
  <2>6. CASE q = x.events /\ k = <<"events", x, i>> /\ r = x.events /\ l = <<"events", x, j>>
    <3>1. i = j
      BY <1>1, <1>2, <1>5, <2>5, <2>6 DEF Distinct
    <3> QED
      BY <2>6, <3>1
  <2>7. CASE /\ q = x.cancelled /\ k = <<"cancelled", x, i>>
             /\ r = x.cancelled /\ l = <<"cancelled", x, j>>
    <3>1. i = j
      BY <1>1, <1>2, <1>5, <2>5, <2>7 DEF Distinct
    <3> QED
      BY <2>7, <3>1
  <2>8. CASE (q = x.events /\ r = x.cancelled) \/ (q = x.cancelled /\ r = x.events)
    BY <1>5, <2>5, <2>8
  <2> QED
    BY <2>3, <2>4, <2>6, <2>7, <2>8
<1> QED
  BY <1>1, <1>6, <1>7 DEF CopyAt

LEMMA OneCopy ==
    ASSUME PlaceInv
    PROVE  AtMostOneCopy
<1> SUFFICES ASSUME NEW e \in Event PROVE Cardinality(Copies(e)) <= 1
  BY DEF AtMostOneCopy
<1>1. CASE Copies(e) = {}
  <2>1. Cardinality({}) = 0
    BY FS_EmptySet
  <2> QED
    BY <1>1, <2>1
<1>2. ASSUME NEW k \in Copies(e) PROVE Cardinality(Copies(e)) <= 1
  <2>1. Copies(e) = {k}
    BY <1>2, CopiesAgree
  <2>2. Cardinality({k}) = 1
    BY FS_Singleton
  <2> QED
    BY <2>1, <2>2
<1> QED
  BY <1>1, <1>2

LEMMA SleepIsEmpty ==
    ASSUME TypeOK, HeldOwnsScope
    PROVE  SleepStrandsNothing
<1> SUFFICES ASSUME inFlight = {}, turns = {}, ~HasUndispatchedWork, NEW e \in Event, Kept(e)
             PROVE  FALSE
  BY DEF SleepStrandsNothing
<1>1. PICK m, x : Holds(m, x, e)
  BY KeptHolds
<1>2. \A s \in Scope : queues[s] = <<>> /\ cancelled[s] = <<>> /\ withheld[s] = <<>>
  BY DEF HasUndispatchedWork
<1>3. held = {}
  BY DEF HeldOwnsScope
<1> QED
  BY <1>1, <1>2, <1>3, EmptyContents DEF Holds

-----------------------------------------------------------------------------
(* Flush, requeue, cancel carry-over, steer withhold, release, expiry      *)
(* recovery and drain_channel each move an event, never copy it, for any   *)
(* number of scopes and events and whether or not turns meet their         *)
(* deadline: no event is prompted by two turns at once.                    *)
THEOREM AtMostOneCopyCorrect == Spec => []AtMostOneCopy
<1>1. KeepingInv => AtMostOneCopy
  BY OneCopy DEF KeepingInv
<1> QED
  BY <1>1, KeepingInit, KeepingNext, PTL DEF Spec

(* No late requeue, release or expiry recovery brings back an event that   *)
(* was delivered, dead-lettered, discarded, drained or refused.            *)
THEOREM SettledStaysSettledCorrect == Spec => []SettledStaysSettled
<1>1. ASSUME KeepingInv PROVE SettledStaysSettled
  <2> SUFFICES ASSUME NEW e \in Event, Kept(e) PROVE fate[e] \in {"open", "steered"}
    BY DEF SettledStaysSettled
  <2>1. PICK m, x : Holds(m, x, e)
    BY KeptHolds
  <2> QED
    BY <1>1, <2>1, PlaceNow DEF KeepingInv, KeptIsLive, Live
<1> QED
  BY <1>1, KeepingInit, KeepingNext, PTL DEF Spec

(* An event in the side table of native steers always has its              *)
(* acknowledgement to come, however its turn ends: release_native_steer,   *)
(* remove_event, expiry and drain_channel clear the table with it.         *)
THEOREM WithheldAwaitsAckCorrect == Spec => []WithheldAwaitsAck
<1>1. KeepingInv => WithheldAwaitsAck
  BY DEF KeepingInv, PlaceInv
<1> QED
  BY <1>1, KeepingInit, KeepingNext, PTL DEF Spec

(* has_undispatched_work together with an empty in-flight set and no       *)
(* running turn is enough for the idle pool to sleep: a batch that is held *)
(* owns the in-flight marker of its scope until it returns.                *)
THEOREM SleepStrandsNothingCorrect == Spec => []SleepStrandsNothing
<1>1. KeepingInv => SleepStrandsNothing
  BY SleepIsEmpty DEF KeepingInv, QueueInv
<1> QED
  BY <1>1, KeepingInit, KeepingNext, PTL DEF Spec

-----------------------------------------------------------------------------
(* What a step sheds. *)

LEMMA TotalAppended ==
    ASSUME NEW qs \in Tables, NEW s \in Scope, NEW e \in Event, NEW c
    PROVE  ChannelEventTotal([qs EXCEPT ![s] = Append(@, e)], c) <= ChannelEventTotal(qs, c) + 1
<1> DEFINE new == [qs EXCEPT ![s] = Append(@, e)]
           x == <<s, Len(qs[s]) + 1>>
<1>1. qs[s] \in Seq(Event) /\ Len(qs[s]) \in Nat /\ DOMAIN qs[s] = 1..Len(qs[s])
  BY LenProperties DEF Tables
<1>2. Append(qs[s], e) \in Seq(Event) /\ Len(Append(qs[s], e)) = Len(qs[s]) + 1
  BY <1>1, AppendProperties
<1>3. /\ new \in Tables
      /\ \A t \in Scope : new[t] = IF t = s THEN Append(qs[s], e) ELSE qs[t]
  BY <1>2 DEF Tables
<1>4. DOMAIN new[s] = 1..(Len(qs[s]) + 1)
  BY <1>2, <1>3, LenProperties
<1> HIDE DEF new
<1>5. Slots(new, c) \subseteq Slots(qs, c) \cup {x}
  <2> SUFFICES ASSUME NEW y \in Slots(new, c) PROVE y \in Slots(qs, c) \/ y = x
    OBVIOUS
  <2>1. PICK t \in ScopesOf(c) : \E i \in DOMAIN new[t] : y = <<t, i>>
    BY SlotsElement
  <2>2. PICK i \in DOMAIN new[t] : y = <<t, i>>
    BY <2>1
  <2>3. t \in Scope
    BY DEF ScopesOf
  <2>4. i \in DOMAIN qs[t] \/ (t = s /\ i = Len(qs[s]) + 1)
    BY <1>1, <1>3, <1>4, <2>2, <2>3
  <2> QED
    BY <2>2, <2>4, SlotsElement
<1>6. IsFiniteSet(Slots(qs, c)) /\ IsFiniteSet(Slots(new, c))
  BY <1>3, SlotsFinite
<1>7. /\ IsFiniteSet(Slots(qs, c) \cup {x})
      /\ \/ Cardinality(Slots(qs, c) \cup {x}) = Cardinality(Slots(qs, c))
         \/ Cardinality(Slots(qs, c) \cup {x}) = Cardinality(Slots(qs, c)) + 1
  BY <1>6, FS_AddElement
<1>8. /\ Cardinality(Slots(new, c)) <= Cardinality(Slots(qs, c) \cup {x})
      /\ Cardinality(Slots(new, c)) \in Nat /\ Cardinality(Slots(qs, c) \cup {x}) \in Nat
      /\ Cardinality(Slots(qs, c)) \in Nat
  BY <1>5, <1>6, <1>7, FS_Subset, FS_CardinalityType
<1>9. Cardinality(Slots(new, c)) <= Cardinality(Slots(qs, c)) + 1
  BY <1>7, <1>8
<1> QED
  BY <1>9 DEF ChannelEventTotal, Slots, new

(* A push displaces events of full queues only. *)
LEMMA PushBackDisplaces ==
    ASSUME NEW qs \in Tables, Capped(qs), NEW s \in Scope, NEW e \in Event, NEW t \in Scope
    PROVE  Full(qs, t) \/ Elems(qs[t]) \subseteq Elems(PushBack(qs, s, e)[t])
<1> DEFINE c == ChannelOf[s]
           kept == IF Len(qs[s]) >= MaxPerScope THEN Tail(qs[s]) ELSE qs[s]
           mid == [qs EXCEPT ![s] = Append(kept, e)]
           new == EnforceChannelCap(mid, c)
<1>1. /\ qs[s] \in Seq(Event) /\ Len(qs[s]) \in Nat /\ MaxPerScope \in Nat \ {0}
      /\ Len(qs[s]) <= MaxPerScope /\ c \in Channel /\ MaxPerChannel \in Nat
  BY LenProperties, ConstantsAssumption DEF Tables, Capped
<1>2. PushBack(qs, s, e) = new
  BY DEF PushBack
<1>3. ChannelEventTotal(qs, c) <= MaxPerChannel /\ ChannelEventTotal(qs, c) \in Nat
  BY <1>1, SlotsFinite DEF Capped
<1>4. CASE Len(qs[s]) >= MaxPerScope
  <2>1. Len(qs[s]) = MaxPerScope /\ qs[s] # <<>> /\ kept = Tail(qs[s])
    BY <1>1, <1>4, EmptySeq
  <2>2. kept \in Seq(Event) /\ Len(kept) = Len(qs[s]) - 1
    BY <1>1, <2>1, HeadTailProperties
  <2>3. Append(kept, e) \in Seq(Event) /\ Len(Append(kept, e)) = Len(qs[s])
    BY <1>1, <2>2, AppendProperties
  <2>4. /\ mid \in Tables
        /\ \A u \in Scope : mid[u] = IF u = s THEN Append(kept, e) ELSE qs[u]
    BY <2>3 DEF Tables
  <2> HIDE DEF mid, kept, c
  <2>5. \A u \in Scope : Len(qs[u]) \in Nat
    BY LenProperties DEF Tables
  <2>6. ASSUME NEW u \in ScopesOf(c) PROVE Len(mid[u]) <= Len(qs[u])
    <3>1. u \in Scope
      BY DEF ScopesOf
    <3>2. Len(mid[u]) = Len(qs[u]) /\ Len(qs[u]) \in Nat
      BY <2>3, <2>4, <2>5, <3>1
    <3> QED
      BY <3>2
  <2>7. ChannelEventTotal(mid, c) <= ChannelEventTotal(qs, c)
    BY <2>4, <2>6, TotalShrinks
  <2>8. ChannelEventTotal(mid, c) \in Nat
    BY <2>4, SlotsFinite
  <2>9. new = mid
    BY <1>1, <1>3, <2>7, <2>8 DEF EnforceChannelCap
  <2>10. CASE t = s
    BY <2>1, <2>10 DEF Full
  <2>11. CASE t # s
    BY <1>2, <2>4, <2>9, <2>11
  <2> QED
    BY <2>10, <2>11
<1>5. CASE ~(Len(qs[s]) >= MaxPerScope)
  <2>1. mid = [qs EXCEPT ![s] = Append(@, e)]
    BY <1>5
  <2>2. ChannelEventTotal(mid, c) <= ChannelEventTotal(qs, c) + 1
    BY <2>1, TotalAppended
  <2>3. Append(qs[s], e) \in Seq(Event) /\ Elems(Append(qs[s], e)) = Elems(qs[s]) \cup {e}
    BY <1>1, Appended
  <2>4. /\ mid \in Tables
        /\ \A u \in Scope : mid[u] = IF u = s THEN Append(qs[s], e) ELSE qs[u]
    BY <2>1, <2>3 DEF Tables
  <2>5. Elems(qs[t]) \subseteq Elems(mid[t])
    BY <2>3, <2>4
  <2> HIDE DEF mid, kept
  <2>6. ChannelEventTotal(mid, c) \in Nat
    BY <2>4, SlotsFinite
  <2>7. CASE ChannelEventTotal(mid, c) - MaxPerChannel > 0
    <3>1. ChannelEventTotal(qs, c) = MaxPerChannel
      BY <1>1, <1>3, <2>2, <2>6, <2>7
    <3>2. CASE ChannelOf[t] = c
      BY <3>1, <3>2 DEF Full
    <3>3. CASE ChannelOf[t] # c
      <4>1. new[t] = mid[t]
        BY <2>4, <3>3, CapEnforced
      <4> QED
        BY <1>2, <2>5, <4>1
    <3> QED
      BY <3>2, <3>3
  <2>8. CASE ~(ChannelEventTotal(mid, c) - MaxPerChannel > 0)
    <3>1. new = mid
      BY <2>8 DEF EnforceChannelCap
    <3> QED
      BY <1>2, <2>5, <3>1
  <2> QED
    BY <2>7, <2>8
<1> QED
  BY <1>4, <1>5

(* Where the events of a scope are. *)
LEMMA EventsOfIs ==
    ASSUME NEW t \in Scope, NEW e
    PROVE  e \in EventsOf(t) <=> \/ e \in Elems(queues[t]) \/ e \in Elems(cancelled[t])
                                 \/ e \in Elems(withheld[t])
                                 \/ \E b \in held \cup turns : b.scope = t /\ e \in BatchEvents(b)
BY DEF EventsOf, Pending

LEMMA EventsOfNext ==
    ASSUME NEW t \in Scope, NEW e
    PROVE  e \in EventsOf(t)' <=> \/ e \in Elems(queues'[t]) \/ e \in Elems(cancelled'[t])
                                  \/ e \in Elems(withheld'[t])
                                  \/ \E b \in held' \cup turns' :
                                        b.scope = t /\ e \in BatchEvents(b)
BY DEF EventsOf, Pending, BatchEvents

(* What a scope has is live. *)
LEMMA EventsOfLive ==
    ASSUME TypeOK, PlaceInv, NEW t \in Scope, NEW e \in EventsOf(t)
    PROVE  e \in Event /\ e \in 1..arrived /\ fate[e] \in {"open", "steered"}
<1>1. PICK k, x : Holds(k, x, e)
  BY EventsOfIs DEF Holds
<1> QED
  BY <1>1, HoldsType, PlaceNow DEF KeptIsLive, Live

(* The step keeps e in scope t, settles it, or finds or leaves t full. *)
Excused(t, e) ==
    \/ e \in EventsOf(t)'
    \/ fate'[e] # fate[e]
    \/ Full(queues, t)'
    \/ arrived' # arrived /\ Full(queues, t)

(* A step that changes the pending queues only, and sheds only when full. *)
LEMMA ShedFrame ==
    ASSUME UNCHANGED <<cancelled, withheld, held, turns>>, NEW t \in Scope, NEW e \in EventsOf(t),
           Full(queues, t)' \/ Elems(queues[t]) \subseteq Elems(queues'[t])
    PROVE  Excused(t, e)
BY EventsOfIs, EventsOfNext DEF Excused

LEMMA FullNext ==
    ASSUME NEW t \in Scope
    PROVE  Full(queues, t)' <=> Full(queues', t)
BY DEF Full, ChannelEventTotal, ScopesOf

LEMMA ShedPush ==
    ASSUME QueueInv, PlaceInv, NEW s \in Scope, Push(s), NEW t \in Scope, NEW e \in EventsOf(t)
    PROVE  Excused(t, e)
<1>1. /\ queues' = PushBack(queues, s, arrived') /\ arrived' \in Event
      /\ UNCHANGED <<cancelled, withheld, held, turns>>
  BY NewEvent DEF Push, QueueInv
<1>2. queues \in Tables /\ Capped(queues)
  BY TypeNow, CapsHoldIsCapped DEF QueueInv
<1>3. Takes(queues', queues, s, {arrived'})
  BY <1>1, <1>2, PushBackTakes
<1>4. Full(queues', t) \/ Elems(queues[t]) \subseteq Elems(queues'[t])
  BY <1>3 DEF Takes, Gained
<1> QED
  BY <1>1, <1>4, FullNext, ShedFrame

LEMMA ShedSteerPush ==
    ASSUME QueueInv, PlaceInv, NEW s \in Scope, SteerPush(s), NEW t \in Scope, NEW e \in EventsOf(t)
    PROVE  Excused(t, e)
<1> DEFINE n == arrived'
           mid == PushBack(queues, s, n)
<1>0. TypeOK /\ queues \in Tables /\ withheld \in Tables /\ Capped(queues)
  BY TypeNow, CapsHoldIsCapped DEF QueueInv
<1>1. Arrive /\ UNCHANGED <<cancelled, held, turns>>
  BY DEF SteerPush
<1>2. n = arrived + 1 /\ n \in Event /\ arrived \in Nat
  BY <1>0, <1>1, NewEvent, TypeNow
<1>3. /\ queues' = [mid EXCEPT ![s] = Without(@, n)]
      /\ withheld' = [withheld EXCEPT ![s] = Append(@, n)]
  BY DEF SteerPush, Withhold
<1>4. Takes(mid, queues, s, {n})
  BY <1>0, <1>2, PushBackTakes
<1>5. Full(queues, t) \/ Elems(queues[t]) \subseteq Elems(mid[t])
  BY <1>0, <1>2, PushBackDisplaces
<1> HIDE DEF mid
<1>6. mid \in Tables /\ mid[s] \in Seq(Event) /\ withheld[s] \in Seq(Event)
  BY <1>0, <1>4 DEF Takes, Tables
<1>7. /\ queues'[t] = IF t = s THEN Without(mid[s], n) ELSE mid[t]
      /\ withheld'[t] = IF t = s THEN Append(withheld[s], n) ELSE withheld[t]
  BY <1>0, <1>3, <1>6 DEF Tables
<1>8. Elems(mid[s]) \ {n} \subseteq Elems(Without(mid[s], n))
  BY <1>6, WithoutContents
<1>9. Elems(Append(withheld[s], n)) = Elems(withheld[s]) \cup {n}
  BY <1>2, <1>6, Appended
<1>10. e # n /\ n # arrived
  BY <1>0, <1>2, EventsOfLive
<1>11. Elems(withheld[t]) \subseteq Elems(withheld'[t])
  BY <1>7, <1>9
<1>12. Elems(mid[t]) \ {n} \subseteq Elems(queues'[t])
  BY <1>7, <1>8
<1> QED
  BY <1>1, <1>5, <1>10, <1>11, <1>12, EventsOfIs, EventsOfNext DEF Excused

LEMMA ShedExpire ==
    ASSUME QueueInv, PlaceInv, NEW s \in Scope, ExpireInFlight(s), NEW t \in Scope,
           NEW e \in EventsOf(t)
    PROVE  Excused(t, e)
<1>0. /\ queues \in Tables /\ withheld \in Tables /\ withheld[s] \in Seq(Event)
      /\ Distinct(withheld[s])
  BY TypeNow, PlaceNow DEF QueueInv, AllDistinct
<1>1. UNCHANGED <<cancelled, held, turns>> /\ withheld' = [withheld EXCEPT ![s] = <<>>]
  BY DEF ExpireInFlight
<1>2. withheld'[t] = IF t = s THEN <<>> ELSE withheld[t]
  BY <1>0, <1>1 DEF Tables
<1>3. Full(queues', t) \/ Elems(queues'[t]) = Gained(queues, s, Elems(withheld[s]), t)
  <2>1. CASE withheld[s] = <<>>
    BY <2>1, EmptyContents DEF ExpireInFlight, Gained
  <2>2. CASE withheld[s] # <<>>
    <3>1. queues' = PushFront(queues, s, withheld[s])
      BY <2>2 DEF ExpireInFlight
    <3>2. Takes(queues', queues, s, Elems(withheld[s]))
      BY <1>0, <3>1, PushFrontTakes
    <3> QED
      BY <3>2 DEF Takes
  <2> QED
    BY <2>1, <2>2
<1>4. CASE Full(queues', t)
  BY <1>4, FullNext DEF Excused
<1>5. CASE Elems(queues'[t]) = Gained(queues, s, Elems(withheld[s]), t)
  BY <1>1, <1>2, <1>5, EventsOfIs, EventsOfNext DEF Gained, Excused
<1> QED
  BY <1>3, <1>4, <1>5

(* What leaves the tables of scope s is in the batch handed over. *)
LEMMA ShedHandOver ==
    ASSUME NEW s \in Scope, NEW b, HandOver(b), b.scope = s, UNCHANGED withheld,
           \A u \in Scope : u # s => queues'[u] = queues[u] /\ cancelled'[u] = cancelled[u],
           Elems(queues[s]) \subseteq Elems(queues'[s]) \cup BatchEvents(b),
           Elems(cancelled[s]) \subseteq BatchEvents(b),
           NEW t \in Scope, NEW e \in EventsOf(t)
    PROVE  Excused(t, e)
<1>1. b \in held' \cup turns' /\ held \cup turns \subseteq held' \cup turns'
  BY DEF HandOver
<1>2. CASE t = s
  BY <1>1, <1>2, EventsOfIs, EventsOfNext DEF Excused
<1>3. CASE t # s
  BY <1>1, <1>3, EventsOfIs, EventsOfNext DEF Excused
<1> QED
  BY <1>2, <1>3

LEMMA ShedFlush ==
    ASSUME QueueInv, PlaceInv, Flush, NEW t \in Scope, NEW e \in EventsOf(t)
    PROVE  Excused(t, e)
<1> DEFINE s == OldestHead(queues, Ready)
           n == IF Len(queues[s]) < MaxBatch THEN Len(queues[s]) ELSE MaxBatch
           taken == SubSeq(queues[s], 1, n)
           left == SubSeq(queues[s], n + 1, Len(queues[s]))
           batch(evs) == [scope |-> s, events |-> evs, cancelled |-> cancelled[s],
                          reason |-> IF cancelled[s] = <<>> THEN "none" ELSE cancelReason[s]]
<1>0. TypeOK
  BY DEF QueueInv
<1>1. /\ Ready # {}
      /\ \E evs \in SortedByCreation(taken) : HandOver(batch(evs))
      /\ queues' = [queues EXCEPT ![s] = left]
      /\ cancelled' = [cancelled EXCEPT ![s] = <<>>]
      /\ UNCHANGED withheld
  BY DEF Flush, TakeInFlight
<1>2. s \in Scope
  BY <1>0, <1>1, FlushedScope DEF Ready
<1>3. queues[s] \in Seq(Event) /\ Len(queues[s]) \in Nat
  BY <1>0, <1>2, TypeNow, SeqFacts
<1>4. n \in Nat /\ n <= Len(queues[s])
  BY <1>3, ConstantsAssumption
<1> HIDE DEF s, n
<1>5. taken \in Seq(Event) /\ Elems(taken) \cup Elems(left) = Elems(queues[s])
  BY <1>3, <1>4, Cut
<1> HIDE DEF taken, left
<1>6. PICK evs \in SortedByCreation(taken) : HandOver(batch(evs))
  BY <1>1
<1>7. Elems(evs) = Elems(taken)
  BY <1>5, SortedContents
<1> DEFINE b == batch(evs)
<1>8. b.scope = s /\ b.events = evs /\ b.cancelled = cancelled[s] /\ HandOver(b)
  BY <1>6
<1> HIDE DEF b
<1>9. BatchEvents(b) = Elems(taken) \cup Elems(cancelled[s])
  BY <1>7, <1>8 DEF BatchEvents
<1>10. queues'[s] = left
  BY <1>0, <1>1, <1>2, TypeNow DEF Tables
<1>11. \A u \in Scope : u # s => queues'[u] = queues[u] /\ cancelled'[u] = cancelled[u]
  BY <1>0, <1>1, TypeNow DEF Tables
<1>12. /\ Elems(queues[s]) \subseteq Elems(queues'[s]) \cup BatchEvents(b)
       /\ Elems(cancelled[s]) \subseteq BatchEvents(b)
  BY <1>5, <1>9, <1>10
<1> HIDE DEF batch
<1> QED
  BY <1>1, <1>2, <1>8, <1>11, <1>12, ShedHandOver

LEMMA ShedFlushCancelled ==
    ASSUME QueueInv, PlaceInv, NEW s \in Scope, FlushCancelled(s), NEW t \in Scope,
           NEW e \in EventsOf(t)
    PROVE  Excused(t, e)
<1> DEFINE b == [scope |-> s, events |-> cancelled[s], cancelled |-> <<>>,
                 reason |-> cancelReason[s]]
<1>0. cancelled \in Tables
  BY TypeNow DEF QueueInv
<1>1. /\ HandOver(b) /\ cancelled' = [cancelled EXCEPT ![s] = <<>>]
      /\ UNCHANGED <<queues, withheld>>
  BY DEF FlushCancelled, TakeInFlight
<1>2. b.scope = s /\ Elems(cancelled[s]) \subseteq BatchEvents(b)
  BY DEF BatchEvents
<1>3. \A u \in Scope : u # s => queues'[u] = queues[u] /\ cancelled'[u] = cancelled[u]
  BY <1>0, <1>1 DEF Tables
<1>4. Elems(queues[s]) \subseteq Elems(queues'[s]) \cup BatchEvents(b)
  BY <1>1
<1> HIDE DEF b
<1> QED
  BY <1>1, <1>2, <1>3, <1>4, ShedHandOver

(* Batch b is gone: its events in A are pending again but for a full queue, *)
(* those in C are carried over, and the others have a new fate.             *)
GoesBack(b, A, C) ==
    /\ held \cup turns \subseteq held' \cup turns' \cup {b}
    /\ UNCHANGED withheld
    /\ \A t \in Scope : /\ Full(queues', t) \/ Gained(queues, b.scope, A, t) \subseteq Elems(queues'[t])
                        /\ Gained(cancelled, b.scope, C, t) \subseteq Elems(cancelled'[t])
    /\ \A e \in BatchEvents(b) : e \in A \cup C \/ fate'[e] # fate[e]

LEMMA ShedBatch ==
    ASSUME NEW b, NEW A, NEW C, GoesBack(b, A, C), NEW t \in Scope, NEW e \in EventsOf(t)
    PROVE  Excused(t, e)
<1>1. CASE Full(queues', t)
  BY <1>1, FullNext DEF Excused
<1>2. CASE ~Full(queues', t)
  <2>1. /\ Elems(queues[t]) \subseteq Elems(queues'[t])
        /\ Elems(cancelled[t]) \subseteq Elems(cancelled'[t])
        /\ b.scope = t => A \subseteq Elems(queues'[t]) /\ C \subseteq Elems(cancelled'[t])
        /\ withheld' = withheld
    BY <1>2 DEF GoesBack, Gained
  <2>2. CASE \E x \in held \cup turns : x.scope = t /\ e \in BatchEvents(x)
    <3>1. PICK x \in held \cup turns : x.scope = t /\ e \in BatchEvents(x)
      BY <2>2
    <3>2. CASE x # b
      <4>1. x \in held' \cup turns'
        BY <3>2 DEF GoesBack
      <4> QED
        BY <3>1, <4>1, EventsOfNext DEF Excused
    <3>3. CASE x = b
      <4>1. e \in A \cup C \/ fate'[e] # fate[e]
        BY <3>1, <3>3 DEF GoesBack
      <4> QED
        BY <2>1, <3>1, <3>3, <4>1, EventsOfNext DEF Excused
    <3> QED
      BY <3>2, <3>3
  <2>3. CASE ~\E x \in held \cup turns : x.scope = t /\ e \in BatchEvents(x)
    BY <2>1, <2>3, EventsOfIs, EventsOfNext DEF Excused
  <2> QED
    BY <2>2, <2>3
<1> QED
  BY <1>1, <1>2

LEMMA BatchLive ==
    ASSUME TypeOK, PlaceInv, NEW b \in held \cup turns, NEW e \in BatchEvents(b)
    PROVE  e \in Event /\ fate[e] \in {"open", "steered"}
<1>1. PICK k, x : Holds(k, x, e)
  BY BatchApart
<1> QED
  BY <1>1, HoldsType, PlaceNow DEF KeptIsLive, Live

LEMMA ShedReturnHeld ==
    ASSUME QueueInv, PlaceInv, NEW b \in held, ReturnHeld(b), NEW t \in Scope, NEW e \in EventsOf(t)
    PROVE  Excused(t, e)
<1> DEFINE s == b.scope
           A == Elems(b.events)
           C == Elems(b.cancelled)
           q == b.cancelled \o cancelled[s]
<1>0. TypeOK /\ queues \in Tables /\ cancelled \in Tables
  BY TypeNow DEF QueueInv
<1>1. /\ held' = held \ {b} /\ queues' = PushFront(queues, s, b.events)
      /\ cancelled' = [cancelled EXCEPT ![s] = q] /\ UNCHANGED <<withheld, turns>>
  BY DEF ReturnHeld
<1>2. /\ b.events \in Seq(Event) /\ b.cancelled \in Seq(Event) /\ s \in Scope
      /\ Distinct(b.events) /\ BatchEvents(b) = A \cup C
  BY <1>0, BatchTablesApart
<1>3. Takes(queues', queues, s, A)
  BY <1>0, <1>1, <1>2, PushFrontTakes
<1>4. cancelled[s] \in Seq(Event)
  BY <1>0, <1>2, TypeNow
<1>5. Elems(q) = C \cup Elems(cancelled[s])
  BY <1>2, <1>4, Joined
<1> HIDE DEF q, A, C
<1>6. \A u \in Scope : cancelled'[u] = IF u = s THEN q ELSE cancelled[u]
  BY <1>0, <1>1 DEF Tables
<1>7. \A u \in Scope : Gained(cancelled, s, C, u) \subseteq Elems(cancelled'[u])
  BY <1>5, <1>6 DEF Gained
<1>8. \A u \in Scope : Full(queues', u) \/ Gained(queues, s, A, u) \subseteq Elems(queues'[u])
  BY <1>3 DEF Takes
<1>9. GoesBack(b, A, C)
  BY <1>1, <1>2, <1>7, <1>8 DEF GoesBack
<1> QED
  BY <1>9, ShedBatch

LEMMA ShedTurn ==
    ASSUME QueueInv, PlaceInv, NEW b \in turns, TurnReturns(b), NEW t \in Scope,
           NEW e \in EventsOf(t)
    PROVE  Excused(t, e)
<1> DEFINE s == b.scope
           A == Elems(b.events)
           C == Elems(b.cancelled)
<1>0. TypeOK /\ queues \in Tables /\ cancelled \in Tables
  BY TypeNow DEF QueueInv
<1>1. held \cup turns \subseteq held' \cup turns' \cup {b} /\ UNCHANGED withheld
  BY DEF TurnReturns, TurnSucceeded, TurnDiscarded, TurnDeadLettered, TurnFailed, TurnCancelled,
         Returns
<1>2. /\ b.events \in Seq(Event) /\ b.cancelled \in Seq(Event) /\ s \in Scope
      /\ Distinct(b.events) /\ BatchEvents(b) = A \cup C
  BY <1>0, BatchTablesApart
<1>3. cancelled[s] \in Seq(Event)
  BY <1>0, <1>2, TypeNow
<1>4. \A d \in BatchEvents(b) : d \in Event /\ fate[d] \in {"open", "steered"}
  BY <1>0, BatchLive
<1> HIDE DEF A, C
<1>5. ASSUME NEW f \in Fate \ {"open", "steered"}, fate' = Settle(BatchEvents(b), f),
             UNCHANGED <<queues, cancelled>>
      PROVE  Excused(t, e)
  <2>1. \A d \in BatchEvents(b) : fate'[d] = f
    BY <1>4, <1>5 DEF Settle
  <2>2. \A d \in BatchEvents(b) : fate'[d] # fate[d]
    BY <1>4, <1>5, <2>1
  <2>3. GoesBack(b, {}, {})
    BY <1>1, <1>5, <2>2 DEF GoesBack, Gained
  <2> QED
    BY <2>3, ShedBatch
<1>6. CASE TurnSucceeded(b)
  BY <1>5, <1>6 DEF TurnSucceeded, Fate
<1>7. CASE TurnDiscarded(b)
  BY <1>5, <1>7 DEF TurnDiscarded, Fate
<1>8. CASE TurnDeadLettered(b)
  BY <1>5, <1>8 DEF TurnDeadLettered, Fate
<1>9. CASE TurnFailed(b)
  <2>1. CASE fate' = Settle(BatchEvents(b), "dead_letter") /\ UNCHANGED <<queues, cancelled>>
    BY <1>5, <2>1 DEF Fate
  <2>2. CASE /\ queues' = PushFront(queues, s, b.events)
             /\ fate' = Settle(C, "context_lost") /\ UNCHANGED cancelled
    <3>1. Takes(queues', queues, s, A)
      BY <1>0, <1>2, <2>2, PushFrontTakes DEF A
    <3>2. \A u \in Scope : Full(queues', u) \/ Gained(queues, s, A, u) \subseteq Elems(queues'[u])
      BY <3>1 DEF Takes
    <3>3. \A u \in Scope : Gained(cancelled, s, {}, u) \subseteq Elems(cancelled'[u])
      BY <2>2 DEF Gained
    <3>4. \A d \in C : fate'[d] # fate[d]
      BY <1>2, <1>4, <2>2 DEF Settle
    <3>5. GoesBack(b, A, {})
      BY <1>1, <1>2, <3>2, <3>3, <3>4 DEF GoesBack
    <3> QED
      BY <3>5, ShedBatch
  <2> QED
    BY <1>9, <2>1, <2>2 DEF TurnFailed, C
<1>10. ASSUME NEW reason \in {"steer", "interrupt"}, TurnCancelled(b, reason)
       PROVE  Excused(t, e)
  <2> DEFINE q == cancelled[s] \o b.cancelled
             r == q \o b.events
  <2>1. cancelled' = [cancelled EXCEPT ![s] = r] /\ UNCHANGED queues
    BY <1>10 DEF TurnCancelled
  <2>2. q \in Seq(Event) /\ Elems(q) = Elems(cancelled[s]) \cup C
    BY <1>2, <1>3, Joined DEF C
  <2> HIDE DEF q
  <2>3. Elems(r) = Elems(q) \cup A
    BY <1>2, <2>2, Joined DEF A
  <2> HIDE DEF r
  <2>4. \A u \in Scope : cancelled'[u] = IF u = s THEN r ELSE cancelled[u]
    BY <1>0, <2>1 DEF Tables
  <2>5. \A u \in Scope : Gained(cancelled, s, BatchEvents(b), u) \subseteq Elems(cancelled'[u])
    BY <1>2, <2>2, <2>3, <2>4 DEF Gained
  <2>6. GoesBack(b, {}, BatchEvents(b))
    BY <1>1, <2>1, <2>5 DEF GoesBack, Gained
  <2> QED
    BY <2>6, ShedBatch
<1> QED
  BY <1>6, <1>7, <1>8, <1>9, <1>10 DEF TurnReturns

LEMMA ShedSteerDelivered ==
    ASSUME QueueInv, PlaceInv, NEW s \in Scope, NEW d \in Event, SteerDelivered(s, d),
           NEW t \in Scope, NEW e \in EventsOf(t)
    PROVE  Excused(t, e)
<1>0. TypeOK /\ queues \in Tables /\ withheld \in Tables
  BY TypeNow DEF QueueInv
<1>1. /\ <<s, d>> \in steers /\ UNCHANGED <<cancelled, held, turns>>
      /\ withheld' = [withheld EXCEPT ![s] = Without(@, d)]
      /\ queues' = [queues EXCEPT ![s] = Without(@, d)]
      /\ fate' = Settle({d}, "steered")
  BY DEF SteerDelivered, Acknowledge
<1>2. CASE e = d
  <2>1. <<s, d>>[2] = d
    OBVIOUS
  <2>2. fate[d] # "steered"
    BY <1>1, <2>1, PlaceNow DEF SteersOnce
  <2>3. fate'[d] = "steered"
    BY <1>1 DEF Settle
  <2> QED
    BY <1>2, <2>2, <2>3 DEF Excused
<1>3. CASE e # d
  <2>1. queues[s] \in Seq(Event) /\ withheld[s] \in Seq(Event)
    BY <1>0, TypeNow
  <2>2. /\ Elems(queues[s]) \ {d} \subseteq Elems(Without(queues[s], d))
        /\ Elems(withheld[s]) \ {d} \subseteq Elems(Without(withheld[s], d))
    BY <2>1, WithoutContents
  <2>3. /\ queues'[t] = IF t = s THEN Without(queues[s], d) ELSE queues[t]
        /\ withheld'[t] = IF t = s THEN Without(withheld[s], d) ELSE withheld[t]
    BY <1>0, <1>1 DEF Tables
  <2>4. /\ Elems(queues[t]) \ {d} \subseteq Elems(queues'[t])
        /\ Elems(withheld[t]) \ {d} \subseteq Elems(withheld'[t])
    BY <2>2, <2>3
  <2> QED
    BY <1>1, <1>3, <2>4, EventsOfIs, EventsOfNext DEF Excused
<1> QED
  BY <1>2, <1>3

LEMMA ShedSteerReleased ==
    ASSUME QueueInv, PlaceInv, NEW s \in Scope, NEW d \in Event, SteerReleased(s, d),
           NEW t \in Scope, NEW e \in EventsOf(t)
    PROVE  Excused(t, e)
<1> DEFINE M == IF d \in Elems(withheld[s]) THEN {d} ELSE {}
<1>0. TypeOK /\ queues \in Tables /\ withheld \in Tables /\ withheld[s] \in Seq(Event)
  BY TypeNow DEF QueueInv
<1>1. /\ UNCHANGED <<cancelled, held, turns>>
      /\ withheld' = [withheld EXCEPT ![s] = Without(@, d)]
  BY DEF SteerReleased
<1>2. Elems(withheld[s]) \ M \subseteq Elems(Without(withheld[s], d))
  BY <1>0, WithoutContents
<1>3. withheld'[t] = IF t = s THEN Without(withheld[s], d) ELSE withheld[t]
  BY <1>0, <1>1 DEF Tables
<1>4. Full(queues', t) \/ Gained(queues, s, M, t) \subseteq Elems(queues'[t])
  <2>1. CASE d \notin Elems(withheld[s])
    BY <2>1 DEF SteerReleased, Gained
  <2>2. CASE d \in Elems(withheld[s])
    <3>1. queues' = PushFront(queues, s, <<d>>) /\ M = {d}
      BY <2>2 DEF SteerReleased
    <3>2. <<d>> \in Seq(Event) /\ Elems(<<d>>) = {d} /\ Distinct(<<d>>)
      BY DEF Elems, Distinct
    <3>3. Takes(queues', queues, s, {d})
      BY <1>0, <3>1, <3>2, PushFrontTakes
    <3> QED
      BY <3>1, <3>3 DEF Takes
  <2> QED
    BY <2>1, <2>2
<1> HIDE DEF M
<1>5. CASE Full(queues', t)
  BY <1>5, FullNext DEF Excused
<1>6. CASE Gained(queues, s, M, t) \subseteq Elems(queues'[t])
  <2>1. /\ Elems(queues[t]) \subseteq Elems(queues'[t])
        /\ t = s => M \subseteq Elems(queues'[t])
    BY <1>6 DEF Gained
  <2>2. Elems(withheld[t]) \subseteq Elems(withheld'[t]) \cup Elems(queues'[t])
    BY <1>2, <1>3, <2>1
  <2> QED
    BY <1>1, <2>1, <2>2, EventsOfIs, EventsOfNext DEF Excused
<1> QED
  BY <1>4, <1>5, <1>6

LEMMA ShedDrain ==
    ASSUME QueueInv, PlaceInv, NEW c \in Channel, Drain(c), NEW t \in Scope, NEW e \in EventsOf(t)
    PROVE  Excused(t, e)
<1> DEFINE D == UNION {Pending(s) : s \in ScopesOf(c)}
<1>1. /\ queues' = Cleared(queues, c, <<>>) /\ cancelled' = Cleared(cancelled, c, <<>>)
      /\ withheld' = Cleared(withheld, c, <<>>) /\ fate' = Settle(D, "drained")
      /\ UNCHANGED <<held, turns>>
  BY DEF Drain
<1>2. e \in Event /\ fate[e] \in {"open", "steered"}
  BY EventsOfLive DEF QueueInv
<1>3. CASE e \in D
  BY <1>1, <1>2, <1>3 DEF Settle, Excused
<1>4. CASE e \notin D
  <2>1. ChannelOf[t] # c \/ e \notin Pending(t)
    BY <1>4 DEF ScopesOf
  <2>2. CASE ChannelOf[t] # c
    <3>1. queues'[t] = queues[t] /\ cancelled'[t] = cancelled[t] /\ withheld'[t] = withheld[t]
      BY <1>1, <2>2 DEF Cleared
    <3> QED
      BY <1>1, <3>1, EventsOfIs, EventsOfNext DEF Excused
  <2>3. CASE e \notin Pending(t)
    BY <1>1, <2>3, EventsOfIs, EventsOfNext DEF Excused, Pending
  <2> QED
    BY <2>1, <2>2, <2>3
<1> QED
  BY <1>3, <1>4

LEMMA ShedNext ==
    ASSUME QueueInv, PlaceInv, [Next]_vars, NEW t \in Scope, NEW e \in EventsOf(t)
    PROVE  Excused(t, e)
<1>1. ASSUME UNCHANGED <<queues, cancelled, withheld, held, turns>> PROVE Excused(t, e)
  BY <1>1, ShedFrame
<1>2. CASE UNCHANGED vars
  BY <1>1, <1>2 DEF vars
<1>3. ASSUME NEW s \in Scope, PushRefused(s) PROVE Excused(t, e)
  BY <1>1, <1>3 DEF PushRefused, queueVars
<1>4. ASSUME NEW a \in steers, SteerDelivered(a[1], a[2]) \/ SteerReleased(a[1], a[2])
      PROVE  Excused(t, e)
  <2>1. a[1] \in Scope /\ a[2] \in Event
    BY DEF QueueInv, TypeOK
  <2> QED
    BY <1>4, <2>1, ShedSteerDelivered, ShedSteerReleased
<1>5. ASSUME NEW c \in Channel, Rejoin(c) PROVE Excused(t, e)
  BY <1>1, <1>5 DEF Rejoin, queueVars
<1>6. CASE CompactExpiredState \/ Tick
  BY <1>1, <1>6 DEF CompactExpiredState, Tick
<1> QED
  BY <1>2, <1>3, <1>4, <1>5, <1>6, ShedPush, ShedSteerPush, ShedExpire, ShedFlush,
     ShedFlushCancelled, ShedReturnHeld, ShedTurn, ShedDrain DEF Next

(* The caps of push, requeue, release_native_steer and expiry recovery are *)
(* the one way an event disappears without being delivered, steered,       *)
(* dead-lettered, discarded, drained or lost with its merged turn: in any  *)
(* step that drops one its queue or its channel is full, or was when the   *)
(* arrival that displaced it came.                                         *)
THEOREM ShedOnlyWhenFullCorrect == Spec => ShedOnlyWhenFull
<1>1. ASSUME KeepingInv, [Next]_vars
      PROVE  [\A s \in Scope : \A e \in EventsOf(s) :
                 e \notin EventsOf(s)' /\ fate'[e] = fate[e] =>
                     Full(queues, s)' \/ (arrived' # arrived /\ Full(queues, s))]_vars
  BY <1>1, ShedNext DEF KeepingInv, Excused
<1> QED
  BY <1>1, KeepingInit, KeepingNext, PTL DEF Spec, ShedOnlyWhenFull
=============================================================================
