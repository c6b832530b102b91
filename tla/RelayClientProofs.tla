------------------------- MODULE RelayClientProofs --------------------------
(***************************************************************************)
(* Proofs about RelayClient, for every set of channels, capacity, limit    *)
(* and budget.                                                             *)
(*                                                                         *)
(* The state falls into three views that few actions touch at once: the    *)
(* ids seen, the telemetry frames, and the subscriptions with their        *)
(* cursors.  What an operation on BgState does to each view is stated      *)
(* once, and each invariant is proved on the view it speaks of.            *)
(***************************************************************************)
EXTENDS RelayClient, FiniteSetTheorems, TLAPS

Phases == {"main", "down", "drain", "last_drain", "failed_drain", "failed_last"}

Positive == Nat \ {0}
Half == DedupLimit \div 2

BgState ==
    [active : SUBSET Sub, floor : [Sub -> Nat], last : [Sub -> Nat],
     dropped : [Sub -> Nat], parked : SUBSET Sub, retry : SUBSET Channel,
     cur : SUBSET Positive, prev : SUBSET Positive, gate : BOOLEAN,
     pending : Seq(Positive), inflight : Seq(Positive), evicted : Nat]

Command ==
    [op : {"subscribe"}, sub : Sub, since : Positive]
      \cup [op : {"unsubscribe"}, sub : Channel]
      \cup [op : {"publish"}, frame : Positive]
      \cup [op : {"reconnect"}]

Outgoing ==
    [type : {"REQ", "QUERY"}, sub : Sub, since : Int]
      \cup [type : {"CLOSE"}, sub : Channel]
      \cup [type : {"FRAME"}, frame : Positive]

Incoming ==
    [type : {"EVENT"}, id : Positive]
      \cup [type : {"CLOSED"}, sub : Sub, reason : Reason]
      \cup [type : {"OK"}, frame : Positive, final : BOOLEAN]
      \cup [type : {"NOTICE"}]

StoredEvent == [sub : Sub, ts : Positive]
Spending == [events : Nat, commands : Nat, frames : Nat, faults : Nat]

(* The three views of the task's memory. *)
SameSubs(a, b) ==
    /\ a.active = b.active /\ a.floor = b.floor /\ a.last = b.last
    /\ a.dropped = b.dropped /\ a.parked = b.parked /\ a.retry = b.retry
SameIds(a, b) == a.cur = b.cur /\ a.prev = b.prev
SameFrames(a, b) ==
    a.pending = b.pending /\ a.inflight = b.inflight /\ a.evicted = b.evicted

-----------------------------------------------------------------------------
(***************************************************************************)
(* Sequences.                                                              *)
(***************************************************************************)

LEMMA SeqFacts ==
    ASSUME NEW S, NEW q \in Seq(S)
    PROVE  /\ Len(q) \in Nat /\ DOMAIN q = 1..Len(q)
           /\ \A i \in 1..Len(q) : q[i] \in S
           /\ ToSet(q) \subseteq S
           /\ \A x : x \in ToSet(q) <=> \E i \in 1..Len(q) : q[i] = x
           /\ q = <<>> <=> Len(q) = 0
  BY DEF ToSet

LEMMA ElemIn ==
    ASSUME NEW S, NEW q \in Seq(S), NEW i \in 1..Len(q)
    PROVE  q[i] \in ToSet(q)
  BY DEF ToSet

LEMMA TailFacts ==
    ASSUME NEW S, NEW q \in Seq(S), q # <<>>
    PROVE  /\ Head(q) \in S /\ Tail(q) \in Seq(S) /\ Len(q) >= 1
           /\ Head(q) = q[1] /\ Len(Tail(q)) = Len(q) - 1
           /\ \A i \in 1..Len(Tail(q)) : Tail(q)[i] = q[i + 1]
           /\ Head(q) \in ToSet(q)
           /\ ToSet(q) = ToSet(Tail(q)) \cup {Head(q)}
<1>1. /\ Head(q) \in S /\ Tail(q) \in Seq(S) /\ Len(q) \in Nat /\ Len(q) >= 1
      /\ Head(q) = q[1] /\ Len(Tail(q)) = Len(q) - 1
      /\ \A i \in 1..Len(Tail(q)) : Tail(q)[i] = q[i + 1]
  OBVIOUS
<1>2. Head(q) \in ToSet(q)
  BY <1>1, SeqFacts
<1>3. ASSUME NEW x \in ToSet(q) PROVE x \in ToSet(Tail(q)) \cup {Head(q)}
  <2>1. PICK i \in 1..Len(q) : q[i] = x
    BY <1>3, SeqFacts
  <2>2. CASE i = 1
    BY <1>1, <2>1, <2>2
  <2>3. CASE i # 1
    <3>1. i - 1 \in 1..Len(Tail(q)) /\ Tail(q)[i - 1] = x
      BY <1>1, <2>1, <2>3
    <3> QED
      BY <1>1, <3>1, ElemIn
  <2> QED
    BY <2>2, <2>3
<1>4. ASSUME NEW x \in ToSet(Tail(q)) PROVE x \in ToSet(q)
  <2>1. PICK i \in 1..Len(Tail(q)) : Tail(q)[i] = x
    BY <1>1, <1>4 DEF ToSet
  <2>2. i + 1 \in 1..Len(q) /\ q[i + 1] = x
    BY <1>1, <2>1
  <2> QED
    BY <2>2, SeqFacts
<1> QED
  BY <1>1, <1>2, <1>3, <1>4

LEMMA AppendFacts ==
    ASSUME NEW S, NEW q \in Seq(S), NEW x \in S
    PROVE  /\ Append(q, x) \in Seq(S) /\ Len(Append(q, x)) = Len(q) + 1
           /\ \A i \in 1..Len(q) : Append(q, x)[i] = q[i]
           /\ Append(q, x)[Len(q) + 1] = x
           /\ ToSet(Append(q, x)) = ToSet(q) \cup {x}
<1>1. /\ Append(q, x) \in Seq(S) /\ Len(Append(q, x)) = Len(q) + 1 /\ Len(q) \in Nat
      /\ \A i \in 1..Len(q) : Append(q, x)[i] = q[i]
      /\ Append(q, x)[Len(q) + 1] = x
  OBVIOUS
<1>2. \A y : y \in ToSet(Append(q, x)) <=> \E i \in 1..(Len(q) + 1) : Append(q, x)[i] = y
  BY <1>1 DEF ToSet
<1>3. \A y : y \in ToSet(q) <=> \E i \in 1..Len(q) : q[i] = y
  BY SeqFacts
<1>4. ASSUME NEW y \in ToSet(Append(q, x)) PROVE y \in ToSet(q) \cup {x}
  <2>1. PICK i \in 1..(Len(q) + 1) : Append(q, x)[i] = y
    BY <1>2, <1>4
  <2>2. CASE i = Len(q) + 1
    BY <1>1, <2>1, <2>2
  <2>3. CASE i # Len(q) + 1
    BY <1>1, <1>3, <2>1, <2>3
  <2> QED
    BY <2>2, <2>3
<1>5. ASSUME NEW y \in ToSet(q) PROVE y \in ToSet(Append(q, x))
  <2>1. PICK i \in 1..Len(q) : q[i] = y
    BY <1>3, <1>5
  <2>2. i \in 1..(Len(q) + 1) /\ Append(q, x)[i] = y
    BY <1>1, <2>1
  <2> QED
    BY <1>2, <2>2
<1>6. x \in ToSet(Append(q, x))
  BY <1>1, <1>2
<1> QED
  BY <1>1, <1>4, <1>5, <1>6

LEMMA ConcatFacts ==
    ASSUME NEW S, NEW p \in Seq(S), NEW q \in Seq(S)
    PROVE  /\ p \o q \in Seq(S) /\ Len(p \o q) = Len(p) + Len(q)
           /\ \A i \in 1..Len(p) : (p \o q)[i] = p[i]
           /\ \A i \in 1..Len(q) : (p \o q)[Len(p) + i] = q[i]
           /\ ToSet(p \o q) = ToSet(p) \cup ToSet(q)
<1>1. /\ p \o q \in Seq(S) /\ Len(p \o q) = Len(p) + Len(q)
      /\ Len(p) \in Nat /\ Len(q) \in Nat
      /\ \A i \in 1..Len(p) : (p \o q)[i] = p[i]
      /\ \A i \in 1..Len(q) : (p \o q)[Len(p) + i] = q[i]
  OBVIOUS
<1>2. \A y : y \in ToSet(p \o q) <=> \E i \in 1..(Len(p) + Len(q)) : (p \o q)[i] = y
  BY <1>1 DEF ToSet
<1>3. /\ \A y : y \in ToSet(p) <=> \E i \in 1..Len(p) : p[i] = y
      /\ \A y : y \in ToSet(q) <=> \E i \in 1..Len(q) : q[i] = y
  BY SeqFacts
<1>4. ASSUME NEW y \in ToSet(p \o q) PROVE y \in ToSet(p) \cup ToSet(q)
  <2>1. PICK i \in 1..(Len(p) + Len(q)) : (p \o q)[i] = y
    BY <1>2, <1>4
  <2>2. CASE i <= Len(p)
    BY <1>1, <1>3, <2>1, <2>2
  <2>3. CASE i > Len(p)
    <3>1. i - Len(p) \in 1..Len(q) /\ Len(p) + (i - Len(p)) = i
      BY <1>1, <2>1, <2>3
    <3>2. q[i - Len(p)] = y
      BY <1>1, <2>1, <3>1
    <3> QED
      BY <1>3, <3>1, <3>2
  <2> QED
    BY <1>1, <2>1, <2>2, <2>3
<1>5. ASSUME NEW y \in ToSet(p) PROVE y \in ToSet(p \o q)
  <2>1. PICK i \in 1..Len(p) : p[i] = y
    BY <1>3, <1>5
  <2>2. i \in 1..(Len(p) + Len(q)) /\ (p \o q)[i] = y
    BY <1>1, <2>1
  <2> QED
    BY <1>2, <2>2
<1>6. ASSUME NEW y \in ToSet(q) PROVE y \in ToSet(p \o q)
  <2>1. PICK i \in 1..Len(q) : q[i] = y
    BY <1>3, <1>6
  <2>2. Len(p) + i \in 1..(Len(p) + Len(q)) /\ (p \o q)[Len(p) + i] = y
    BY <1>1, <2>1
  <2> QED
    BY <1>2, <2>2
<1> QED
  BY <1>1, <1>4, <1>5, <1>6

LEMMA SubSeqFacts ==
    ASSUME NEW S, NEW q \in Seq(S), NEW m \in Nat \ {0}, NEW n \in Nat,
           m <= n + 1, n <= Len(q)
    PROVE  /\ SubSeq(q, m, n) \in Seq(S) /\ Len(SubSeq(q, m, n)) = n - m + 1
           /\ \A i \in 1..(n - m + 1) : SubSeq(q, m, n)[i] = q[m + i - 1]
           /\ ToSet(SubSeq(q, m, n)) \subseteq ToSet(q)
           /\ \A i \in m..n : q[i] \in ToSet(SubSeq(q, m, n))
<1>1. /\ SubSeq(q, m, n) \in Seq(S) /\ Len(SubSeq(q, m, n)) = n - m + 1
      /\ Len(q) \in Nat
      /\ \A i \in 1..(n - m + 1) : SubSeq(q, m, n)[i] = q[m + i - 1]
  OBVIOUS
<1>2. \A y : y \in ToSet(SubSeq(q, m, n)) <=> \E i \in 1..(n - m + 1) : SubSeq(q, m, n)[i] = y
  <2> DEFINE p == SubSeq(q, m, n)
  <2>1. p \in Seq(S) /\ Len(p) = n - m + 1 /\ DOMAIN p = 1..Len(p)
    BY <1>1
  <2> HIDE DEF p
  <2>2. \A y : y \in ToSet(p) <=> \E i \in 1..(n - m + 1) : p[i] = y
    BY <2>1 DEF ToSet
  <2> QED
    BY <2>2 DEF p
<1>3. ASSUME NEW y \in ToSet(SubSeq(q, m, n)) PROVE y \in ToSet(q)
  <2>1. PICK i \in 1..(n - m + 1) : SubSeq(q, m, n)[i] = y
    BY <1>2, <1>3
  <2>2. m + i - 1 \in 1..Len(q) /\ q[m + i - 1] = y
    BY <1>1, <2>1
  <2> QED
    BY <2>2, SeqFacts
<1>4. ASSUME NEW i \in m..n PROVE q[i] \in ToSet(SubSeq(q, m, n))
  <2>1. i - m + 1 \in 1..(n - m + 1) /\ m + (i - m + 1) - 1 = i
    BY <1>4
  <2>2. SubSeq(q, m, n)[i - m + 1] = q[i]
    BY <1>1, <2>1
  <2> QED
    BY <1>2, <2>1, <2>2
<1> QED
  BY <1>1, <1>3, <1>4

LEMMA PrefixFacts ==
    ASSUME NEW S, NEW q \in Seq(S), NEW n \in Nat, n <= Len(q)
    PROVE  /\ SubSeq(q, 1, n) \in Seq(S) /\ Len(SubSeq(q, 1, n)) = n
           /\ \A i \in 1..n : SubSeq(q, 1, n)[i] = q[i]
           /\ ToSet(SubSeq(q, 1, n)) \subseteq ToSet(q)
           /\ \A i \in 1..n : q[i] \in ToSet(SubSeq(q, 1, n))
<1> DEFINE m == 1
<1>1. m \in Nat \ {0} /\ m <= n + 1 /\ n - m + 1 = n /\ \A i \in Int : m + i - 1 = i
  OBVIOUS
<1> HIDE DEF m
<1>2. /\ SubSeq(q, m, n) \in Seq(S) /\ Len(SubSeq(q, m, n)) = n - m + 1
      /\ \A i \in 1..(n - m + 1) : SubSeq(q, m, n)[i] = q[m + i - 1]
      /\ ToSet(SubSeq(q, m, n)) \subseteq ToSet(q)
      /\ \A i \in m..n : q[i] \in ToSet(SubSeq(q, m, n))
  BY <1>1, SubSeqFacts
<1>3. /\ SubSeq(q, m, n) \in Seq(S) /\ Len(SubSeq(q, m, n)) = n
      /\ \A i \in 1..n : SubSeq(q, m, n)[i] = q[i]
  BY <1>1, <1>2
<1> QED
  BY <1>2, <1>3 DEF m

LEMMA SuffixFacts ==
    ASSUME NEW S, NEW q \in Seq(S), NEW k \in Nat, k <= Len(q)
    PROVE  /\ SubSeq(q, k + 1, Len(q)) \in Seq(S)
           /\ Len(SubSeq(q, k + 1, Len(q))) = Len(q) - k
           /\ \A i \in 1..(Len(q) - k) : SubSeq(q, k + 1, Len(q))[i] = q[k + i]
           /\ ToSet(SubSeq(q, k + 1, Len(q))) \subseteq ToSet(q)
           /\ \A i \in (k + 1)..Len(q) : q[i] \in ToSet(SubSeq(q, k + 1, Len(q)))
<1> DEFINE m == k + 1
           n == Len(q)
<1>1. /\ m \in Nat \ {0} /\ n \in Nat /\ m <= n + 1 /\ n <= Len(q)
      /\ n - m + 1 = n - k /\ \A i \in Int : m + i - 1 = k + i
  OBVIOUS
<1> HIDE DEF m, n
<1>2. /\ SubSeq(q, m, n) \in Seq(S) /\ Len(SubSeq(q, m, n)) = n - m + 1
      /\ \A i \in 1..(n - m + 1) : SubSeq(q, m, n)[i] = q[m + i - 1]
      /\ ToSet(SubSeq(q, m, n)) \subseteq ToSet(q)
      /\ \A i \in m..n : q[i] \in ToSet(SubSeq(q, m, n))
  BY <1>1, SubSeqFacts
<1>3. /\ Len(SubSeq(q, m, n)) = n - k
      /\ \A i \in 1..(n - k) : SubSeq(q, m, n)[i] = q[k + i]
  BY <1>1, <1>2
<1> QED
  BY <1>2, <1>3 DEF m, n

LEMMA RemoveAtFacts ==
    ASSUME NEW S, NEW q \in Seq(S), NEW i \in 1..Len(q)
    PROVE  /\ RemoveAt(q, i) \in Seq(S)
           /\ ToSet(RemoveAt(q, i)) \subseteq ToSet(q)
           /\ ToSet(q) \subseteq ToSet(RemoveAt(q, i)) \cup {q[i]}
<1> DEFINE front == SubSeq(q, 1, i - 1)
           back == SubSeq(q, i + 1, Len(q))
<1>1. i \in Nat /\ i - 1 \in Nat /\ Len(q) \in Nat /\ i - 1 <= Len(q) /\ i <= Len(q)
  BY SeqFacts
<1>2. /\ front \in Seq(S) /\ ToSet(front) \subseteq ToSet(q)
      /\ \A j \in 1..(i - 1) : q[j] \in ToSet(front)
  BY <1>1, PrefixFacts
<1>3. /\ back \in Seq(S) /\ ToSet(back) \subseteq ToSet(q)
      /\ \A j \in (i + 1)..Len(q) : q[j] \in ToSet(back)
  BY <1>1, SuffixFacts
<1>4. RemoveAt(q, i) = front \o back
  BY DEF RemoveAt
<1> HIDE DEF front, back
<1>5. RemoveAt(q, i) \in Seq(S) /\ ToSet(RemoveAt(q, i)) = ToSet(front) \cup ToSet(back)
  BY <1>2, <1>3, <1>4, ConcatFacts
<1>6. ASSUME NEW x \in ToSet(q) PROVE x \in ToSet(front) \cup ToSet(back) \cup {q[i]}
  <2>1. PICK j \in 1..Len(q) : q[j] = x
    BY SeqFacts
  <2>2. j = i \/ j \in 1..(i - 1) \/ j \in (i + 1)..Len(q)
    BY <1>1
  <2> QED
    BY <1>2, <1>3, <2>1, <2>2
<1> QED
  BY <1>2, <1>3, <1>5, <1>6

LEMMA EmptyFacts ==
    ASSUME NEW S
    PROVE  <<>> \in Seq(S) /\ Len(<<>>) = 0 /\ ToSet(<<>>) = {}
  BY DEF ToSet

LEMMA SingleFacts ==
    ASSUME NEW S, NEW x \in S
    PROVE  <<x>> \in Seq(S) /\ Len(<<x>>) = 1 /\ <<x>>[1] = x /\ ToSet(<<x>>) = {x}
<1>1. <<x>> \in Seq(S) /\ Len(<<x>>) = 1 /\ <<x>>[1] = x
  OBVIOUS
<1>2. \A y : y \in ToSet(<<x>>) <=> \E i \in 1..1 : <<x>>[i] = y
  BY <1>1 DEF ToSet
<1> QED
  BY <1>1, <1>2

-----------------------------------------------------------------------------
(***************************************************************************)
(* What the operations on BgState do.                                      *)
(***************************************************************************)

LEMMA Types ==
    /\ Capacity \in Nat /\ Capacity >= 1 /\ FrameCap \in Nat /\ FrameCap >= 1
    /\ DedupLimit \in Nat /\ Half \in Nat /\ Half >= 1 /\ Skew \in Nat
    /\ Startup \in Positive /\ Started \subseteq Sub /\ Channel \subseteq Sub
    /\ Membership \in Sub /\ Observer \in Sub /\ Control \subseteq Sub
    /\ Membership \notin Channel /\ Observer \notin Channel /\ Channel \cap Control = {}
    /\ Membership # Observer /\ PageLimit \in Nat
  BY RelayClientAssumption DEF Half, Startup, Positive, Sub, Control, Membership, Observer

(* The elements that a trimmed queue drops. *)
Shed(q) == {q[i] : i \in 1..Over(q)}

LEMMA NewestFacts ==
    ASSUME NEW q \in Seq(Positive)
    PROVE  /\ Over(q) \in Nat /\ Over(q) <= Len(q)
           /\ Newest(q) \in Seq(Positive) /\ Len(Newest(q)) <= FrameCap
           /\ Len(Newest(q)) = Len(q) - Over(q)
           /\ \A i \in 1..Len(Newest(q)) : Newest(q)[i] = q[Over(q) + i]
           /\ ToSet(Newest(q)) \subseteq ToSet(q)
           /\ ToSet(q) \subseteq ToSet(Newest(q)) \cup Shed(q)
           /\ IsFiniteSet(Shed(q)) /\ Cardinality(Shed(q)) <= Over(q)
<1>1. /\ Over(q) \in Nat /\ Over(q) <= Len(q) /\ Len(q) \in Nat
      /\ Len(q) - Over(q) <= FrameCap
  BY Types DEF Over
<1>2. /\ Newest(q) \in Seq(Positive) /\ Len(Newest(q)) = Len(q) - Over(q)
      /\ \A i \in 1..(Len(q) - Over(q)) : Newest(q)[i] = q[Over(q) + i]
      /\ ToSet(Newest(q)) \subseteq ToSet(q)
      /\ \A i \in (Over(q) + 1)..Len(q) : q[i] \in ToSet(Newest(q))
  BY <1>1, SuffixFacts DEF Newest
<1>3. ASSUME NEW x \in ToSet(q) PROVE x \in ToSet(Newest(q)) \cup Shed(q)
  <2>1. PICK i \in 1..Len(q) : q[i] = x
    BY <1>3, SeqFacts
  <2>2. i \in 1..Over(q) \/ i \in (Over(q) + 1)..Len(q)
    BY <1>1, <2>1
  <2> QED
    BY <1>2, <2>1, <2>2 DEF Shed
<1>4. IsFiniteSet(Shed(q)) /\ Cardinality(Shed(q)) <= Over(q)
  <2> DEFINE f == [i \in 1..Over(q) |-> q[i]]
  <2>1. f \in Surjection(1..Over(q), Shed(q))
    BY DEF Surjection, Shed
  <2>2. IsFiniteSet(1..Over(q)) /\ Cardinality(1..Over(q)) = Over(q)
    BY <1>1, FS_Interval
  <2> QED
    BY <2>1, <2>2, FS_Surjection
<1> QED
  BY <1>1, <1>2, <1>3, <1>4

LEMMA ParkedFields ==
    ASSUME NEW b \in BgState, NEW f \in Positive
    PROVE  /\ Parked(b, f) \in BgState
           /\ SameSubs(Parked(b, f), b) /\ SameIds(Parked(b, f), b)
           /\ Parked(b, f).gate = b.gate
           /\ Parked(b, f).pending = Newest(Append(b.pending, f))
           /\ Parked(b, f).inflight = b.inflight
           /\ Parked(b, f).evicted = b.evicted + Over(Append(b.pending, f))
<1>1. b.pending \in Seq(Positive) /\ Append(b.pending, f) \in Seq(Positive) /\ b.evicted \in Nat
  BY DEF BgState
<1>2. /\ Newest(Append(b.pending, f)) \in Seq(Positive)
      /\ Over(Append(b.pending, f)) \in Nat
  BY <1>1, NewestFacts
<1> DEFINE q == Append(b.pending, f)
           p == Newest(q)
           n == b.evicted + Over(q)
<1>3. p \in Seq(Positive) /\ n \in Nat
  BY <1>1, <1>2
<1>4. Parked(b, f) = [b EXCEPT !.pending = p, !.evicted = n]
  BY DEF Parked
<1> HIDE DEF p, n
<1>5. LET c == [b EXCEPT !.pending = p, !.evicted = n] IN
      /\ c \in BgState /\ SameSubs(c, b) /\ SameIds(c, b) /\ c.gate = b.gate
      /\ c.pending = p /\ c.inflight = b.inflight /\ c.evicted = n
  BY <1>3 DEF BgState, SameSubs, SameIds
<1> QED
  BY <1>4, <1>5 DEF p, n

LEMMA TrackedFields ==
    ASSUME NEW b \in BgState, NEW f \in Positive
    PROVE  /\ Tracked(b, f) \in BgState
           /\ SameSubs(Tracked(b, f), b) /\ SameIds(Tracked(b, f), b)
           /\ Tracked(b, f).gate = b.gate
           /\ Tracked(b, f).inflight = Newest(Append(b.inflight, f))
           /\ Tracked(b, f).pending = b.pending
           /\ Tracked(b, f).evicted = b.evicted + Over(Append(b.inflight, f))
<1>1. b.inflight \in Seq(Positive) /\ Append(b.inflight, f) \in Seq(Positive) /\ b.evicted \in Nat
  BY DEF BgState
<1>2. /\ Newest(Append(b.inflight, f)) \in Seq(Positive)
      /\ Over(Append(b.inflight, f)) \in Nat
  BY <1>1, NewestFacts
<1> DEFINE q == Append(b.inflight, f)
           p == Newest(q)
           n == b.evicted + Over(q)
<1>3. p \in Seq(Positive) /\ n \in Nat
  BY <1>1, <1>2
<1>4. Tracked(b, f) = [b EXCEPT !.inflight = p, !.evicted = n]
  BY DEF Tracked
<1> HIDE DEF p, n
<1>5. LET c == [b EXCEPT !.inflight = p, !.evicted = n] IN
      /\ c \in BgState /\ SameSubs(c, b) /\ SameIds(c, b) /\ c.gate = b.gate
      /\ c.inflight = p /\ c.pending = b.pending /\ c.evicted = n
  BY <1>3 DEF BgState, SameSubs, SameIds
<1> QED
  BY <1>4, <1>5 DEF p, n

LEMMA RequeuedFields ==
    ASSUME NEW b \in BgState
    PROVE  /\ Requeued(b) \in BgState
           /\ SameSubs(Requeued(b), b) /\ SameIds(Requeued(b), b)
           /\ Requeued(b).gate = b.gate
           /\ Requeued(b).inflight = <<>>
           /\ Requeued(b).pending = Newest(b.inflight \o b.pending)
           /\ Requeued(b).evicted = b.evicted + Over(b.inflight \o b.pending)
<1>1. /\ b.inflight \in Seq(Positive) /\ b.pending \in Seq(Positive) /\ b.evicted \in Nat
      /\ b.inflight \o b.pending \in Seq(Positive)
  BY DEF BgState
<1>2. /\ Newest(b.inflight \o b.pending) \in Seq(Positive)
      /\ Over(b.inflight \o b.pending) \in Nat
  BY <1>1, NewestFacts
<1>3. <<>> \in Seq(Positive)
  BY EmptyFacts
<1> DEFINE q == b.inflight \o b.pending
           p == Newest(q)
           n == b.evicted + Over(q)
<1>4. p \in Seq(Positive) /\ n \in Nat
  BY <1>1, <1>2
<1>5. Requeued(b) = [b EXCEPT !.pending = p, !.inflight = <<>>, !.evicted = n]
  BY DEF Requeued
<1> HIDE DEF p, n
<1>6. LET c == [b EXCEPT !.pending = p, !.inflight = <<>>, !.evicted = n] IN
      /\ c \in BgState /\ SameSubs(c, b) /\ SameIds(c, b) /\ c.gate = b.gate
      /\ c.pending = p /\ c.inflight = <<>> /\ c.evicted = n
  BY <1>3, <1>4 DEF BgState, SameSubs, SameIds
<1> QED
  BY <1>5, <1>6 DEF p, n

(* The position of an element before and after its removal. *)
LEMMA WithoutFacts ==
    ASSUME NEW q \in Seq(Positive), NEW f \in ToSet(q)
    PROVE  /\ Without(q, f) \in Seq(Positive) /\ Len(Without(q, f)) = Len(q) - 1
           /\ \E k \in 1..Len(q) :
                /\ q[k] = f
                /\ \A i \in 1..Len(Without(q, f)) :
                     Without(q, f)[i] = IF i < k THEN q[i] ELSE q[i + 1]
           /\ ToSet(Without(q, f)) \subseteq ToSet(q)
           /\ ToSet(q) \subseteq ToSet(Without(q, f)) \cup {f}
<1> DEFINE k == CHOOSE j \in DOMAIN q : q[j] = f
           front == SubSeq(q, 1, k - 1)
           back == SubSeq(q, k + 1, Len(q))
<1>1. Len(q) \in Nat /\ DOMAIN q = 1..Len(q) /\ \E j \in 1..Len(q) : q[j] = f
  BY SeqFacts
<1>2. k \in 1..Len(q) /\ q[k] = f
  BY <1>1
<1>3. Without(q, f) = front \o back
  BY DEF Without
<1> HIDE DEF k
<1>4. /\ 1 \in Nat \ {0} /\ k - 1 \in Nat /\ 1 <= (k - 1) + 1 /\ k - 1 <= Len(q)
      /\ k + 1 \in Nat \ {0} /\ Len(q) \in Nat /\ k + 1 <= Len(q) + 1 /\ Len(q) <= Len(q)
      /\ k \in Nat /\ k <= Len(q)
  BY <1>1, <1>2
<1>5. /\ front \in Seq(Positive) /\ Len(front) = k - 1
      /\ \A i \in 1..(k - 1) : front[i] = q[i]
      /\ ToSet(front) \subseteq ToSet(q)
      /\ \A i \in 1..(k - 1) : q[i] \in ToSet(front)
  BY <1>4, PrefixFacts
<1>6. /\ back \in Seq(Positive) /\ Len(back) = Len(q) - k
      /\ \A i \in 1..(Len(q) - k) : back[i] = q[k + i]
      /\ ToSet(back) \subseteq ToSet(q)
      /\ \A i \in (k + 1)..Len(q) : q[i] \in ToSet(back)
  BY <1>4, SuffixFacts
<1> HIDE DEF front, back
<1>7. /\ front \o back \in Seq(Positive) /\ Len(front \o back) = Len(q) - 1
      /\ \A i \in 1..(k - 1) : (front \o back)[i] = front[i]
      /\ \A i \in 1..(Len(q) - k) : (front \o back)[(k - 1) + i] = back[i]
      /\ ToSet(front \o back) = ToSet(front) \cup ToSet(back)
  <2>1. /\ front \o back \in Seq(Positive) /\ Len(front \o back) = Len(front) + Len(back)
        /\ \A i \in 1..Len(front) : (front \o back)[i] = front[i]
        /\ \A i \in 1..Len(back) : (front \o back)[Len(front) + i] = back[i]
        /\ ToSet(front \o back) = ToSet(front) \cup ToSet(back)
    BY <1>5, <1>6, ConcatFacts
  <2>2. (k - 1) + (Len(q) - k) = Len(q) - 1
    BY <1>4
  <2> QED
    BY <1>5, <1>6, <2>1, <2>2
<1>8. ASSUME NEW i \in 1..(Len(q) - 1)
      PROVE  (front \o back)[i] = IF i < k THEN q[i] ELSE q[i + 1]
  <2>1. CASE i < k
    BY <1>2, <1>5, <1>7, <2>1
  <2>2. CASE i >= k
    <3>1. i - (k - 1) \in 1..(Len(q) - k) /\ (k - 1) + (i - (k - 1)) = i
          /\ k + (i - (k - 1)) = i + 1
      BY <1>1, <1>2, <2>2
    <3> QED
      BY <1>2, <1>6, <1>7, <2>2, <3>1
  <2>3. i < k \/ i >= k
    BY <1>4
  <2> QED
    BY <2>1, <2>2, <2>3
<1>9. ASSUME NEW x \in ToSet(q), x # f PROVE x \in ToSet(front \o back)
  <2>1. PICK i \in 1..Len(q) : q[i] = x
    BY SeqFacts
  <2>2. i \in 1..(k - 1) \/ i \in (k + 1)..Len(q)
    BY <1>2, <1>9, <2>1
  <2> QED
    BY <1>5, <1>6, <1>7, <2>1, <2>2
<1>10. /\ ToSet(front \o back) \subseteq ToSet(q)
       /\ ToSet(q) \subseteq ToSet(front \o back) \cup {f}
  BY <1>5, <1>6, <1>7, <1>9
<1>11. \A i \in 1..Len(front \o back) : (front \o back)[i] = IF i < k THEN q[i] ELSE q[i + 1]
  BY <1>7, <1>8
<1>12. front \o back \in Seq(Positive) /\ Len(front \o back) = Len(q) - 1
  BY <1>7
<1> QED
  BY <1>2, <1>3, <1>10, <1>11, <1>12

(* A frame that is in flight is put off. *)
LEMMA RejectedFields ==
    ASSUME NEW b \in BgState, NEW f \in Positive
    PROVE  /\ Rejected(b, f) \in BgState
           /\ SameSubs(Rejected(b, f), b) /\ SameIds(Rejected(b, f), b)
           /\ Rejected(b, f).gate = b.gate
           /\ f \notin ToSet(b.inflight) => Rejected(b, f) = b
           /\ f \in ToSet(b.inflight) =>
                /\ Rejected(b, f).inflight = Without(b.inflight, f)
                /\ Len(b.pending) < FrameCap =>
                     /\ Rejected(b, f).pending = <<f>> \o b.pending
                     /\ Rejected(b, f).evicted = b.evicted
                /\ Len(b.pending) >= FrameCap =>
                     /\ Rejected(b, f).pending = <<f>> \o Tail(b.pending)
                     /\ Rejected(b, f).evicted = b.evicted + 1
<1>1. CASE f \notin ToSet(b.inflight)
  BY <1>1 DEF Rejected, SameSubs, SameIds
<1>2. CASE f \in ToSet(b.inflight)
  <2>1. b.inflight \in Seq(Positive) /\ b.pending \in Seq(Positive) /\ b.evicted \in Nat
    BY DEF BgState
  <2>2. <<f>> \in Seq(Positive) /\ Len(b.pending) \in Nat
    BY <2>1
  <2> DEFINE full == Len(b.pending) >= FrameCap
             q == Without(b.inflight, f)
             p == <<f>> \o (IF full THEN Tail(b.pending) ELSE b.pending)
             n == b.evicted + (IF full THEN 1 ELSE 0)
  <2>3. q \in Seq(Positive) /\ n \in Nat
    BY <1>2, <2>1, WithoutFacts
  <2>4. p \in Seq(Positive)
    <3>1. CASE full
      <4>1. b.pending # <<>>
        BY <3>1, Types
      <4>2. Tail(b.pending) \in Seq(Positive)
        BY <2>1, <4>1
      <4> QED
        BY <2>2, <3>1, <4>2, ConcatFacts
    <3>2. CASE ~full
      BY <2>1, <2>2, <3>2, ConcatFacts
    <3> QED
      BY <3>1, <3>2
  <2>5. Rejected(b, f) = [b EXCEPT !.inflight = q, !.pending = p, !.evicted = n]
    BY <1>2 DEF Rejected
  <2> HIDE DEF p, q, n
  <2>6. LET c == [b EXCEPT !.inflight = q, !.pending = p, !.evicted = n] IN
        /\ c \in BgState /\ SameSubs(c, b) /\ SameIds(c, b) /\ c.gate = b.gate
        /\ c.pending = p /\ c.inflight = q /\ c.evicted = n
    BY <2>3, <2>4 DEF BgState, SameSubs, SameIds
  <2>7. /\ ~full => p = <<f>> \o b.pending /\ n = b.evicted
        /\ full => p = <<f>> \o Tail(b.pending) /\ n = b.evicted + 1
    BY <2>1 DEF p, n
  <2>8. full \/ Len(b.pending) < FrameCap
    BY <2>2, Types
  <2>9. Len(b.pending) < FrameCap => ~full
    BY <2>2, Types
  <2> HIDE DEF full
  <2>10. q = Without(b.inflight, f)
    BY DEF q
  <2>11. Len(b.pending) >= FrameCap => full
    BY DEF full
  <2> QED
    BY <1>2, <2>5, <2>6, <2>7, <2>9, <2>10, <2>11
<1> QED
  BY <1>1, <1>2

LEMMA AcknowledgedFields ==
    ASSUME NEW b \in BgState, NEW f \in Positive
    PROVE  /\ Acknowledged(b, f) \in BgState
           /\ SameSubs(Acknowledged(b, f), b) /\ SameIds(Acknowledged(b, f), b)
           /\ Acknowledged(b, f).gate = b.gate
           /\ Acknowledged(b, f).pending = b.pending
           /\ Acknowledged(b, f).evicted = b.evicted
           /\ f \notin ToSet(b.inflight) => Acknowledged(b, f) = b
           /\ f \in ToSet(b.inflight) =>
                Acknowledged(b, f).inflight = Without(b.inflight, f)
<1>1. CASE f \notin ToSet(b.inflight)
  BY <1>1 DEF Acknowledged, SameSubs, SameIds
<1>2. CASE f \in ToSet(b.inflight)
  <2>1. b.inflight \in Seq(Positive)
    BY DEF BgState
  <2> DEFINE q == Without(b.inflight, f)
  <2>2. q \in Seq(Positive)
    BY <1>2, <2>1, WithoutFacts
  <2>3. Acknowledged(b, f) = [b EXCEPT !.inflight = q]
    BY <1>2 DEF Acknowledged
  <2> HIDE DEF q
  <2>4. LET c == [b EXCEPT !.inflight = q] IN
        /\ c \in BgState /\ SameSubs(c, b) /\ SameIds(c, b) /\ c.gate = b.gate
        /\ c.pending = b.pending /\ c.inflight = q /\ c.evicted = b.evicted
    BY <2>2 DEF BgState, SameSubs, SameIds
  <2> QED
    BY <1>2, <2>3, <2>4 DEF q
<1> QED
  BY <1>1, <1>2

LEMMA RemovedFields ==
    ASSUME NEW b \in BgState, NEW s \in Sub
    PROVE  /\ Removed(b, s) \in BgState
           /\ SameIds(Removed(b, s), b) /\ SameFrames(Removed(b, s), b)
           /\ Removed(b, s).gate = b.gate
           /\ Removed(b, s).active = b.active \ {s}
           /\ Removed(b, s).floor = [b.floor EXCEPT ![s] = None]
           /\ Removed(b, s).last = [b.last EXCEPT ![s] = None]
           /\ Removed(b, s).dropped = [b.dropped EXCEPT ![s] = None]
           /\ Removed(b, s).parked = b.parked \ {s}
           /\ Removed(b, s).retry = b.retry \ {s}
  BY DEF Removed, BgState, SameIds, SameFrames, None

LEMMA ClearedFields ==
    ASSUME NEW b \in BgState, NEW S
    PROVE  /\ Cleared(b, S) \in BgState
           /\ SameIds(Cleared(b, S), b) /\ SameFrames(Cleared(b, S), b)
           /\ Cleared(b, S).gate = b.gate
           /\ Cleared(b, S).active = b.active
           /\ Cleared(b, S).floor = b.floor
           /\ Cleared(b, S).last = b.last
           /\ Cleared(b, S).parked = b.parked
           /\ Cleared(b, S).retry = b.retry
           /\ \A s \in Sub : Cleared(b, S).dropped[s] = IF s \in S THEN None ELSE b.dropped[s]
  BY DEF Cleared, BgState, SameIds, SameFrames, None

LEMMA RememberedFields ==
    ASSUME NEW b \in BgState, NEW e \in Positive
    PROVE  /\ Remembered(b, e) \in BgState
           /\ SameSubs(Remembered(b, e), b) /\ SameFrames(Remembered(b, e), b)
           /\ Remembered(b, e).gate = b.gate
           /\ Cardinality(b.cur \cup {e}) >= Half =>
                Remembered(b, e).prev = b.cur \cup {e} /\ Remembered(b, e).cur = {}
           /\ ~(Cardinality(b.cur \cup {e}) >= Half) =>
                Remembered(b, e).prev = b.prev /\ Remembered(b, e).cur = b.cur \cup {e}
<1>1. CASE Cardinality(b.cur \cup {e}) >= Half
  BY <1>1 DEF Remembered, BgState, SameSubs, SameFrames, Half
<1>2. CASE ~(Cardinality(b.cur \cup {e}) >= Half)
  BY <1>2 DEF Remembered, BgState, SameSubs, SameFrames, Half
<1> QED
  BY <1>1, <1>2

LEMMA AppliedFields ==
    ASSUME NEW b \in BgState, NEW c \in Command
    PROVE  /\ Applied(b, c) \in BgState /\ SameIds(Applied(b, c), b)
           /\ Applied(b, c).gate = b.gate
           /\ c.op = "subscribe" =>
                /\ SameFrames(Applied(b, c), b)
                /\ Applied(b, c).active = b.active \cup {c.sub}
                /\ Applied(b, c).floor =
                     [b.floor EXCEPT ![c.sub] = IF b.floor[c.sub] = None THEN c.since
                                                ELSE b.floor[c.sub]]
                /\ Applied(b, c).last = b.last /\ Applied(b, c).dropped = b.dropped
                /\ Applied(b, c).parked = b.parked /\ Applied(b, c).retry = b.retry
           /\ c.op = "unsubscribe" => Applied(b, c) = Removed(b, c.sub)
           /\ c.op = "publish" => Applied(b, c) = Parked(b, c.frame)
           /\ c.op = "reconnect" => Applied(b, c) = b
<1>1. CASE c.op = "subscribe"
  <2>1. c.sub \in Sub /\ c.since \in Nat
    BY <1>1 DEF Command, Positive
  <2> DEFINE t == IF b.floor[c.sub] = None THEN c.since ELSE b.floor[c.sub]
  <2>2. t \in Nat
    BY <2>1 DEF BgState
  <2>3. Applied(b, c) = [b EXCEPT !.active = b.active \cup {c.sub}, !.floor[c.sub] = t]
    BY <1>1 DEF Applied
  <2> HIDE DEF t
  <2>4. LET d == [b EXCEPT !.active = b.active \cup {c.sub}, !.floor[c.sub] = t] IN
        /\ d \in BgState /\ SameIds(d, b) /\ SameFrames(d, b) /\ d.gate = b.gate
        /\ d.active = b.active \cup {c.sub}
        /\ d.floor = [b.floor EXCEPT ![c.sub] = t]
        /\ d.last = b.last /\ d.dropped = b.dropped /\ d.parked = b.parked /\ d.retry = b.retry
    BY <2>1, <2>2 DEF BgState, SameIds, SameFrames
  <2> QED
    BY <1>1, <2>3, <2>4 DEF t
<1>2. CASE c.op = "unsubscribe"
  <2>1. c.sub \in Sub /\ Applied(b, c) = Removed(b, c.sub)
    BY <1>2, Types DEF Command, Applied
  <2>2. /\ Removed(b, c.sub) \in BgState /\ SameIds(Removed(b, c.sub), b)
        /\ Removed(b, c.sub).gate = b.gate
    BY <2>1, RemovedFields
  <2> QED
    BY <1>2, <2>1, <2>2
<1>3. CASE c.op = "publish"
  <2>1. c.frame \in Positive /\ Applied(b, c) = Parked(b, c.frame)
    BY <1>3 DEF Command, Applied
  <2> QED
    BY <1>3, <2>1, ParkedFields
<1>4. CASE c.op = "reconnect"
  BY <1>4 DEF Applied, SameIds
<1>5. c.op \in {"subscribe", "unsubscribe", "publish", "reconnect"}
  BY DEF Command
<1> QED
  BY <1>1, <1>2, <1>3, <1>4, <1>5

LEMMA GateFields ==
    ASSUME NEW b \in BgState, NEW g \in BOOLEAN
    PROVE  LET c == [b EXCEPT !.gate = g] IN
           /\ c \in BgState /\ SameSubs(c, b) /\ SameIds(c, b) /\ SameFrames(c, b)
           /\ c.gate = g
  BY DEF BgState, SameSubs, SameIds, SameFrames

LEMMA IntentFields ==
    ASSUME NEW b \in BgState, NEW c \in Command, c.op = "subscribe"
    PROVE  /\ Intent(b, c) \in BgState /\ SameIds(Intent(b, c), b)
           /\ SameFrames(Intent(b, c), b) /\ Intent(b, c).gate = b.gate
           /\ Intent(b, c).active = b.active /\ Intent(b, c).floor = b.floor
           /\ Intent(b, c).last = b.last /\ Intent(b, c).dropped = b.dropped
           /\ Intent(b, c).parked = b.parked \cup ({c.sub} \cap Control)
           /\ Intent(b, c).retry = b.retry
<1> DEFINE P == b.parked \cup ({c.sub} \cap Control)
<1>1. P \in SUBSET Sub
  BY Types DEF BgState
<1>2. Intent(b, c) = [b EXCEPT !.parked = P]
  BY DEF Intent
<1> HIDE DEF P
<1>3. LET d == [b EXCEPT !.parked = P] IN
      /\ d \in BgState /\ SameIds(d, b) /\ SameFrames(d, b) /\ d.gate = b.gate
      /\ d.active = b.active /\ d.floor = b.floor /\ d.last = b.last
      /\ d.dropped = b.dropped /\ d.parked = P /\ d.retry = b.retry
  BY <1>1 DEF BgState, SameIds, SameFrames
<1> QED
  BY <1>2, <1>3 DEF P

-----------------------------------------------------------------------------
(***************************************************************************)
(* Types.                                                                  *)
(***************************************************************************)

StType ==
    /\ st \in BgState
    /\ Len(st.pending) <= FrameCap /\ Len(st.inflight) <= FrameCap

LinkType ==
    /\ phase \in Phases /\ link \in {"up", "dead"}
    /\ out \in Seq(Outgoing) /\ live \subseteq Sub
    /\ link = "dead" => out = <<>> /\ live = {}

WireType ==
    /\ wire \in Seq(Incoming)
    /\ \A m \in ToSet(wire) : m.type = "EVENT" => m.id \in DOMAIN stored

EnvType ==
    /\ stored \in Seq(StoredEvent) /\ now \in Nat /\ now >= Startup
    /\ queue \in Seq({"event", "lost"}) /\ Len(queue) <= Capacity
    /\ cmds \in Seq(Command) /\ used \in Spending

HistoryType ==
    /\ handed \subseteq DOMAIN stored /\ cut \subseteq DOMAIN stored
    /\ recent \in Seq(Positive) /\ forgotten \subseteq Sub

TypeInv == StType /\ LinkType /\ WireType /\ EnvType /\ HistoryType

LEMMA TypeInit ==
    ASSUME Init PROVE TypeInv
<1>1. StType
  <2>1. <<>> \in Seq(Positive) /\ Len(<<>>) = 0
    BY EmptyFacts
  <2> QED
    BY <2>1, Types DEF Init, StType, BgState, None, Positive
<1>2. LinkType
  BY EmptyFacts, Types DEF Init, LinkType, Phases
<1>3. WireType
  BY EmptyFacts DEF Init, WireType
<1>4. EnvType
  BY EmptyFacts, Types DEF Init, EnvType, Spending, Positive
<1>5. HistoryType
  BY EmptyFacts DEF Init, HistoryType
<1> QED
  BY <1>1, <1>2, <1>3, <1>4, <1>5 DEF TypeInv

LEMMA HeadCommand ==
    ASSUME TypeInv, cmds # <<>>
    PROVE  /\ Head(cmds) \in Command /\ Tail(cmds) \in Seq(Command)
           /\ Head(cmds).op \in {"subscribe", "unsubscribe", "publish", "reconnect"}
           /\ Head(cmds).op = "subscribe" => Head(cmds).sub \in Sub /\ Head(cmds).since \in Positive
           /\ Head(cmds).op = "unsubscribe" => Head(cmds).sub \in Channel /\ Head(cmds).sub \in Sub
           /\ Head(cmds).op = "publish" => Head(cmds).frame \in Positive
<1>1. Head(cmds) \in Command /\ Tail(cmds) \in Seq(Command)
  BY TailFacts DEF TypeInv, EnvType
<1> QED
  BY <1>1, Types DEF Command

LEMMA HeadMessage ==
    ASSUME TypeInv, wire # <<>>
    PROVE  /\ Head(wire) \in Incoming /\ Tail(wire) \in Seq(Incoming)
           /\ Head(wire) \in ToSet(wire) /\ ToSet(wire) = ToSet(Tail(wire)) \cup {Head(wire)}
           /\ Head(wire).type \in {"EVENT", "CLOSED", "OK", "NOTICE"}
           /\ Head(wire).type = "EVENT" =>
                Head(wire).id \in Positive /\ Head(wire).id \in DOMAIN stored
           /\ Head(wire).type = "CLOSED" => Head(wire).sub \in Sub /\ Head(wire).reason \in Reason
           /\ Head(wire).type = "OK" => Head(wire).frame \in Positive /\ Head(wire).final \in BOOLEAN
<1>1. /\ Head(wire) \in Incoming /\ Tail(wire) \in Seq(Incoming)
      /\ Head(wire) \in ToSet(wire) /\ ToSet(wire) = ToSet(Tail(wire)) \cup {Head(wire)}
  BY TailFacts DEF TypeInv, WireType
<1>2. Head(wire).type = "EVENT" => Head(wire).id \in DOMAIN stored
  BY <1>1 DEF TypeInv, WireType
<1> QED
  BY <1>1, <1>2 DEF Incoming

LEMMA FrameAt ==
    ASSUME TypeInv, NEW i \in DOMAIN out
    PROVE  /\ out[i] \in Outgoing /\ out[i] \in ToSet(out) /\ link = "up"
           /\ i \in 1..Len(out) /\ out \in Seq(Outgoing)
<1>1. out \in Seq(Outgoing) /\ link \in {"up", "dead"} /\ (link = "dead" => out = <<>>)
  BY DEF TypeInv, LinkType
<1>2. i \in 1..Len(out) /\ out # <<>>
  BY <1>1, SeqFacts
<1> QED
  BY <1>1, <1>2, SeqFacts

LEMMA FrameKinds ==
    ASSUME NEW m \in Outgoing
    PROVE  /\ m.type \in {"REQ", "QUERY", "CLOSE", "FRAME"}
           /\ m.type \in {"REQ", "QUERY"} => m.sub \in Sub /\ m.since \in Int
           /\ m.type = "CLOSE" => m.sub \in Channel /\ m.sub \in Sub
           /\ m.type = "FRAME" => m.frame \in Positive
  BY Types DEF Outgoing

LEMMA Constructors ==
    /\ \A s \in Sub, t \in Int : Req(s, t) \in Outgoing
    /\ \A s \in Channel : Close(s) \in Outgoing
    /\ \A f \in Positive : Frame(f) \in Outgoing /\ \A g \in BOOLEAN : Ok(f, g) \in Incoming
    /\ \A e \in Positive : Event(e) \in Incoming
    /\ \A s \in Sub, r \in Reason : Closed(s, r) \in Incoming
    /\ Notice \in Incoming
  BY Types DEF Req, Close, Frame, Ok, Event, Closed, Notice, Outgoing, Incoming

(* The cursor a replay starts from. *)
LEMMA SinceFacts ==
    ASSUME TypeInv, NEW s \in Sub
    PROVE  /\ Since(s) \in Nat
           /\ st.last[s] # None => Since(s) <= st.last[s]
           /\ st.dropped[s] # None => Since(s) <= st.dropped[s]
           /\ st.last[s] # None /\ st.dropped[s] = None => Since(s) = st.last[s]
           /\ st.last[s] = None /\ st.dropped[s] = None => Since(s) = st.floor[s]
           /\ Since(s) \in {st.last[s], st.dropped[s], st.floor[s]}
           /\ st.last[s] # None /\ st.dropped[s] # None =>
                Since(s) \in {st.last[s], st.dropped[s]}
<1> DEFINE l == st.last[s]
           d == st.dropped[s]
           f == st.floor[s]
           t == Earliest({l, d})
<1>1. l \in Nat /\ d \in Nat /\ f \in Nat
  BY DEF TypeInv, StType, BgState
<1>2. Since(s) = IF t = None THEN f ELSE t
  BY DEF Since
<1> HIDE DEF l, d, f
<1>3. CASE l = None /\ d = None
  <2>1. t = None
    BY <1>3 DEF Earliest
  <2> QED
    BY <1>1, <1>2, <1>3, <2>1 DEF l, d, f
<1>4. CASE l # None /\ d = None
  <2>1. {l, d} \ {None} = {l} /\ ~({l, d} \subseteq {None})
    BY <1>4
  <2>2. Min({l}) = l
    BY <1>1 DEF Min
  <2>3. t = l
    BY <2>1, <2>2 DEF Earliest
  <2> QED
    BY <1>1, <1>2, <1>4, <2>3 DEF l, d, f
<1>5. CASE l = None /\ d # None
  <2>1. {l, d} \ {None} = {d} /\ ~({l, d} \subseteq {None})
    BY <1>5
  <2>2. Min({d}) = d
    BY <1>1 DEF Min
  <2>3. t = d
    BY <2>1, <2>2 DEF Earliest
  <2> QED
    BY <1>1, <1>2, <1>5, <2>3 DEF l, d, f
<1>6. CASE l # None /\ d # None
  <2>1. {l, d} \ {None} = {l, d} /\ ~({l, d} \subseteq {None})
    BY <1>6
  <2>2. \E x \in {l, d} : \A y \in {l, d} : x <= y
    BY <1>1
  <2>3. Min({l, d}) \in {l, d} /\ \A y \in {l, d} : Min({l, d}) <= y
    BY <2>2 DEF Min
  <2>4. t = Min({l, d})
    BY <2>1 DEF Earliest
  <2> HIDE DEF t
  <2> QED
    BY <1>1, <1>2, <1>6, <2>3, <2>4 DEF l, d, f
<1> QED
  BY <1>3, <1>4, <1>5, <1>6

-----------------------------------------------------------------------------
(***************************************************************************)
(* What each step does to the task's memory.                               *)
(***************************************************************************)

LEMMA StNow ==
    ASSUME TypeInv
    PROVE  /\ st \in BgState /\ st.pending \in Seq(Positive) /\ st.inflight \in Seq(Positive)
           /\ st.active \subseteq Sub /\ st.parked \subseteq Sub /\ st.retry \subseteq Channel
           /\ st.floor \in [Sub -> Nat] /\ st.last \in [Sub -> Nat] /\ st.dropped \in [Sub -> Nat]
           /\ st.gate \in BOOLEAN /\ st.evicted \in Nat
           /\ st.cur \subseteq Positive /\ st.prev \subseteq Positive
           /\ Len(st.pending) <= FrameCap /\ Len(st.inflight) <= FrameCap
           /\ Len(st.pending) \in Nat /\ Len(st.inflight) \in Nat
  BY DEF TypeInv, StType, BgState

LEMMA ExecuteSubscribeSt ==
    ASSUME TypeInv, NEW c \in Command, ExecuteSubscribe(c)
    PROVE  /\ c.op = "subscribe" /\ c.sub \in Sub /\ c.since \in Positive
           /\ st' \in BgState /\ SameIds(st', st) /\ SameFrames(st', st) /\ st'.gate = st.gate
           /\ st'.active = st.active \cup {c.sub}
           /\ st'.floor = [st.floor EXCEPT ![c.sub] = IF st.floor[c.sub] = None THEN c.since
                                                      ELSE st.floor[c.sub]]
           /\ st'.last = st.last /\ st'.dropped = st.dropped
           /\ st.gate => st'.parked = st.parked \cup {c.sub} /\ st'.retry = st.retry
           /\ ~st.gate => st'.parked = st.parked \ {c.sub} /\ st'.retry = st.retry \ {c.sub}
<1>1. c.op = "subscribe" /\ c.sub \in Sub /\ c.since \in Positive
  BY DEF ExecuteSubscribe, Command
<1> DEFINE b == Applied(st, c)
<1>2. /\ b \in BgState /\ SameIds(b, st) /\ b.gate = st.gate /\ SameFrames(b, st)
      /\ b.active = st.active \cup {c.sub}
      /\ b.floor = [st.floor EXCEPT ![c.sub] = IF st.floor[c.sub] = None THEN c.since
                                               ELSE st.floor[c.sub]]
      /\ b.last = st.last /\ b.dropped = st.dropped
      /\ b.parked = st.parked /\ b.retry = st.retry
  BY <1>1, StNow, AppliedFields
<1>3. CASE st.gate
  <2>1. st' = [b EXCEPT !.parked = b.parked \cup {c.sub}]
    BY <1>3 DEF ExecuteSubscribe
  <2> HIDE DEF b
  <2>2. b.parked \cup {c.sub} \in SUBSET Sub
    BY <1>1, <1>2, StNow
  <2> QED
    BY <1>1, <1>2, <1>3, <2>1, <2>2 DEF BgState, SameIds, SameFrames
<1>4. CASE ~st.gate
  <2>1. st' = [b EXCEPT !.parked = b.parked \ {c.sub}, !.retry = b.retry \ {c.sub}]
    BY <1>4 DEF ExecuteSubscribe
  <2> HIDE DEF b
  <2>2. b.parked \ {c.sub} \in SUBSET Sub /\ b.retry \ {c.sub} \in SUBSET Channel
    BY <1>2, StNow
  <2> QED
    BY <1>1, <1>2, <1>4, <2>1, <2>2 DEF BgState, SameIds, SameFrames
<1> QED
  BY <1>3, <1>4

LEMMA ExecuteUnsubscribeSt ==
    ASSUME TypeInv, NEW c \in Command, ExecuteUnsubscribe(c)
    PROVE  /\ c.op = "unsubscribe" /\ c.sub \in Sub /\ c.sub \in Channel
           /\ st' = Removed(st, c.sub) /\ st' \in BgState
           /\ SameIds(st', st) /\ SameFrames(st', st) /\ st'.gate = st.gate
<1>1. c.op = "unsubscribe" /\ c.sub \in Sub /\ c.sub \in Channel /\ st' = Removed(st, c.sub)
  BY Types DEF ExecuteUnsubscribe, Command
<1> QED
  BY <1>1, StNow, RemovedFields

LEMMA ExecutePublishSt ==
    ASSUME TypeInv, NEW c \in Command, ExecutePublish(c)
    PROVE  /\ c.op = "publish" /\ c.frame \in Positive
           /\ \/ st' = Parked(st, c.frame) /\ out' = out
              \/ st' = Tracked(st, c.frame) /\ st.pending = <<>> /\ Sent(Frame(c.frame))
           /\ st' \in BgState /\ SameIds(st', st) /\ SameSubs(st', st) /\ st'.gate = st.gate
<1>1. /\ c.op = "publish" /\ c.frame \in Positive
      /\ \/ st' = Parked(st, c.frame) /\ out' = out
         \/ st' = Tracked(st, c.frame) /\ st.pending = <<>> /\ Sent(Frame(c.frame))
  BY DEF ExecutePublish, MustPark, Command, Wrote
<1>2. CASE st' = Parked(st, c.frame) /\ out' = out
  BY <1>1, <1>2, StNow, ParkedFields
<1>3. CASE st' = Tracked(st, c.frame) /\ st.pending = <<>> /\ Sent(Frame(c.frame))
  BY <1>1, <1>3, StNow, TrackedFields
<1> QED
  BY <1>1, <1>2, <1>3

LEMMA RequeuedLens ==
    ASSUME NEW b \in BgState
    PROVE  Len(Requeued(b).pending) <= FrameCap /\ Len(Requeued(b).inflight) <= FrameCap
<1>1. b.inflight \o b.pending \in Seq(Positive)
  BY DEF BgState
<1>2. Len(Newest(b.inflight \o b.pending)) <= FrameCap
  BY <1>1, NewestFacts
<1> QED
  BY <1>2, RequeuedFields, EmptyFacts, Types

LEMMA ParkedLens ==
    ASSUME NEW b \in BgState, NEW f \in Positive, Len(b.inflight) <= FrameCap
    PROVE  Len(Parked(b, f).pending) <= FrameCap /\ Len(Parked(b, f).inflight) <= FrameCap
<1>1. Append(b.pending, f) \in Seq(Positive)
  BY DEF BgState
<1>2. Len(Newest(Append(b.pending, f))) <= FrameCap
  BY <1>1, NewestFacts
<1>3. /\ Parked(b, f).pending = Newest(Append(b.pending, f))
      /\ Parked(b, f).inflight = b.inflight
  BY ParkedFields
<1> QED
  BY <1>2, <1>3

LEMMA TrackedLens ==
    ASSUME NEW b \in BgState, NEW f \in Positive, Len(b.pending) <= FrameCap
    PROVE  Len(Tracked(b, f).pending) <= FrameCap /\ Len(Tracked(b, f).inflight) <= FrameCap
<1>1. Append(b.inflight, f) \in Seq(Positive)
  BY DEF BgState
<1>2. Len(Newest(Append(b.inflight, f))) <= FrameCap
  BY <1>1, NewestFacts
<1>3. /\ Tracked(b, f).inflight = Newest(Append(b.inflight, f))
      /\ Tracked(b, f).pending = b.pending
  BY TrackedFields
<1> QED
  BY <1>2, <1>3

LEMMA AppliedLens ==
    ASSUME TypeInv, NEW c \in Command
    PROVE  /\ Len(Applied(st, c).pending) <= FrameCap
           /\ Len(Applied(st, c).inflight) <= FrameCap
<1>1. CASE c.op = "subscribe"
  BY <1>1, StNow, AppliedFields DEF SameFrames
<1>2. CASE c.op = "unsubscribe"
  <2>1. c.sub \in Sub /\ Applied(st, c) = Removed(st, c.sub)
    BY <1>2, StNow, AppliedFields, Types DEF Command
  <2>2. SameFrames(Removed(st, c.sub), st)
    BY <2>1, StNow, RemovedFields
  <2> QED
    BY <2>1, <2>2, StNow DEF SameFrames
<1>3. CASE c.op = "publish"
  <2>1. c.frame \in Positive /\ Applied(st, c) = Parked(st, c.frame)
    BY <1>3, StNow, AppliedFields DEF Command
  <2> QED
    BY <2>1, StNow, ParkedLens
<1>4. CASE c.op = "reconnect"
  BY <1>4, StNow, AppliedFields
<1>5. c.op \in {"subscribe", "unsubscribe", "publish", "reconnect"}
  BY DEF Command
<1> QED
  BY <1>1, <1>2, <1>3, <1>4, <1>5

LEMMA ExecuteType ==
    ASSUME TypeInv, NEW c \in Command, Execute(c)
    PROVE  StType'
<1>1. CASE ExecuteSubscribe(c)
  BY <1>1, ExecuteSubscribeSt, StNow DEF StType, SameFrames
<1>2. CASE ExecuteUnsubscribe(c)
  BY <1>2, ExecuteUnsubscribeSt, StNow DEF StType, SameFrames
<1>3. CASE ExecutePublish(c)
  <2>1. /\ c.frame \in Positive /\ st' \in BgState
        /\ st' = Parked(st, c.frame) \/ st' = Tracked(st, c.frame)
    BY <1>3, ExecutePublishSt
  <2> QED
    BY <2>1, StNow, ParkedLens, TrackedLens DEF StType
<1> QED
  BY <1>1, <1>2, <1>3 DEF Execute

LEMMA SubscribeFailsSt ==
    ASSUME TypeInv, NEW c \in Command, SubscribeFails(c)
    PROVE  LET b == Intent(Applied(st, c), c) IN
           /\ c.op = "subscribe" /\ c.sub \in Sub /\ c.since \in Positive
           /\ b \in BgState /\ SameIds(b, st) /\ SameFrames(b, st) /\ b.gate = st.gate
           /\ b.active = st.active \cup {c.sub}
           /\ b.floor = [st.floor EXCEPT ![c.sub] = IF st.floor[c.sub] = None THEN c.since
                                                    ELSE st.floor[c.sub]]
           /\ b.last = st.last /\ b.dropped = st.dropped
           /\ b.parked = st.parked \cup ({c.sub} \cap Control) /\ b.retry = st.retry
<1> DEFINE a == Applied(st, c)
           b == Intent(a, c)
<1>1. c.op = "subscribe" /\ c.sub \in Sub /\ c.since \in Positive
  BY DEF SubscribeFails, Command
<1>2. /\ a \in BgState /\ SameIds(a, st) /\ a.gate = st.gate /\ SameFrames(a, st)
      /\ a.active = st.active \cup {c.sub}
      /\ a.floor = [st.floor EXCEPT ![c.sub] = IF st.floor[c.sub] = None THEN c.since
                                               ELSE st.floor[c.sub]]
      /\ a.last = st.last /\ a.dropped = st.dropped
      /\ a.parked = st.parked /\ a.retry = st.retry
  BY <1>1, StNow, AppliedFields
<1> HIDE DEF a
<1>3. /\ b \in BgState /\ SameIds(b, a) /\ SameFrames(b, a) /\ b.gate = a.gate
      /\ b.active = a.active /\ b.floor = a.floor /\ b.last = a.last /\ b.dropped = a.dropped
      /\ b.parked = a.parked \cup ({c.sub} \cap Control) /\ b.retry = a.retry
  BY <1>1, <1>2, IntentFields
<1> HIDE DEF b
<1>4. /\ c.op = "subscribe" /\ c.sub \in Sub /\ c.since \in Positive
      /\ b \in BgState /\ SameIds(b, st) /\ SameFrames(b, st) /\ b.gate = st.gate
      /\ b.active = st.active \cup {c.sub}
      /\ b.floor = [st.floor EXCEPT ![c.sub] = IF st.floor[c.sub] = None THEN c.since
                                               ELSE st.floor[c.sub]]
      /\ b.last = st.last /\ b.dropped = st.dropped
      /\ b.parked = st.parked \cup ({c.sub} \cap Control) /\ b.retry = st.retry
  BY <1>1, <1>2, <1>3 DEF SameIds, SameFrames
<1> QED
  BY <1>4 DEF b, a

LEMMA ReconnectingSt ==
    ASSUME NEW b \in BgState, Reconnecting(b)
    PROVE  /\ st' = Requeued(b) /\ st' \in BgState
           /\ SameSubs(st', b) /\ SameIds(st', b) /\ st'.gate = b.gate /\ StType'
<1>1. st' = Requeued(b)
  BY DEF Reconnecting
<1> QED
  BY <1>1, RequeuedFields, RequeuedLens DEF StType

LEMMA RequeuedSt ==
    ASSUME NEW b \in BgState, st' = Requeued(b)
    PROVE  /\ st' \in BgState
           /\ SameSubs(st', b) /\ SameIds(st', b) /\ st'.gate = b.gate /\ StType'
  BY RequeuedFields, RequeuedLens DEF StType

LEMMA ConnectGatedSt ==
    ASSUME TypeInv, ConnectGated
    PROVE  /\ st' \in BgState /\ SameIds(st', st) /\ SameFrames(st', st) /\ st'.gate = st.gate
           /\ st'.active = st.active /\ st'.floor = st.floor /\ st'.last = st.last
           /\ st'.dropped = st.dropped /\ st'.parked = st.active /\ st'.retry = {} /\ StType'
<1>1. st' = [st EXCEPT !.parked = st.active, !.retry = {}]
  BY DEF ConnectGated
<1>2. /\ st' \in BgState /\ SameIds(st', st) /\ SameFrames(st', st) /\ st'.gate = st.gate
      /\ st'.active = st.active /\ st'.floor = st.floor /\ st'.last = st.last
      /\ st'.dropped = st.dropped /\ st'.parked = st.active /\ st'.retry = {}
  BY <1>1, StNow DEF BgState, SameIds, SameFrames
<1> QED
  BY <1>2, StNow DEF SameFrames, StType

LEMMA ConnectSt ==
    ASSUME TypeInv, NEW failing \in SUBSET st.active, NEW sent \in SUBSET st.active,
           st' = Cleared([st EXCEPT !.parked = (@ \ Channel) \ sent,
                                    !.retry = failing \cap Channel], sent)
    PROVE  /\ st' \in BgState /\ SameIds(st', st) /\ SameFrames(st', st) /\ st'.gate = st.gate
           /\ st'.active = st.active /\ st'.floor = st.floor /\ st'.last = st.last
           /\ st'.parked = (st.parked \ Channel) \ sent /\ st'.retry = failing \cap Channel
           /\ \A s \in Sub : st'.dropped[s] = IF s \in sent THEN None ELSE st.dropped[s]
           /\ StType'
<1> DEFINE P == (st.parked \ Channel) \ sent
           R == failing \cap Channel
           b == [st EXCEPT !.parked = P, !.retry = R]
<1>1. P \in SUBSET Sub /\ R \in SUBSET Channel
  BY StNow
<1>2. st' = Cleared(b, sent)
  OBVIOUS
<1> HIDE DEF P, R
<1>3. /\ b \in BgState /\ SameIds(b, st) /\ SameFrames(b, st) /\ b.gate = st.gate
      /\ b.active = st.active /\ b.floor = st.floor /\ b.last = st.last
      /\ b.dropped = st.dropped /\ b.parked = P /\ b.retry = R
  BY <1>1, StNow DEF BgState, SameIds, SameFrames
<1> HIDE DEF b
<1>4. /\ st' \in BgState /\ SameIds(st', b) /\ SameFrames(st', b) /\ st'.gate = b.gate
      /\ st'.active = b.active /\ st'.floor = b.floor /\ st'.last = b.last
      /\ st'.parked = b.parked /\ st'.retry = b.retry
      /\ \A s \in Sub : st'.dropped[s] = IF s \in sent THEN None ELSE b.dropped[s]
  BY <1>2, <1>3, ClearedFields
<1>5. /\ st' \in BgState /\ SameIds(st', st) /\ SameFrames(st', st) /\ st'.gate = st.gate
      /\ st'.active = st.active /\ st'.floor = st.floor /\ st'.last = st.last
      /\ st'.parked = P /\ st'.retry = R
      /\ \A s \in Sub : st'.dropped[s] = IF s \in sent THEN None ELSE st.dropped[s]
  BY <1>3, <1>4 DEF SameIds, SameFrames
<1>6. StType'
  BY <1>5, StNow DEF SameFrames, StType
<1> QED
  BY <1>5, <1>6 DEF P, R

LEMMA ClearedSt ==
    ASSUME TypeInv, NEW S, st' = Cleared(st, S)
    PROVE  /\ st' \in BgState /\ SameIds(st', st) /\ SameFrames(st', st) /\ st'.gate = st.gate
           /\ st'.active = st.active /\ st'.floor = st.floor /\ st'.last = st.last
           /\ st'.parked = st.parked /\ st'.retry = st.retry
           /\ \A s \in Sub : st'.dropped[s] = IF s \in S THEN None ELSE st.dropped[s]
           /\ StType'
<1>1. /\ st' \in BgState /\ SameIds(st', st) /\ SameFrames(st', st) /\ st'.gate = st.gate
      /\ st'.active = st.active /\ st'.floor = st.floor /\ st'.last = st.last
      /\ st'.parked = st.parked /\ st'.retry = st.retry
      /\ \A s \in Sub : st'.dropped[s] = IF s \in S THEN None ELSE st.dropped[s]
  BY StNow, ClearedFields
<1> QED
  BY <1>1, StNow DEF SameFrames, StType

LEMMA RemovedSt ==
    ASSUME TypeInv, NEW s \in Sub, st' = Removed(st, s)
    PROVE  /\ st' \in BgState /\ SameIds(st', st) /\ SameFrames(st', st) /\ st'.gate = st.gate
           /\ st'.active = st.active \ {s}
           /\ st'.floor = [st.floor EXCEPT ![s] = None]
           /\ st'.last = [st.last EXCEPT ![s] = None]
           /\ st'.dropped = [st.dropped EXCEPT ![s] = None]
           /\ st'.parked = st.parked \ {s} /\ st'.retry = st.retry \ {s}
           /\ StType'
<1>1. /\ st' \in BgState /\ SameIds(st', st) /\ SameFrames(st', st) /\ st'.gate = st.gate
      /\ st'.active = st.active \ {s}
      /\ st'.floor = [st.floor EXCEPT ![s] = None]
      /\ st'.last = [st.last EXCEPT ![s] = None]
      /\ st'.dropped = [st.dropped EXCEPT ![s] = None]
      /\ st'.parked = st.parked \ {s} /\ st'.retry = st.retry \ {s}
  BY StNow, RemovedFields
<1> QED
  BY <1>1, StNow DEF SameFrames, StType

(* The subscription is taken from one of the two lists; when it is active  *)
(* its dropped cursor is retired.                                          *)
LEMMA DrainPendingSt ==
    ASSUME TypeInv, NEW s \in Sub, DrainPending(s)
    PROVE  /\ st' \in BgState /\ SameIds(st', st) /\ SameFrames(st', st) /\ st'.gate = st.gate
           /\ st'.active = st.active /\ st'.floor = st.floor /\ st'.last = st.last
           /\ st.parked \ {s} \subseteq st'.parked /\ st'.parked \subseteq st.parked
           /\ st.retry \ {s} \subseteq st'.retry /\ st'.retry \subseteq st.retry
           /\ s \in st.active =>
                \A t \in Sub : st'.dropped[t] = IF t = s THEN None ELSE st.dropped[t]
           /\ s \notin st.active => st'.dropped = st.dropped
           /\ StType'
<1> DEFINE P == IF s \in st.parked THEN st.parked \ {s} ELSE st.parked
           R == IF s \in st.parked THEN st.retry ELSE st.retry \ {s}
           b == IF s \in st.parked THEN [st EXCEPT !.parked = @ \ {s}]
                                   ELSE [st EXCEPT !.retry = @ \ {s}]
<1>1. P \in SUBSET Sub /\ R \in SUBSET Channel
  BY StNow
<1>2. /\ b \in BgState /\ SameIds(b, st) /\ SameFrames(b, st) /\ b.gate = st.gate
      /\ b.active = st.active /\ b.floor = st.floor /\ b.last = st.last
      /\ b.dropped = st.dropped /\ b.parked = P /\ b.retry = R
  <2>1. CASE s \in st.parked
    BY <2>1, StNow DEF BgState, SameIds, SameFrames
  <2>2. CASE s \notin st.parked
    BY <2>2, StNow DEF BgState, SameIds, SameFrames
  <2> QED
    BY <2>1, <2>2
<1>3. /\ s \in st.active => st' = Cleared(b, {s})
      /\ s \notin st.active => st' = b
  BY DEF DrainPending
<1>4. /\ st.parked \ {s} \subseteq P /\ P \subseteq st.parked
      /\ st.retry \ {s} \subseteq R /\ R \subseteq st.retry
  OBVIOUS
<1> HIDE DEF P, R, b
<1>5. CASE s \in st.active
  <2>1. /\ st' \in BgState /\ SameIds(st', b) /\ SameFrames(st', b) /\ st'.gate = b.gate
        /\ st'.active = b.active /\ st'.floor = b.floor /\ st'.last = b.last
        /\ st'.parked = b.parked /\ st'.retry = b.retry
        /\ \A t \in Sub : st'.dropped[t] = IF t \in {s} THEN None ELSE b.dropped[t]
    BY <1>2, <1>3, <1>5, ClearedFields
  <2>2. /\ SameIds(st', st) /\ SameFrames(st', st) /\ st'.gate = st.gate
        /\ \A t \in Sub : st'.dropped[t] = IF t = s THEN None ELSE st.dropped[t]
    BY <1>2, <2>1 DEF SameIds, SameFrames
  <2> QED
    BY <1>2, <1>4, <1>5, <2>1, <2>2, StNow DEF StType, SameFrames
<1>6. CASE s \notin st.active
  BY <1>2, <1>3, <1>4, <1>6, StNow DEF StType, SameFrames
<1> QED
  BY <1>5, <1>6

LEMMA ParkRetrySt ==
    ASSUME TypeInv, NEW s \in Sub, ParkRetry(s)
    PROVE  /\ st' \in BgState /\ SameIds(st', st) /\ SameFrames(st', st) /\ st'.gate = st.gate
           /\ st'.active = st.active /\ st'.floor = st.floor /\ st'.last = st.last
           /\ st'.dropped = st.dropped
           /\ st'.parked = st.parked \cup {s} /\ st'.retry = st.retry \ {s} /\ StType'
<1> DEFINE P == st.parked \cup {s}
           R == st.retry \ {s}
<1>1. st' = [st EXCEPT !.parked = P, !.retry = R]
  BY DEF ParkRetry, BgState
<1>2. P \in SUBSET Sub /\ R \in SUBSET Channel
  BY StNow
<1> HIDE DEF P, R
<1>3. /\ st' \in BgState /\ SameIds(st', st) /\ SameFrames(st', st) /\ st'.gate = st.gate
      /\ st'.active = st.active /\ st'.floor = st.floor /\ st'.last = st.last
      /\ st'.dropped = st.dropped /\ st'.parked = P /\ st'.retry = R
  BY <1>1, <1>2, StNow DEF BgState, SameIds, SameFrames
<1> QED
  BY <1>3, StNow DEF StType, SameFrames, P, R

LEMMA GateExpiresSt ==
    ASSUME TypeInv, GateExpires
    PROVE  /\ st' \in BgState /\ SameSubs(st', st) /\ SameIds(st', st)
           /\ SameFrames(st', st) /\ StType'
<1>1. st' = [st EXCEPT !.gate = FALSE]
  BY DEF GateExpires
<1>2. st' \in BgState /\ SameSubs(st', st) /\ SameIds(st', st) /\ SameFrames(st', st)
  BY <1>1, StNow, GateFields
<1> QED
  BY <1>2, StNow DEF StType, SameFrames

LEMMA DrainFrameSt ==
    ASSUME TypeInv, DrainFrame
    PROVE  /\ st.pending # <<>> /\ Head(st.pending) \in Positive
           /\ Tail(st.pending) \in Seq(Positive)
           /\ st' \in BgState /\ SameSubs(st', st) /\ SameIds(st', st) /\ StType'
           /\ st'.inflight = Newest(Append(st.inflight, Head(st.pending)))
           /\ st'.pending = Tail(st.pending)
           /\ st'.evicted = st.evicted + Over(Append(st.inflight, Head(st.pending)))
<1>1. /\ st.pending # <<>> /\ Head(st.pending) \in Positive
      /\ Tail(st.pending) \in Seq(Positive) /\ Len(Tail(st.pending)) <= FrameCap
  <2>1. st.pending # <<>>
    BY DEF DrainFrame
  <2>2. /\ Head(st.pending) \in Positive /\ Tail(st.pending) \in Seq(Positive)
        /\ Len(Tail(st.pending)) = Len(st.pending) - 1
    BY <2>1, StNow, TailFacts
  <2> QED
    BY <2>1, <2>2, StNow, Types
<1> DEFINE p == Tail(st.pending)
           b == [st EXCEPT !.pending = p]
           f == Head(st.pending)
<1>2. st' = Tracked(b, f)
  BY DEF DrainFrame
<1>3. p \in Seq(Positive) /\ Len(p) <= FrameCap /\ f \in Positive
  BY <1>1
<1> HIDE DEF p, f
<1>4. /\ b \in BgState /\ SameSubs(b, st) /\ SameIds(b, st)
      /\ b.pending = p /\ b.inflight = st.inflight /\ b.evicted = st.evicted
  BY <1>3, StNow DEF BgState, SameSubs, SameIds
<1> HIDE DEF b
<1>5. /\ st' \in BgState /\ SameSubs(st', b) /\ SameIds(st', b)
      /\ st'.inflight = Newest(Append(b.inflight, f))
      /\ st'.pending = b.pending
      /\ st'.evicted = b.evicted + Over(Append(b.inflight, f))
  BY <1>2, <1>3, <1>4, TrackedFields
<1>6. Len(st'.pending) <= FrameCap /\ Len(st'.inflight) <= FrameCap
  BY <1>2, <1>3, <1>4, TrackedLens
<1>7. SameSubs(st', st) /\ SameIds(st', st)
  BY <1>4, <1>5 DEF SameSubs, SameIds
<1> QED
  BY <1>1, <1>4, <1>5, <1>6, <1>7 DEF StType, p, f

LEMMA HandleNoticeSt ==
    ASSUME TypeInv, HandleNotice
    PROVE  /\ st' \in BgState /\ SameSubs(st', st) /\ SameIds(st', st) /\ StType'
           /\ SameFrames(st', Requeued(st))
<1> DEFINE b == Requeued(st)
<1>1. st' = [b EXCEPT !.gate = TRUE]
  BY DEF HandleNotice
<1>2. /\ b \in BgState /\ SameSubs(b, st) /\ SameIds(b, st)
      /\ Len(b.pending) <= FrameCap /\ Len(b.inflight) <= FrameCap
  BY StNow, RequeuedFields, RequeuedLens
<1> HIDE DEF b
<1>3. st' \in BgState /\ SameSubs(st', b) /\ SameIds(st', b) /\ SameFrames(st', b)
  BY <1>1, <1>2, GateFields
<1>4. SameSubs(st', st) /\ SameIds(st', st) /\ StType'
  BY <1>2, <1>3 DEF SameSubs, SameIds, SameFrames, StType
<1> QED
  BY <1>3, <1>4 DEF b

LEMMA PrependLen ==
    ASSUME NEW q \in Seq(Positive), NEW f \in Positive
    PROVE  Len(<<f>> \o q) = 1 + Len(q)
<1> DEFINE p == <<f>>
<1>1. p \in Seq(Positive) /\ Len(p) = 1
  OBVIOUS
<1> HIDE DEF p
<1>2. Len(p \o q) = 1 + Len(q)
  BY <1>1, ConcatFacts
<1> QED
  BY <1>2 DEF p

LEMMA RejectedLens ==
    ASSUME TypeInv, NEW f \in Positive
    PROVE  /\ Len(Rejected(st, f).pending) <= FrameCap
           /\ Len(Rejected(st, f).inflight) <= FrameCap
<1> DEFINE b == Rejected(st, f)
<1>1. CASE f \notin ToSet(st.inflight)
  BY <1>1, StNow, RejectedFields
<1>2. CASE f \in ToSet(st.inflight)
  <2>1. /\ b.inflight = Without(st.inflight, f)
        /\ Len(st.pending) < FrameCap => b.pending = <<f>> \o st.pending
        /\ Len(st.pending) >= FrameCap => b.pending = <<f>> \o Tail(st.pending)
    BY <1>2, StNow, RejectedFields
  <2>2. Len(Without(st.inflight, f)) = Len(st.inflight) - 1
    BY <1>2, StNow, WithoutFacts
  <2>4. CASE Len(st.pending) < FrameCap
    <3> DEFINE q == <<f>> \o st.pending
    <3>1. Len(q) = 1 + Len(st.pending)
      BY StNow, PrependLen
    <3>2. b.pending = q /\ b.inflight = Without(st.inflight, f)
      BY <2>1, <2>4
    <3> HIDE DEF q, b
    <3>3. Len(b.pending) <= FrameCap /\ Len(b.inflight) <= FrameCap
      BY <2>2, <2>4, <3>1, <3>2, StNow, Types
    <3> QED
      BY <3>3 DEF b
  <2>5. CASE Len(st.pending) >= FrameCap
    <3>1. st.pending # <<>>
      BY <2>5, Types
    <3>2. Tail(st.pending) \in Seq(Positive) /\ Len(Tail(st.pending)) = Len(st.pending) - 1
      BY <3>1, StNow, TailFacts
    <3> DEFINE q == <<f>> \o Tail(st.pending)
    <3>3. Len(q) = 1 + (Len(st.pending) - 1)
      BY <3>2, PrependLen
    <3>4. b.pending = q /\ b.inflight = Without(st.inflight, f)
      BY <2>1, <2>5
    <3> HIDE DEF q, b
    <3>5. Len(b.pending) <= FrameCap /\ Len(b.inflight) <= FrameCap
      BY <2>2, <3>3, <3>4, StNow, Types
    <3> QED
      BY <3>5 DEF b
  <2> QED
    BY <2>4, <2>5, StNow, Types
<1> QED
  BY <1>1, <1>2

LEMMA HandleOkSt ==
    ASSUME TypeInv, HandleOk
    PROVE  LET f == Head(wire).frame IN
           /\ wire # <<>> /\ Head(wire).type = "OK" /\ f \in Positive
           /\ st' \in BgState /\ SameSubs(st', st) /\ SameIds(st', st) /\ StType'
           /\ Head(wire).final => st' = Acknowledged(st, f)
           /\ ~Head(wire).final => SameFrames(st', Rejected(st, f))
<1> DEFINE f == Head(wire).frame
<1>1. wire # <<>> /\ Head(wire).type = "OK" /\ f \in Positive /\ Head(wire).final \in BOOLEAN
  <2>1. wire # <<>> /\ Head(wire).type = "OK"
    BY DEF HandleOk, Received
  <2> QED
    BY <2>1, HeadMessage
<1>2. CASE Head(wire).final
  <2>1. st' = Acknowledged(st, f)
    BY <1>2 DEF HandleOk
  <2> HIDE DEF f
  <2>2. /\ st' \in BgState /\ SameSubs(st', st) /\ SameIds(st', st)
        /\ st'.pending = st.pending
        /\ f \notin ToSet(st.inflight) => st' = st
        /\ f \in ToSet(st.inflight) => st'.inflight = Without(st.inflight, f)
    BY <1>1, <2>1, StNow, AcknowledgedFields
  <2>3. f \in ToSet(st.inflight) => Len(Without(st.inflight, f)) = Len(st.inflight) - 1
    BY StNow, WithoutFacts
  <2>4. StType'
    BY <2>2, <2>3, StNow, Types DEF StType
  <2> QED
    BY <1>1, <1>2, <2>1, <2>2, <2>4 DEF f
<1>3. CASE ~Head(wire).final
  <2> DEFINE b == Rejected(st, f)
  <2>1. st' = [b EXCEPT !.gate = TRUE]
    BY <1>3 DEF HandleOk
  <2>2. /\ b \in BgState /\ SameSubs(b, st) /\ SameIds(b, st)
        /\ Len(b.pending) <= FrameCap /\ Len(b.inflight) <= FrameCap
    BY <1>1, StNow, RejectedFields, RejectedLens
  <2> HIDE DEF b
  <2>3. st' \in BgState /\ SameSubs(st', b) /\ SameIds(st', b) /\ SameFrames(st', b)
    BY <2>1, <2>2, GateFields
  <2>4. SameSubs(st', st) /\ SameIds(st', st) /\ StType'
    BY <2>2, <2>3 DEF SameSubs, SameIds, SameFrames, StType
  <2> QED
    BY <1>1, <1>3, <2>3, <2>4 DEF b
<1> QED
  BY <1>2, <1>3

LEMMA StoredAt ==
    ASSUME TypeInv, NEW e \in DOMAIN stored
    PROVE  /\ e \in Positive /\ stored[e] \in StoredEvent
           /\ stored[e].sub \in Sub /\ stored[e].ts \in Positive
<1>1. stored \in Seq(StoredEvent)
  BY DEF TypeInv, EnvType
<1>2. e \in 1..Len(stored) /\ Len(stored) \in Nat /\ stored[e] \in StoredEvent
  BY <1>1
<1> QED
  BY <1>2 DEF StoredEvent, Positive

LEMMA DroppedCursorFacts ==
    ASSUME TypeInv, NEW s \in Sub, NEW t \in Positive
    PROVE  /\ DroppedCursor(s, t) \in Positive /\ DroppedCursor(s, t) <= t
           /\ st.dropped[s] # None => DroppedCursor(s, t) <= st.dropped[s]
           /\ DroppedCursor(s, t) \in {st.dropped[s], t}
<1> DEFINE d == st.dropped[s]
<1>1. d \in Nat /\ t \in Nat /\ t # None
  BY StNow DEF Positive, None
<1>2. DroppedCursor(s, t) = Min({d, t} \ {None})
  <2>1. DroppedCursor(s, t) = Earliest({d, t})
    BY DEF DroppedCursor
  <2> HIDE DEF d
  <2>2. ~({d, t} \subseteq {None})
    BY <1>1
  <2> QED
    BY <2>1, <2>2 DEF Earliest
<1> HIDE DEF d
<1>3. CASE d = None
  <2>1. {d, t} \ {None} = {t}
    BY <1>1, <1>3
  <2>2. Min({t}) = t
    BY <1>1 DEF Min
  <2> QED
    BY <1>1, <1>2, <1>3, <2>1, <2>2 DEF d
<1>4. CASE d # None
  <2>1. {d, t} \ {None} = {d, t}
    BY <1>1, <1>4
  <2>2. \E x \in {d, t} : \A y \in {d, t} : x <= y
    BY <1>1
  <2>3. Min({d, t}) \in {d, t} /\ \A y \in {d, t} : Min({d, t}) <= y
    BY <2>2 DEF Min
  <2> QED
    BY <1>1, <1>2, <1>4, <2>1, <2>3 DEF d, Positive, None
<1> QED
  BY <1>3, <1>4

(* An event that the duplicate filter lets through is handed on ... *)
EventHanded(e) ==
    LET s == stored[e].sub
        t == stored[e].ts IN
    /\ Len(queue) < Capacity
    /\ queue' = Append(queue, "event") /\ handed' = handed \cup {e} /\ cut' = cut \ {e}
    /\ recent' = LET r == Append(recent, e) IN IF Len(r) > Half THEN Tail(r) ELSE r
    /\ SameIds(st', Remembered(st, e))
    /\ st'.last = [st.last EXCEPT ![s] = Later(st.last[s], t)]
    /\ st'.dropped = st.dropped

(* ... or dropped by the full channel, and forgotten again. *)
EventDropped(e) ==
    LET s == stored[e].sub
        t == stored[e].ts IN
    /\ ~(Len(queue) < Capacity)
    /\ queue' = queue /\ handed' = handed /\ recent' = recent /\ cut' = cut
    /\ st'.cur = Remembered(st, e).cur \ {e} /\ st'.prev = Remembered(st, e).prev \ {e}
    /\ \/ st'.last = [st.last EXCEPT ![s] = Later(st.last[s], t)]
       \/ s = Membership /\ st'.last = st.last
    /\ st'.dropped = [st.dropped EXCEPT ![s] = DroppedCursor(s, t)]

LEMMA NewEventSt ==
    ASSUME TypeInv, NEW e \in DOMAIN stored, NewEvent(e)
    PROVE  /\ st' \in BgState /\ SameFrames(st', st) /\ st'.gate = st.gate /\ StType'
           /\ st'.active = st.active /\ st'.floor = st.floor
           /\ st'.parked = st.parked /\ st'.retry = st.retry
           /\ EventHanded(e) \/ EventDropped(e)
<1> DEFINE s == stored[e].sub
           t == stored[e].ts
           r == Remembered(st, e)
           l == Later(st.last[s], t)
           seen == [r EXCEPT !.last[s] = Later(@, t)]
<1>1. e \in Positive /\ s \in Sub /\ t \in Positive /\ t \in Nat
  BY StoredAt DEF Positive
<1>2. r \in BgState /\ SameSubs(r, st) /\ SameFrames(r, st) /\ r.gate = st.gate
  BY <1>1, StNow, RememberedFields
<1>3. l \in Nat
  BY <1>1, StNow DEF Later
<1>4. seen = [r EXCEPT !.last[s] = l]
  <2>1. r.last = st.last
    BY <1>2 DEF SameSubs
  <2> QED
    BY <2>1
<1>5. /\ Len(queue) < Capacity =>
           /\ st' = seen /\ queue' = Append(queue, "event")
           /\ handed' = handed \cup {e} /\ cut' = cut \ {e}
           /\ recent' = LET q == Append(recent, e) IN IF Len(q) > Half THEN Tail(q) ELSE q
      /\ ~(Len(queue) < Capacity) =>
           /\ st' = [IF s = Membership THEN r ELSE seen
                       EXCEPT !.cur = @ \ {e}, !.prev = @ \ {e},
                              !.dropped[s] = DroppedCursor(s, t)]
           /\ queue' = queue /\ handed' = handed /\ recent' = recent /\ cut' = cut
  BY DEF NewEvent, Half, handVars
<1> HIDE DEF r, l, seen
<1>6. /\ seen \in BgState /\ SameIds(seen, r) /\ SameFrames(seen, r) /\ seen.gate = r.gate
      /\ seen.active = r.active /\ seen.floor = r.floor /\ seen.parked = r.parked
      /\ seen.retry = r.retry /\ seen.dropped = r.dropped
      /\ seen.last = [r.last EXCEPT ![s] = l]
  BY <1>1, <1>2, <1>3, <1>4 DEF BgState, SameIds, SameFrames
<1>7. CASE Len(queue) < Capacity
  <2>1. st' = seen
    BY <1>5, <1>7
  <2>2. /\ st' \in BgState /\ SameIds(st', r) /\ SameFrames(st', st) /\ st'.gate = st.gate
        /\ st'.active = st.active /\ st'.floor = st.floor /\ st'.parked = st.parked
        /\ st'.retry = st.retry /\ st'.dropped = st.dropped
        /\ st'.last = [st.last EXCEPT ![s] = l]
    BY <1>2, <1>6, <2>1 DEF SameSubs, SameFrames
  <2>3. StType'
    BY <2>2, StNow DEF StType, SameFrames
  <2>4. EventHanded(e)
    BY <1>5, <1>7, <2>2 DEF EventHanded, r, l
  <2> QED
    BY <2>2, <2>3, <2>4
<1>8. CASE ~(Len(queue) < Capacity)
  <2> DEFINE b == IF s = Membership THEN r ELSE seen
             d == DroppedCursor(s, t)
             C == b.cur \ {e}
             Q == b.prev \ {e}
  <2>1. st' = [b EXCEPT !.cur = C, !.prev = Q, !.dropped[s] = d]
    BY <1>5, <1>8
  <2>2. /\ b \in BgState /\ SameIds(b, r) /\ SameFrames(b, st) /\ b.gate = st.gate
        /\ b.active = st.active /\ b.floor = st.floor /\ b.parked = st.parked
        /\ b.retry = st.retry /\ b.dropped = st.dropped
        /\ \/ b.last = [st.last EXCEPT ![s] = l]
           \/ s = Membership /\ b.last = st.last
    BY <1>2, <1>6 DEF SameIds, SameSubs, SameFrames
  <2>3. d \in Nat
    BY <1>1, DroppedCursorFacts DEF Positive
  <2>4. C \in SUBSET Positive /\ Q \in SUBSET Positive
    BY <2>2 DEF BgState
  <2>5. C = r.cur \ {e} /\ Q = r.prev \ {e}
    BY <2>2 DEF SameIds
  <2> HIDE DEF b, d, C, Q
  <2>6. /\ st' \in BgState /\ SameFrames(st', b) /\ st'.gate = b.gate
        /\ st'.active = b.active /\ st'.floor = b.floor /\ st'.parked = b.parked
        /\ st'.retry = b.retry /\ st'.last = b.last /\ st'.cur = C /\ st'.prev = Q
        /\ st'.dropped = [b.dropped EXCEPT ![s] = d]
    BY <1>1, <2>1, <2>2, <2>3, <2>4 DEF BgState, SameFrames
  <2>7. SameFrames(st', st)
    BY <2>2, <2>6 DEF SameFrames
  <2>8. StType'
    BY <2>6, <2>7, StNow DEF StType, SameFrames
  <2>9. EventDropped(e)
    BY <1>5, <1>8, <2>2, <2>5, <2>6 DEF EventDropped, r, l, d
  <2> QED
    BY <2>2, <2>6, <2>7, <2>8, <2>9
<1> QED
  BY <1>7, <1>8

LEMMA ClosedParksFields ==
    ASSUME TypeInv, NEW s \in Sub, st' = ClosedParks(s)
    PROVE  /\ st' \in BgState /\ SameIds(st', st) /\ SameFrames(st', st)
           /\ st'.active = st.active /\ st'.floor = st.floor /\ st'.last = st.last
           /\ st'.dropped = st.dropped /\ st'.parked = st.parked \cup {s}
           /\ st'.retry = st.retry /\ StType'
<1> DEFINE P == st.parked \cup {s}
<1>1. st' = [st EXCEPT !.gate = TRUE, !.parked = P]
  BY DEF ClosedParks
<1>2. P \in SUBSET Sub
  BY StNow
<1> HIDE DEF P
<1>3. /\ st' \in BgState /\ SameIds(st', st) /\ SameFrames(st', st)
      /\ st'.active = st.active /\ st'.floor = st.floor /\ st'.last = st.last
      /\ st'.dropped = st.dropped /\ st'.parked = P /\ st'.retry = st.retry
  BY <1>1, <1>2, StNow DEF BgState, SameIds, SameFrames
<1> QED
  BY <1>3, StNow DEF StType, SameFrames, P

-----------------------------------------------------------------------------
(***************************************************************************)
(* Every step keeps the types.                                             *)
(***************************************************************************)

LEMMA HistorySets ==
    /\ \A q : AskedBy(q) \subseteq DOMAIN stored /\ Carrying(q) \subseteq DOMAIN stored
    /\ \A s : DropsOf(s) \subseteq DOMAIN stored
    /\ \A c : DropsForgotten(c) \subseteq DOMAIN stored
  BY DEF AskedBy, Carrying, DropsOf, DropsForgotten, Unhanded

LEMMA SentFacts ==
    ASSUME TypeInv, NEW m \in Outgoing, Sent(m)
    PROVE  /\ out' \in Seq(Outgoing)
           /\ link = "dead" => out' = out
           /\ link = "up" => out' = Append(out, m) /\ ToSet(out') = ToSet(out) \cup {m}
<1>1. out \in Seq(Outgoing) /\ link \in {"up", "dead"}
  BY DEF TypeInv, LinkType
<1>2. CASE link = "up"
  <2>1. out' = Append(out, m)
    BY <1>2 DEF Sent
  <2> QED
    BY <1>1, <1>2, <2>1, AppendFacts
<1>3. CASE link = "dead"
  BY <1>1, <1>3 DEF Sent
<1> QED
  BY <1>1, <1>2, <1>3

LEMMA WroteFacts ==
    ASSUME TypeInv, NEW m \in Outgoing, Wrote(m)
    PROVE  /\ out' \in Seq(Outgoing)
           /\ link = "dead" => out' = out /\ cut' = cut \cup AskedBy(<<m>>)
           /\ link = "up" =>
                /\ out' = Append(out, m) /\ ToSet(out') = ToSet(out) \cup {m}
                /\ cut' = cut
           /\ cut' \subseteq DOMAIN stored
<1>1. Sent(m) /\ cut' = IF link = "up" THEN cut ELSE cut \cup AskedBy(<<m>>)
  BY DEF Wrote
<1>2. cut' \subseteq DOMAIN stored
  BY <1>1, HistorySets DEF TypeInv, HistoryType
<1> QED
  BY <1>1, <1>2, SentFacts

LEMMA SpendType ==
    ASSUME TypeInv, NEW k \in {"events", "commands", "frames", "faults"}, Spend(k)
    PROVE  used' \in Spending /\ (k # "frames" => used'.frames = used.frames)
           /\ (k = "frames" => used'.frames = used.frames + 1)
  BY DEF TypeInv, EnvType, Spending, Spend, Spends

LEMMA SpendsType ==
    ASSUME TypeInv, NEW u, Spends(u), u \in Spending PROVE used' \in Spending /\ used' = u
  BY DEF Spends

LEMMA SpentOrNot ==
    ASSUME TypeInv, Fault \/ UNCHANGED used
    PROVE  used' \in Spending /\ used'.frames = used.frames
<1>1. CASE Fault
  BY <1>1, SpendType DEF Fault
<1>2. CASE UNCHANGED used
  BY <1>2 DEF TypeInv, EnvType
<1> QED
  BY <1>1, <1>2

LEMMA WriteFailsSpends ==
    ASSUME WriteFails PROVE Fault \/ UNCHANGED used
  BY DEF WriteFails

LEMMA SignalType ==
    ASSUME TypeInv, Signal
    PROVE  queue' \in Seq({"event", "lost"}) /\ Len(queue') <= Capacity
<1>1. queue \in Seq({"event", "lost"}) /\ Len(queue) <= Capacity /\ Len(queue) \in Nat
  BY DEF TypeInv, EnvType
<1>2. CASE Len(queue) < Capacity
  <2>1. queue' = Append(queue, "lost")
    BY <1>2 DEF Signal
  <2>2. Append(queue, "lost") \in Seq({"event", "lost"}) /\ Len(Append(queue, "lost")) = Len(queue) + 1
    BY <1>1
  <2> QED
    BY <1>1, <1>2, <2>1, <2>2, Types
<1>3. CASE ~(Len(queue) < Capacity)
  BY <1>1, <1>3 DEF Signal
<1> QED
  BY <1>2, <1>3

LEMMA WireKept ==
    ASSUME TypeInv, UNCHANGED <<wire, stored>>
    PROVE  WireType'
  BY DEF TypeInv, WireType

LEMMA WireTail ==
    ASSUME TypeInv, wire # <<>>, wire' = Tail(wire), UNCHANGED stored
    PROVE  WireType'
<1>1. Tail(wire) \in Seq(Incoming) /\ ToSet(wire) = ToSet(Tail(wire)) \cup {Head(wire)}
  BY HeadMessage
<1> QED
  BY <1>1 DEF TypeInv, WireType

LEMMA DropSocketType ==
    ASSUME TypeInv, DropSocket
    PROVE  /\ LinkType' /\ WireType' /\ stored' = stored /\ now' = now /\ answered' = answered
           /\ cut' \subseteq DOMAIN stored
           /\ phase' = "down" /\ link' = "dead"
<1>1. /\ phase' = "down" /\ link' = "dead" /\ out' = <<>> /\ wire' = <<>> /\ live' = {}
      /\ cut' = cut \cup AskedBy(out) \cup Carrying(wire)
      /\ stored' = stored /\ now' = now /\ answered' = answered
  BY DEF DropSocket
<1>2. <<>> \in Seq(Outgoing) /\ <<>> \in Seq(Incoming) /\ ToSet(<<>>) = {}
  BY EmptyFacts
<1>3. cut' \subseteq DOMAIN stored
  BY <1>1, HistorySets DEF TypeInv, HistoryType
<1>4. LinkType'
  BY <1>1, <1>2 DEF LinkType, Phases
<1>5. WireType'
  BY <1>1, <1>2 DEF WireType
<1> QED
  BY <1>1, <1>3, <1>4, <1>5

LEMMA ExecuteOut ==
    ASSUME TypeInv, NEW c \in Command, Execute(c)
    PROVE  /\ out' \in Seq(Outgoing) /\ (link = "dead" => out' = out)
           /\ cut' \subseteq DOMAIN stored /\ forgotten' \subseteq Sub
           /\ used' \in Spending /\ used'.frames = used.frames
<1>0. /\ out \in Seq(Outgoing) /\ cut \subseteq DOMAIN stored /\ forgotten \subseteq Sub
      /\ link \in {"up", "dead"}
  BY DEF TypeInv, LinkType, HistoryType
<1>1. CASE ExecuteSubscribe(c)
  <2>1. c.sub \in Sub /\ c.since \in Nat
    BY <1>1, ExecuteSubscribeSt DEF Positive
  <2>2. ReqOf(c) \in Outgoing
    BY <2>1, StNow, Constructors DEF ReqOf
  <2>3. /\ forgotten' = forgotten \ {c.sub} /\ UNCHANGED used
        /\ (out' = out /\ cut' = cut) \/ Wrote(ReqOf(c))
    BY <1>1 DEF ExecuteSubscribe
  <2>4. used' \in Spending /\ used'.frames = used.frames
    BY <2>3, SpentOrNot
  <2>5. CASE out' = out /\ cut' = cut
    BY <1>0, <2>3, <2>4, <2>5
  <2>6. CASE Wrote(ReqOf(c))
    BY <1>0, <2>2, <2>3, <2>4, <2>6, WroteFacts
  <2> QED
    BY <2>3, <2>5, <2>6
<1>2. CASE ExecuteUnsubscribe(c)
  <2>1. c.sub \in Channel
    BY <1>2, ExecuteUnsubscribeSt
  <2>2. Close(c.sub) \in Outgoing
    BY <2>1, Constructors
  <2>3. /\ forgotten' = forgotten \ {c.sub} /\ cut' = cut \cup DropsForgotten(c)
        /\ out' = out \/ Sent(Close(c.sub))
        /\ WriteFails \/ UNCHANGED used
    BY <1>2 DEF ExecuteUnsubscribe
  <2>4. used' \in Spending /\ used'.frames = used.frames
    BY <2>3, SpentOrNot, WriteFailsSpends
  <2>5. cut' \subseteq DOMAIN stored
    BY <1>0, <2>3, HistorySets
  <2>6. out' \in Seq(Outgoing) /\ (link = "dead" => out' = out)
    BY <1>0, <2>2, <2>3, SentFacts
  <2> QED
    BY <1>0, <2>3, <2>4, <2>5, <2>6
<1>3. CASE ExecutePublish(c)
  <2>1. c.frame \in Positive
    BY <1>3, ExecutePublishSt
  <2>2. Frame(c.frame) \in Outgoing
    BY <2>1, Constructors
  <2>3. /\ forgotten' = forgotten
        /\ (out' = out /\ cut' = cut) \/ Wrote(Frame(c.frame))
        /\ WriteFails \/ UNCHANGED used
    BY <1>3 DEF ExecutePublish
  <2>4. used' \in Spending /\ used'.frames = used.frames
    BY <2>3, SpentOrNot, WriteFailsSpends
  <2>5. out' \in Seq(Outgoing) /\ (link = "dead" => out' = out) /\ cut' \subseteq DOMAIN stored
    BY <1>0, <2>2, <2>3, WroteFacts
  <2> QED
    BY <1>0, <2>3, <2>4, <2>5
<1> QED
  BY <1>1, <1>2, <1>3 DEF Execute

LEMMA MainCommandType ==
    ASSUME TypeInv, MainCommand PROVE TypeInv'
<1> DEFINE c == Head(cmds)
<1>1. /\ phase = "main" /\ cmds # <<>> /\ cmds' = Tail(cmds)
      /\ handed' = handed /\ recent' = recent
      /\ \/ c.op = "reconnect" /\ Reconnecting(st) /\ UNCHANGED <<queue, used, forgotten>>
         \/ Execute(c) /\ UNCHANGED <<phase, link, wire, live, stored, now, answered, queue>>
         \/ /\ SubscribeFails(c) /\ Reconnecting(Intent(Applied(st, c), c))
            /\ Signal /\ UNCHANGED forgotten
  BY DEF MainCommand, handVars, relayVars
<1>2. c \in Command /\ Tail(cmds) \in Seq(Command)
  BY <1>1, HeadCommand
<1> HIDE DEF c
<1>3. CASE c.op = "reconnect" /\ Reconnecting(st) /\ UNCHANGED <<queue, used, forgotten>>
  <2>1. DropSocket
    BY <1>3 DEF Reconnecting
  <2>2. StType'
    BY <1>3, StNow, ReconnectingSt
  <2>3. /\ LinkType' /\ WireType' /\ stored' = stored /\ now' = now /\ cut' \subseteq DOMAIN stored
    BY <2>1, DropSocketType
  <2>4. EnvType' /\ HistoryType'
    BY <1>1, <1>2, <1>3, <2>3 DEF TypeInv, EnvType, HistoryType
  <2> QED
    BY <2>2, <2>3, <2>4 DEF TypeInv
<1>4. CASE Execute(c) /\ UNCHANGED <<phase, link, wire, live, stored, now, answered, queue>>
  <2>1. StType'
    BY <1>2, <1>4, ExecuteType
  <2>2. /\ out' \in Seq(Outgoing) /\ (link = "dead" => out' = out)
        /\ cut' \subseteq DOMAIN stored /\ forgotten' \subseteq Sub /\ used' \in Spending
    BY <1>2, <1>4, ExecuteOut
  <2>3. LinkType' /\ EnvType' /\ HistoryType'
    BY <1>1, <1>2, <1>4, <2>2 DEF TypeInv, LinkType, EnvType, HistoryType
  <2>4. WireType'
    BY <1>4, WireKept
  <2> QED
    BY <2>1, <2>3, <2>4 DEF TypeInv
<1>5. CASE /\ SubscribeFails(c) /\ Reconnecting(Intent(Applied(st, c), c))
           /\ Signal /\ UNCHANGED forgotten
  <2>1. DropSocket
    BY <1>5 DEF Reconnecting
  <2>2. Intent(Applied(st, c), c) \in BgState
    BY <1>2, <1>5, SubscribeFailsSt
  <2>3. StType'
    BY <1>5, <2>2, ReconnectingSt
  <2>4. /\ LinkType' /\ WireType' /\ stored' = stored /\ now' = now /\ cut' \subseteq DOMAIN stored
    BY <2>1, DropSocketType
  <2>5. used' \in Spending
    BY <1>5, SpentOrNot, WriteFailsSpends DEF SubscribeFails
  <2>6. queue' \in Seq({"event", "lost"}) /\ Len(queue') <= Capacity
    BY <1>5, SignalType
  <2>7. EnvType' /\ HistoryType'
    BY <1>1, <1>2, <1>5, <2>4, <2>5, <2>6 DEF TypeInv, EnvType, HistoryType
  <2> QED
    BY <2>3, <2>4, <2>7 DEF TypeInv
<1> QED
  BY <1>1, <1>3, <1>4, <1>5

LEMMA ApplyCommandType ==
    ASSUME TypeInv, ApplyCommand PROVE TypeInv'
<1>1. /\ cmds # <<>> /\ st' = Applied(st, Head(cmds)) /\ cmds' = Tail(cmds)
      /\ cut' = cut \cup DropsForgotten(Head(cmds))
      /\ UNCHANGED <<phase, link, out, wire, live, stored, now, queue, used, handed, recent,
                     forgotten>>
  BY DEF ApplyCommand, relayVars, handVars
<1>2. Head(cmds) \in Command /\ Tail(cmds) \in Seq(Command)
  BY <1>1, HeadCommand
<1>3. StType'
  BY <1>1, <1>2, StNow, AppliedFields, AppliedLens DEF StType
<1>4. cut' \subseteq DOMAIN stored
  BY <1>1, HistorySets DEF TypeInv, HistoryType
<1>5. LinkType' /\ EnvType' /\ HistoryType'
  BY <1>1, <1>2, <1>4 DEF TypeInv, LinkType, EnvType, HistoryType
<1>6. WireType'
  BY <1>1, WireKept
<1> QED
  BY <1>3, <1>5, <1>6 DEF TypeInv

LEMMA DrainCommandType ==
    ASSUME TypeInv, DrainCommand PROVE TypeInv'
<1> DEFINE c == Head(cmds)
<1>1. /\ phase \in {"drain", "last_drain"} /\ cmds # <<>> /\ cmds' = Tail(cmds)
      /\ queue' = queue /\ handed' = handed /\ recent' = recent
      /\ \/ UNCHANGED <<st, phase, link, out, wire, live, stored, now, used, cut, forgotten>>
         \/ Execute(c) /\ UNCHANGED <<phase, link, wire, live, stored, now>>
         \/ /\ SubscribeFails(c) /\ st' = Intent(Applied(st, c), c)
            /\ phase' \in {"failed_drain", "failed_last"}
            /\ forgotten' = forgotten \/ forgotten' = forgotten \cup {c.sub}
            /\ UNCHANGED <<link, out, wire, live, stored, now, cut>>
  BY DEF DrainCommand, handVars, relayVars
<1>2. c \in Command /\ Tail(cmds) \in Seq(Command)
  BY <1>1, HeadCommand
<1> HIDE DEF c
<1>3. CASE UNCHANGED <<st, phase, link, out, wire, live, stored, now, used, cut, forgotten>>
  BY <1>1, <1>2, <1>3, WireKept
     DEF TypeInv, StType, LinkType, EnvType, HistoryType
<1>4. CASE Execute(c) /\ UNCHANGED <<phase, link, wire, live, stored, now>>
  <2>1. StType'
    BY <1>2, <1>4, ExecuteType
  <2>2. /\ out' \in Seq(Outgoing) /\ (link = "dead" => out' = out)
        /\ cut' \subseteq DOMAIN stored /\ forgotten' \subseteq Sub /\ used' \in Spending
    BY <1>2, <1>4, ExecuteOut
  <2>3. LinkType' /\ EnvType' /\ HistoryType'
    BY <1>1, <1>2, <1>4, <2>2 DEF TypeInv, LinkType, EnvType, HistoryType
  <2>4. WireType'
    BY <1>4, WireKept
  <2> QED
    BY <2>1, <2>3, <2>4 DEF TypeInv
<1>5. CASE /\ SubscribeFails(c) /\ st' = Intent(Applied(st, c), c)
           /\ phase' \in {"failed_drain", "failed_last"}
           /\ forgotten' = forgotten \/ forgotten' = forgotten \cup {c.sub}
           /\ UNCHANGED <<link, out, wire, live, stored, now, cut>>
  <2>1. c.sub \in Sub /\ st' \in BgState /\ SameFrames(st', st)
    BY <1>2, <1>5, SubscribeFailsSt
  <2>2. StType'
    BY <2>1, StNow DEF StType, SameFrames
  <2>3. used' \in Spending
    BY <1>5, SpentOrNot, WriteFailsSpends DEF SubscribeFails
  <2>4. LinkType' /\ EnvType' /\ HistoryType'
    BY <1>1, <1>2, <1>5, <2>1, <2>3 DEF TypeInv, LinkType, EnvType, HistoryType, Phases
  <2>5. WireType'
    BY <1>5, WireKept
  <2> QED
    BY <2>2, <2>4, <2>5 DEF TypeInv
<1> QED
  BY <1>1, <1>3, <1>4, <1>5

LEMMA DrainFailedType ==
    ASSUME TypeInv, DrainFailed PROVE TypeInv'
<1> DEFINE c == Head(cmds)
<1>1. /\ cmds # <<>> /\ st' = Applied(st, c) /\ cmds' = Tail(cmds)
      /\ cut' = cut \cup DropsForgotten(c)
      /\ forgotten' = forgotten \/ (c.op = "subscribe" /\ forgotten' = forgotten \cup {c.sub})
      /\ UNCHANGED <<phase, link, out, wire, live, stored, now, queue, used, handed, recent>>
  BY DEF DrainFailed, relayVars, handVars
<1>2. /\ c \in Command /\ Tail(cmds) \in Seq(Command)
      /\ c.op = "subscribe" => c.sub \in Sub
  BY <1>1, HeadCommand
<1> HIDE DEF c
<1>3. StType'
  BY <1>1, <1>2, StNow, AppliedFields, AppliedLens DEF StType
<1>4. cut' \subseteq DOMAIN stored
  BY <1>1, HistorySets DEF TypeInv, HistoryType
<1>5. LinkType' /\ EnvType' /\ HistoryType'
  BY <1>1, <1>2, <1>4 DEF TypeInv, LinkType, EnvType, HistoryType
<1>6. WireType'
  BY <1>1, WireKept
<1> QED
  BY <1>3, <1>5, <1>6 DEF TypeInv

LEMMA DrainDoneType ==
    ASSUME TypeInv, DrainDone PROVE TypeInv'
<1>1. /\ phase' \in {"last_drain", "main"}
      /\ UNCHANGED <<st, link, out, wire, live, stored, now, queue, cmds, used, handed, recent,
                     cut, forgotten>>
  BY DEF DrainDone, relayVars, handVars
<1> QED
  BY <1>1, WireKept DEF TypeInv, StType, LinkType, EnvType, HistoryType, Phases

LEMMA FailedDrainDoneType ==
    ASSUME TypeInv, FailedDrainDone PROVE TypeInv'
<1>1. /\ UNCHANGED <<st, queue, cmds, used, handed, recent, forgotten>>
      /\ \/ DropSocket
         \/ phase' = "main" /\ UNCHANGED <<link, out, wire, live, stored, now, cut>>
  BY DEF FailedDrainDone, relayVars, handVars
<1>2. CASE DropSocket
  <2>1. /\ LinkType' /\ WireType' /\ stored' = stored /\ now' = now /\ cut' \subseteq DOMAIN stored
    BY <1>2, DropSocketType
  <2>2. StType' /\ EnvType' /\ HistoryType'
    BY <1>1, <2>1 DEF TypeInv, StType, EnvType, HistoryType
  <2> QED
    BY <2>1, <2>2 DEF TypeInv
<1>3. CASE phase' = "main" /\ UNCHANGED <<link, out, wire, live, stored, now, cut>>
  BY <1>1, <1>3, WireKept DEF TypeInv, StType, LinkType, EnvType, HistoryType, Phases
<1> QED
  BY <1>1, <1>2, <1>3

LEMMA RequeueAgainType ==
    ASSUME TypeInv, RequeueAgain PROVE TypeInv'
<1>1. /\ st' = Requeued(st)
      /\ UNCHANGED <<phase, link, out, wire, live, stored, now, queue, cmds, used, handed,
                     recent, cut, forgotten>>
  BY DEF RequeueAgain, relayVars, handVars
<1>2. StType'
  BY <1>1, StNow, RequeuedSt
<1> QED
  BY <1>1, <1>2, WireKept DEF TypeInv, LinkType, EnvType, HistoryType

LEMMA ConnectGatedType ==
    ASSUME TypeInv, ConnectGated PROVE TypeInv'
<1>1. /\ phase' = "drain" /\ link' = "up" /\ forgotten' = {}
      /\ UNCHANGED <<out, wire, live, stored, now, queue, cmds, used, handed, recent, cut>>
  BY DEF ConnectGated, relayVars, handVars
<1>2. StType'
  BY ConnectGatedSt
<1> QED
  BY <1>1, <1>2, WireKept DEF TypeInv, LinkType, EnvType, HistoryType, Phases

(* The REQs of a reconnect, in some order. *)
LEMMA SetToSeqFacts ==
    ASSUME NEW S, IsFiniteSet(S)
    PROVE  SetToSeq(S) \in Seq(S) /\ ToSet(SetToSeq(S)) = S
<1> DEFINE n == Cardinality(S)
           f == SetToSeq(S)
<1>1. n \in Nat /\ ExistsBijection(1..n, S)
  BY FS_CardinalityType
<1>2. PICK g \in Bijection(1..n, S) : TRUE
  BY <1>1 DEF ExistsBijection
<1>3. g \in [1..n -> S] /\ IsInjective(g)
  BY <1>2 DEF Bijection, Injection, IsInjective
<1>4. f \in [1..n -> S] /\ IsInjective(f)
  BY <1>3 DEF SetToSeq
<1> HIDE DEF f
<1>5. f \in Injection(1..n, S)
  BY <1>4 DEF Injection, IsInjective
<1>6. IsFiniteSet(1..n) /\ Cardinality(1..n) = n
  BY <1>1, FS_Interval
<1>7. f \in Surjection(1..n, S)
  BY <1>5, <1>6, FS_Injection
<1>8. \A x \in S : \E i \in 1..n : f[i] = x
  BY <1>7 DEF Surjection
<1>9. f \in Seq(S) /\ DOMAIN f = 1..n
  BY <1>1, <1>4
<1>10. ToSet(f) = S
  BY <1>4, <1>8, <1>9 DEF ToSet
<1> QED
  BY <1>9, <1>10 DEF f

LEMMA SubFinite ==
    IsFiniteSet(Sub)
<1>1. IsFiniteSet({Membership}) /\ IsFiniteSet({Observer}) /\ IsFiniteSet(Channel)
  BY FS_Singleton, RelayClientAssumption
<1>2. IsFiniteSet({Membership} \cup {Observer})
  BY <1>1, FS_Union
<1>3. IsFiniteSet(Channel \cup ({Membership} \cup {Observer}))
  BY <1>1, <1>2, FS_Union
<1>4. Sub = Channel \cup ({Membership} \cup {Observer})
  BY DEF Sub, Control
<1> QED
  BY <1>3, <1>4

(* A reconnect without a gate asks for all but the failing subscriptions.  *)
Burst(sent) == {Req(s, Since(s)) : s \in sent}

ConnectWith(failing, sent, frames) ==
    /\ frames \in Seq(Outgoing) /\ ToSet(frames) = Burst(sent)
    /\ Fault \/ UNCHANGED used
    /\ st' \in BgState /\ SameIds(st', st) /\ SameFrames(st', st) /\ st'.gate = st.gate
    /\ st'.active = st.active /\ st'.floor = st.floor /\ st'.last = st.last
    /\ st'.parked = (st.parked \ Channel) \ sent /\ st'.retry = failing \cap Channel
    /\ \A s \in Sub : st'.dropped[s] = IF s \in sent THEN None ELSE st.dropped[s]
    /\ StType'
    /\ phase = "down" /\ ~st.gate
    /\ UNCHANGED <<wire, live, stored, now, answered, queue, cmds, handed, recent,
                   refused, stranded>>
    /\ \/ /\ sent = st.active \ failing /\ failing \subseteq Channel
          /\ phase' = "drain" /\ link' = "up" /\ out' = frames
          /\ forgotten' = {} /\ cut' = cut
       \/ /\ cut' = cut \cup AskedBy(frames)
          /\ UNCHANGED <<phase, link, out, forgotten>>

LEMMA ConnectParts ==
    ASSUME TypeInv, Connect
    PROVE  \E failing \in SUBSET st.active, sent \in SUBSET st.active :
             \E frames : ConnectWith(failing, sent, frames)
<1>1. PICK failing \in SUBSET st.active :
        LET sent == st.active \ (failing \cup
                      (IF Membership \in failing THEN {Observer} ELSE {}))
            frames == SetToSeq({Req(s, Since(s)) : s \in sent})
        IN  /\ IF failing = {} THEN UNCHANGED used ELSE Fault
            /\ st' = Cleared([st EXCEPT !.parked = (@ \ Channel) \ sent,
                                        !.retry = failing \cap Channel], sent)
            /\ IF failing \cap Control # {}
               THEN /\ cut' = cut \cup AskedBy(frames)
                    /\ UNCHANGED <<phase, link, out, forgotten>>
               ELSE /\ phase' = "drain" /\ link' = "up" /\ out' = frames
                    /\ forgotten' = {} /\ UNCHANGED cut
  BY DEF Connect
<1> DEFINE sent == st.active \ (failing \cup
                     (IF Membership \in failing THEN {Observer} ELSE {}))
           R == Burst(sent)
           frames == SetToSeq(R)
<1>2. sent \in SUBSET st.active
  OBVIOUS
<1>3. R = {Req(s, Since(s)) : s \in sent}
  BY DEF Burst
<1>4. /\ Fault \/ UNCHANGED used
      /\ st' = Cleared([st EXCEPT !.parked = (@ \ Channel) \ sent,
                                  !.retry = failing \cap Channel], sent)
      /\ failing \cap Control # {} =>
           /\ cut' = cut \cup AskedBy(frames)
           /\ UNCHANGED <<phase, link, out, forgotten>>
      /\ failing \cap Control = {} =>
           /\ phase' = "drain" /\ link' = "up" /\ out' = frames
           /\ forgotten' = {} /\ cut' = cut
  BY <1>1, <1>3
<1>5. failing \cap Control = {} => sent = st.active \ failing /\ failing \subseteq Channel
  BY StNow DEF Control, Sub
<1>6. phase = "down" /\ ~st.gate
      /\ UNCHANGED <<wire, live, stored, now, answered, queue, cmds, handed, recent,
                     refused, stranded>>
  BY DEF Connect, relayVars, handVars, frameVars
<1> HIDE DEF sent
<1>7. R \subseteq Outgoing /\ IsFiniteSet(R)
  <2>1. IsFiniteSet(sent)
    BY <1>2, StNow, SubFinite, FS_Subset
  <2>2. ASSUME NEW s \in sent PROVE Req(s, Since(s)) \in Outgoing
    <3>1. s \in Sub /\ Since(s) \in Int
      BY <1>2, <2>2, StNow, SinceFacts
    <3> QED
      BY <3>1, Constructors
  <2> DEFINE f == [s \in sent |-> Req(s, Since(s))]
  <2>3. f \in Surjection(sent, R)
    BY DEF Surjection, Burst
  <2>4. IsFiniteSet(R)
    BY <2>1, <2>3, FS_Surjection
  <2>5. R \subseteq Outgoing
    BY <2>2 DEF Burst
  <2> QED
    BY <2>4, <2>5
<1> HIDE DEF R
<1>8. frames \in Seq(R) /\ ToSet(frames) = R
  BY <1>7, SetToSeqFacts
<1> HIDE DEF frames
<1>9. frames \in Seq(Outgoing)
  BY <1>7, <1>8
<1>10. /\ st' \in BgState /\ SameIds(st', st) /\ SameFrames(st', st) /\ st'.gate = st.gate
       /\ st'.active = st.active /\ st'.floor = st.floor /\ st'.last = st.last
       /\ st'.parked = (st.parked \ Channel) \ sent /\ st'.retry = failing \cap Channel
       /\ \A s \in Sub : st'.dropped[s] = IF s \in sent THEN None ELSE st.dropped[s]
       /\ StType'
  BY <1>2, <1>4, ConnectSt
<1>11. ToSet(frames) = Burst(sent)
  BY <1>8 DEF R
<1>12. ConnectWith(failing, sent, frames)
  BY <1>4, <1>5, <1>6, <1>9, <1>10, <1>11 DEF ConnectWith
<1> QED
  BY <1>2, <1>12

LEMMA ConnectType ==
    ASSUME TypeInv, Connect PROVE TypeInv'
<1>1. PICK failing \in SUBSET st.active, sent \in SUBSET st.active :
        \E frames : ConnectWith(failing, sent, frames)
  BY ConnectParts
<1>2. PICK frames : ConnectWith(failing, sent, frames)
  BY <1>1
<1>3. used' \in Spending
  BY <1>2, SpentOrNot DEF ConnectWith
<1>4. cut' \subseteq DOMAIN stored
  BY <1>2, HistorySets DEF ConnectWith, TypeInv, HistoryType
<1>5. LinkType' /\ EnvType' /\ HistoryType' /\ StType'
  BY <1>2, <1>3, <1>4 DEF ConnectWith, TypeInv, LinkType, EnvType, HistoryType, Phases
<1>6. WireType'
  BY <1>2, WireKept DEF ConnectWith
<1> QED
  BY <1>5, <1>6 DEF TypeInv

LEMMA DrainPendingType ==
    ASSUME TypeInv, NEW s \in Sub, DrainPending(s) PROVE TypeInv'
<1>1. /\ (out' = out /\ cut' = cut) \/ Wrote(Req(s, Since(s)))
      /\ Fault \/ UNCHANGED used
      /\ forgotten' = forgotten \ {s}
      /\ UNCHANGED <<phase, link, wire, live, stored, now, queue, cmds, handed, recent>>
  BY DEF DrainPending, Turn, relayVars, handVars
<1>2. Req(s, Since(s)) \in Outgoing
  BY SinceFacts, Constructors
<1>3. out' \in Seq(Outgoing) /\ (link = "dead" => out' = out) /\ cut' \subseteq DOMAIN stored
  <2>1. CASE out' = out /\ cut' = cut
    BY <2>1 DEF TypeInv, LinkType, HistoryType
  <2>2. CASE Wrote(Req(s, Since(s)))
    BY <1>2, <2>2, WroteFacts
  <2> QED
    BY <1>1, <2>1, <2>2
<1>4. used' \in Spending
  BY <1>1, SpentOrNot
<1>5. StType'
  BY DrainPendingSt
<1>6. LinkType' /\ EnvType' /\ HistoryType'
  BY <1>1, <1>3, <1>4 DEF TypeInv, LinkType, EnvType, HistoryType
<1>7. WireType'
  BY <1>1, WireKept
<1> QED
  BY <1>5, <1>6, <1>7 DEF TypeInv

LEMMA RecoverOneType ==
    ASSUME TypeInv, NEW s \in Sub, RecoverOne(s) PROVE TypeInv'
<1>1. /\ Wrote(Req(s, Since(s))) /\ st' = Cleared(st, {s})
      /\ forgotten' = forgotten \ {s}
      /\ UNCHANGED <<phase, link, wire, live, stored, now, queue, cmds, used, handed, recent>>
  BY DEF RecoverOne, relayVars, handVars
<1>2. Req(s, Since(s)) \in Outgoing
  BY SinceFacts, Constructors
<1>3. out' \in Seq(Outgoing) /\ (link = "dead" => out' = out) /\ cut' \subseteq DOMAIN stored
  BY <1>1, <1>2, WroteFacts
<1>4. StType'
  BY <1>1, ClearedSt
<1>5. LinkType' /\ EnvType' /\ HistoryType'
  BY <1>1, <1>3 DEF TypeInv, LinkType, EnvType, HistoryType
<1>6. WireType'
  BY <1>1, WireKept
<1> QED
  BY <1>4, <1>5, <1>6 DEF TypeInv

LEMMA ParkRetryType ==
    ASSUME TypeInv, NEW s \in Sub, ParkRetry(s) PROVE TypeInv'
<1>1. UNCHANGED <<phase, link, out, wire, live, stored, now, queue, cmds, used, handed, recent,
                  cut, forgotten>>
  BY DEF ParkRetry, relayVars, handVars
<1>2. StType'
  BY ParkRetrySt
<1> QED
  BY <1>1, <1>2, WireKept DEF TypeInv, LinkType, EnvType, HistoryType

LEMMA GateExpiresType ==
    ASSUME TypeInv, GateExpires PROVE TypeInv'
<1>1. UNCHANGED <<phase, link, out, wire, live, stored, now, queue, cmds, used, handed, recent,
                  cut, forgotten>>
  BY DEF GateExpires, relayVars, handVars
<1>2. StType'
  BY GateExpiresSt
<1> QED
  BY <1>1, <1>2, WireKept DEF TypeInv, LinkType, EnvType, HistoryType

LEMMA DrainFrameType ==
    ASSUME TypeInv, DrainFrame PROVE TypeInv'
<1>1. /\ Wrote(Frame(Head(st.pending)))
      /\ Fault \/ UNCHANGED used
      /\ UNCHANGED <<phase, link, wire, live, stored, now, queue, cmds, handed, recent,
                     forgotten>>
  BY DEF DrainFrame, Turn, relayVars, handVars
<1>2. Frame(Head(st.pending)) \in Outgoing
  BY DrainFrameSt, Constructors
<1>3. out' \in Seq(Outgoing) /\ (link = "dead" => out' = out) /\ cut' \subseteq DOMAIN stored
  BY <1>1, <1>2, WroteFacts
<1>4. used' \in Spending
  BY <1>1, SpentOrNot
<1>5. StType'
  BY DrainFrameSt
<1>6. LinkType' /\ EnvType' /\ HistoryType'
  BY <1>1, <1>3, <1>4 DEF TypeInv, LinkType, EnvType, HistoryType
<1>7. WireType'
  BY <1>1, WireKept
<1> QED
  BY <1>5, <1>6, <1>7 DEF TypeInv

LEMMA DetectLossType ==
    ASSUME TypeInv, DetectLoss PROVE TypeInv'
<1>1. /\ Reconnecting(st) /\ DropSocket /\ Signal
      /\ UNCHANGED <<cmds, used, handed, recent, forgotten>>
  BY DEF DetectLoss, Reconnecting, handVars
<1>2. StType'
  BY <1>1, StNow, ReconnectingSt
<1>3. /\ LinkType' /\ WireType' /\ stored' = stored /\ now' = now /\ cut' \subseteq DOMAIN stored
  BY <1>1, DropSocketType
<1>4. queue' \in Seq({"event", "lost"}) /\ Len(queue') <= Capacity
  BY <1>1, SignalType
<1>5. EnvType' /\ HistoryType'
  BY <1>1, <1>3, <1>4 DEF TypeInv, EnvType, HistoryType
<1> QED
  BY <1>2, <1>3, <1>5 DEF TypeInv

LEMMA HandleEventType ==
    ASSUME TypeInv, HandleEvent PROVE TypeInv'
<1> DEFINE e == Head(wire).id
<1>1. /\ wire # <<>> /\ Head(wire).type = "EVENT" /\ wire' = Tail(wire)
      /\ UNCHANGED <<phase, link, out, live, stored, now, cmds, used, forgotten>>
      /\ \/ UNCHANGED <<st, queue, handed, recent, cut>>
         \/ NewEvent(e)
  BY DEF HandleEvent, Received, relayVars, handVars
<1>2. e \in Positive /\ e \in DOMAIN stored
  BY <1>1, HeadMessage
<1>3. WireType'
  BY <1>1, WireTail
<1>4. LinkType'
  BY <1>1 DEF TypeInv, LinkType
<1>5. CASE UNCHANGED <<st, queue, handed, recent, cut>>
  BY <1>1, <1>3, <1>4, <1>5 DEF TypeInv, StType, EnvType, HistoryType
<1>6. CASE NewEvent(e)
  <2> HIDE DEF e
  <2>1. StType' /\ (EventHanded(e) \/ EventDropped(e))
    BY <1>2, <1>6, NewEventSt
  <2>2. /\ queue \in Seq({"event", "lost"}) /\ Len(queue) <= Capacity /\ recent \in Seq(Positive)
        /\ handed \subseteq DOMAIN stored /\ cut \subseteq DOMAIN stored
    BY DEF TypeInv, EnvType, HistoryType
  <2>3. /\ queue' \in Seq({"event", "lost"}) /\ Len(queue') <= Capacity /\ recent' \in Seq(Positive)
        /\ handed' \subseteq DOMAIN stored /\ cut' \subseteq DOMAIN stored
    <3>1. CASE EventHanded(e)
      <4>1. /\ Append(queue, "event") \in Seq({"event", "lost"})
            /\ Len(Append(queue, "event")) = Len(queue) + 1 /\ Len(queue) \in Nat
        BY <2>2
      <4>2. recent' \in Seq(Positive)
        <5> DEFINE r == Append(recent, e)
        <5>1. r \in Seq(Positive) /\ r # <<>> /\ Tail(r) \in Seq(Positive)
          BY <1>2, <2>2
        <5>2. recent' \in {r, Tail(r)}
          BY <3>1 DEF EventHanded
        <5> QED
          BY <5>1, <5>2
      <4> QED
        BY <1>2, <2>2, <3>1, <4>1, <4>2, Types DEF EventHanded
    <3>2. CASE EventDropped(e)
      BY <2>2, <3>2 DEF EventDropped
    <3> QED
      BY <2>1, <3>1, <3>2
  <2>4. EnvType' /\ HistoryType'
    BY <1>1, <2>3 DEF TypeInv, EnvType, HistoryType
  <2> QED
    BY <1>3, <1>4, <2>1, <2>4 DEF TypeInv
<1> QED
  BY <1>1, <1>5, <1>6

LEMMA HandleNoticeType ==
    ASSUME TypeInv, HandleNotice PROVE TypeInv'
<1>1. /\ wire # <<>> /\ wire' = Tail(wire)
      /\ UNCHANGED <<phase, link, out, live, stored, now, queue, cmds, used, handed, recent,
                     cut, forgotten>>
  BY DEF HandleNotice, Received, relayVars, handVars
<1>2. StType' /\ WireType'
  BY <1>1, HandleNoticeSt, WireTail
<1> QED
  BY <1>1, <1>2 DEF TypeInv, LinkType, EnvType, HistoryType

LEMMA HandleOkType ==
    ASSUME TypeInv, HandleOk PROVE TypeInv'
<1>1. /\ wire # <<>> /\ wire' = Tail(wire)
      /\ UNCHANGED <<phase, link, out, live, stored, now, queue, cmds, used, handed, recent,
                     cut, forgotten>>
  BY DEF HandleOk, Received, relayVars, handVars
<1>2. StType' /\ WireType'
  BY <1>1, HandleOkSt, WireTail
<1> QED
  BY <1>1, <1>2 DEF TypeInv, LinkType, EnvType, HistoryType

(* The outcomes of a CLOSED. *)
ClosedQuietly ==
    /\ wire' = Tail(wire)
    /\ UNCHANGED <<phase, link, live, stored, now, answered, queue, stranded>>
ClosedDenied(s) ==
    /\ s \in Channel /\ ClosedQuietly /\ st' = Removed(st, s) /\ forgotten' = forgotten \ {s}
    /\ cut' = cut \cup DropsOf(s) /\ UNCHANGED <<out, used>>
ClosedLimited(s) ==
    ClosedQuietly /\ st' = ClosedParks(s) /\ UNCHANGED <<out, cut, used, forgotten>>
ClosedIgnored(s) ==
    s \notin st.active /\ ClosedQuietly /\ UNCHANGED <<st, out, cut, used, forgotten>>
ClosedAnswered(s) ==
    /\ s \in st.active /\ ClosedQuietly /\ Wrote(Req(s, Since(s))) /\ st' = Cleared(st, {s})
    /\ forgotten' = forgotten \ {s} /\ UNCHANGED used
ClosedDrops ==
    Reconnecting(st) /\ Signal /\ (Fault \/ UNCHANGED used) /\ UNCHANGED forgotten

LEMMA ClosedOutcomes ==
    ASSUME TypeInv, HandleClosed
    PROVE  LET s == Head(wire).sub IN
           /\ phase = "main" /\ wire # <<>> /\ Head(wire).type = "CLOSED" /\ s \in Sub
           /\ UNCHANGED <<cmds, handed, recent, refused>>
           /\ \/ ClosedDenied(s) \/ ClosedLimited(s) \/ ClosedIgnored(s) \/ ClosedAnswered(s)
              \/ ClosedDrops
<1>1. phase = "main" /\ wire # <<>> /\ Head(wire).type = "CLOSED"
  BY DEF HandleClosed, Received
<1>2. Head(wire).sub \in Sub
  BY <1>1, HeadMessage
<1> DEFINE s == Head(wire).sub
           r == Head(wire).reason
           Quietly == /\ wire' = Tail(wire)
                      /\ UNCHANGED <<phase, link, relayVars, queue, stranded>>
<1>3. Quietly => ClosedQuietly
  BY DEF ClosedQuietly, relayVars
<1>4. /\ UNCHANGED <<cmds, handed, recent, refused>>
      /\ \/ /\ r = "denied" /\ s \in Channel /\ Quietly
            /\ st' = Removed(st, s) /\ forgotten' = forgotten \ {s}
            /\ cut' = cut \cup DropsOf(s) /\ UNCHANGED <<out, used>>
         \/ /\ r = "rate" /\ Quietly
            /\ st' = ClosedParks(s) /\ UNCHANGED <<out, cut, used, forgotten>>
         \/ /\ r = "auth" /\ Reconnecting(st) /\ Signal /\ UNCHANGED <<used, forgotten>>
         \/ /\ r = "other" /\ s \notin st.active /\ Quietly
            /\ UNCHANGED <<st, out, cut, used, forgotten>>
         \/ /\ r = "other" /\ s \in st.active /\ Quietly
            /\ Wrote(Req(s, Since(s))) /\ st' = Cleared(st, {s})
            /\ forgotten' = forgotten \ {s} /\ UNCHANGED used
         \/ /\ r = "other" /\ s \in st.active
            /\ WriteFails /\ Reconnecting(st) /\ Signal /\ UNCHANGED forgotten
  BY DEF HandleClosed, handVars
<1> HIDE DEF s, r, Quietly
<1>5. \/ ClosedDenied(s) \/ ClosedLimited(s) \/ ClosedIgnored(s) \/ ClosedAnswered(s)
      \/ ClosedDrops
  BY <1>3, <1>4, WriteFailsSpends
     DEF ClosedDenied, ClosedLimited, ClosedIgnored, ClosedAnswered, ClosedDrops
<1> QED
  BY <1>1, <1>2, <1>4, <1>5 DEF s

LEMMA HandleClosedType ==
    ASSUME TypeInv, HandleClosed PROVE TypeInv'
<1> DEFINE s == Head(wire).sub
<1>1. /\ wire # <<>> /\ s \in Sub
      /\ UNCHANGED <<cmds, handed, recent>>
      /\ \/ ClosedDenied(s) \/ ClosedLimited(s) \/ ClosedIgnored(s) \/ ClosedAnswered(s)
         \/ ClosedDrops
  BY ClosedOutcomes
<1> HIDE DEF s
<1>2. CASE ClosedQuietly
  <2>1. WireType'
    BY <1>1, <1>2, WireTail DEF ClosedQuietly
  <2>2. st \in BgState /\ StType
    BY DEF TypeInv, StType
  <2>3. CASE ClosedDenied(s)
    <3>1. StType' /\ cut' \subseteq DOMAIN stored
      BY <1>1, <2>3, RemovedSt, HistorySets DEF ClosedDenied, TypeInv, HistoryType
    <3> QED
      BY <1>1, <1>2, <2>1, <2>3, <3>1
         DEF ClosedDenied, ClosedQuietly, TypeInv, LinkType, EnvType, HistoryType
  <2>4. CASE ClosedLimited(s)
    <3>1. StType'
      BY <1>1, <2>4, ClosedParksFields DEF ClosedLimited
    <3> QED
      BY <1>1, <1>2, <2>1, <2>4, <3>1
         DEF ClosedLimited, ClosedQuietly, TypeInv, LinkType, EnvType, HistoryType
  <2>5. CASE ClosedIgnored(s)
    BY <1>1, <1>2, <2>1, <2>5
       DEF ClosedIgnored, ClosedQuietly, TypeInv, StType, LinkType, EnvType, HistoryType
  <2>6. CASE ClosedAnswered(s)
    <3>1. StType'
      BY <2>6, ClearedSt DEF ClosedAnswered
    <3>2. Since(s) \in Int
      BY <1>1, SinceFacts
    <3>3. Req(s, Since(s)) \in Outgoing /\ Wrote(Req(s, Since(s)))
      BY <1>1, <2>6, <3>2, Constructors DEF ClosedAnswered
    <3>4. out' \in Seq(Outgoing) /\ (link = "dead" => out' = out) /\ cut' \subseteq DOMAIN stored
      BY <3>3, WroteFacts
    <3> QED
      BY <1>1, <1>2, <2>1, <2>6, <3>1, <3>4
         DEF ClosedAnswered, ClosedQuietly, TypeInv, LinkType, EnvType, HistoryType
  <2>7. CASE ClosedDrops
    <3>1. phase' = phase /\ Reconnecting(st)
      BY <1>2, <2>7 DEF ClosedDrops, ClosedQuietly
    <3>2. phase' = "down" /\ phase = "main"
      BY <3>1, ClosedOutcomes DEF Reconnecting, DropSocket
    <3> QED
      BY <3>1, <3>2
  <2> QED
    BY <1>1, <2>3, <2>4, <2>5, <2>6, <2>7
<1>3. CASE ClosedDrops
  <2>1. DropSocket /\ Signal /\ (Fault \/ UNCHANGED used) /\ UNCHANGED forgotten
    BY <1>3 DEF ClosedDrops, Reconnecting
  <2>2. StType'
    BY <1>3, StNow, ReconnectingSt DEF ClosedDrops
  <2>3. /\ LinkType' /\ WireType' /\ stored' = stored /\ now' = now /\ cut' \subseteq DOMAIN stored
    BY <2>1, DropSocketType
  <2>4. queue' \in Seq({"event", "lost"}) /\ Len(queue') <= Capacity /\ used' \in Spending
    BY <2>1, SignalType, SpentOrNot
  <2>5. EnvType' /\ HistoryType'
    BY <1>1, <2>1, <2>3, <2>4 DEF TypeInv, EnvType, HistoryType
  <2> QED
    BY <2>2, <2>3, <2>5 DEF TypeInv
<1> QED
  BY <1>1, <1>2, <1>3 DEF ClosedDenied, ClosedLimited, ClosedIgnored, ClosedAnswered

LEMMA IssueType ==
    ASSUME TypeInv, NEW c \in Command, Issue(c), used' \in Spending PROVE TypeInv'
<1>1. /\ cmds' = Append(cmds, c)
      /\ UNCHANGED <<st, phase, link, out, wire, live, stored, now, queue, handed, recent,
                     cut, forgotten>>
  BY DEF Issue, relayVars
<1>2. cmds' \in Seq(Command)
  BY <1>1 DEF TypeInv, EnvType
<1> QED
  BY <1>1, <1>2, WireKept DEF TypeInv, StType, LinkType, EnvType, HistoryType

LEMMA SubscribeOf ==
    ASSUME TypeInv, NEW s \in Sub, NEW t \in Nat, Startup <= t
    PROVE  [op |-> "subscribe", sub |-> s, since |-> t] \in Command
<1>1. t \in Positive
  BY Types DEF Positive
<1> QED
  BY <1>1 DEF Command

(* Where the harness subscribes from, and what the relay left out. *)
NewestInv ==
    /\ newest \in [Channel -> Nat]
    /\ \A c \in Channel : Startup <= newest[c] /\ newest[c] <= now
    /\ unsent \subseteq DOMAIN stored

SubscribedFrom(s, t) ==
    /\ t \in Nat /\ newest[s] <= t /\ t <= now /\ Startup <= t
    /\ newest' = [newest EXCEPT ![s] = t]
    /\ Issue([op |-> "subscribe", sub |-> s, since |-> t])

LEMMA SubscribeParts ==
    ASSUME TypeInv, NewestInv, NEW s \in Channel, SubscribeChannel(s)
    PROVE  \E t \in Nat : SubscribedFrom(s, t)
<1>1. newest[s] \in Nat /\ Startup <= newest[s] /\ newest[s] <= now /\ Startup \in Nat /\ now \in Nat
  BY Types DEF NewestInv, TypeInv, EnvType, Positive
<1>2. PICK t \in newest[s]..now :
        /\ newest' = [newest EXCEPT ![s] = t]
        /\ Issue([op |-> "subscribe", sub |-> s, since |-> t])
  BY DEF SubscribeChannel
<1>3. t \in Nat /\ newest[s] <= t /\ t <= now /\ Startup <= t
  BY <1>1, <1>2
<1> QED
  BY <1>2, <1>3 DEF SubscribedFrom

LEMMA SubscribeChannelType ==
    ASSUME TypeInv, NewestInv, NEW s \in Channel, SubscribeChannel(s) PROVE TypeInv'
<1>1. used' \in Spending
  BY SpendType DEF SubscribeChannel
<1>2. PICK t \in Nat : SubscribedFrom(s, t)
  BY SubscribeParts
<1> DEFINE c == [op |-> "subscribe", sub |-> s, since |-> t]
<1>3. c \in Command /\ Issue(c)
  BY <1>2, SubscribeOf, Types DEF SubscribedFrom
<1> HIDE DEF c
<1> QED
  BY <1>1, <1>3, IssueType

LEMMA SubscribeControlType ==
    ASSUME TypeInv, NEW s \in Control, SubscribeControl(s) PROVE TypeInv'
<1>1. used' \in Spending
  BY SpendType DEF SubscribeControl
<1> DEFINE c == [op |-> "subscribe", sub |-> s, since |-> now]
<1>2. c \in Command /\ Issue(c)
  BY SubscribeOf, Types DEF SubscribeControl, TypeInv, EnvType
<1> HIDE DEF c
<1> QED
  BY <1>1, <1>2, IssueType

LEMMA UnsubscribeChannelType ==
    ASSUME TypeInv, NEW s \in Channel, UnsubscribeChannel(s) PROVE TypeInv'
<1>1. used' \in Spending
  BY SpendType DEF UnsubscribeChannel
<1> DEFINE c == [op |-> "unsubscribe", sub |-> s]
<1>2. c \in Command /\ Issue(c)
  BY DEF UnsubscribeChannel, Command
<1> HIDE DEF c
<1> QED
  BY <1>1, <1>2, IssueType

LEMMA PublishFrameType ==
    ASSUME TypeInv, PublishFrame PROVE TypeInv'
<1>1. used' \in Spending
  BY SpendType DEF PublishFrame
<1> DEFINE c == [op |-> "publish", frame |-> used.frames + 1]
<1>2. used.frames + 1 \in Positive
  BY DEF TypeInv, EnvType, Spending, Positive
<1>3. c \in Command /\ Issue(c)
  BY <1>2 DEF PublishFrame, Command
<1> HIDE DEF c
<1> QED
  BY <1>1, <1>3, IssueType

LEMMA NextEventType ==
    ASSUME TypeInv, NextEvent PROVE TypeInv'
<1>1. /\ queue # <<>> /\ queue' = Tail(queue)
      /\ UNCHANGED <<st, phase, link, out, wire, live, stored, now, used, handed, recent,
                     cut, forgotten>>
  BY DEF NextEvent, relayVars, handVars
<1>2. queue' \in Seq({"event", "lost"}) /\ Len(queue') <= Capacity
  BY <1>1, Types DEF TypeInv, EnvType
<1>3. cmds' \in Seq(Command)
  <2> DEFINE c == [op |-> "reconnect"]
  <2>1. c \in Command
    BY DEF Command
  <2>2. cmds' = Append(cmds, c) \/ cmds' = cmds
    BY DEF NextEvent
  <2> HIDE DEF c
  <2> QED
    BY <2>1, <2>2 DEF TypeInv, EnvType
<1> QED
  BY <1>1, <1>2, <1>3, WireKept DEF TypeInv, StType, LinkType, EnvType, HistoryType

(* What a publication adds. *)
LEMMA PublishParts ==
    ASSUME TypeInv, NEW s \in Sub, StoreEvent(s)
    PROVE  \E e \in StoredEvent :
             /\ e.sub = s /\ e.ts + Skew >= now /\ e.ts <= now'
             /\ stored' = Append(stored, e) /\ now' \in Nat /\ now' >= now
             /\ Len(stored') = Len(stored) + 1 /\ Len(stored) \in Nat
             /\ DOMAIN stored = 1..Len(stored) /\ DOMAIN stored' = 1..(Len(stored) + 1)
             /\ \A i \in DOMAIN stored : stored'[i] = stored[i]
             /\ stored'[Len(stored) + 1] = e
             /\ \/ e.ts >= now' \/ now' = now
<1>1. PICK d \in {0, Skew + 1}, lag \in {0, Skew} :
         /\ d = 0 \/ lag = 0
         /\ now' = now + d
         /\ stored' = Append(stored, [sub |-> s, ts |-> now + d - lag])
  BY DEF StoreEvent
<1>2. /\ now \in Nat /\ now >= Startup /\ Skew \in Nat /\ Startup = Skew + 1
      /\ stored \in Seq(StoredEvent)
  BY Types DEF TypeInv, EnvType, Startup
<1>3. now + d - lag \in Positive /\ (now + d - lag) + Skew >= now /\ now + d - lag <= now'
      /\ now' \in Nat /\ now' >= now /\ (now + d - lag >= now' \/ now' = now)
  BY <1>1, <1>2 DEF Positive
<1> DEFINE e == [sub |-> s, ts |-> now + d - lag]
<1>4. e \in StoredEvent /\ e.sub = s /\ e.ts = now + d - lag
  BY <1>3 DEF StoredEvent
<1>5. stored' = Append(stored, e)
  BY <1>1
<1> HIDE DEF e
<1>6. /\ Append(stored, e) \in Seq(StoredEvent)
      /\ Len(Append(stored, e)) = Len(stored) + 1 /\ Len(stored) \in Nat
      /\ DOMAIN stored = 1..Len(stored) /\ DOMAIN Append(stored, e) = 1..(Len(stored) + 1)
      /\ \A i \in DOMAIN stored : Append(stored, e)[i] = stored[i]
      /\ Append(stored, e)[Len(stored) + 1] = e
  BY <1>2, <1>4
<1> QED
  BY <1>3, <1>4, <1>5, <1>6

LEMMA PublishWire ==
    ASSUME TypeInv, NEW s \in Sub, Publish(s) \/ PublishUnseen(s)
    PROVE  /\ UNCHANGED <<st, phase, link, out, live, answered, queue, cmds, handed, recent, cut,
                          newest, refused, stranded, forgotten>>
           /\ StoreEvent(s) /\ wire' \in Seq(Incoming)
           /\ \/ /\ s \in live /\ unsent' = unsent
                 /\ wire' = Append(wire, Event(Len(stored) + 1))
                 /\ ToSet(wire') = ToSet(wire) \cup {Event(Len(stored) + 1)}
              \/ s \notin live /\ wire' = wire /\ unsent' = unsent
              \/ s \in live /\ wire' = wire /\ unsent' = unsent \cup {Len(stored) + 1}
           /\ used' \in Spending /\ used'.frames = used.frames
<1>1. /\ StoreEvent(s)
      /\ \/ /\ wire' = IF s \in live THEN Append(wire, Event(Len(stored) + 1)) ELSE wire
            /\ unsent' = unsent
         \/ s \in live /\ wire' = wire /\ unsent' = unsent \cup {Len(stored) + 1}
  BY DEF Publish, PublishUnseen
<1>2. UNCHANGED <<st, phase, link, out, live, answered, queue, cmds, handed, recent, cut,
                  newest, refused, stranded, forgotten>>
  BY <1>1 DEF StoreEvent, handVars, frameVars
<1>3. used' \in Spending /\ used'.frames = used.frames
  <2>1. CASE Publish(s)
    BY <2>1, SpendType DEF Publish
  <2>2. CASE PublishUnseen(s)
    <3> DEFINE u == [used EXCEPT !.events = @ + 1, !.faults = @ + 1]
    <3>1. u \in Spending /\ u.frames = used.frames
      <4> DEFINE v == [used EXCEPT !.events = used.events + 1]
      <4>1. used \in Spending
        BY DEF TypeInv, EnvType
      <4>2. v \in Spending /\ v.frames = used.frames
        BY <4>1 DEF Spending
      <4>3. u = [v EXCEPT !.faults = v.faults + 1]
        BY <4>1 DEF Spending
      <4> HIDE DEF u, v
      <4>4. [v EXCEPT !.faults = v.faults + 1] \in Spending
            /\ [v EXCEPT !.faults = v.faults + 1].frames = v.frames
        BY <4>2 DEF Spending
      <4> QED
        BY <4>2, <4>3, <4>4
    <3>2. Spends(u)
      BY <2>2 DEF PublishUnseen
    <3> QED
      BY <3>1, <3>2, SpendsType
  <2> QED
    BY <2>1, <2>2
<1>4. Len(stored) + 1 \in Positive
  BY DEF TypeInv, EnvType, Positive
<1>5. Event(Len(stored) + 1) \in Incoming /\ wire \in Seq(Incoming)
  BY <1>4, Constructors DEF TypeInv, WireType
<1>6. /\ Append(wire, Event(Len(stored) + 1)) \in Seq(Incoming)
      /\ ToSet(Append(wire, Event(Len(stored) + 1))) = ToSet(wire) \cup {Event(Len(stored) + 1)}
  BY <1>5, AppendFacts
<1>7. /\ \/ /\ s \in live /\ unsent' = unsent
            /\ wire' = Append(wire, Event(Len(stored) + 1))
         \/ s \notin live /\ wire' = wire /\ unsent' = unsent
         \/ s \in live /\ wire' = wire /\ unsent' = unsent \cup {Len(stored) + 1}
  BY <1>1
<1> QED
  BY <1>1, <1>2, <1>3, <1>5, <1>6, <1>7

LEMMA PublishType ==
    ASSUME TypeInv, NEW s \in Sub, Publish(s) \/ PublishUnseen(s) PROVE TypeInv'
<1>2. /\ UNCHANGED <<st, phase, link, out, live, queue, cmds, handed, recent, cut, forgotten>>
      /\ StoreEvent(s) /\ wire' \in Seq(Incoming) /\ used' \in Spending
      /\ ToSet(wire') \subseteq ToSet(wire) \cup {Event(Len(stored) + 1)}
  BY PublishWire
<1>1. PICK e \in StoredEvent :
             /\ stored' = Append(stored, e) /\ now' \in Nat /\ now' >= now
             /\ Len(stored) \in Nat
             /\ DOMAIN stored = 1..Len(stored) /\ DOMAIN stored' = 1..(Len(stored) + 1)
  BY <1>2, PublishParts
<1>3. stored' \in Seq(StoredEvent) /\ DOMAIN stored \subseteq DOMAIN stored'
      /\ Len(stored) + 1 \in DOMAIN stored'
  BY <1>1 DEF TypeInv, EnvType
<1>4. \A m \in ToSet(wire') : m.type = "EVENT" => m.id \in DOMAIN stored'
  BY <1>2, <1>3 DEF TypeInv, WireType, Event
<1>5. WireType'
  BY <1>2, <1>4 DEF WireType
<1>6. now' >= Startup /\ Startup' = Startup
  BY <1>1, Types DEF TypeInv, EnvType, Startup, Positive
<1>7. EnvType' /\ HistoryType'
  BY <1>1, <1>2, <1>3, <1>6 DEF TypeInv, EnvType, HistoryType
<1>8. StType' /\ LinkType'
  BY <1>2 DEF TypeInv, StType, LinkType
<1> QED
  BY <1>5, <1>7, <1>8 DEF TypeInv

(* A frame leaves the relay, or a REQ becomes a query. *)
AsQuery(m) == [type |-> "QUERY", sub |-> m.sub, since |-> m.since]
Taken(m) == ToSet(out') \subseteq ToSet(out) /\ ToSet(out) \subseteq ToSet(out') \cup {m}
Turned(m) ==
    /\ ToSet(out') \subseteq ToSet(out) \cup {AsQuery(m)}
    /\ ToSet(out) \subseteq ToSet(out') \cup {m}
    /\ AsQuery(m) \in ToSet(out')

LEMMA TakenFacts ==
    ASSUME TypeInv, NEW i \in DOMAIN out, out' = RemoveAt(out, i)
    PROVE  out' \in Seq(Outgoing) /\ Taken(out[i])
  BY FrameAt, RemoveAtFacts DEF Taken

LEMMA TurnedFacts ==
    ASSUME TypeInv, NEW i \in DOMAIN out, out[i].type = "REQ",
           out' = [out EXCEPT ![i].type = "QUERY"]
    PROVE  out' \in Seq(Outgoing) /\ Turned(out[i])
<1> DEFINE m == out[i]
           x == AsQuery(m)
<1>1. m \in Outgoing /\ i \in 1..Len(out) /\ out \in Seq(Outgoing) /\ m.type = "REQ"
  BY FrameAt
<1>2. m \in [type : {"REQ", "QUERY"}, sub : Sub, since : Int]
  BY <1>1 DEF Outgoing
<1>3. [m EXCEPT !.type = "QUERY"] = x /\ x \in Outgoing
  BY <1>2 DEF AsQuery, Outgoing
<1>4. out' = [out EXCEPT ![i] = [m EXCEPT !.type = "QUERY"]]
  OBVIOUS
<1> HIDE DEF m, x
<1>5. /\ out' \in Seq(Outgoing) /\ DOMAIN out' = 1..Len(out) /\ DOMAIN out = 1..Len(out)
      /\ out'[i] = x /\ \A j \in 1..Len(out) : j # i => out'[j] = out[j]
  <2>1. out \in [1..Len(out) -> Outgoing] /\ Len(out) \in Nat
    BY <1>1
  <2>2. out' = [out EXCEPT ![i] = x]
    BY <1>3, <1>4
  <2>3. out' \in [1..Len(out) -> Outgoing]
    BY <1>1, <1>3, <2>1, <2>2
  <2>4. out' \in Seq(Outgoing)
    BY <2>1, <2>3
  <2> QED
    BY <1>1, <2>1, <2>2, <2>3, <2>4
<1>6. /\ \A y : y \in ToSet(out) <=> \E j \in 1..Len(out) : out[j] = y
      /\ \A y : y \in ToSet(out') <=> \E j \in 1..Len(out) : out'[j] = y
  BY <1>5 DEF ToSet
<1>7. x \in ToSet(out') /\ out[i] = m
  BY <1>1, <1>5, <1>6 DEF m
<1>8. ASSUME NEW y \in ToSet(out) PROVE y \in ToSet(out') \cup {m}
  <2>1. PICK j \in 1..Len(out) : out[j] = y
    BY <1>6
  <2>2. j = i => y = m
    BY <1>7, <2>1
  <2>3. j # i => out'[j] = y
    BY <1>5, <2>1
  <2> QED
    BY <1>6, <2>1, <2>2, <2>3
<1>9. ASSUME NEW y \in ToSet(out') PROVE y \in ToSet(out) \cup {x}
  <2>1. PICK j \in 1..Len(out) : out'[j] = y
    BY <1>6
  <2>2. j = i => y = x
    BY <1>5, <2>1
  <2>3. j # i => out[j] = y
    BY <1>5, <2>1
  <2> QED
    BY <1>6, <2>1, <2>2, <2>3
<1> QED
  BY <1>5, <1>7, <1>8, <1>9 DEF Turned, m, x

(* A page is a sequence of requested events. *)
LEMMA PageFacts ==
    ASSUME TypeInv, NEW S \in SUBSET DOMAIN stored,
           NEW page \in {Page(q) : q \in NewestFirst(S)} \cup {<<>>}
    PROVE  LET r == [n \in DOMAIN page |-> Event(page[n])] IN
           /\ ToSet(page) \subseteq S
           /\ r \in Seq(Incoming) /\ ToSet(r) = {Event(e) : e \in ToSet(page)}
<1>1. DOMAIN stored = 1..Len(stored) /\ Len(stored) \in Nat
  BY DEF TypeInv, EnvType
<1>2. IsFiniteSet(S)
  <2>1. IsFiniteSet(1..Len(stored))
    BY <1>1, FS_Interval
  <2> QED
    BY <1>1, <2>1, FS_Subset
<1>3. page \in Seq(S)
  <2>1. CASE page = <<>>
    BY <2>1
  <2>2. ASSUME NEW q \in NewestFirst(S), page = Page(q) PROVE page \in Seq(S)
    <3> DEFINE n == Cardinality(S)
               k == Min({Len(q), PageLimit})
    <3>1. n \in Nat
      BY <1>2, FS_CardinalityType
    <3>2. q \in [1..n -> S]
      BY DEF NewestFirst
    <3> HIDE DEF n
    <3>3. q \in Seq(S) /\ Len(q) \in Nat
      BY <3>1, <3>2
    <3>4. PageLimit \in Nat
      BY Types
    <3>5. \E a \in {Len(q), PageLimit} : \A y \in {Len(q), PageLimit} : a <= y
      BY <3>3, <3>4
    <3>6. k \in {Len(q), PageLimit} /\ k <= Len(q)
      BY <3>5 DEF Min
    <3>7. page = SubSeq(q, 1, k)
      BY <2>2 DEF Page
    <3> HIDE DEF k
    <3>8. k \in Nat
      BY <3>3, <3>4, <3>6
    <3> QED
      BY <3>3, <3>6, <3>7, <3>8, PrefixFacts
  <2> QED
    BY <2>1, <2>2
<1>4. /\ ToSet(page) \subseteq S /\ Len(page) \in Nat /\ DOMAIN page = 1..Len(page)
      /\ \A x : x \in ToSet(page) <=> \E i \in 1..Len(page) : page[i] = x
      /\ \A i \in 1..Len(page) : page[i] \in S
  BY <1>3, SeqFacts
<1> DEFINE r == [n \in 1..Len(page) |-> Event(page[n])]
<1>5. \A i \in 1..Len(page) : Event(page[i]) \in Incoming
  <2> SUFFICES ASSUME NEW i \in 1..Len(page) PROVE Event(page[i]) \in Incoming
    OBVIOUS
  <2>1. page[i] \in DOMAIN stored
    BY <1>4
  <2> QED
    BY <2>1, StoredAt, Constructors
<1>6. r \in Seq(Incoming) /\ DOMAIN r = 1..Len(page)
  BY <1>4, <1>5
<1>7. ToSet(r) = {Event(e) : e \in ToSet(page)}
  <2>1. \A x : x \in ToSet(r) <=> \E i \in 1..Len(page) : Event(page[i]) = x
    BY <1>6 DEF ToSet
  <2> QED
    BY <1>4, <2>1
<1> QED
  BY <1>4, <1>6, <1>7

Replayed(m, sent) ==
    /\ sent \subseteq Requested(m)
    /\ ToSet(wire') = ToSet(wire) \cup {Event(e) : e \in sent}
    /\ unsent' = (unsent \cup (AskedBy(<<m>>) \ Carrying(wire))) \ sent

Answered(m) ==
    \/ /\ m.type = "REQ" /\ Turned(m) /\ live' = live \cup {m.sub} /\ answered' = answered
       /\ wire' = wire /\ unsent' = unsent
    \/ /\ m.type = "QUERY" /\ Taken(m) /\ live' = live /\ answered' = answered
       /\ \E sent : Replayed(m, sent)
    \/ /\ m.type = "CLOSE" /\ Taken(m) /\ live' = live \ {m.sub} /\ answered' = answered
       /\ ToSet(wire') = ToSet(wire) \cup {Closed(m.sub, "other")} /\ unsent' = unsent
    \/ /\ m.type = "FRAME" /\ Taken(m) /\ live' = live /\ answered' = answered \cup {m.frame}
       /\ ToSet(wire') = ToSet(wire) \cup {Ok(m.frame, TRUE)} /\ unsent' = unsent

LEMMA WireAppend ==
    ASSUME TypeInv, NEW x \in Incoming, wire' = Append(wire, x)
    PROVE  wire' \in Seq(Incoming) /\ ToSet(wire') = ToSet(wire) \cup {x}
<1>1. wire \in Seq(Incoming)
  BY DEF TypeInv, WireType
<1> QED
  BY <1>1, AppendFacts

LEMMA ServeParts ==
    ASSUME TypeInv, Serve
    PROVE  /\ \E m \in Outgoing : m \in ToSet(out) /\ Answered(m)
           /\ link = "up" /\ out' \in Seq(Outgoing) /\ wire' \in Seq(Incoming)
           /\ used' \in Spending /\ used'.frames = used.frames
           /\ UNCHANGED <<st, phase, link, stored, now, queue, cmds, handed, recent, cut,
                          newest, refused, stranded, forgotten>>
<1>1. UNCHANGED <<st, phase, link, stored, now, queue, cmds, handed, recent, cut,
                  newest, refused, stranded, forgotten>>
  BY DEF Serve, handVars, frameVars
<1>2. PICK i \in DOMAIN out : Register(i) \/ Replay(i) \/ HandleClose(i) \/ HandleFrame(i)
  BY DEF Serve
<1> DEFINE m == out[i]
<1>3. m \in Outgoing /\ m \in ToSet(out) /\ link = "up" /\ wire \in Seq(Incoming)
  BY FrameAt DEF TypeInv, WireType
<1>4. /\ m.type \in {"REQ", "QUERY"} => m.sub \in Sub /\ m.since \in Int
      /\ m.type = "CLOSE" => m.sub \in Sub
      /\ m.type = "FRAME" => m.frame \in Positive
  BY <1>3, FrameKinds
<1> SUFFICES /\ Answered(m) /\ out' \in Seq(Outgoing) /\ wire' \in Seq(Incoming)
             /\ used' \in Spending /\ used'.frames = used.frames
  BY <1>1, <1>3
<1>5. CASE Register(i)
  <2>1. /\ m.type = "REQ" /\ out' = [out EXCEPT ![i].type = "QUERY"]
        /\ live' = live \cup {m.sub} /\ UNCHANGED <<wire, answered, unsent, used>>
    BY <1>5 DEF Register
  <2>2. out' \in Seq(Outgoing) /\ Turned(m)
    BY <2>1, TurnedFacts
  <2> QED
    BY <1>3, <2>1, <2>2, SpentOrNot DEF Answered
<1>6. CASE Replay(i)
  <2> DEFINE S == Requested(m)
  <2>1. PICK page \in {Page(q) : q \in NewestFirst(S)} \cup {<<>>} :
         /\ IF page = <<>> /\ S # {} THEN Fault ELSE UNCHANGED used
         /\ wire' = wire \o [n \in DOMAIN page |-> Event(page[n])]
         /\ unsent' = (unsent \cup (AskedBy(<<m>>) \ Carrying(wire))) \ ToSet(page)
    BY <1>6 DEF Replay
  <2>2. m.type = "QUERY" /\ out' = RemoveAt(out, i) /\ UNCHANGED <<live, answered>>
    BY <1>6 DEF Replay
  <2>3. out' \in Seq(Outgoing) /\ Taken(m)
    BY <2>2, TakenFacts
  <2>4. S \in SUBSET DOMAIN stored
    BY DEF Requested
  <2> DEFINE r == [n \in DOMAIN page |-> Event(page[n])]
             sent == ToSet(page)
  <2>5. sent \subseteq S /\ r \in Seq(Incoming) /\ ToSet(r) = {Event(e) : e \in sent}
    <3> HIDE DEF S
    <3> QED
      BY <2>1, <2>4, PageFacts
  <2>6. wire' = wire \o r /\ unsent' = (unsent \cup (AskedBy(<<m>>) \ Carrying(wire))) \ sent
    BY <2>1
  <2>7. used' \in Spending /\ used'.frames = used.frames
    <3>1. Fault \/ UNCHANGED used
      BY <2>1
    <3> QED
      BY <3>1, SpentOrNot
  <2> HIDE DEF r, sent, m
  <2>8. wire' \in Seq(Incoming) /\ ToSet(wire') = ToSet(wire) \cup ToSet(r)
    BY <1>3, <2>5, <2>6, ConcatFacts
  <2>9. Replayed(m, sent)
    BY <2>5, <2>6, <2>8 DEF Replayed, S
  <2> QED
    BY <2>2, <2>3, <2>7, <2>8, <2>9 DEF Answered
<1>7. CASE HandleClose(i)
  <2> DEFINE x == Closed(m.sub, "other")
  <2>1. /\ m.type = "CLOSE" /\ out' = RemoveAt(out, i) /\ live' = live \ {m.sub}
        /\ wire' = Append(wire, x) /\ UNCHANGED <<answered, unsent, used>>
    BY <1>7 DEF HandleClose
  <2>2. out' \in Seq(Outgoing) /\ Taken(m)
    BY <2>1, TakenFacts
  <2>3. x \in Incoming
    BY <1>4, <2>1, Constructors DEF Reason
  <2> HIDE DEF x
  <2>4. wire' \in Seq(Incoming) /\ ToSet(wire') = ToSet(wire) \cup {x}
    BY <2>1, <2>3, WireAppend
  <2> QED
    BY <2>1, <2>2, <2>4, SpentOrNot DEF Answered, x
<1>8. CASE HandleFrame(i)
  <2> DEFINE x == Ok(m.frame, TRUE)
  <2>1. /\ m.type = "FRAME" /\ out' = RemoveAt(out, i) /\ answered' = answered \cup {m.frame}
        /\ wire' = Append(wire, x) /\ UNCHANGED <<live, unsent, used>>
    BY <1>8 DEF HandleFrame
  <2>2. out' \in Seq(Outgoing) /\ Taken(m)
    BY <2>1, TakenFacts
  <2>3. x \in Incoming
    BY <1>4, <2>1, Constructors
  <2> HIDE DEF x
  <2>4. wire' \in Seq(Incoming) /\ ToSet(wire') = ToSet(wire) \cup {x}
    BY <2>1, <2>3, WireAppend
  <2> QED
    BY <2>1, <2>2, <2>4, SpentOrNot DEF Answered, x
<1> QED
  BY <1>2, <1>5, <1>6, <1>7, <1>8

(* Messages of a socket that are all legitimate. *)
LEMMA WireGrows ==
    ASSUME TypeInv, wire' \in Seq(Incoming), UNCHANGED stored,
           \A m \in ToSet(wire') : m \in ToSet(wire) \/ (m.type = "EVENT" => m.id \in DOMAIN stored)
    PROVE  WireType'
  BY DEF TypeInv, WireType

LEMMA ServeType ==
    ASSUME TypeInv, Serve PROVE TypeInv'
<1>1. PICK m \in Outgoing : m \in ToSet(out) /\ Answered(m)
  BY ServeParts
<1>2. /\ link = "up" /\ out' \in Seq(Outgoing) /\ wire' \in Seq(Incoming) /\ used' \in Spending
      /\ UNCHANGED <<st, phase, link, stored, now, queue, cmds, handed, recent, cut, forgotten>>
  BY ServeParts
<1>3. WireType'
  <2>1. \A x \in ToSet(wire') : x \in ToSet(wire) \/ (x.type = "EVENT" => x.id \in DOMAIN stored)
    <3>1. \A x : Requested(x) \subseteq DOMAIN stored
      BY DEF Requested
    <3> QED
      BY <1>1, <3>1 DEF Answered, Replayed, Event, Closed, Ok
  <2> QED
    BY <1>2, <2>1, WireGrows
<1>4. live' \subseteq Sub
  <2>1. live \subseteq Sub /\ (m.type = "REQ" => m.sub \in Sub)
    BY FrameKinds DEF TypeInv, LinkType
  <2>2. live' = live \/ (m.type = "REQ" /\ live' = live \cup {m.sub}) \/ live' = live \ {m.sub}
    BY <1>1 DEF Answered
  <2> QED
    BY <2>1, <2>2
<1> QED
  BY <1>2, <1>3, <1>4 DEF TypeInv, StType, LinkType, EnvType, HistoryType

LEMMA RefuseParts ==
    ASSUME TypeInv, NEW r \in Reason, Refuse(r)
    PROVE  /\ \E m \in Outgoing :
                /\ m \in ToSet(out) /\ m.type = "REQ" /\ m.sub \in Sub /\ Taken(m)
                /\ ToSet(wire') = ToSet(wire) \cup {Closed(m.sub, r)}
                /\ cut' = cut \cup AskedBy(<<m>>)
           /\ link = "up" /\ out' \in Seq(Outgoing) /\ wire' \in Seq(Incoming)
           /\ used' \in Spending /\ used'.frames = used.frames
           /\ UNCHANGED <<st, phase, link, live, stored, now, answered, queue, cmds, handed,
                          recent, newest, unsent, refused, stranded, forgotten>>
<1>1. /\ Fault
      /\ UNCHANGED <<st, phase, link, live, stored, now, answered, queue, cmds, handed,
                     recent, newest, unsent, refused, stranded, forgotten>>
  BY DEF Refuse, relayVars, handVars, frameVars
<1>2. PICK i \in DOMAIN out :
         /\ out[i].type = "REQ" /\ out' = RemoveAt(out, i)
         /\ wire' = Append(wire, Closed(out[i].sub, r)) /\ cut' = cut \cup AskedBy(<<out[i]>>)
  BY DEF Refuse
<1> DEFINE m == out[i]
           x == Closed(m.sub, r)
<1>3. m \in Outgoing /\ m \in ToSet(out) /\ link = "up" /\ m.sub \in Sub
  BY <1>2, FrameAt, FrameKinds
<1>4. out' \in Seq(Outgoing) /\ Taken(m)
  BY <1>2, TakenFacts
<1>5. x \in Incoming
  BY <1>3, Constructors
<1>6. used' \in Spending /\ used'.frames = used.frames
  BY <1>1, SpentOrNot
<1>7. m.type = "REQ" /\ wire' = Append(wire, x) /\ cut' = cut \cup AskedBy(<<m>>)
  BY <1>2
<1> HIDE DEF x, m
<1>8. wire' \in Seq(Incoming) /\ ToSet(wire') = ToSet(wire) \cup {x}
  BY <1>5, <1>7, WireAppend
<1> QED
  BY <1>1, <1>3, <1>4, <1>6, <1>7, <1>8 DEF x

LEMMA RefuseType ==
    ASSUME TypeInv, NEW r \in Reason, Refuse(r) PROVE TypeInv'
<1>1. PICK m \in Outgoing :
         /\ ToSet(wire') = ToSet(wire) \cup {Closed(m.sub, r)}
         /\ cut' = cut \cup AskedBy(<<m>>)
  BY RefuseParts
<1>2. /\ link = "up" /\ out' \in Seq(Outgoing) /\ wire' \in Seq(Incoming) /\ used' \in Spending
      /\ UNCHANGED <<st, phase, link, live, stored, now, queue, cmds, handed, recent, forgotten>>
  BY RefuseParts
<1>3. WireType'
  <2>1. \A x \in ToSet(wire') : x \in ToSet(wire) \/ (x.type = "EVENT" => x.id \in DOMAIN stored)
    BY <1>1 DEF Closed
  <2> QED
    BY <1>2, <2>1, WireGrows
<1>4. cut' \subseteq DOMAIN stored
  BY <1>1, HistorySets DEF TypeInv, HistoryType
<1> QED
  BY <1>2, <1>3, <1>4 DEF TypeInv, StType, LinkType, EnvType, HistoryType

(* The relay's other messages: a frame put off, a notice, an eviction. *)
Told(x) ==
    /\ \/ /\ x = Notice /\ out' = out /\ live' = live
       \/ /\ live' = live
          /\ \E m \in Outgoing : /\ m \in ToSet(out) /\ m.type = "FRAME" /\ Taken(m)
                                  /\ m.frame \in Positive /\ x = Ok(m.frame, FALSE)
       \/ /\ out' = out
          /\ \E c \in Channel : x = Closed(c, "denied") /\ live' = live \ {c}

LEMMA TellParts ==
    ASSUME TypeInv, Throttle \/ ThrottleAll \/ \E c \in Channel : Evict(c)
    PROVE  /\ \E x \in Incoming : Told(x) /\ ToSet(wire') = ToSet(wire) \cup {x}
           /\ link = "up" /\ out' \in Seq(Outgoing) /\ wire' \in Seq(Incoming)
           /\ used' \in Spending /\ used'.frames = used.frames
           /\ UNCHANGED <<st, phase, link, stored, now, answered, queue, cmds, handed,
                          recent, newest, cut, unsent, refused, stranded, forgotten>>
<1>1. /\ Fault
      /\ UNCHANGED <<st, phase, link, stored, now, answered, queue, cmds, handed,
                     recent, newest, cut, unsent, refused, stranded, forgotten>>
  BY DEF Throttle, ThrottleAll, Evict, relayVars, handVars, frameVars
<1>2. used' \in Spending /\ used'.frames = used.frames
  BY <1>1, SpentOrNot
<1>3. link \in {"up", "dead"} /\ (link = "dead" => live = {}) /\ out \in Seq(Outgoing)
  BY DEF TypeInv, LinkType
<1>4. ASSUME NEW x \in Incoming, Told(x), wire' = Append(wire, x), link = "up", out' \in Seq(Outgoing)
      PROVE  /\ \E y \in Incoming : Told(y) /\ ToSet(wire') = ToSet(wire) \cup {y}
             /\ link = "up" /\ out' \in Seq(Outgoing) /\ wire' \in Seq(Incoming)
  BY <1>4, WireAppend
<1>5. CASE ThrottleAll
  <2>1. link = "up" /\ wire' = Append(wire, Notice) /\ out' = out /\ live' = live
    BY <1>5 DEF ThrottleAll, relayVars
  <2>2. Notice \in Incoming /\ Told(Notice)
    BY <2>1, Constructors DEF Told
  <2> QED
    BY <1>1, <1>2, <1>3, <1>4, <2>1, <2>2
<1>6. CASE Throttle
  <2>1. PICK i \in DOMAIN out :
          /\ out[i].type = "FRAME"
          /\ out' = RemoveAt(out, i) /\ wire' = Append(wire, Ok(out[i].frame, FALSE))
    BY <1>6 DEF Throttle
  <2> DEFINE m == out[i]
             x == Ok(m.frame, FALSE)
  <2>2. m \in Outgoing /\ m \in ToSet(out) /\ link = "up" /\ m.frame \in Positive /\ live' = live
    BY <1>6, <2>1, FrameAt, FrameKinds DEF Throttle, relayVars
  <2>3. out' \in Seq(Outgoing) /\ Taken(m)
    BY <2>1, TakenFacts
  <2>4. x \in Incoming /\ wire' = Append(wire, x) /\ m.type = "FRAME"
    BY <2>1, <2>2, Constructors
  <2> HIDE DEF m
  <2>5. Told(x)
    BY <2>2, <2>3, <2>4 DEF Told
  <2> HIDE DEF x
  <2> QED
    BY <1>1, <1>2, <1>4, <2>2, <2>3, <2>4, <2>5
<1>7. ASSUME NEW c \in Channel, Evict(c)
      PROVE  /\ \E y \in Incoming : Told(y) /\ ToSet(wire') = ToSet(wire) \cup {y}
             /\ link = "up" /\ out' \in Seq(Outgoing) /\ wire' \in Seq(Incoming)
  <2> DEFINE x == Closed(c, "denied")
  <2>1. /\ c \in live /\ live' = live \ {c} /\ wire' = Append(wire, x) /\ out' = out
    BY <1>7 DEF Evict
  <2>2. x \in Incoming /\ Told(x)
    BY <2>1, Constructors, Types DEF Told, Reason
  <2>3. link = "up"
    BY <1>3, <2>1
  <2> HIDE DEF x
  <2> QED
    BY <1>3, <1>4, <2>1, <2>2, <2>3
<1> QED
  BY <1>1, <1>2, <1>5, <1>6, <1>7

LEMMA TellType ==
    ASSUME TypeInv, Throttle \/ ThrottleAll \/ \E c \in Channel : Evict(c) PROVE TypeInv'
<1>1. PICK x \in Incoming : Told(x) /\ ToSet(wire') = ToSet(wire) \cup {x}
  BY TellParts
<1>2. /\ link = "up" /\ out' \in Seq(Outgoing) /\ wire' \in Seq(Incoming) /\ used' \in Spending
      /\ UNCHANGED <<st, phase, link, stored, now, queue, cmds, handed, recent, cut, forgotten>>
  BY TellParts
<1>3. x.type # "EVENT" /\ live' \subseteq Sub
  BY <1>1 DEF Told, Notice, Ok, Closed, TypeInv, LinkType
<1>4. WireType'
  BY <1>1, <1>2, <1>3, WireGrows
<1> QED
  BY <1>2, <1>3, <1>4 DEF TypeInv, StType, LinkType, EnvType, HistoryType

LEMMA LinkDiesParts ==
    ASSUME TypeInv, LinkDies
    PROVE  /\ link = "up" /\ link' = "dead" /\ live' = {} /\ out' = <<>>
           /\ wire' \in Seq(Incoming) /\ ToSet(wire') \subseteq ToSet(wire)
           /\ cut' = cut \cup AskedBy(out) \cup (Carrying(wire) \ Carrying(wire'))
           /\ used' \in Spending /\ used'.frames = used.frames
           /\ UNCHANGED <<st, phase, stored, now, answered, queue, cmds, handed,
                          recent, newest, unsent, refused, stranded, forgotten>>
<1>1. /\ link = "up" /\ Fault
      /\ link' = "dead" /\ live' = {} /\ out' = <<>>
      /\ UNCHANGED <<st, phase, stored, now, answered, queue, cmds, handed,
                     recent, newest, unsent, refused, stranded, forgotten>>
  BY DEF LinkDies, handVars, frameVars
<1>2. PICK n \in 0..Len(wire) :
         /\ wire' = SubSeq(wire, 1, n)
         /\ cut' = cut \cup AskedBy(out) \cup
                   (Carrying(wire) \ Carrying(SubSeq(wire, 1, n)))
  BY DEF LinkDies
<1>3. wire \in Seq(Incoming) /\ n \in Nat /\ n <= Len(wire)
  BY DEF TypeInv, WireType
<1>4. SubSeq(wire, 1, n) \in Seq(Incoming) /\ ToSet(SubSeq(wire, 1, n)) \subseteq ToSet(wire)
  BY <1>3, PrefixFacts
<1>5. used' \in Spending /\ used'.frames = used.frames
  BY <1>1, SpentOrNot
<1> HIDE DEF Carrying
<1>6. cut' = cut \cup AskedBy(out) \cup (Carrying(wire) \ Carrying(wire'))
  BY <1>2
<1> QED
  BY <1>1, <1>2, <1>4, <1>5, <1>6

LEMMA LinkDiesType ==
    ASSUME TypeInv, LinkDies PROVE TypeInv'
<1>1. /\ link = "up" /\ link' = "dead" /\ live' = {} /\ out' = <<>>
      /\ wire' \in Seq(Incoming) /\ ToSet(wire') \subseteq ToSet(wire)
      /\ cut' = cut \cup AskedBy(out) \cup (Carrying(wire) \ Carrying(wire'))
      /\ used' \in Spending
      /\ UNCHANGED <<st, phase, stored, now, queue, cmds, handed, recent, forgotten>>
  BY LinkDiesParts
<1>2. WireType'
  <2>1. \A m \in ToSet(wire') : m \in ToSet(wire) \/ (m.type = "EVENT" => m.id \in DOMAIN stored)
    BY <1>1
  <2> QED
    BY <1>1, <2>1, WireGrows
<1>3. out' \in Seq(Outgoing) /\ cut' \subseteq DOMAIN stored
  BY <1>1, EmptyFacts, HistorySets DEF TypeInv, HistoryType
<1> QED
  BY <1>1, <1>2, <1>3 DEF TypeInv, StType, LinkType, EnvType, HistoryType

LEMMA TypeNext ==
    ASSUME TypeInv, NewestInv, [Next]_vars PROVE TypeInv'
<1>1. CASE ClientStep
  BY <1>1, MainCommandType, ApplyCommandType, DrainCommandType, DrainDoneType, DrainFailedType,
     FailedDrainDoneType, ConnectGatedType, ConnectType, DrainPendingType, ParkRetryType,
     RecoverOneType, DrainFrameType, DetectLossType, HandleEventType, HandleNoticeType,
     HandleOkType, HandleClosedType DEF ClientStep
<1>2. CASE UNCHANGED vars
  BY <1>2, WireKept DEF vars, TypeInv, StType, LinkType, EnvType, HistoryType
<1>3. CASE Next /\ ~ClientStep
  BY <1>3, RequeueAgainType, GateExpiresType, SubscribeChannelType, UnsubscribeChannelType,
     SubscribeControlType, PublishFrameType, NextEventType, PublishType, ServeType, RefuseType,
     TellType, LinkDiesType DEF Next
<1> QED
  BY <1>1, <1>2, <1>3

(* The clock, the relay's events, the harness's starting points and what   *)
(* was left out change in few steps.                                       *)
EnvQuiet == UNCHANGED <<newest, unsent, now, stored>>

EnvServed ==
    /\ UNCHANGED <<newest, now, stored>>
    /\ unsent' \subseteq DOMAIN stored

EnvPublished ==
    /\ newest' = newest /\ now' \in Nat /\ now' >= now
    /\ unsent' \subseteq unsent \cup {Len(stored) + 1}
    /\ DOMAIN stored' = DOMAIN stored \cup {Len(stored) + 1}

EnvSubscribed ==
    /\ UNCHANGED <<unsent, now, stored>>
    /\ \E s \in Channel, t \in Nat : SubscribedFrom(s, t)

LEMMA EnvClient ==
    ASSUME ClientStep PROVE EnvQuiet
<1> USE DEF relayVars, handVars, EnvQuiet
<1>0. Reconnecting(st) \/ (\E b : Reconnecting(b)) \/ DropSocket => UNCHANGED <<unsent, now, stored>>
  BY DEF Reconnecting, DropSocket
<1>1. MainCommand => EnvQuiet
  BY <1>0 DEF MainCommand
<1>2. ApplyCommand \/ DrainCommand \/ DrainDone \/ DrainFailed \/ FailedDrainDone => EnvQuiet
  BY <1>0 DEF ApplyCommand, DrainCommand, DrainDone, DrainFailed, FailedDrainDone
<1>3. ConnectGated \/ Connect => EnvQuiet
  BY DEF ConnectGated, Connect
<1>4. \A s \in Sub : DrainPending(s) \/ ParkRetry(s) \/ RecoverOne(s) => EnvQuiet
  BY DEF DrainPending, ParkRetry, RecoverOne
<1>5. DrainFrame \/ DetectLoss => EnvQuiet
  BY <1>0 DEF DrainFrame, DetectLoss
<1>6. HandleEvent => EnvQuiet
  BY DEF HandleEvent, NewEvent
<1>7. HandleNotice \/ HandleOk => EnvQuiet
  BY DEF HandleNotice, HandleOk
<1>8. HandleClosed => EnvQuiet
  BY <1>0 DEF HandleClosed
<1> QED
  BY <1>1, <1>2, <1>3, <1>4, <1>5, <1>6, <1>7, <1>8 DEF ClientStep

LEMMA EnvMoves ==
    ASSUME TypeInv, NewestInv, [Next]_vars
    PROVE  EnvQuiet \/ EnvServed \/ EnvPublished \/ EnvSubscribed
<1> USE DEF relayVars, handVars
<1>1. CASE UNCHANGED vars \/ RequeueAgain \/ GateExpires \/ NextEvent \/ PublishFrame
  BY <1>1 DEF vars, RequeueAgain, GateExpires, NextEvent, PublishFrame, Issue, EnvQuiet
<1>2. CASE \/ \E c \in Channel : UnsubscribeChannel(c)
           \/ \E s \in Control : SubscribeControl(s)
  BY <1>2 DEF UnsubscribeChannel, SubscribeControl, Issue, EnvQuiet
<1>3. ASSUME NEW c \in Channel, SubscribeChannel(c) PROVE EnvSubscribed
  <2>1. PICK t \in Nat : SubscribedFrom(c, t)
    BY <1>3, SubscribeParts
  <2> QED
    BY <2>1 DEF SubscribedFrom, EnvSubscribed, Issue
<1>4. ASSUME NEW s \in Sub, Publish(s) \/ PublishUnseen(s) PROVE EnvPublished
  <2>1. StoreEvent(s) /\ newest' = newest /\ unsent' \subseteq unsent \cup {Len(stored) + 1}
    BY <1>4, PublishWire
  <2>2. /\ now' \in Nat /\ now' >= now /\ Len(stored) \in Nat
        /\ DOMAIN stored = 1..Len(stored) /\ DOMAIN stored' = 1..(Len(stored) + 1)
    BY <2>1, PublishParts
  <2> QED
    BY <2>1, <2>2 DEF EnvPublished
<1>5. CASE Serve
  <2>1. PICK m \in Outgoing : Answered(m)
    BY <1>5, ServeParts
  <2>2. UNCHANGED <<newest, now, stored>>
    BY <1>5, ServeParts
  <2> QED
    BY <2>1, <2>2, HistorySets DEF EnvServed, Answered, Replayed, NewestInv
<1>6. CASE (\E r \in Reason : Refuse(r)) \/ LinkDies
  BY <1>6, RefuseParts, LinkDiesParts DEF EnvQuiet
<1>7. CASE Throttle \/ ThrottleAll \/ \E c \in Channel : Evict(c)
  BY <1>7, TellParts DEF EnvQuiet
<1> QED
  BY <1>1, <1>2, <1>3, <1>4, <1>5, <1>6, <1>7, EnvClient DEF Next

LEMMA NewestInit ==
    ASSUME Init PROVE NewestInv
<1>1. Startup \in Nat /\ now = Startup /\ unsent = {} /\ newest = [c \in Channel |-> Startup]
  BY Types DEF Init, Positive
<1> QED
  BY <1>1 DEF NewestInv

LEMMA NewestNext ==
    ASSUME TypeInv, NewestInv, [Next]_vars
    PROVE  /\ NewestInv' /\ now' \in Nat /\ now' >= now
           /\ \A c \in Channel : newest'[c] >= newest[c]
<1>1. now \in Nat /\ newest \in [Channel -> Nat] /\ Startup' = Startup /\ Startup \in Nat
  BY Types DEF TypeInv, EnvType, NewestInv, Startup, Positive
<1>2. CASE EnvQuiet \/ EnvServed
  BY <1>1, <1>2 DEF EnvQuiet, EnvServed, NewestInv
<1>3. CASE EnvPublished
  BY <1>1, <1>3 DEF EnvPublished, NewestInv
<1>4. CASE EnvSubscribed
  <2>1. PICK s \in Channel, t \in Nat : SubscribedFrom(s, t)
    BY <1>4 DEF EnvSubscribed
  <2>2. UNCHANGED <<unsent, now, stored>>
    BY <1>4 DEF EnvSubscribed
  <2> QED
    BY <1>1, <2>1, <2>2 DEF SubscribedFrom, NewestInv
<1> QED
  BY <1>2, <1>3, <1>4, EnvMoves

-----------------------------------------------------------------------------
(***************************************************************************)
(* The ids seen.  The newest of the events handed out are in one of the    *)
(* two generations, the very newest in the current one: so a rotation,     *)
(* that of a dropped event included, forgets none of the last Half.        *)
(***************************************************************************)

IdSets ==
    /\ IsFiniteSet(st.cur) /\ Cardinality(st.cur) < Half
    /\ IsFiniteSet(st.prev) /\ Cardinality(st.prev) <= Half
    /\ st.cur \cup st.prev \subseteq handed

RecentSeen ==
    /\ Len(recent) <= Half /\ Cardinality(st.cur) <= Len(recent)
    /\ \A i \in 1..Len(recent) : i + Half > Len(recent) + 1 => recent[i] \in st.cur \cup st.prev
    /\ \A i \in 1..Len(recent) : i + Cardinality(st.cur) > Len(recent) => recent[i] \in st.cur

RecentInv == IdSets /\ RecentSeen /\ RepeatsAreFarApart

LEMMA RecentInit ==
    ASSUME Init PROVE RecentInv
<1>1. /\ st.cur = {} /\ st.prev = {} /\ recent = <<>> /\ handed = {}
  BY DEF Init
<1>2. IsFiniteSet({}) /\ Cardinality({}) = 0
  BY FS_EmptySet
<1>3. Len(recent) = 0 /\ DOMAIN recent = {}
  BY <1>1
<1> QED
  BY <1>1, <1>2, <1>3, Types DEF RecentInv, IdSets, RecentSeen, RepeatsAreFarApart

LEMMA RecentKept ==
    ASSUME RecentInv, SameIds(st', st), UNCHANGED <<handed, recent>>
    PROVE  RecentInv'
  BY DEF RecentInv, IdSets, RecentSeen, RepeatsAreFarApart, SameIds, Half

LEMMA RecentDropped ==
    ASSUME TypeInv, RecentInv, NEW e \in DOMAIN stored, e \notin st.cur \cup st.prev,
           EventDropped(e)
    PROVE  RecentInv'
<1>1. e \in Positive /\ st \in BgState /\ Half \in Nat /\ recent \in Seq(Positive)
  BY StoredAt, Types DEF TypeInv, StType, HistoryType
<1>2. /\ handed' = handed /\ recent' = recent
      /\ st'.cur = Remembered(st, e).cur \ {e} /\ st'.prev = Remembered(st, e).prev \ {e}
  BY DEF EventDropped
<1> DEFINE k == Cardinality(st.cur)
           n == Len(recent)
<1>3. /\ IsFiniteSet(st.cur) /\ k \in Nat /\ n \in Nat /\ k < Half
      /\ Cardinality(st.cur \cup {e}) = k + 1
  BY <1>1, FS_CardinalityType, FS_AddElement DEF RecentInv, IdSets
<1>4. CASE k + 1 >= Half
  <2>1. st'.prev = st.cur /\ st'.cur = {}
    BY <1>1, <1>2, <1>3, <1>4, RememberedFields
  <2>2. IsFiniteSet({}) /\ Cardinality({}) = 0
    BY FS_EmptySet
  <2>3. IdSets'
    <3>1. Cardinality(st.cur) <= Half /\ Cardinality({}) < Half
      BY <1>1, <1>3, <2>2, Types
    <3>2. Half' = Half
      BY DEF Half
    <3> QED
      BY <1>2, <1>3, <2>1, <2>2, <3>1, <3>2 DEF RecentInv, IdSets
  <2>4. RecentSeen'
    <3>1. k = Half - 1
      BY <1>1, <1>3, <1>4
    <3>2. ASSUME NEW i \in 1..n, i + Half > n + 1 PROVE recent[i] \in st.cur
      <4>1. i + k > n
        BY <1>1, <1>3, <3>1, <3>2
      <4> QED
        BY <4>1 DEF RecentInv, RecentSeen
    <3>3. n <= Half /\ Half' = Half
      BY DEF RecentInv, RecentSeen, Half
    <3>4. \A i \in 1..n : i + 0 > n => recent[i] \in {}
      BY <1>3
    <3> HIDE DEF n
    <3>5. Len(recent') = n /\ 0 <= n
      BY <1>2, <1>3 DEF n
    <3> QED
      BY <1>2, <2>1, <2>2, <3>2, <3>3, <3>4, <3>5 DEF RecentSeen
  <2> QED
    BY <1>2, <2>3, <2>4 DEF RecentInv, RepeatsAreFarApart
<1>5. CASE ~(k + 1 >= Half)
  <2>1. st'.prev = st.prev /\ st'.cur = st.cur
    BY <1>1, <1>2, <1>3, <1>5, RememberedFields
  <2> QED
    BY <1>2, <2>1, RecentKept DEF SameIds
<1> QED
  BY <1>4, <1>5

LEMMA RecentHanded ==
    ASSUME TypeInv, RecentInv, NEW e \in DOMAIN stored, e \notin st.cur \cup st.prev,
           EventHanded(e)
    PROVE  RecentInv'
<1>1. e \in Positive /\ st \in BgState /\ Half \in Nat /\ Half >= 1 /\ recent \in Seq(Positive)
  BY StoredAt, Types DEF TypeInv, StType, HistoryType
<1>2. /\ handed' = handed \cup {e}
      /\ recent' = LET r == Append(recent, e) IN IF Len(r) > Half THEN Tail(r) ELSE r
      /\ st'.cur = Remembered(st, e).cur /\ st'.prev = Remembered(st, e).prev
  BY DEF EventHanded, SameIds
<1> DEFINE k == Cardinality(st.cur)
           n == Len(recent)
           d == IF n = Half THEN 1 ELSE 0
<1>3. /\ IsFiniteSet(st.cur) /\ k \in Nat /\ n \in Nat /\ k < Half /\ n <= Half /\ k <= n
      /\ IsFiniteSet(st.cur \cup {e}) /\ Cardinality(st.cur \cup {e}) = k + 1
  BY <1>1, FS_CardinalityType, FS_AddElement DEF RecentInv, IdSets, RecentSeen
<1>4. /\ d \in {0, 1} /\ Len(recent') = n + 1 - d /\ DOMAIN recent' = 1..(n + 1 - d)
      /\ recent'[n + 1 - d] = e
      /\ \A i \in 1..(n - d) : recent'[i] = recent[i + d]
  <2> DEFINE r == Append(recent, e)
  <2>1. /\ r \in Seq(Positive) /\ Len(r) = n + 1 /\ r # <<>> /\ r[n + 1] = e
        /\ \A i \in 1..n : r[i] = recent[i]
    BY <1>1
  <2>2. recent' = IF Len(r) > Half THEN Tail(r) ELSE r
    BY <1>2
  <2> HIDE DEF r, n
  <2>3. /\ Tail(r) \in Seq(Positive) /\ Len(Tail(r)) = n
        /\ \A i \in 1..n : Tail(r)[i] = r[i + 1]
    BY <1>3, <2>1, TailFacts
  <2>4. CASE n = Half
    <3>1. recent' = Tail(r) /\ d = 1 /\ n >= 1
      BY <1>1, <1>3, <2>1, <2>2, <2>4
    <3>2. recent'[n] = e
      BY <1>3, <2>1, <2>3, <3>1
    <3>3. \A i \in 1..(n - 1) : recent'[i] = recent[i + 1]
      <4> SUFFICES ASSUME NEW i \in 1..(n - 1) PROVE recent'[i] = recent[i + 1]
        OBVIOUS
      <4>1. i \in 1..n /\ i + 1 \in 1..n
        BY <1>3
      <4> QED
        BY <2>1, <2>3, <3>1, <4>1
    <3> QED
      BY <1>3, <2>3, <3>1, <3>2, <3>3
  <2>5. CASE n # Half
    <3>1. recent' = r /\ d = 0
      BY <1>1, <1>3, <2>1, <2>2, <2>5
    <3> QED
      BY <1>3, <2>1, <3>1
  <2> QED
    BY <2>4, <2>5
<1>5. /\ \A i \in 1..n : i + Half > n + 1 => recent[i] \in st.cur \cup st.prev
      /\ \A i \in 1..n : i + k > n => recent[i] \in st.cur
      /\ \A i, j \in 1..n : recent[i] = recent[j] => i = j
  BY <1>1 DEF RecentInv, RecentSeen, RepeatsAreFarApart
<1>6. d \in {0, 1} /\ (d = 1 <=> n = Half)
  OBVIOUS
<1> HIDE DEF k, n, d
<1>7. ASSUME NEW i \in 1..(n - d)
      PROVE  /\ i + d \in 1..n /\ recent[i + d] \in st.cur \cup st.prev /\ recent[i + d] # e
  <2>1. i + d \in 1..n /\ (i + d) + Half > n + 1
    BY <1>1, <1>3, <1>6, <1>7
  <2> QED
    BY <1>5, <2>1
<1>8. RepeatsAreFarApart'
  <2> SUFFICES ASSUME NEW i \in 1..(n + 1 - d), NEW j \in 1..(n + 1 - d), recent'[i] = recent'[j]
               PROVE  i = j
    BY <1>4 DEF RepeatsAreFarApart
  <2>1. /\ i \in 1..(n - d) \/ i = n + 1 - d
        /\ j \in 1..(n - d) \/ j = n + 1 - d
    BY <1>3, <1>6
  <2>2. CASE i \in 1..(n - d) /\ j \in 1..(n - d)
    <3>1. i + d = j + d
      BY <1>4, <1>5, <1>7, <2>2
    <3> QED
      BY <1>6, <2>2, <3>1
  <2>3. CASE ~(i \in 1..(n - d) /\ j \in 1..(n - d))
    BY <1>4, <1>7, <2>1, <2>3
  <2> QED
    BY <2>2, <2>3
<1>9. CASE k + 1 >= Half
  <2>1. st'.prev = st.cur \cup {e} /\ st'.cur = {}
    BY <1>1, <1>2, <1>3, <1>9, RememberedFields DEF k
  <2>2. IsFiniteSet({}) /\ Cardinality({}) = 0
    BY FS_EmptySet
  <2>3. IdSets'
    BY <1>1, <1>2, <1>3, <1>9, <2>1, <2>2, Types DEF RecentInv, IdSets, Half
  <2>4. ASSUME NEW i \in 1..(n + 1 - d), i + Half > (n + 1 - d) + 1
        PROVE  recent'[i] \in st.cur \cup {e}
    <3>1. CASE i = n + 1 - d
      BY <1>4, <3>1
    <3>2. CASE i # n + 1 - d
      <4>1. i \in 1..(n - d) /\ i + d \in 1..n /\ (i + d) + k > n
        BY <1>1, <1>3, <1>6, <1>9, <2>4, <3>2
      <4> QED
        BY <1>4, <1>5, <4>1
    <3> QED
      BY <3>1, <3>2
  <2>5. RecentSeen'
    BY <1>1, <1>3, <1>4, <1>6, <2>1, <2>2, <2>4 DEF RecentSeen, Half
  <2> QED
    BY <1>8, <2>3, <2>5 DEF RecentInv
<1>10. CASE ~(k + 1 >= Half)
  <2>1. st'.prev = st.prev /\ st'.cur = st.cur \cup {e}
    BY <1>1, <1>2, <1>3, <1>10, RememberedFields DEF k
  <2>2. IdSets'
    BY <1>1, <1>2, <1>3, <1>10, <2>1 DEF RecentInv, IdSets, Half
  <2>3. ASSUME NEW i \in 1..(n + 1 - d)
        PROVE  /\ recent'[i] \in st'.cur \cup st'.prev
               /\ i + (k + 1) > n + 1 - d => recent'[i] \in st'.cur
    <3>1. CASE i = n + 1 - d
      BY <1>4, <2>1, <3>1
    <3>2. CASE i # n + 1 - d
      <4>1. i \in 1..(n - d) /\ i + d \in 1..n
        BY <1>3, <1>6, <2>3, <3>2
      <4>2. i + (k + 1) > n + 1 - d => (i + d) + k > n
        BY <1>3, <1>6, <4>1
      <4> QED
        BY <1>4, <1>5, <1>7, <2>1, <4>1, <4>2
    <3> QED
      BY <3>1, <3>2
  <2>4. Len(recent') <= Half /\ k + 1 <= Len(recent')
    BY <1>1, <1>3, <1>4, <1>6, <1>10
  <2>5. Cardinality(st'.cur) = k + 1
    BY <1>3, <2>1
  <2>6. RecentSeen'
    BY <1>4, <2>3, <2>4, <2>5 DEF RecentSeen, Half
  <2> QED
    BY <1>8, <2>2, <2>6 DEF RecentInv
<1> QED
  BY <1>9, <1>10

LEMMA RecentHandleEvent ==
    ASSUME TypeInv, RecentInv, HandleEvent PROVE RecentInv'
<1> DEFINE e == Head(wire).id
<1>1. /\ wire # <<>> /\ Head(wire).type = "EVENT"
      /\ \/ UNCHANGED <<st, handed, recent>>
         \/ ~Seen(e) /\ NewEvent(e)
  BY DEF HandleEvent, Received, handVars
<1>2. e \in DOMAIN stored
  BY <1>1, HeadMessage
<1> HIDE DEF e
<1>3. CASE UNCHANGED <<st, handed, recent>>
  BY <1>3, RecentKept DEF SameIds
<1>4. CASE ~Seen(e) /\ NewEvent(e)
  <2>1. EventHanded(e) \/ EventDropped(e)
    BY <1>2, <1>4, NewEventSt
  <2>2. e \notin st.cur \cup st.prev
    BY <1>4 DEF Seen
  <2> QED
    BY <1>2, <2>1, <2>2, RecentHanded, RecentDropped
<1> QED
  BY <1>1, <1>3, <1>4

LEMMA ExecuteIds ==
    ASSUME TypeInv, NEW c \in Command, Execute(c) PROVE SameIds(st', st)
  BY ExecuteSubscribeSt, ExecuteUnsubscribeSt, ExecutePublishSt DEF Execute

LEMMA CommandIds ==
    ASSUME TypeInv, MainCommand \/ DrainCommand \/ DrainFailed \/ ApplyCommand
    PROVE  SameIds(st', st) /\ UNCHANGED <<handed, recent>>
<1> DEFINE c == Head(cmds)
           b == Intent(Applied(st, c), c)
<1>1. /\ UNCHANGED <<handed, recent>> /\ cmds # <<>>
      /\ \/ Reconnecting(st) \/ Execute(c)
         \/ SubscribeFails(c) /\ (Reconnecting(b) \/ st' = b)
         \/ st' = Applied(st, c) \/ st' = st
  BY DEF MainCommand, DrainCommand, DrainFailed, ApplyCommand, handVars
<1>2. c \in Command /\ st \in BgState
  BY <1>1, HeadCommand, StNow
<1> HIDE DEF c
<1>3. CASE Reconnecting(st)
  BY <1>1, <1>2, <1>3, ReconnectingSt
<1>4. CASE Execute(c)
  BY <1>1, <1>2, <1>4, ExecuteIds
<1>5. CASE SubscribeFails(c) /\ (Reconnecting(b) \/ st' = b)
  <2>1. b \in BgState /\ SameIds(b, st)
    BY <1>2, <1>5, SubscribeFailsSt
  <2> HIDE DEF b
  <2>2. SameIds(st', b)
    BY <1>5, <2>1, ReconnectingSt DEF SameIds
  <2> QED
    BY <1>1, <2>1, <2>2 DEF SameIds
<1>6. CASE st' = Applied(st, c)
  BY <1>1, <1>2, <1>6, AppliedFields
<1> QED
  BY <1>1, <1>3, <1>4, <1>5, <1>6 DEF SameIds

LEMMA ClosedIds ==
    ASSUME TypeInv, HandleClosed PROVE SameIds(st', st) /\ UNCHANGED <<handed, recent>>
<1> DEFINE s == Head(wire).sub
<1>1. /\ s \in Sub /\ UNCHANGED <<handed, recent>>
      /\ \/ ClosedDenied(s) \/ ClosedLimited(s) \/ ClosedIgnored(s) \/ ClosedAnswered(s)
         \/ ClosedDrops
  BY ClosedOutcomes
<1> HIDE DEF s
<1>2. st' = st => SameIds(st', st)
  BY DEF SameIds
<1> QED
  BY <1>1, <1>2, StNow, RemovedSt, ClosedParksFields, ClearedSt, ReconnectingSt
     DEF ClosedDenied, ClosedLimited, ClosedIgnored, ClosedAnswered, ClosedDrops

LEMMA ConnectIds ==
    ASSUME TypeInv, Connect PROVE SameIds(st', st) /\ UNCHANGED <<handed, recent>>
<1>1. PICK failing \in SUBSET st.active, sent \in SUBSET st.active :
        \E frames : ConnectWith(failing, sent, frames)
  BY ConnectParts
<1> QED
  BY <1>1 DEF ConnectWith

(* Only an event the task reads changes the ids seen. *)
LEMMA IdsElsewhere ==
    ASSUME TypeInv, [Next]_vars, ~HandleEvent
    PROVE  SameIds(st', st) /\ UNCHANGED <<handed, recent>>
<1> USE DEF relayVars, handVars, frameVars
<1>1. CASE ClientStep
  <2>1. CASE DrainDone \/ FailedDrainDone
    BY <2>1 DEF DrainDone, FailedDrainDone, SameIds
  <2>2. CASE ConnectGated
    BY <2>2, ConnectGatedSt DEF ConnectGated
  <2>3. ASSUME NEW s \in Sub, DrainPending(s) \/ ParkRetry(s) \/ RecoverOne(s)
        PROVE  SameIds(st', st) /\ UNCHANGED <<handed, recent>>
    BY <2>3, DrainPendingSt, ParkRetrySt, ClearedSt DEF DrainPending, ParkRetry, RecoverOne
  <2>4. CASE DrainFrame
    BY <2>4, DrainFrameSt DEF DrainFrame
  <2>5. CASE DetectLoss
    BY <2>5, StNow, ReconnectingSt DEF DetectLoss
  <2>6. CASE HandleNotice
    BY <2>6, HandleNoticeSt DEF HandleNotice
  <2>7. CASE HandleOk
    BY <2>7, HandleOkSt DEF HandleOk
  <2> QED
    BY <1>1, <2>1, <2>2, <2>3, <2>4, <2>5, <2>6, <2>7, CommandIds, ClosedIds, ConnectIds
       DEF ClientStep
<1>2. CASE RequeueAgain
  BY <1>2, StNow, RequeuedSt DEF RequeueAgain
<1>3. CASE GateExpires
  BY <1>3, GateExpiresSt DEF GateExpires
<1>4. CASE UNCHANGED vars
  BY <1>4 DEF vars, SameIds
<1>5. ASSUME NEW c, Issue(c)
      PROVE  SameIds(st', st) /\ UNCHANGED <<handed, recent>>
  BY <1>5 DEF Issue, SameIds
<1>6. CASE PublishFrame \/ NextEvent
  BY <1>5, <1>6 DEF PublishFrame, NextEvent, SameIds
<1>7. ASSUME NEW s, Publish(s) \/ PublishUnseen(s)
      PROVE  SameIds(st', st) /\ UNCHANGED <<handed, recent>>
  BY <1>7 DEF Publish, PublishUnseen, StoreEvent, SameIds
<1>8. CASE \/ Serve \/ (\E r \in Reason : Refuse(r)) \/ (\E c \in Channel : Evict(c))
           \/ Throttle \/ ThrottleAll \/ LinkDies
  BY <1>8 DEF Serve, Refuse, Evict, Throttle, ThrottleAll, LinkDies, SameIds
<1>9. CASE \/ \E s \in Channel : SubscribeChannel(s) \/ UnsubscribeChannel(s)
           \/ \E s \in Control : SubscribeControl(s)
  BY <1>5, <1>9 DEF SubscribeChannel, UnsubscribeChannel, SubscribeControl
<1> QED
  BY <1>1, <1>2, <1>3, <1>4, <1>6, <1>7, <1>8, <1>9 DEF Next

LEMMA RecentNext ==
    ASSUME TypeInv, RecentInv, [Next]_vars PROVE RecentInv'
  BY IdsElsewhere, RecentKept, RecentHandleEvent

LEMMA RecentAlways ==
    Spec => [](TypeInv /\ NewestInv /\ RecentInv)
<1>1. Init => TypeInv /\ NewestInv /\ RecentInv
  BY TypeInit, NewestInit, RecentInit
<1>2. TypeInv /\ NewestInv /\ RecentInv /\ [Next]_vars => (TypeInv /\ NewestInv /\ RecentInv)'
  BY TypeNext, NewestNext, RecentNext
<1> QED
  BY <1>1, <1>2, PTL DEF Spec

(* No event reaches the harness twice among any Half in a row, for every   *)
(* limit on the ids remembered and whatever replays overlap: also when a   *)
(* full event channel makes the task forget ids again (TwoGenDedup).       *)
THEOREM RepeatsFarApart ==
    Spec => []RepeatsAreFarApart
<1>1. TypeInv /\ NewestInv /\ RecentInv => RepeatsAreFarApart
  BY DEF RecentInv
<1> QED
  BY <1>1, RecentAlways, PTL

-----------------------------------------------------------------------------
(***************************************************************************)
(* Telemetry frames.  Every operation on the two buffers takes the line of *)
(* frames, those in flight first, to a line that drops no more frames than *)
(* it counts and keeps the order of all but those put off one by one.      *)
(***************************************************************************)

Line == st.inflight \o st.pending

Ordered(q, R) ==
    \A i, j \in DOMAIN q : i < j /\ q[i] \notin R /\ q[j] \notin R => q[i] < q[j]

(* The line a becomes the line q: n frames are counted as dropped, those   *)
(* in acc are settled, and those in R lose their place.                    *)
Moves(a, q, n, R, acc) ==
    /\ q \in Seq(Positive) /\ n \in Nat
    /\ ToSet(q) \subseteq ToSet(a)
    /\ \E sh : /\ IsFiniteSet(sh) /\ Cardinality(sh) <= n
               /\ ToSet(a) \subseteq ToSet(q) \cup sh \cup acc
    /\ \A S : Ordered(a, S) => Ordered(q, S \cup R)

LEMMA OrderKept ==
    ASSUME NEW a \in Seq(Positive), NEW q \in Seq(Positive), NEW R, NEW g,
           \A i \in 1..Len(q) : q[i] \in R \/ (g[i] \in 1..Len(a) /\ q[i] = a[g[i]]),
           \A i, j \in 1..Len(q) : i < j /\ q[i] \notin R /\ q[j] \notin R => g[i] < g[j]
    PROVE  \A S : Ordered(a, S) => Ordered(q, S \cup R)
<1>1. DOMAIN q = 1..Len(q) /\ DOMAIN a = 1..Len(a)
  OBVIOUS
<1> QED
  BY <1>1 DEF Ordered

LEMMA OrderShifted ==
    ASSUME NEW a \in Seq(Positive), NEW q \in Seq(Positive), NEW d \in Nat, NEW R,
           \A i \in 1..Len(q) : i + d \in 1..Len(a) /\ q[i] = a[i + d]
    PROVE  \A S : Ordered(a, S) => Ordered(q, S \cup R)
<1> DEFINE g == [i \in 1..Len(q) |-> i + d]
<1>1. \A i \in 1..Len(q) : g[i] = i + d
  OBVIOUS
<1> HIDE DEF g
<1>2. \A i \in 1..Len(q) : g[i] \in 1..Len(a) /\ q[i] = a[g[i]]
  BY <1>1
<1>3. \A i, j \in 1..Len(q) : i < j => g[i] < g[j]
  BY <1>1
<1> QED
  BY <1>2, <1>3, OrderKept

LEMMA MovesNot ==
    ASSUME NEW a \in Seq(Positive), NEW acc PROVE Moves(a, a, 0, {}, acc)
<1>1. \A S : S \cup {} = S
  OBVIOUS
<1>2. IsFiniteSet({}) /\ Cardinality({}) = 0
  BY FS_EmptySet
<1>3. \E sh : /\ IsFiniteSet(sh) /\ Cardinality(sh) <= 0
              /\ ToSet(a) \subseteq ToSet(a) \cup sh \cup acc
  BY <1>2
<1> QED
  BY <1>1, <1>3 DEF Moves

(* park_gated_observer_frame *)
LEMMA ParkedMoves ==
    ASSUME NEW p \in Seq(Positive), NEW q \in Seq(Positive), NEW f \in Positive, NEW acc
    PROVE  Moves(Append(p \o q, f), p \o Newest(Append(q, f)), Over(Append(q, f)), {}, acc)
<1> DEFINE r == Append(q, f)
           a == Append(p \o q, f)
           t == Newest(r)
           b == p \o t
           d == Over(r)
<1>1. /\ r \in Seq(Positive) /\ Len(r) = Len(q) + 1 /\ ToSet(r) = ToSet(q) \cup {f}
      /\ \A i \in 1..Len(q) : r[i] = q[i]
      /\ r[Len(q) + 1] = f
  BY AppendFacts
<1>2. /\ p \o q \in Seq(Positive) /\ Len(p \o q) = Len(p) + Len(q)
      /\ \A i \in 1..Len(p) : (p \o q)[i] = p[i]
      /\ \A i \in 1..Len(q) : (p \o q)[Len(p) + i] = q[i]
      /\ ToSet(p \o q) = ToSet(p) \cup ToSet(q)
  BY ConcatFacts
<1>3. Len(p) \in Nat /\ Len(q) \in Nat
  OBVIOUS
<1> DEFINE c == p \o q
<1> HIDE DEF c
<1>4. /\ a \in Seq(Positive) /\ Len(a) = Len(p) + Len(q) + 1
      /\ \A i \in 1..(Len(p) + Len(q)) : a[i] = (p \o q)[i]
      /\ a[Len(p) + Len(q) + 1] = f
      /\ ToSet(a) = ToSet(p) \cup ToSet(q) \cup {f}
  <2>1. c \in Seq(Positive) /\ Len(c) = Len(p) + Len(q) /\ ToSet(c) = ToSet(p) \cup ToSet(q)
    BY <1>2 DEF c
  <2>2. /\ Append(c, f) \in Seq(Positive) /\ Len(Append(c, f)) = Len(c) + 1
        /\ \A i \in 1..Len(c) : Append(c, f)[i] = c[i]
        /\ Append(c, f)[Len(c) + 1] = f
        /\ ToSet(Append(c, f)) = ToSet(c) \cup {f}
    BY <2>1, AppendFacts
  <2> QED
    BY <2>1, <2>2 DEF c
<1> HIDE DEF r, a
<1>5. /\ d \in Nat /\ d <= Len(r) /\ t \in Seq(Positive) /\ Len(t) = Len(r) - d
      /\ \A i \in 1..Len(t) : t[i] = r[d + i]
      /\ ToSet(t) \subseteq ToSet(r) /\ ToSet(r) \subseteq ToSet(t) \cup Shed(r)
      /\ IsFiniteSet(Shed(r)) /\ Cardinality(Shed(r)) <= d
  BY <1>1, NewestFacts
<1> HIDE DEF t, d
<1>6. /\ b \in Seq(Positive) /\ Len(b) = Len(p) + Len(t)
      /\ \A i \in 1..Len(p) : b[i] = p[i]
      /\ \A i \in 1..Len(t) : b[Len(p) + i] = t[i]
      /\ ToSet(b) = ToSet(p) \cup ToSet(t)
  BY <1>5, ConcatFacts
<1> HIDE DEF b
<1> DEFINE g == [i \in 1..Len(b) |-> IF i <= Len(p) THEN i ELSE i + d]
<1>7. \A i \in 1..Len(b) : g[i] = IF i <= Len(p) THEN i ELSE i + d
  OBVIOUS
<1> HIDE DEF g
<1>8. ASSUME NEW i \in 1..Len(b) PROVE g[i] \in 1..Len(a) /\ b[i] = a[g[i]]
  <2>1. CASE i <= Len(p)
    <3>1. i \in 1..Len(p) /\ i \in 1..(Len(p) + Len(q)) /\ g[i] = i /\ i \in 1..Len(a)
      BY <1>3, <1>4, <1>7, <2>1
    <3> QED
      BY <1>2, <1>4, <1>6, <3>1
  <2>2. CASE i > Len(p)
    <3> DEFINE j == i - Len(p)
    <3>1. /\ j \in 1..Len(t) /\ Len(p) + j = i /\ g[i] = i + d /\ d + j \in 1..Len(r)
          /\ i + d \in 1..Len(a) /\ i + d = Len(p) + (d + j)
      BY <1>1, <1>3, <1>4, <1>5, <1>6, <1>7, <2>2
    <3> HIDE DEF j
    <3>2. b[i] = r[d + j]
      BY <1>5, <1>6, <3>1
    <3>3. a[Len(p) + (d + j)] = r[d + j]
      <4>1. CASE d + j \in 1..Len(q)
        <5>1. Len(p) + (d + j) \in 1..(Len(p) + Len(q))
          BY <1>3, <4>1
        <5> QED
          BY <1>1, <1>2, <1>4, <4>1, <5>1
      <4>2. CASE d + j = Len(q) + 1
        <5>1. Len(p) + (d + j) = Len(p) + Len(q) + 1
          BY <1>3, <4>2
        <5> QED
          BY <1>1, <1>4, <4>2, <5>1
      <4> QED
        BY <1>1, <1>3, <3>1, <4>1, <4>2
    <3> QED
      BY <3>1, <3>2, <3>3
  <2> QED
    BY <1>3, <2>1, <2>2
<1>9. \A i, j \in 1..Len(b) : i < j => g[i] < g[j]
  BY <1>3, <1>5, <1>7
<1>10. \A S : Ordered(a, S) => Ordered(b, S \cup {})
  BY <1>4, <1>6, <1>8, <1>9, OrderKept
<1>11. /\ ToSet(b) \subseteq ToSet(a)
       /\ ToSet(a) \subseteq ToSet(b) \cup Shed(r) \cup acc
  BY <1>1, <1>4, <1>5, <1>6
<1>12. Moves(a, b, d, {}, acc)
  BY <1>5, <1>6, <1>10, <1>11 DEF Moves
<1> QED
  BY <1>12 DEF a, b, t, d, r

(* requeue_observer_in_flight, and a frame tracked when none waits *)
LEMMA NewestMoves ==
    ASSUME NEW a \in Seq(Positive), NEW acc
    PROVE  Moves(a, Newest(a), Over(a), {}, acc)
<1> DEFINE b == Newest(a)
           d == Over(a)
<1>1. /\ d \in Nat /\ d <= Len(a) /\ b \in Seq(Positive) /\ Len(b) = Len(a) - d
      /\ \A i \in 1..Len(b) : b[i] = a[d + i] /\ Len(a) \in Nat
      /\ ToSet(b) \subseteq ToSet(a) /\ ToSet(a) \subseteq ToSet(b) \cup Shed(a)
      /\ IsFiniteSet(Shed(a)) /\ Cardinality(Shed(a)) <= d
  BY NewestFacts
<1> HIDE DEF b, d
<1>2. \A i \in 1..Len(b) : i + d \in 1..Len(a) /\ b[i] = a[i + d]
  <2> SUFFICES ASSUME NEW i \in 1..Len(b) PROVE i + d \in 1..Len(a) /\ b[i] = a[i + d]
    OBVIOUS
  <2>1. i + d \in 1..Len(a) /\ d + i = i + d
    BY <1>1
  <2> QED
    BY <1>1, <2>1
<1>3. \A S : Ordered(a, S) => Ordered(b, S \cup {})
  BY <1>1, <1>2, OrderShifted
<1>4. ToSet(a) \subseteq ToSet(b) \cup Shed(a) \cup acc
  BY <1>1
<1> QED
  BY <1>1, <1>3, <1>4 DEF Moves, b, d

(* drain_gated_observer_pending *)
LEMMA DrainMoves ==
    ASSUME NEW p \in Seq(Positive), NEW q \in Seq(Positive), q # <<>>, NEW acc
    PROVE  Moves(p \o q, Newest(Append(p, Head(q))) \o Tail(q), Over(Append(p, Head(q))), {}, acc)
<1> DEFINE f == Head(q)
           u == Tail(q)
           r == Append(p, f)
           a == p \o q
           t == Newest(r)
           b == t \o u
           d == Over(r)
<1>1. /\ f \in Positive /\ u \in Seq(Positive) /\ Len(q) >= 1 /\ f = q[1] /\ Len(u) = Len(q) - 1
      /\ \A i \in 1..Len(u) : u[i] = q[i + 1]
      /\ ToSet(q) = ToSet(u) \cup {f}
  BY TailFacts
<1>2. /\ a \in Seq(Positive) /\ Len(a) = Len(p) + Len(q)
      /\ \A i \in 1..Len(p) : a[i] = p[i]
      /\ \A i \in 1..Len(q) : a[Len(p) + i] = q[i]
      /\ ToSet(a) = ToSet(p) \cup ToSet(q)
  BY ConcatFacts
<1>3. Len(p) \in Nat /\ Len(q) \in Nat
  OBVIOUS
<1> HIDE DEF f, u, a
<1>4. /\ r \in Seq(Positive) /\ Len(r) = Len(p) + 1 /\ ToSet(r) = ToSet(p) \cup {f}
      /\ \A i \in 1..Len(p) : r[i] = p[i]
      /\ r[Len(p) + 1] = f
  BY <1>1, AppendFacts
<1> HIDE DEF r
<1>5. /\ d \in Nat /\ d <= Len(r) /\ t \in Seq(Positive) /\ Len(t) = Len(r) - d
      /\ \A i \in 1..Len(t) : t[i] = r[d + i]
      /\ ToSet(t) \subseteq ToSet(r) /\ ToSet(r) \subseteq ToSet(t) \cup Shed(r)
      /\ IsFiniteSet(Shed(r)) /\ Cardinality(Shed(r)) <= d
  BY <1>4, NewestFacts
<1> HIDE DEF t, d
<1>6. /\ b \in Seq(Positive) /\ Len(b) = Len(t) + Len(u)
      /\ \A i \in 1..Len(t) : b[i] = t[i]
      /\ \A i \in 1..Len(u) : b[Len(t) + i] = u[i]
      /\ ToSet(b) = ToSet(t) \cup ToSet(u)
  <2>1. t \in Seq(Positive) /\ u \in Seq(Positive)
    BY <1>1, <1>5
  <2> QED
    BY <2>1, ConcatFacts
<1> HIDE DEF b
<1>7. ASSUME NEW i \in 1..Len(b) PROVE i + d \in 1..Len(a) /\ b[i] = a[i + d]
  <2>1. i + d \in 1..Len(a)
    <3>1. /\ Len(a) = Len(p) + Len(q) /\ Len(b) = Len(t) + Len(u) /\ Len(t) = Len(r) - d
          /\ Len(r) = Len(p) + 1 /\ Len(u) = Len(q) - 1 /\ d \in Nat
      BY <1>1, <1>2, <1>4, <1>5, <1>6
    <3>2. Len(b) + d = Len(a) /\ Len(a) \in Nat
      BY <1>3, <3>1
    <3> QED
      BY <3>1, <3>2
  <2>2. CASE i <= Len(t)
    <3>1. i \in 1..Len(t) /\ d + i \in 1..(Len(p) + 1) /\ d + i = i + d
      BY <1>3, <1>4, <1>5, <2>2
    <3>2. b[i] = r[i + d]
      BY <1>5, <1>6, <3>1
    <3>3. a[i + d] = r[i + d]
      <4>1. CASE i + d \in 1..Len(p)
        BY <1>2, <1>4, <4>1
      <4>2. CASE i + d = Len(p) + 1
        <5>1. 1 \in 1..Len(q)
          BY <1>1, <1>3
        <5> QED
          BY <1>1, <1>2, <1>4, <4>2, <5>1
      <4> QED
        BY <1>3, <3>1, <4>1, <4>2
    <3> QED
      BY <2>1, <3>2, <3>3
  <2>3. CASE i > Len(t)
    <3> DEFINE j == i - Len(t)
    <3>1. /\ j \in 1..Len(u) /\ Len(t) + j = i /\ j + 1 \in 1..Len(q)
          /\ i + d = Len(p) + (j + 1)
      BY <1>1, <1>3, <1>4, <1>5, <1>6, <2>3
    <3> HIDE DEF j
    <3>2. b[i] = q[j + 1]
      BY <1>1, <1>6, <3>1
    <3>3. a[i + d] = q[j + 1]
      BY <1>2, <3>1
    <3> QED
      BY <2>1, <3>2, <3>3
  <2> QED
    BY <1>5, <2>2, <2>3
<1>8. \A S : Ordered(a, S) => Ordered(b, S \cup {})
  BY <1>2, <1>5, <1>6, <1>7, OrderShifted
<1>9. /\ ToSet(b) \subseteq ToSet(a)
      /\ ToSet(a) \subseteq ToSet(b) \cup Shed(r) \cup acc
  BY <1>1, <1>2, <1>4, <1>5, <1>6
<1>10. Moves(a, b, d, {}, acc)
  BY <1>5, <1>6, <1>8, <1>9 DEF Moves
<1> QED
  BY <1>10 DEF a, b, t, d, r, f, u

(* acknowledge_observer_frame *)
LEMMA AcknowledgeMoves ==
    ASSUME NEW p \in Seq(Positive), NEW q \in Seq(Positive), NEW f \in ToSet(p), NEW acc, f \in acc
    PROVE  Moves(p \o q, Without(p, f) \o q, 0, {}, acc)
<1> DEFINE a == p \o q
           w == Without(p, f)
           b == w \o q
<1>1. /\ a \in Seq(Positive) /\ Len(a) = Len(p) + Len(q)
      /\ \A i \in 1..Len(p) : a[i] = p[i]
      /\ \A i \in 1..Len(q) : a[Len(p) + i] = q[i]
      /\ ToSet(a) = ToSet(p) \cup ToSet(q)
  BY ConcatFacts
<1>2. Len(p) \in Nat /\ Len(q) \in Nat
  OBVIOUS
<1>3. /\ w \in Seq(Positive) /\ Len(w) = Len(p) - 1
      /\ ToSet(w) \subseteq ToSet(p) /\ ToSet(p) \subseteq ToSet(w) \cup {f}
  BY WithoutFacts
<1>4. PICK k \in 1..Len(p) :
        \A i \in 1..Len(w) : w[i] = IF i < k THEN p[i] ELSE p[i + 1]
  BY WithoutFacts
<1> HIDE DEF a, w
<1>5. /\ b \in Seq(Positive) /\ Len(b) = Len(w) + Len(q)
      /\ \A i \in 1..Len(w) : b[i] = w[i]
      /\ \A i \in 1..Len(q) : b[Len(w) + i] = q[i]
      /\ ToSet(b) = ToSet(w) \cup ToSet(q)
  BY <1>3, ConcatFacts
<1> HIDE DEF b
<1> DEFINE g == [i \in 1..Len(b) |-> IF i < k THEN i ELSE i + 1]
<1>6. \A i \in 1..Len(b) : g[i] = IF i < k THEN i ELSE i + 1
  OBVIOUS
<1> HIDE DEF g
<1>7. ASSUME NEW i \in 1..Len(b) PROVE g[i] \in 1..Len(a) /\ b[i] = a[g[i]]
  <2>1. Len(b) = Len(a) - 1 /\ Len(a) \in Nat
    BY <1>1, <1>2, <1>3, <1>5
  <2>2. CASE i <= Len(w)
    <3>1. /\ i \in 1..Len(w) /\ i \in 1..Len(p) /\ i + 1 \in 1..Len(p)
          /\ i \in 1..Len(a) /\ i + 1 \in 1..Len(a)
      BY <1>1, <1>2, <1>3, <2>2
    <3> QED
      BY <1>1, <1>4, <1>5, <1>6, <3>1
  <2>3. CASE i > Len(w)
    <3> DEFINE j == i - Len(w)
    <3>1. /\ j \in 1..Len(q) /\ Len(w) + j = i /\ Len(p) + j = i + 1 /\ ~(i < k)
          /\ i + 1 \in 1..Len(a)
      BY <1>1, <1>2, <1>3, <1>5, <2>3
    <3> HIDE DEF j
    <3>2. b[i] = q[j] /\ a[i + 1] = q[j] /\ g[i] = i + 1
      BY <1>1, <1>5, <1>6, <3>1
    <3> QED
      BY <3>1, <3>2
  <2> QED
    BY <1>2, <1>3, <2>2, <2>3
<1>8. \A i, j \in 1..Len(b) : i < j => g[i] < g[j]
  BY <1>6
<1>9. \A S : Ordered(a, S) => Ordered(b, S \cup {})
  BY <1>1, <1>5, <1>7, <1>8, OrderKept
<1>10. IsFiniteSet({}) /\ Cardinality({}) = 0
  BY FS_EmptySet
<1>11. /\ ToSet(b) \subseteq ToSet(a)
       /\ ToSet(a) \subseteq ToSet(b) \cup {} \cup acc
  BY <1>1, <1>3, <1>5
<1>12. \E sh : /\ IsFiniteSet(sh) /\ Cardinality(sh) <= 0
               /\ ToSet(a) \subseteq ToSet(b) \cup sh \cup acc
  <2> WITNESS {}
  <2> QED
    BY <1>10, <1>11
<1>13. Moves(a, b, 0, {}, acc)
  BY <1>5, <1>9, <1>11, <1>12 DEF Moves
<1> QED
  BY <1>13 DEF a, b, w

LEMMA PrependFacts ==
    ASSUME NEW f \in Positive, NEW v \in Seq(Positive)
    PROVE  /\ <<f>> \o v \in Seq(Positive) /\ Len(<<f>> \o v) = 1 + Len(v)
           /\ (<<f>> \o v)[1] = f
           /\ \A i \in 1..Len(v) : (<<f>> \o v)[1 + i] = v[i]
           /\ ToSet(<<f>> \o v) = {f} \cup ToSet(v)
<1> DEFINE y == <<f>>
<1>1. y \in Seq(Positive) /\ Len(y) = 1 /\ y[1] = f /\ ToSet(y) = {f}
  BY SingleFacts
<1> HIDE DEF y
<1>2. /\ y \o v \in Seq(Positive) /\ Len(y \o v) = Len(y) + Len(v)
      /\ \A i \in 1..Len(y) : (y \o v)[i] = y[i]
      /\ \A i \in 1..Len(v) : (y \o v)[Len(y) + i] = v[i]
      /\ ToSet(y \o v) = ToSet(y) \cup ToSet(v)
  <2>1. y \in Seq(Positive)
    BY <1>1
  <2> QED
    BY <2>1, ConcatFacts
<1>3. 1 \in 1..Len(y)
  BY <1>1
<1>4. (y \o v)[1] = f
  BY <1>1, <1>2, <1>3
<1> QED
  BY <1>1, <1>2, <1>4 DEF y

(* v is q without its first e elements, which are in sh.                   *)
FrontDropped(q, v, e, sh) ==
    /\ Len(v) = Len(q) - e /\ \A i \in 1..Len(v) : v[i] = q[i + e]
    /\ ToSet(v) \subseteq ToSet(q) /\ ToSet(q) \subseteq ToSet(v) \cup sh
    /\ IsFiniteSet(sh) /\ Cardinality(sh) <= e

(* requeue_rejected_observer_frame, with e frames dropped from the front   *)
(* of those waiting                                                        *)
LEMMA RejectMoves ==
    ASSUME NEW p \in Seq(Positive), NEW q \in Seq(Positive), NEW f \in ToSet(p),
           NEW v \in Seq(Positive), NEW e \in {0, 1}, NEW sh, FrontDropped(q, v, e, sh), NEW acc
    PROVE  Moves(p \o q, Without(p, f) \o (<<f>> \o v), e, {f}, acc)
<1> DEFINE a == p \o q
           w == Without(p, f)
           x == <<f>> \o v
           b == w \o x
<1>1. /\ a \in Seq(Positive) /\ Len(a) = Len(p) + Len(q)
      /\ \A i \in 1..Len(p) : a[i] = p[i]
      /\ \A i \in 1..Len(q) : a[Len(p) + i] = q[i]
      /\ ToSet(a) = ToSet(p) \cup ToSet(q)
  BY ConcatFacts
<1>2. Len(p) \in Nat /\ Len(q) \in Nat /\ Len(v) \in Nat /\ Len(v) = Len(q) - e
  BY DEF FrontDropped
<1>3. /\ w \in Seq(Positive) /\ Len(w) = Len(p) - 1
      /\ ToSet(w) \subseteq ToSet(p) /\ ToSet(p) \subseteq ToSet(w) \cup {f}
  BY WithoutFacts
<1>4. PICK k \in 1..Len(p) :
        \A i \in 1..Len(w) : w[i] = IF i < k THEN p[i] ELSE p[i + 1]
  BY WithoutFacts
<1>5. f \in Positive
  BY SeqFacts
<1>6. /\ x \in Seq(Positive) /\ Len(x) = 1 + Len(v) /\ x[1] = f
      /\ \A i \in 1..Len(v) : x[1 + i] = v[i]
      /\ ToSet(x) = {f} \cup ToSet(v)
  BY <1>5, PrependFacts
<1> HIDE DEF a, w, x
<1>7. /\ b \in Seq(Positive) /\ Len(b) = Len(w) + Len(x)
      /\ \A i \in 1..Len(w) : b[i] = w[i]
      /\ \A i \in 1..Len(x) : b[Len(w) + i] = x[i]
      /\ ToSet(b) = ToSet(w) \cup ToSet(x)
  <2>1. w \in Seq(Positive) /\ x \in Seq(Positive)
    BY <1>3, <1>6
  <2> QED
    BY <2>1, ConcatFacts
<1> HIDE DEF b
<1> DEFINE g == [i \in 1..Len(b) |-> IF i < k THEN i ELSE IF i < Len(p) THEN i + 1 ELSE i + e]
<1>8. \A i \in 1..Len(b) : g[i] = IF i < k THEN i ELSE IF i < Len(p) THEN i + 1 ELSE i + e
  OBVIOUS
<1> HIDE DEF g
<1>9. Len(b) = Len(p) + Len(v) /\ Len(a) = Len(b) + e /\ Len(a) \in Nat /\ Len(b) \in Nat
  BY <1>1, <1>2, <1>3, <1>6, <1>7
<1>10. ASSUME NEW i \in 1..Len(b)
       PROVE  /\ b[i] \in {f} \/ (g[i] \in 1..Len(a) /\ b[i] = a[g[i]])
              /\ i = Len(p) => b[i] \in {f}
  <2>1. CASE i < Len(p)
    <3>1. /\ i \in 1..Len(w) /\ i \in 1..Len(p) /\ i + 1 \in 1..Len(p)
          /\ i \in 1..Len(a) /\ i + 1 \in 1..Len(a) /\ i # Len(p)
      BY <1>1, <1>2, <1>3, <2>1
    <3> QED
      BY <1>1, <1>4, <1>7, <1>8, <2>1, <3>1
  <2>2. CASE i = Len(p)
    <3>1. Len(w) + 1 = i /\ 1 \in 1..Len(x)
      BY <1>2, <1>3, <1>6, <2>2
    <3> QED
      BY <1>6, <1>7, <3>1
  <2>3. CASE i > Len(p)
    <3> DEFINE j == i - Len(p)
    <3>1. /\ j \in 1..Len(v) /\ 1 + j \in 1..Len(x) /\ Len(w) + (1 + j) = i /\ i # Len(p)
          /\ ~(i < k) /\ ~(i < Len(p)) /\ i + e \in 1..Len(a) /\ j + e \in 1..Len(q)
          /\ Len(p) + (j + e) = i + e
      <4>1. /\ Len(w) = Len(p) - 1 /\ Len(x) = 1 + Len(v) /\ k <= Len(p) /\ k \in Nat
            /\ i \in 1..Len(b)
        BY <1>3, <1>6
      <4> QED
        BY <1>2, <1>9, <2>3, <4>1
    <3> HIDE DEF j
    <3>2. b[i] = v[j] /\ v[j] = q[j + e]
      BY <1>6, <1>7, <3>1 DEF FrontDropped
    <3>3. a[i + e] = q[j + e] /\ g[i] = i + e
      BY <1>1, <1>8, <3>1
    <3> QED
      BY <3>1, <3>2, <3>3
  <2> QED
    BY <1>2, <2>1, <2>2, <2>3
<1>11. ASSUME NEW i \in 1..Len(b), NEW j \in 1..Len(b), i < j, b[i] \notin {f}, b[j] \notin {f}
       PROVE  g[i] < g[j]
  <2>1. i # Len(p) /\ j # Len(p)
    BY <1>10, <1>11
  <2> QED
    BY <1>2, <1>8, <1>11, <2>1
<1>12. \A S : Ordered(a, S) => Ordered(b, S \cup {f})
  BY <1>1, <1>7, <1>10, <1>11, OrderKept
<1>13. /\ ToSet(b) \subseteq ToSet(a)
       /\ ToSet(a) \subseteq ToSet(b) \cup sh \cup acc
       /\ IsFiniteSet(sh) /\ Cardinality(sh) <= e
  BY <1>1, <1>3, <1>6, <1>7 DEF FrontDropped
<1>14. Moves(a, b, e, {f}, acc)
  BY <1>7, <1>12, <1>13 DEF Moves
<1> QED
  BY <1>14 DEF a, b, w, x

LEMMA RejectedMoves ==
    ASSUME TypeInv, NEW f \in Positive, NEW acc, f \in ToSet(st.inflight)
    PROVE  \E e \in {0, 1} :
             /\ Rejected(st, f).evicted = st.evicted + e
             /\ Moves(Line, Rejected(st, f).inflight \o Rejected(st, f).pending, e, {f}, acc)
<1> DEFINE p == st.inflight
           q == st.pending
<1>1. /\ p \in Seq(Positive) /\ q \in Seq(Positive) /\ st \in BgState /\ Len(q) \in Nat
      /\ FrameCap \in Nat /\ FrameCap >= 1
  BY StNow, Types
<1> HIDE DEF p, q
<1>2. Rejected(st, f).inflight = Without(p, f) /\ f \in ToSet(p) /\ Line = p \o q
  BY <1>1, RejectedFields DEF p, q, Line
<1>3. CASE Len(q) < FrameCap
  <2>1. Rejected(st, f).pending = <<f>> \o q /\ Rejected(st, f).evicted = st.evicted + 0
    <3>1. Rejected(st, f).evicted = st.evicted /\ Rejected(st, f).pending = <<f>> \o q
      BY <1>1, <1>2, <1>3, RejectedFields DEF p, q
    <3>2. st.evicted \in Nat
      BY StNow
    <3> QED
      BY <3>1, <3>2
  <2>2. IsFiniteSet({}) /\ Cardinality({}) = 0
    BY FS_EmptySet
  <2>3. FrontDropped(q, q, 0, {})
    BY <1>1, <2>2 DEF FrontDropped
  <2>4. Moves(p \o q, Without(p, f) \o (<<f>> \o q), 0, {f}, acc)
    BY <1>1, <1>2, <2>3, RejectMoves
  <2> QED
    BY <1>2, <2>1, <2>4
<1>4. CASE Len(q) >= FrameCap
  <2> DEFINE v == Tail(q)
             h == Head(q)
  <2>1. Rejected(st, f).pending = <<f>> \o v /\ Rejected(st, f).evicted = st.evicted + 1
    BY <1>1, <1>2, <1>4, RejectedFields DEF p, q
  <2>2. IsFiniteSet({h}) /\ Cardinality({h}) = 1
    BY FS_Singleton
  <2>3. q # <<>>
    BY <1>1, <1>4
  <2>4. /\ v \in Seq(Positive) /\ Len(v) = Len(q) - 1 /\ \A i \in 1..Len(v) : v[i] = q[i + 1]
        /\ ToSet(q) = ToSet(v) \cup {h}
    BY <1>1, <2>3, TailFacts
  <2> HIDE DEF v, h
  <2>5. Moves(p \o q, Without(p, f) \o (<<f>> \o v), 1, {f}, acc)
    <3>1. FrontDropped(q, v, 1, {h})
      BY <2>2, <2>4 DEF FrontDropped
    <3> QED
      BY <1>1, <1>2, <2>4, <3>1, RejectMoves
  <2> QED
    BY <1>2, <2>1, <2>5
<1> QED
  BY <1>1, <1>3, <1>4

LEMMA EmptyConcat ==
    ASSUME NEW q \in Seq(Positive) PROVE <<>> \o q = q /\ q \o <<>> = q
  OBVIOUS

(* What the steps of the task and of its surroundings do to the frames.    *)
CmdsQuiet ==
    \/ cmds' = cmds
    \/ cmds # <<>> /\ cmds' = Tail(cmds) /\ Head(cmds).op # "publish"
    \/ \E c \in Command : c.op # "publish" /\ cmds' = Append(cmds, c)
FramesQuiet(n, R) ==
    /\ CmdsQuiet /\ used'.frames = used.frames /\ answered \subseteq answered'
    /\ Moves(Line, Line', n, R, answered')
    /\ st'.evicted = st.evicted + n /\ refused' = refused \cup R
FrameTaken(n) ==
    /\ cmds # <<>> /\ cmds' = Tail(cmds) /\ Head(cmds).op = "publish"
    /\ used'.frames = used.frames /\ answered' = answered
    /\ Moves(Append(Line, Head(cmds).frame), Line', n, {}, answered')
    /\ st'.evicted = st.evicted + n /\ refused' = refused
FrameIssued ==
    /\ cmds' = Append(cmds, [op |-> "publish", frame |-> used.frames + 1])
    /\ used'.frames = used.frames + 1 /\ answered' = answered /\ refused' = refused
    /\ Line' = Line /\ st'.evicted = st.evicted
FrameStep ==
    \/ \E n \in Nat, R \in SUBSET (1..used.frames) : FramesQuiet(n, R)
    \/ \E n \in Nat : FrameTaken(n)
    \/ FrameIssued

LEMMA LineNow ==
    ASSUME TypeInv
    PROVE  Line \in Seq(Positive) /\ ToSet(Line) = Kept /\ st.evicted \in Nat
<1>1. st.inflight \in Seq(Positive) /\ st.pending \in Seq(Positive) /\ st.evicted \in Nat
  BY StNow
<1>2. /\ Line \in Seq(Positive) /\ ToSet(Line) = ToSet(st.inflight) \cup ToSet(st.pending)
      /\ Kept = ToSet(st.pending) \cup ToSet(st.inflight)
  BY <1>1, ConcatFacts DEF Line, Kept
<1> QED
  BY <1>1, <1>2

LEMMA SameFramesStep ==
    ASSUME TypeInv, SameFrames(st', st), CmdsQuiet, used'.frames = used.frames,
           answered \subseteq answered', refused' = refused
    PROVE  FrameStep
<1>1. Line' = Line /\ st'.evicted = st.evicted + 0
  BY LineNow DEF SameFrames, Line
<1>2. Moves(Line, Line', 0, {}, answered')
  BY <1>1, LineNow, MovesNot
<1>3. FramesQuiet(0, {})
  BY <1>1, <1>2 DEF FramesQuiet
<1> QED
  BY <1>3 DEF FrameStep

LEMMA RequeuedStep ==
    ASSUME TypeInv, NEW b \in BgState, SameFrames(b, st), SameFrames(st', Requeued(b)), CmdsQuiet,
           used'.frames = used.frames, answered \subseteq answered', refused' = refused
    PROVE  FrameStep
<1>1. /\ st'.inflight = <<>> /\ st'.pending = Newest(Line)
      /\ st'.evicted = st.evicted + Over(Line)
  BY RequeuedFields DEF SameFrames, Line
<1>2. Line \in Seq(Positive) /\ Newest(Line) \in Seq(Positive) /\ Over(Line) \in Nat
  BY LineNow, NewestFacts
<1>3. Line' = Newest(Line)
  <2>1. Line' = <<>> \o Newest(Line)
    BY <1>1 DEF Line
  <2> QED
    BY <1>2, <2>1, EmptyConcat
<1>4. Moves(Line, Line', Over(Line), {}, answered')
  BY <1>2, <1>3, NewestMoves
<1>5. FramesQuiet(Over(Line), {})
  BY <1>1, <1>4 DEF FramesQuiet
<1> QED
  BY <1>2, <1>5 DEF FrameStep

LEMMA ParkedStep ==
    ASSUME TypeInv, cmds # <<>>, cmds' = Tail(cmds), Head(cmds).op = "publish",
           used'.frames = used.frames, answered' = answered, refused' = refused,
           st' = Parked(st, Head(cmds).frame)
    PROVE  FrameStep
<1> DEFINE f == Head(cmds).frame
           n == Over(Append(st.pending, f))
<1>1. f \in Positive /\ st \in BgState /\ st.inflight \in Seq(Positive) /\ st.pending \in Seq(Positive)
  BY HeadCommand, StNow
<1>2. /\ st'.pending = Newest(Append(st.pending, f)) /\ st'.inflight = st.inflight
      /\ st'.evicted = st.evicted + n
  BY <1>1, ParkedFields
<1>3. Moves(Append(st.inflight \o st.pending, f), st.inflight \o Newest(Append(st.pending, f)),
            n, {}, answered')
  BY <1>1, ParkedMoves
<1>4. Moves(Append(Line, f), Line', n, {}, answered')
  BY <1>2, <1>3 DEF Line
<1>5. n \in Nat
  <2>1. Append(st.pending, f) \in Seq(Positive)
    BY <1>1
  <2> QED
    BY <2>1, NewestFacts
<1> HIDE DEF n
<1>6. FrameTaken(n)
  BY <1>2, <1>4 DEF FrameTaken
<1> QED
  BY <1>5, <1>6 DEF FrameStep

LEMMA TrackedStep ==
    ASSUME TypeInv, cmds # <<>>, cmds' = Tail(cmds), Head(cmds).op = "publish",
           used'.frames = used.frames, answered' = answered, refused' = refused,
           st.pending = <<>>, st' = Tracked(st, Head(cmds).frame)
    PROVE  FrameStep
<1> DEFINE f == Head(cmds).frame
           a == Append(st.inflight, f)
           n == Over(a)
<1>1. f \in Positive /\ st \in BgState /\ st.inflight \in Seq(Positive) /\ a \in Seq(Positive)
  BY HeadCommand, StNow
<1>2. /\ st'.inflight = Newest(a) /\ st'.pending = <<>> /\ st'.evicted = st.evicted + n
  BY <1>1, TrackedFields
<1>3. Moves(a, Newest(a), n, {}, answered') /\ n \in Nat /\ Newest(a) \in Seq(Positive)
  BY <1>1, NewestMoves, NewestFacts
<1>4. Line = st.inflight /\ Line' = Newest(a)
  <2>1. Line = st.inflight \o <<>> /\ Line' = Newest(a) \o <<>>
    BY <1>2 DEF Line
  <2> HIDE DEF a
  <2> QED
    BY <1>1, <1>3, <2>1, EmptyConcat
<1>5. Moves(Append(Line, f), Line', n, {}, answered')
  BY <1>3, <1>4
<1> HIDE DEF n
<1>6. FrameTaken(n)
  BY <1>2, <1>5 DEF FrameTaken
<1> QED
  BY <1>3, <1>6 DEF FrameStep

LEMMA ExecuteStep ==
    ASSUME TypeInv, cmds # <<>>, cmds' = Tail(cmds), Execute(Head(cmds)),
           answered' = answered, refused' = refused
    PROVE  FrameStep
<1> DEFINE c == Head(cmds)
<1>1. c \in Command
  BY HeadCommand
<1>2. used'.frames = used.frames
  BY <1>1, ExecuteOut
<1>3. CASE ExecuteSubscribe(c)
  <2>1. SameFrames(st', st) /\ CmdsQuiet
    BY <1>1, <1>3, ExecuteSubscribeSt DEF CmdsQuiet
  <2> QED
    BY <1>2, <2>1, SameFramesStep
<1>4. CASE ExecuteUnsubscribe(c)
  <2>1. SameFrames(st', st) /\ CmdsQuiet
    BY <1>1, <1>4, ExecuteUnsubscribeSt DEF CmdsQuiet
  <2> QED
    BY <1>2, <2>1, SameFramesStep
<1>5. CASE ExecutePublish(c)
  <2>1. c.op = "publish" /\ \/ st' = Parked(st, c.frame)
                            \/ st' = Tracked(st, c.frame) /\ st.pending = <<>>
    BY <1>1, <1>5, ExecutePublishSt
  <2> QED
    BY <1>2, <2>1, ParkedStep, TrackedStep
<1> QED
  BY <1>3, <1>4, <1>5 DEF Execute

LEMMA AppliedStep ==
    ASSUME TypeInv, cmds # <<>>, cmds' = Tail(cmds), st' = Applied(st, Head(cmds)),
           used'.frames = used.frames, answered' = answered, refused' = refused
    PROVE  FrameStep
<1> DEFINE c == Head(cmds)
<1>1. c \in Command /\ st \in BgState
      /\ c.op \in {"subscribe", "unsubscribe", "publish", "reconnect"}
      /\ (c.op = "unsubscribe" => c.sub \in Sub)
  BY HeadCommand, StNow
<1>2. CASE c.op = "publish"
  BY <1>1, <1>2, AppliedFields, ParkedStep
<1>3. CASE c.op # "publish"
  <2>1. SameFrames(st', st)
    <3>1. CASE c.op = "unsubscribe"
      <4>1. st' = Removed(st, c.sub)
        BY <1>1, <3>1, AppliedFields
      <4> QED
        BY <1>1, <3>1, <4>1, RemovedFields
    <3>2. CASE c.op = "reconnect"
      BY <1>1, <3>2, AppliedFields DEF SameFrames
    <3> QED
      BY <1>1, <1>3, <3>1, <3>2, AppliedFields
  <2>2. CmdsQuiet
    BY <1>3 DEF CmdsQuiet
  <2> QED
    BY <2>1, <2>2, SameFramesStep
<1> QED
  BY <1>2, <1>3

LEMMA CommandStep ==
    ASSUME TypeInv, MainCommand \/ DrainCommand \/ DrainFailed \/ ApplyCommand
    PROVE  FrameStep
<1> DEFINE c == Head(cmds)
           b == Intent(Applied(st, c), c)
<1>1. /\ cmds # <<>> /\ cmds' = Tail(cmds) /\ answered' = answered /\ refused' = refused
      /\ \/ Reconnecting(st) /\ c.op = "reconnect" /\ UNCHANGED used
         \/ Execute(c)
         \/ SubscribeFails(c) /\ (Reconnecting(b) \/ st' = b)
         \/ st' = Applied(st, c) /\ UNCHANGED used
         \/ st' = st /\ c.op = "reconnect" /\ UNCHANGED used
  BY DEF MainCommand, DrainCommand, DrainFailed, ApplyCommand, relayVars, frameVars,
         Reconnecting, DropSocket
<1>2. c \in Command /\ st \in BgState /\ SameFrames(st, st)
  BY <1>1, HeadCommand, StNow DEF SameFrames
<1>3. c.op # "publish" => CmdsQuiet
  BY <1>1 DEF CmdsQuiet
<1>4. CASE Reconnecting(st) /\ c.op = "reconnect" /\ UNCHANGED used
  <2>1. st' = Requeued(st)
    BY <1>4 DEF Reconnecting
  <2>2. SameFrames(st', Requeued(st))
    BY <2>1 DEF SameFrames
  <2> QED
    BY <1>1, <1>2, <1>3, <1>4, <2>2, RequeuedStep
<1>5. CASE Execute(c)
  BY <1>1, <1>5, ExecuteStep
<1>6. CASE SubscribeFails(c) /\ (Reconnecting(b) \/ st' = b)
  <2>1. b \in BgState /\ SameFrames(b, st) /\ c.op = "subscribe"
    BY <1>2, <1>6, SubscribeFailsSt
  <2>2. used'.frames = used.frames
    BY <1>6, WriteFailsSpends, SpentOrNot DEF SubscribeFails
  <2> HIDE DEF b
  <2>3. CASE Reconnecting(b)
    <3>1. SameFrames(st', Requeued(b))
      BY <2>3 DEF Reconnecting, SameFrames
    <3> QED
      BY <1>1, <1>3, <2>1, <2>2, <3>1, RequeuedStep
  <2>4. CASE st' = b
    BY <1>1, <1>3, <2>1, <2>2, <2>4, SameFramesStep
  <2> QED
    BY <1>6, <2>3, <2>4
<1>7. CASE st' = Applied(st, c) /\ UNCHANGED used
  BY <1>1, <1>7, AppliedStep
<1>8. CASE st' = st /\ c.op = "reconnect" /\ UNCHANGED used
  BY <1>1, <1>2, <1>3, <1>8, SameFramesStep
<1> QED
  BY <1>1, <1>4, <1>5, <1>6, <1>7, <1>8

SentInv ==
    /\ \A m \in ToSet(out) : m.type = "FRAME" => m.frame \in 1..used.frames
    /\ \A m \in ToSet(wire) : m.type = "OK" =>
         m.frame \in 1..used.frames /\ (m.final => m.frame \in answered)
    /\ answered \cup refused \cup stranded \subseteq 1..used.frames

CmdFramesInv ==
    \A i \in 1..Len(cmds) : cmds[i].op = "publish" =>
        /\ cmds[i].frame \in 1..used.frames
        /\ \A k \in ToSet(Line) : k < cmds[i].frame
        /\ \A j \in 1..Len(cmds) :
             i < j /\ cmds[j].op = "publish" => cmds[i].frame < cmds[j].frame

LineInv ==
    /\ ToSet(Line) \subseteq 1..used.frames /\ Ordered(Line, refused)
    /\ CmdFramesInv /\ FramesAccounted

LEMMA OkStep ==
    ASSUME TypeInv, SentInv, HandleOk PROVE FrameStep
<1> DEFINE f == Head(wire).frame
<1>1. /\ wire # <<>> /\ Head(wire).type = "OK" /\ f \in Positive
      /\ Head(wire).final => st' = Acknowledged(st, f)
      /\ ~Head(wire).final => SameFrames(st', Rejected(st, f))
  BY HandleOkSt
<1>2. /\ UNCHANGED <<used, answered, cmds>>
      /\ Head(wire).final => refused' = refused
      /\ ~Head(wire).final => refused' = refused \cup {f}
  BY DEF HandleOk, relayVars
<1>3. f \in 1..used.frames /\ (Head(wire).final => f \in answered)
  BY <1>1, HeadMessage DEF SentInv
<1>4. CmdsQuiet /\ used'.frames = used.frames /\ answered \subseteq answered'
  BY <1>2 DEF CmdsQuiet
<1>5. st \in BgState /\ st.inflight \in Seq(Positive) /\ st.pending \in Seq(Positive) /\ st.evicted \in Nat
  BY StNow
<1> HIDE DEF f
<1>6. CASE Head(wire).final
  <2>1. CASE f \notin ToSet(st.inflight)
    <3>1. SameFrames(st', st)
      BY <1>1, <1>5, <1>6, <2>1, AcknowledgedFields DEF SameFrames
    <3> QED
      BY <1>2, <1>4, <1>6, <3>1, SameFramesStep
  <2>2. CASE f \in ToSet(st.inflight)
    <3>1. /\ st'.inflight = Without(st.inflight, f) /\ st'.pending = st.pending
          /\ st'.evicted = st.evicted + 0
      <4>1. Acknowledged(st, f).evicted = st.evicted /\ st' = Acknowledged(st, f)
        BY <1>1, <1>5, <1>6, AcknowledgedFields
      <4> QED
        BY <1>1, <1>5, <2>2, <4>1, AcknowledgedFields
    <3>2. Moves(st.inflight \o st.pending, Without(st.inflight, f) \o st.pending, 0, {}, answered')
      BY <1>2, <1>3, <1>5, <1>6, <2>2, AcknowledgeMoves
    <3>3. Moves(Line, Line', 0, {}, answered')
      BY <3>1, <3>2 DEF Line
    <3>4. FramesQuiet(0, {})
      BY <1>2, <1>4, <1>6, <3>1, <3>3 DEF FramesQuiet
    <3> QED
      BY <3>4 DEF FrameStep
  <2> QED
    BY <2>1, <2>2
<1>7. CASE ~Head(wire).final
  <2>1. {f} \in SUBSET (1..used.frames) /\ Line \in Seq(Positive)
    BY <1>3, LineNow
  <2>2. CASE f \notin ToSet(st.inflight)
    <3>1. Line' = Line /\ st'.evicted = st.evicted + 0
      <4>1. Rejected(st, f) = st
        BY <1>1, <1>5, <2>2, RejectedFields
      <4>2. SameFrames(st', st)
        BY <1>1, <1>7, <4>1
      <4> QED
        BY <1>5, <4>2 DEF SameFrames, Line
    <3>2. Moves(Line, Line', 0, {f}, answered')
      <4>1. Moves(Line, Line, 0, {}, answered')
        BY <2>1, MovesNot
      <4>2. \A S : Ordered(Line, S) => Ordered(Line, S \cup {f})
        BY DEF Ordered
      <4> HIDE DEF Line
      <4> QED
        BY <3>1, <4>1, <4>2 DEF Moves
    <3>3. FramesQuiet(0, {f})
      BY <1>2, <1>4, <1>7, <3>1, <3>2 DEF FramesQuiet
    <3> QED
      BY <2>1, <3>3 DEF FrameStep
  <2>3. CASE f \in ToSet(st.inflight)
    <3>1. PICK e \in {0, 1} :
             /\ Rejected(st, f).evicted = st.evicted + e
             /\ Moves(Line, Rejected(st, f).inflight \o Rejected(st, f).pending, e, {f}, answered')
      BY <1>1, <2>3, RejectedMoves
    <3>2. /\ Line' = Rejected(st, f).inflight \o Rejected(st, f).pending
          /\ st'.evicted = st.evicted + e
      BY <1>1, <1>7, <3>1 DEF SameFrames, Line
    <3>3. FramesQuiet(e, {f}) /\ e \in Nat
      BY <1>2, <1>4, <1>7, <3>1, <3>2 DEF FramesQuiet
    <3> QED
      BY <2>1, <3>3 DEF FrameStep
  <2> QED
    BY <2>2, <2>3
<1> QED
  BY <1>6, <1>7

LEMMA DrainFrameStep ==
    ASSUME TypeInv, DrainFrame PROVE FrameStep
<1> DEFINE n == Over(Append(st.inflight, Head(st.pending)))
<1>1. /\ st.pending # <<>> /\ Head(st.pending) \in Positive
      /\ st'.inflight = Newest(Append(st.inflight, Head(st.pending)))
      /\ st'.pending = Tail(st.pending) /\ st'.evicted = st.evicted + n
  BY DrainFrameSt
<1>2. st.inflight \in Seq(Positive) /\ st.pending \in Seq(Positive)
  BY StNow
<1>3. n \in Nat
  <2>1. Append(st.inflight, Head(st.pending)) \in Seq(Positive)
    BY <1>1, <1>2
  <2> QED
    BY <2>1, NewestFacts
<1>4. /\ UNCHANGED <<cmds, answered, refused>>
      /\ Fault \/ UNCHANGED used
  BY DEF DrainFrame, relayVars, frameVars, Turn
<1>5. CmdsQuiet /\ used'.frames = used.frames /\ answered \subseteq answered'
  BY <1>4, SpentOrNot DEF CmdsQuiet
<1>6. Moves(Line, Line', n, {}, answered')
  <2>1. Moves(st.inflight \o st.pending,
              Newest(Append(st.inflight, Head(st.pending))) \o Tail(st.pending), n, {}, answered')
    BY <1>1, <1>2, DrainMoves
  <2> QED
    BY <1>1, <2>1 DEF Line
<1> HIDE DEF n
<1>7. FramesQuiet(n, {})
  BY <1>1, <1>4, <1>5, <1>6 DEF FramesQuiet
<1> QED
  BY <1>3, <1>7 DEF FrameStep

LEMMA ClosedStep ==
    ASSUME TypeInv, HandleClosed PROVE FrameStep
<1> DEFINE s == Head(wire).sub
<1>1. /\ s \in Sub /\ UNCHANGED <<cmds, refused>>
      /\ \/ ClosedDenied(s) \/ ClosedLimited(s) \/ ClosedIgnored(s) \/ ClosedAnswered(s)
         \/ ClosedDrops
  BY ClosedOutcomes
<1> HIDE DEF s
<1>2. CmdsQuiet
  BY <1>1 DEF CmdsQuiet
<1>3. CASE ClosedDrops
  <2>1. used'.frames = used.frames
    BY <1>3, SpentOrNot DEF ClosedDrops
  <2>2. st \in BgState /\ SameFrames(st, st) /\ SameFrames(st', Requeued(st)) /\ answered' = answered
    BY <1>3, StNow DEF ClosedDrops, Reconnecting, DropSocket, SameFrames
  <2> QED
    BY <1>1, <1>2, <2>1, <2>2, RequeuedStep
<1>4. CASE ~ClosedDrops
  <2>1. UNCHANGED <<used, answered>>
    BY <1>1, <1>4 DEF ClosedDenied, ClosedLimited, ClosedIgnored, ClosedAnswered, ClosedQuietly
  <2>2. SameFrames(st', st)
    <3>1. st' = st => SameFrames(st', st)
      BY DEF SameFrames
    <3> QED
      BY <1>1, <1>4, <3>1, RemovedSt, ClosedParksFields, ClearedSt
         DEF ClosedDenied, ClosedLimited, ClosedIgnored, ClosedAnswered
  <2> QED
    BY <1>1, <1>2, <2>1, <2>2, SameFramesStep
<1> QED
  BY <1>3, <1>4

LEMMA EventStep ==
    ASSUME TypeInv, HandleEvent PROVE FrameStep
<1> DEFINE e == Head(wire).id
<1>1. /\ wire # <<>> /\ Head(wire).type = "EVENT"
      /\ UNCHANGED <<cmds, used, answered, refused>>
      /\ \/ UNCHANGED st \/ NewEvent(e)
  BY DEF HandleEvent, Received, relayVars, frameVars
<1>2. e \in DOMAIN stored
  BY <1>1, HeadMessage
<1> HIDE DEF e
<1>3. SameFrames(st', st)
  <2>1. UNCHANGED st => SameFrames(st', st)
    BY DEF SameFrames
  <2> QED
    BY <1>1, <1>2, <2>1, NewEventSt
<1>4. CmdsQuiet /\ used'.frames = used.frames /\ answered \subseteq answered'
  BY <1>1 DEF CmdsQuiet
<1> QED
  BY <1>1, <1>3, <1>4, SameFramesStep

LEMMA ConnectStep ==
    ASSUME TypeInv, Connect PROVE FrameStep
<1>1. PICK failing \in SUBSET st.active, sent \in SUBSET st.active :
        \E frames : ConnectWith(failing, sent, frames)
  BY ConnectParts
<1>2. /\ SameFrames(st', st) /\ UNCHANGED <<cmds, answered, refused>>
      /\ Fault \/ UNCHANGED used
  BY <1>1 DEF ConnectWith
<1>3. CmdsQuiet /\ used'.frames = used.frames /\ answered \subseteq answered'
  BY <1>2, SpentOrNot DEF CmdsQuiet
<1> QED
  BY <1>2, <1>3, SameFramesStep

LEMMA FrameCases ==
    ASSUME TypeInv, NewestInv, SentInv, [Next]_vars PROVE FrameStep
<1> USE DEF relayVars, frameVars
<1>0. SameFrames(st, st) /\ (cmds' = cmds => CmdsQuiet)
  BY DEF SameFrames, CmdsQuiet
<1>1. CASE ClientStep
  <2>1. CASE DrainDone \/ FailedDrainDone
    <3>1. UNCHANGED <<st, cmds, used, answered, refused>>
      BY <2>1 DEF DrainDone, FailedDrainDone, DropSocket
    <3> QED
      BY <1>0, <3>1, SameFramesStep
  <2>2. CASE ConnectGated
    <3>1. SameFrames(st', st) /\ UNCHANGED <<cmds, used, answered, refused>>
      BY <2>2, ConnectGatedSt DEF ConnectGated
    <3> QED
      BY <1>0, <3>1, SameFramesStep
  <2>3. ASSUME NEW s \in Sub, DrainPending(s) \/ ParkRetry(s) \/ RecoverOne(s)
        PROVE  FrameStep
    <3>1. /\ SameFrames(st', st) /\ UNCHANGED <<cmds, answered, refused>>
          /\ Fault \/ UNCHANGED used
      BY <2>3, DrainPendingSt, ParkRetrySt, ClearedSt
         DEF DrainPending, ParkRetry, RecoverOne, Turn
    <3>2. used'.frames = used.frames
      BY <3>1, SpentOrNot
    <3> QED
      BY <1>0, <3>1, <3>2, SameFramesStep
  <2>4. CASE DetectLoss
    <3>1. /\ st' = Requeued(st) /\ UNCHANGED <<cmds, used, answered, refused>>
      BY <2>4 DEF DetectLoss, Reconnecting, DropSocket
    <3>2. SameFrames(st', Requeued(st))
      BY <3>1 DEF SameFrames
    <3> QED
      BY <1>0, <3>1, <3>2, StNow, RequeuedStep
  <2>5. CASE HandleNotice
    <3>1. SameFrames(st', Requeued(st)) /\ UNCHANGED <<cmds, used, answered, refused>>
      BY <2>5, HandleNoticeSt DEF HandleNotice
    <3> QED
      BY <1>0, <3>1, StNow, RequeuedStep
  <2> QED
    BY <1>1, <2>1, <2>2, <2>3, <2>4, <2>5, CommandStep, ConnectStep, DrainFrameStep, EventStep,
       OkStep, ClosedStep DEF ClientStep
<1>2. CASE RequeueAgain
  <2>1. /\ st' = Requeued(st) /\ UNCHANGED <<cmds, used, answered, refused>>
    BY <1>2 DEF RequeueAgain
  <2>2. SameFrames(st', Requeued(st))
    BY <2>1 DEF SameFrames
  <2> QED
    BY <1>0, <2>1, <2>2, StNow, RequeuedStep
<1>3. CASE GateExpires
  <2>1. SameFrames(st', st) /\ UNCHANGED <<cmds, used, answered, refused>>
    BY <1>3, GateExpiresSt DEF GateExpires
  <2> QED
    BY <1>0, <2>1, SameFramesStep
<1>4. CASE UNCHANGED vars
  <2>1. UNCHANGED <<st, cmds, used, answered, refused>>
    BY <1>4 DEF vars
  <2> QED
    BY <1>0, <2>1, SameFramesStep
<1>5. ASSUME NEW c \in Command, c.op # "publish", Spend("commands"), Issue(c)
      PROVE  FrameStep
  <2>1. UNCHANGED <<st, answered, refused>> /\ cmds' = Append(cmds, c)
    BY <1>5 DEF Issue
  <2>2. CmdsQuiet /\ used'.frames = used.frames
    BY <1>5, <2>1, SpendType DEF CmdsQuiet
  <2> QED
    BY <1>0, <2>1, <2>2, SameFramesStep
<1>6. CASE NextEvent
  <2>1. UNCHANGED <<st, used, answered, refused>>
    BY <1>6 DEF NextEvent
  <2>2. CmdsQuiet
    <3>1. [op |-> "reconnect"] \in Command
      BY DEF Command
    <3> QED
      BY <1>6, <3>1 DEF NextEvent, CmdsQuiet
  <2> QED
    BY <1>0, <2>1, <2>2, SameFramesStep
<1>7. ASSUME NEW s \in Sub, Publish(s) \/ PublishUnseen(s)
      PROVE  FrameStep
  <2>1. UNCHANGED <<st, cmds, answered, refused>> /\ used'.frames = used.frames
    BY <1>7, PublishWire
  <2> QED
    BY <1>0, <2>1, SameFramesStep
<1>8. CASE Serve
  <2>1. /\ UNCHANGED <<st, cmds, refused>> /\ used'.frames = used.frames
        /\ answered \subseteq answered'
    BY <1>8, ServeParts DEF Answered
  <2> QED
    BY <1>0, <2>1, SameFramesStep
<1>9. CASE \/ (\E r \in Reason : Refuse(r)) \/ (\E c \in Channel : Evict(c))
           \/ Throttle \/ ThrottleAll \/ LinkDies
  <2>1. UNCHANGED <<st, cmds, answered, refused>> /\ used'.frames = used.frames
    BY <1>9, RefuseParts, TellParts, LinkDiesParts
  <2> QED
    BY <1>0, <2>1, SameFramesStep
<1>10. CASE \/ \E s \in Channel : SubscribeChannel(s) \/ UnsubscribeChannel(s)
            \/ \E s \in Control : SubscribeControl(s)
  <2>1. ASSUME NEW s \in Channel, SubscribeChannel(s) PROVE FrameStep
    <3>1. PICK t \in Nat : SubscribedFrom(s, t)
      BY <2>1, SubscribeParts
    <3>2. [op |-> "subscribe", sub |-> s, since |-> t] \in Command
      BY <3>1, SubscribeOf, Types DEF SubscribedFrom
    <3> QED
      BY <1>5, <2>1, <3>1, <3>2 DEF SubscribeChannel, SubscribedFrom
  <2>2. ASSUME NEW s \in Control, SubscribeControl(s) PROVE FrameStep
    BY <1>5, <2>2, SubscribeOf, Types DEF SubscribeControl, TypeInv, EnvType
  <2>3. ASSUME NEW s \in Channel, UnsubscribeChannel(s) PROVE FrameStep
    <3>1. [op |-> "unsubscribe", sub |-> s] \in Command
      BY DEF Command
    <3> QED
      BY <1>5, <2>3, <3>1 DEF UnsubscribeChannel
  <2> QED
    BY <1>10, <2>1, <2>2, <2>3
<1>11. CASE PublishFrame
  <2>1. /\ cmds' = Append(cmds, [op |-> "publish", frame |-> used.frames + 1])
        /\ UNCHANGED <<st, answered, refused>>
    BY <1>11 DEF PublishFrame, Issue
  <2>2. used'.frames = used.frames + 1
    BY <1>11, SpendType DEF PublishFrame
  <2> QED
    BY <2>1, <2>2 DEF FrameStep, FrameIssued, Line
<1> QED
  BY <1>1, <1>2, <1>3, <1>4, <1>6, <1>7, <1>8, <1>9, <1>10, <1>11 DEF Next

(* The frames still in the command channel, and those lost unless counted. *)
CmdFrames == {cmds[i].frame : i \in {j \in DOMAIN cmds : cmds[j].op = "publish"}}
Lost == Published \ (answered \cup Kept)

LEMMA CmdsNow ==
    ASSUME TypeInv
    PROVE  /\ cmds \in Seq(Command) /\ Len(cmds) \in Nat /\ DOMAIN cmds = 1..Len(cmds)
           /\ used.frames \in Nat
  BY DEF TypeInv, EnvType, Spending

LEMMA LineThen ==
    ASSUME TypeInv'
    PROVE  /\ ToSet(Line') = Kept' /\ Len(cmds') \in Nat /\ DOMAIN cmds' = 1..Len(cmds')
<1>1. st'.inflight \in Seq(Positive) /\ st'.pending \in Seq(Positive) /\ cmds' \in Seq(Command)
  BY DEF TypeInv, StType, BgState, EnvType
<1>2. /\ ToSet(st'.inflight \o st'.pending) = ToSet(st'.inflight) \cup ToSet(st'.pending)
      /\ ToSet(st'.pending \o st'.inflight) = ToSet(st'.pending) \cup ToSet(st'.inflight)
  BY <1>1, ConcatFacts
<1> QED
  BY <1>1, <1>2 DEF Line, Kept

LEMMA LostGrows ==
    ASSUME TypeInv, TypeInv', NEW n \in Nat, NEW sh, IsFiniteSet(sh), Cardinality(sh) <= n,
           FramesAccounted, Lost' \subseteq Lost \cup sh, st'.evicted = st.evicted + n
    PROVE  FramesAccounted'
<1>1. used.frames \in Nat /\ st.evicted \in Nat
  BY CmdsNow, StNow
<1>2. IsFiniteSet(Lost)
  <2>1. IsFiniteSet(1..used.frames)
    <3>1. 1 \in Int /\ used.frames \in Int
      BY <1>1
    <3> QED
      BY <3>1, FS_Interval
  <2>2. Lost \subseteq 1..used.frames
    BY DEF Lost, Published
  <2> QED
    BY <2>1, <2>2, FS_Subset
<1>3. /\ IsFiniteSet(Lost \cup sh)
      /\ Cardinality(Lost \cup sh) = Cardinality(Lost) + Cardinality(sh) - Cardinality(Lost \cap sh)
  BY <1>2, FS_Union
<1>4. Cardinality(Lost \cap sh) \in Nat /\ Cardinality(Lost) \in Nat /\ Cardinality(sh) \in Nat
  <2>1. IsFiniteSet(Lost \cap sh)
    BY <1>2, FS_Subset
  <2> QED
    BY <1>2, <2>1, FS_CardinalityType
<1>5. IsFiniteSet(Lost') /\ Cardinality(Lost') <= Cardinality(Lost \cup sh)
  BY <1>3, FS_Subset
<1>6. Cardinality(Lost') \in Nat
  BY <1>5, FS_CardinalityType
<1>7. Cardinality(Lost) <= st.evicted
  BY DEF FramesAccounted, Lost
<1>8. Cardinality(Lost') <= st'.evicted
  BY <1>1, <1>3, <1>4, <1>5, <1>6, <1>7
<1> QED
  BY <1>8 DEF FramesAccounted, Lost

LEMMA CmdsQuietFacts ==
    ASSUME TypeInv, TypeInv', CmdsQuiet
    PROVE  /\ \E d \in {0, 1} : \A i \in 1..Len(cmds') : cmds'[i].op = "publish" =>
                i + d \in 1..Len(cmds) /\ cmds[i + d] = cmds'[i]
           /\ CmdFrames \subseteq CmdFrames'
<1>1. /\ cmds \in Seq(Command) /\ Len(cmds) \in Nat /\ DOMAIN cmds = 1..Len(cmds)
      /\ Len(cmds') \in Nat /\ DOMAIN cmds' = 1..Len(cmds')
  BY CmdsNow, LineThen
<1>2. CASE cmds' = cmds
  <2>1. \A i \in 1..Len(cmds') : i + 0 \in 1..Len(cmds) /\ cmds[i + 0] = cmds'[i]
    BY <1>1, <1>2
  <2> QED
    BY <1>2, <2>1 DEF CmdFrames
<1>3. CASE cmds # <<>> /\ cmds' = Tail(cmds) /\ Head(cmds).op # "publish"
  <2>1. /\ Len(cmds') = Len(cmds) - 1 /\ cmds[1].op # "publish"
        /\ \A i \in 1..Len(cmds') : cmds'[i] = cmds[i + 1]
    BY <1>1, <1>3, TailFacts
  <2>2. \A i \in 1..Len(cmds') : i + 1 \in 1..Len(cmds) /\ cmds[i + 1] = cmds'[i]
    BY <1>1, <2>1
  <2>3. ASSUME NEW i \in 1..Len(cmds), cmds[i].op = "publish" PROVE cmds[i].frame \in CmdFrames'
    <3>1. i - 1 \in 1..Len(cmds') /\ cmds'[i - 1] = cmds[i]
      BY <1>1, <2>1, <2>3
    <3> QED
      BY <1>1, <2>3, <3>1 DEF CmdFrames
  <2> QED
    BY <1>1, <2>2, <2>3 DEF CmdFrames
<1>4. ASSUME NEW c \in Command, c.op # "publish", cmds' = Append(cmds, c)
      PROVE  /\ \A i \in 1..Len(cmds') : cmds'[i].op = "publish" =>
                  i + 0 \in 1..Len(cmds) /\ cmds[i + 0] = cmds'[i]
             /\ CmdFrames \subseteq CmdFrames'
  <2>1. /\ Len(cmds') = Len(cmds) + 1 /\ cmds'[Len(cmds) + 1] = c
        /\ \A i \in 1..Len(cmds) : cmds'[i] = cmds[i]
    BY <1>1, <1>4, AppendFacts
  <2>2. ASSUME NEW i \in 1..Len(cmds'), cmds'[i].op = "publish"
        PROVE  i + 0 \in 1..Len(cmds) /\ cmds[i + 0] = cmds'[i]
    <3>1. i # Len(cmds) + 1
      BY <1>4, <2>1, <2>2
    <3> QED
      BY <1>1, <2>1, <3>1
  <2>3. ASSUME NEW i \in 1..Len(cmds), cmds[i].op = "publish" PROVE cmds[i].frame \in CmdFrames'
    <3>1. i \in 1..Len(cmds') /\ cmds'[i] = cmds[i]
      BY <1>1, <2>1
    <3> QED
      BY <1>1, <2>3, <3>1 DEF CmdFrames
  <2> QED
    BY <1>1, <2>2, <2>3 DEF CmdFrames
<1> QED
  BY <1>2, <1>3, <1>4 DEF CmdsQuiet

LEMMA QuietLine ==
    ASSUME TypeInv, TypeInv', SentInv, LineInv, NEW n \in Nat, NEW R \in SUBSET (1..used.frames),
           FramesQuiet(n, R)
    PROVE  LineInv'
<1>1. /\ used'.frames = used.frames /\ answered \subseteq answered' /\ CmdsQuiet
      /\ ToSet(Line') \subseteq ToSet(Line)
      /\ Ordered(Line, refused) => Ordered(Line', refused \cup R)
      /\ st'.evicted = st.evicted + n /\ refused' = refused \cup R
  BY DEF FramesQuiet, Moves
<1>2. PICK sh : /\ IsFiniteSet(sh) /\ Cardinality(sh) <= n
                /\ ToSet(Line) \subseteq ToSet(Line') \cup sh \cup answered'
  BY DEF FramesQuiet, Moves
<1>3. PICK d \in {0, 1} : \A i \in 1..Len(cmds') : cmds'[i].op = "publish" =>
                i + d \in 1..Len(cmds) /\ cmds[i + d] = cmds'[i]
  BY <1>1, CmdsQuietFacts
<1>4. ToSet(Line') \subseteq 1..used'.frames /\ Ordered(Line', refused')
  BY <1>1 DEF LineInv
<1>5. CmdFramesInv'
  <2> SUFFICES ASSUME NEW i \in 1..Len(cmds'), cmds'[i].op = "publish"
               PROVE  /\ cmds'[i].frame \in 1..used'.frames
                      /\ \A k \in ToSet(Line') : k < cmds'[i].frame
                      /\ \A j \in 1..Len(cmds') :
                           i < j /\ cmds'[j].op = "publish" => cmds'[i].frame < cmds'[j].frame
    BY DEF CmdFramesInv
  <2>1. i + d \in 1..Len(cmds) /\ cmds[i + d] = cmds'[i]
    BY <1>3
  <2>2. /\ cmds'[i].frame \in 1..used'.frames
        /\ \A k \in ToSet(Line') : k < cmds'[i].frame
    BY <1>1, <2>1 DEF LineInv, CmdFramesInv
  <2>3. ASSUME NEW j \in 1..Len(cmds'), i < j, cmds'[j].op = "publish"
        PROVE  cmds'[i].frame < cmds'[j].frame
    <3>1. j + d \in 1..Len(cmds) /\ cmds[j + d] = cmds'[j] /\ i + d < j + d
      BY <1>3, <2>3
    <3> QED
      BY <2>1, <2>3, <3>1 DEF LineInv, CmdFramesInv
  <2> QED
    BY <2>2, <2>3
<1>6. FramesAccounted'
  <2>1. CmdFrames \subseteq CmdFrames'
    BY <1>1, CmdsQuietFacts
  <2>2. ToSet(Line) = Kept /\ ToSet(Line') = Kept'
    BY LineNow, LineThen
  <2>3. Lost' \subseteq Lost \cup sh
    <3>1. Published' \subseteq Published
      BY <1>1, <2>1 DEF Published, CmdFrames
    <3> QED
      BY <1>1, <1>2, <2>2, <3>1 DEF Lost
  <2> QED
    BY <1>1, <1>2, <2>3, LostGrows DEF LineInv
<1> QED
  BY <1>4, <1>5, <1>6 DEF LineInv

LEMMA TakenLine ==
    ASSUME TypeInv, TypeInv', SentInv, LineInv, NEW n \in Nat, FrameTaken(n)
    PROVE  LineInv'
<1> DEFINE f == Head(cmds).frame
           a == Append(Line, f)
<1>1. /\ cmds # <<>> /\ cmds' = Tail(cmds) /\ Head(cmds).op = "publish"
      /\ used'.frames = used.frames /\ answered' = answered
      /\ Moves(a, Line', n, {}, answered')
      /\ st'.evicted = st.evicted + n /\ refused' = refused
  BY DEF FrameTaken
<1>2. /\ cmds \in Seq(Command) /\ Len(cmds) \in Nat /\ DOMAIN cmds = 1..Len(cmds)
      /\ Line \in Seq(Positive) /\ used.frames \in Nat
  BY CmdsNow, LineNow
<1>3. /\ Head(cmds) = cmds[1] /\ 1 \in 1..Len(cmds) /\ Len(cmds') = Len(cmds) - 1
      /\ \A i \in 1..Len(cmds') : cmds'[i] = cmds[i + 1]
  BY <1>1, <1>2, TailFacts
<1>4. /\ f \in 1..used.frames /\ f \in Positive
      /\ \A k \in ToSet(Line) : k < f
      /\ \A j \in 1..Len(cmds) : 1 < j /\ cmds[j].op = "publish" => f < cmds[j].frame
  BY <1>1, <1>2, <1>3 DEF LineInv, CmdFramesInv, Positive
<1> HIDE DEF f
<1>5. /\ a \in Seq(Positive) /\ Len(a) = Len(Line) + 1 /\ a[Len(Line) + 1] = f
      /\ \A i \in 1..Len(Line) : a[i] = Line[i]
      /\ ToSet(a) = ToSet(Line) \cup {f}
  BY <1>2, <1>4, AppendFacts
<1> HIDE DEF a
<1>6. Ordered(a, refused)
  <2> SUFFICES ASSUME NEW i \in 1..(Len(Line) + 1), NEW j \in 1..(Len(Line) + 1), i < j,
                      a[i] \notin refused, a[j] \notin refused
               PROVE  a[i] < a[j]
    BY <1>5 DEF Ordered
  <2>1. i \in 1..Len(Line) /\ a[i] = Line[i] /\ a[i] \in ToSet(Line)
    BY <1>2, <1>5, ElemIn
  <2>2. CASE j = Len(Line) + 1
    BY <1>4, <1>5, <2>1, <2>2
  <2>3. CASE j # Len(Line) + 1
    <3>1. j \in 1..Len(Line) /\ a[j] = Line[j] /\ DOMAIN Line = 1..Len(Line)
      BY <1>2, <1>5, <2>3
    <3> QED
      BY <2>1, <3>1 DEF LineInv, Ordered
  <2> QED
    BY <2>2, <2>3
<1>7. /\ Ordered(Line', refused')
      /\ ToSet(Line') \subseteq ToSet(Line) \cup {f}
  <2>1. Ordered(Line', refused \cup {}) /\ ToSet(Line') \subseteq ToSet(a)
    BY <1>1, <1>6 DEF Moves
  <2> QED
    BY <1>1, <1>5, <2>1
<1>8. PICK sh : /\ IsFiniteSet(sh) /\ Cardinality(sh) <= n
                /\ ToSet(Line) \cup {f} \subseteq ToSet(Line') \cup sh \cup answered'
  BY <1>1, <1>5 DEF Moves
<1>9. ToSet(Line') \subseteq 1..used'.frames
  BY <1>1, <1>4, <1>7 DEF LineInv
<1>10. CmdFramesInv'
  <2> SUFFICES ASSUME NEW i \in 1..Len(cmds'), cmds'[i].op = "publish"
               PROVE  /\ cmds'[i].frame \in 1..used'.frames
                      /\ \A k \in ToSet(Line') : k < cmds'[i].frame
                      /\ \A j \in 1..Len(cmds') :
                           i < j /\ cmds'[j].op = "publish" => cmds'[i].frame < cmds'[j].frame
    BY DEF CmdFramesInv
  <2>1. i + 1 \in 1..Len(cmds) /\ cmds[i + 1] = cmds'[i] /\ 1 < i + 1
    BY <1>2, <1>3
  <2>2. cmds'[i].frame \in 1..used'.frames /\ f < cmds'[i].frame
    BY <1>1, <1>4, <2>1 DEF LineInv, CmdFramesInv
  <2>3. \A k \in ToSet(Line) : k < cmds'[i].frame
    BY <2>1 DEF LineInv, CmdFramesInv
  <2>4. ASSUME NEW j \in 1..Len(cmds'), i < j, cmds'[j].op = "publish"
        PROVE  cmds'[i].frame < cmds'[j].frame
    <3>1. j + 1 \in 1..Len(cmds) /\ cmds[j + 1] = cmds'[j] /\ i + 1 < j + 1
      <4>1. cmds'[j] = cmds[j + 1] /\ Len(cmds') = Len(cmds) - 1
        BY <1>3
      <4> QED
        BY <1>2, <2>4, <4>1
    <3> QED
      BY <2>1, <2>4, <3>1 DEF LineInv, CmdFramesInv
  <2> QED
    BY <1>7, <2>2, <2>3, <2>4
<1>11. FramesAccounted'
  <2>1. CmdFrames \ {f} \subseteq CmdFrames'
    <3> SUFFICES ASSUME NEW i \in 1..Len(cmds), cmds[i].op = "publish", cmds[i].frame # f
                 PROVE  cmds[i].frame \in CmdFrames'
      BY <1>2 DEF CmdFrames
    <3>1. i - 1 \in 1..Len(cmds') /\ cmds'[i - 1] = cmds[i]
      <4>1. i # 1
        BY <1>3 DEF f
      <4>2. i - 1 \in 1..Len(cmds') /\ (i - 1) + 1 = i
        BY <1>2, <1>3, <4>1
      <4> QED
        BY <1>3, <4>2
    <3>2. DOMAIN cmds' = 1..Len(cmds')
      BY LineThen
    <3> QED
      BY <3>1, <3>2 DEF CmdFrames
  <2>2. ToSet(Line) = Kept /\ ToSet(Line') = Kept'
    BY LineNow, LineThen
  <2>3. Lost' \subseteq Lost \cup sh
    <3>1. Published' \subseteq Published \cup {f}
      BY <1>1, <2>1 DEF Published, CmdFrames
    <3> QED
      BY <1>1, <1>8, <2>2, <3>1 DEF Lost
  <2> QED
    BY <1>1, <1>8, <2>3, LostGrows DEF LineInv
<1> QED
  BY <1>7, <1>9, <1>10, <1>11 DEF LineInv

LEMMA IssuedLine ==
    ASSUME TypeInv, TypeInv', SentInv, LineInv, FrameIssued
    PROVE  LineInv'
<1> DEFINE c == [op |-> "publish", frame |-> used.frames + 1]
<1>1. /\ cmds' = Append(cmds, c) /\ used'.frames = used.frames + 1
      /\ answered' = answered /\ refused' = refused /\ Line' = Line /\ st'.evicted = st.evicted + 0
  BY StNow DEF FrameIssued
<1>2. /\ cmds \in Seq(Command) /\ Len(cmds) \in Nat /\ DOMAIN cmds = 1..Len(cmds)
      /\ used.frames \in Nat
  BY CmdsNow
<1>3. c \in Command /\ c.op = "publish" /\ c.frame = used.frames + 1
  BY <1>2 DEF Command, Positive
<1> HIDE DEF c
<1>4. /\ Len(cmds') = Len(cmds) + 1 /\ cmds'[Len(cmds) + 1] = c
      /\ \A i \in 1..Len(cmds) : cmds'[i] = cmds[i]
  BY <1>1, <1>2, <1>3, AppendFacts
<1>5. ToSet(Line') \subseteq 1..used'.frames /\ Ordered(Line', refused')
  BY <1>1, <1>2 DEF LineInv
<1>6. CmdFramesInv'
  <2> SUFFICES ASSUME NEW i \in 1..Len(cmds'), cmds'[i].op = "publish"
               PROVE  /\ cmds'[i].frame \in 1..used'.frames
                      /\ \A k \in ToSet(Line') : k < cmds'[i].frame
                      /\ \A j \in 1..Len(cmds') :
                           i < j /\ cmds'[j].op = "publish" => cmds'[i].frame < cmds'[j].frame
    BY DEF CmdFramesInv
  <2>1. CASE i = Len(cmds) + 1
    <3>1. cmds'[i].frame = used.frames + 1 /\ \A k \in ToSet(Line') : k \in 1..used.frames
      BY <1>1, <1>3, <1>4, <2>1 DEF LineInv
    <3> QED
      BY <1>1, <1>2, <1>4, <2>1, <3>1
  <2>2. CASE i # Len(cmds) + 1
    <3>1. i \in 1..Len(cmds) /\ cmds'[i] = cmds[i]
      BY <1>2, <1>4, <2>2
    <3>2. /\ cmds'[i].frame \in 1..used.frames
          /\ \A k \in ToSet(Line) : k < cmds'[i].frame
      BY <3>1 DEF LineInv, CmdFramesInv
    <3>3. ASSUME NEW j \in 1..Len(cmds'), i < j, cmds'[j].op = "publish"
          PROVE  cmds'[i].frame < cmds'[j].frame
      <4>1. CASE j = Len(cmds) + 1
        BY <1>2, <1>3, <1>4, <3>2, <4>1
      <4>2. CASE j # Len(cmds) + 1
        <5>1. j \in 1..Len(cmds) /\ cmds'[j] = cmds[j]
          BY <1>2, <1>4, <4>2
        <5> QED
          BY <3>1, <3>3, <5>1 DEF LineInv, CmdFramesInv
      <4> QED
        BY <4>1, <4>2
    <3> QED
      BY <1>1, <1>2, <3>2, <3>3
  <2> QED
    BY <2>1, <2>2
<1>7. FramesAccounted'
  <2>1. CmdFrames \cup {used.frames + 1} \subseteq CmdFrames'
    <3>1. DOMAIN cmds' = 1..(Len(cmds) + 1)
      BY <1>4, LineThen
    <3>2. ASSUME NEW i \in 1..Len(cmds), cmds[i].op = "publish" PROVE cmds[i].frame \in CmdFrames'
      <4>1. i \in DOMAIN cmds' /\ cmds'[i] = cmds[i]
        BY <1>2, <1>4, <3>1
      <4> QED
        BY <3>2, <4>1 DEF CmdFrames
    <3>3. used.frames + 1 \in CmdFrames'
      <4>1. Len(cmds) + 1 \in DOMAIN cmds'
        BY <1>2, <3>1
      <4> QED
        BY <1>3, <1>4, <4>1 DEF CmdFrames
    <3> QED
      BY <1>2, <3>2, <3>3 DEF CmdFrames
  <2>2. ToSet(Line) = Kept /\ ToSet(Line') = Kept'
    BY LineNow, LineThen
  <2>3. Published' \subseteq Published
    <3>1. \A k \in 1..(used.frames + 1) : k \in 1..used.frames \/ k = used.frames + 1
      BY <1>2
    <3> QED
      BY <1>1, <2>1, <3>1 DEF Published, CmdFrames
  <2>4. IsFiniteSet({}) /\ Cardinality({}) <= 0
    BY FS_EmptySet
  <2>5. Lost' \subseteq Lost \cup {}
    BY <1>1, <2>2, <2>3 DEF Lost
  <2> QED
    BY <1>1, <2>4, <2>5, LostGrows DEF LineInv
<1> QED
  BY <1>5, <1>6, <1>7 DEF LineInv

LEMMA LineNext ==
    ASSUME TypeInv, NewestInv, TypeInv', SentInv, LineInv, [Next]_vars PROVE LineInv'
<1>1. FrameStep
  BY FrameCases
<1> QED
  BY <1>1, QuietLine, TakenLine, IssuedLine DEF FrameStep

(* What a command writes to the socket. *)
LEMMA ExecuteSubscribeOut ==
    ASSUME TypeInv, NEW c \in Command, ExecuteSubscribe(c)
    PROVE  /\ ReqOf(c) \in Outgoing /\ ReqOf(c).type = "REQ" /\ ReqOf(c).sub = c.sub
           /\ forgotten' = forgotten \ {c.sub} /\ used' = used
           /\ \/ st.gate /\ out' = out /\ cut' = cut
              \/ ~st.gate /\ Wrote(ReqOf(c))
<1>1. c.sub \in Sub /\ c.since \in Nat
  BY ExecuteSubscribeSt DEF Positive
<1>2. ReqOf(c) \in Outgoing
  BY <1>1, StNow, Constructors DEF ReqOf
<1> QED
  BY <1>2 DEF ExecuteSubscribe, ReqOf, Req

LEMMA ExecuteUnsubscribeOut ==
    ASSUME TypeInv, NEW c \in Command, ExecuteUnsubscribe(c)
    PROVE  /\ Close(c.sub) \in Outgoing /\ Close(c.sub).type = "CLOSE"
           /\ forgotten' = forgotten \ {c.sub} /\ cut' = cut \cup DropsOf(c.sub)
           /\ out' = out \/ Sent(Close(c.sub))
  BY ExecuteUnsubscribeSt, Constructors DEF ExecuteUnsubscribe, Close, DropsForgotten

LEMMA ExecutePublishOut ==
    ASSUME TypeInv, NEW c \in Command, ExecutePublish(c)
    PROVE  /\ Frame(c.frame) \in Outgoing /\ Frame(c.frame).type = "FRAME"
           /\ Frame(c.frame).frame = c.frame
           /\ forgotten' = forgotten
           /\ (out' = out /\ cut' = cut) \/ Wrote(Frame(c.frame))
  BY ExecutePublishSt, Constructors DEF ExecutePublish, Frame

LEMMA SentAdds ==
    ASSUME TypeInv, NEW m \in Outgoing, Sent(m) \/ Wrote(m)
    PROVE  ToSet(out') \subseteq ToSet(out) \cup {m}
<1>1. Sent(m)
  BY DEF Wrote
<1>2. link = "up" \/ link = "dead"
  BY DEF TypeInv, LinkType
<1> QED
  BY <1>1, <1>2, SentFacts

FrameBound(m) == m.type = "FRAME" => m.frame \in 1..used.frames

LEMMA ExecuteBound ==
    ASSUME TypeInv, NEW c \in Command, Execute(c), c.op = "publish" => c.frame \in 1..used.frames
    PROVE  \A m \in ToSet(out') : m \in ToSet(out) \/ FrameBound(m)
<1>1. CASE ExecuteSubscribe(c)
  BY <1>1, ExecuteSubscribeOut, SentAdds DEF FrameBound
<1>2. CASE ExecuteUnsubscribe(c)
  BY <1>2, ExecuteUnsubscribeOut, SentAdds DEF FrameBound
<1>3. CASE ExecutePublish(c)
  <2>1. c.op = "publish"
    BY <1>3 DEF ExecutePublish
  <2> QED
    BY <1>3, <2>1, ExecutePublishOut, SentAdds DEF FrameBound
<1> QED
  BY <1>1, <1>2, <1>3 DEF Execute

LEMMA SentQuiet ==
    ASSUME TypeInv, SentInv, used'.frames = used.frames,
           \A m \in ToSet(out') : m \in ToSet(out) \/ FrameBound(m),
           ToSet(wire') \subseteq ToSet(wire),
           answered' = answered, refused' \subseteq 1..used.frames, stranded' \subseteq 1..used.frames
    PROVE  SentInv'
  BY DEF SentInv, FrameBound

LEMMA EmptiedSent ==
    ASSUME TypeInv, SentInv, DropSocket, Fault \/ UNCHANGED used, refused' = refused,
           stranded' \subseteq 1..used.frames
    PROVE  SentInv'
<1>1. ToSet(out') = {} /\ ToSet(wire') = {} /\ answered' = answered
  BY EmptyFacts DEF DropSocket
<1>2. used'.frames = used.frames /\ refused' \subseteq 1..used.frames
  BY SpentOrNot DEF SentInv
<1> QED
  BY <1>1, <1>2, SentQuiet

LEMMA CommandSent ==
    ASSUME TypeInv, SentInv, LineInv, MainCommand \/ DrainCommand \/ DrainFailed \/ ApplyCommand
    PROVE  SentInv'
<1> DEFINE c == Head(cmds)
<1>0. {} \subseteq 1..used.frames /\ stranded \subseteq 1..used.frames /\ refused \subseteq 1..used.frames
  BY DEF SentInv
<1>1. /\ cmds # <<>> /\ answered' = answered /\ refused' = refused
      /\ \/ DropSocket /\ (Fault \/ UNCHANGED used) /\ stranded' = {}
         \/ Execute(c) /\ UNCHANGED <<wire, stranded>>
         \/ UNCHANGED <<out, wire, stranded>> /\ (Fault \/ UNCHANGED used)
  BY WriteFailsSpends
     DEF MainCommand, DrainCommand, DrainFailed, ApplyCommand, relayVars, frameVars,
         Reconnecting, SubscribeFails, DropSocket
<1>2. c \in Command /\ (c.op = "publish" => c.frame \in 1..used.frames)
  <2>1. c \in Command /\ 1 \in 1..Len(cmds) /\ c = cmds[1]
    BY <1>1, HeadCommand, CmdsNow, TailFacts
  <2> QED
    BY <2>1 DEF LineInv, CmdFramesInv
<1>3. CASE DropSocket /\ (Fault \/ UNCHANGED used) /\ stranded' = {}
  BY <1>0, <1>1, <1>3, EmptiedSent
<1>4. CASE Execute(c) /\ UNCHANGED <<wire, stranded>>
  <2> HIDE DEF c
  <2>1. used'.frames = used.frames
    BY <1>2, <1>4, ExecuteOut
  <2>2. \A m \in ToSet(out') : m \in ToSet(out) \/ FrameBound(m)
    BY <1>2, <1>4, ExecuteBound
  <2> QED
    BY <1>0, <1>1, <1>4, <2>1, <2>2, SentQuiet
<1>5. CASE UNCHANGED <<out, wire, stranded>> /\ (Fault \/ UNCHANGED used)
  <2>1. used'.frames = used.frames
    BY <1>5, SpentOrNot
  <2> QED
    BY <1>0, <1>1, <1>5, <2>1, SentQuiet
<1> QED
  BY <1>1, <1>3, <1>4, <1>5

LEMMA ReqBound ==
    ASSUME TypeInv, NEW s \in Sub, Wrote(Req(s, Since(s)))
    PROVE  \A m \in ToSet(out') : m \in ToSet(out) \/ FrameBound(m)
<1>1. Since(s) \in Int
  BY SinceFacts
<1>2. Req(s, Since(s)) \in Outgoing /\ Req(s, Since(s)).type = "REQ"
  BY <1>1, Constructors DEF Req
<1> QED
  BY <1>2, SentAdds DEF FrameBound

LEMMA LoopSent ==
    ASSUME TypeInv, SentInv, NEW s \in Sub, DrainPending(s) \/ RecoverOne(s)
    PROVE  SentInv'
<1>1. /\ \/ UNCHANGED out
         \/ Wrote(Req(s, Since(s)))
      /\ Fault \/ UNCHANGED used
      /\ UNCHANGED <<wire, answered, refused, stranded>>
  BY DEF DrainPending, RecoverOne, relayVars, frameVars, Turn
<1>2. used'.frames = used.frames
  BY <1>1, SpentOrNot
<1>3. \A m \in ToSet(out') : m \in ToSet(out) \/ FrameBound(m)
  BY <1>1, ReqBound
<1>4. refused' \subseteq 1..used.frames /\ stranded' \subseteq 1..used.frames
  BY <1>1 DEF SentInv
<1> QED
  BY <1>1, <1>2, <1>3, <1>4, SentQuiet

LEMMA DrainFrameSent ==
    ASSUME TypeInv, SentInv, LineInv, DrainFrame PROVE SentInv'
<1> DEFINE f == Head(st.pending)
<1>1. /\ Wrote(Frame(f)) /\ st.pending # <<>>
      /\ Fault \/ UNCHANGED used
      /\ UNCHANGED <<wire, answered, refused, stranded>>
  BY DEF DrainFrame, relayVars, frameVars, Turn
<1>2. f \in Positive /\ f \in 1..used.frames
  <2>1. f \in Positive /\ f \in ToSet(st.pending) /\ st.pending \in Seq(Positive)
        /\ st.inflight \in Seq(Positive)
    BY <1>1, StNow, TailFacts
  <2>2. f \in ToSet(Line)
    BY <2>1, ConcatFacts DEF Line
  <2> QED
    BY <2>1, <2>2 DEF LineInv
<1> HIDE DEF f
<1>3. Frame(f) \in Outgoing /\ FrameBound(Frame(f))
  BY <1>2, Constructors DEF FrameBound, Frame
<1>4. \A m \in ToSet(out') : m \in ToSet(out) \/ FrameBound(m)
  BY <1>1, <1>3, SentAdds
<1>5. used'.frames = used.frames
  BY <1>1, SpentOrNot
<1>6. refused' \subseteq 1..used.frames /\ stranded' \subseteq 1..used.frames
  BY <1>1 DEF SentInv
<1> QED
  BY <1>1, <1>4, <1>5, <1>6, SentQuiet

LEMMA HandleSent ==
    ASSUME TypeInv, SentInv, HandleEvent \/ HandleNotice \/ HandleOk
    PROVE  SentInv'
<1>1. /\ wire # <<>> /\ wire' = Tail(wire) /\ UNCHANGED <<out, used, answered>>
      /\ \/ UNCHANGED refused
         \/ Head(wire).type = "OK" /\ refused' = refused \cup {Head(wire).frame}
      /\ UNCHANGED stranded \/ stranded' = {}
  BY DEF HandleEvent, HandleNotice, HandleOk, Received, relayVars, frameVars
<1>2. ToSet(wire') \subseteq ToSet(wire) /\ Head(wire) \in ToSet(wire)
  BY <1>1, HeadMessage
<1>3. refused' \subseteq 1..used.frames /\ stranded' \subseteq 1..used.frames
  BY <1>1, <1>2 DEF SentInv
<1> QED
  BY <1>1, <1>2, <1>3, SentQuiet

LEMMA ClosedSent ==
    ASSUME TypeInv, SentInv, HandleClosed PROVE SentInv'
<1> DEFINE s == Head(wire).sub
<1>1. /\ wire # <<>> /\ s \in Sub /\ UNCHANGED <<refused>>
      /\ \/ ClosedDenied(s) \/ ClosedLimited(s) \/ ClosedIgnored(s) \/ ClosedAnswered(s)
         \/ ClosedDrops
  BY ClosedOutcomes
<1> HIDE DEF s
<1>2. CASE ClosedDrops
  <2>1. DropSocket /\ (Fault \/ UNCHANGED used) /\ stranded' = {}
    BY <1>2 DEF ClosedDrops, Reconnecting
  <2> QED
    BY <1>1, <2>1, EmptiedSent
<1>3. CASE ~ClosedDrops
  <2>1. /\ wire' = Tail(wire) /\ UNCHANGED <<used, answered, stranded>>
        /\ UNCHANGED out \/ Wrote(Req(s, Since(s)))
    BY <1>1, <1>3 DEF ClosedDenied, ClosedLimited, ClosedIgnored, ClosedAnswered, ClosedQuietly
  <2>2. \A m \in ToSet(out') : m \in ToSet(out) \/ FrameBound(m)
    BY <1>1, <2>1, ReqBound
  <2>3. ToSet(wire') \subseteq ToSet(wire)
    BY <1>1, <2>1, HeadMessage
  <2>4. refused' \subseteq 1..used.frames /\ stranded' \subseteq 1..used.frames
    BY <1>1, <2>1 DEF SentInv
  <2> QED
    BY <2>1, <2>2, <2>3, <2>4, SentQuiet
<1> QED
  BY <1>2, <1>3

LEMMA ConnectSent ==
    ASSUME TypeInv, SentInv, Connect PROVE SentInv'
<1>1. PICK failing \in SUBSET st.active, sent \in SUBSET st.active :
        \E frames : ConnectWith(failing, sent, frames)
  BY ConnectParts
<1>2. PICK frames : ConnectWith(failing, sent, frames)
  BY <1>1
<1>3. /\ UNCHANGED <<wire, answered, refused, stranded>>
      /\ Fault \/ UNCHANGED used
      /\ out' = out \/ ToSet(out') = Burst(sent)
  BY <1>2 DEF ConnectWith
<1>4. \A m \in ToSet(out') : m \in ToSet(out) \/ FrameBound(m)
  BY <1>3 DEF Burst, Req, FrameBound
<1>5. used'.frames = used.frames
  BY <1>3, SpentOrNot
<1>6. refused' \subseteq 1..used.frames /\ stranded' \subseteq 1..used.frames
  BY <1>3 DEF SentInv
<1> QED
  BY <1>3, <1>4, <1>5, <1>6, SentQuiet

LEMMA ServeSent ==
    ASSUME TypeInv, SentInv, Serve PROVE SentInv'
<1>1. PICK m \in Outgoing : m \in ToSet(out) /\ Answered(m)
  BY ServeParts
<1>2. used'.frames = used.frames /\ UNCHANGED <<refused, stranded>>
  BY ServeParts
<1>3. m.type = "FRAME" => m.frame \in 1..used.frames
  BY <1>1 DEF SentInv
<1>4. answered \subseteq answered' /\ answered' \subseteq 1..used.frames
  BY <1>1, <1>3 DEF Answered, SentInv
<1>5. \A x \in ToSet(wire') : x \in ToSet(wire) \/
        (x.type = "OK" => x.frame \in 1..used.frames /\ (x.final => x.frame \in answered'))
  BY <1>1, <1>3 DEF Answered, Replayed, Event, Closed, Ok
<1>6. \A x \in ToSet(out') : x \in ToSet(out) \/ x.type # "FRAME"
  <2>1. Taken(m) \/ Turned(m)
    BY <1>1 DEF Answered
  <2>2. AsQuery(m).type = "QUERY"
    BY DEF AsQuery
  <2> HIDE DEF AsQuery
  <2> QED
    BY <2>1, <2>2 DEF Taken, Turned
<1> QED
  BY <1>2, <1>4, <1>5, <1>6 DEF SentInv

LEMMA RelaySent ==
    ASSUME TypeInv, SentInv,
           \/ (\E r \in Reason : Refuse(r)) \/ (\E c \in Channel : Evict(c))
           \/ Throttle \/ ThrottleAll \/ LinkDies
           \/ \E s \in Sub : Publish(s) \/ PublishUnseen(s)
    PROVE  SentInv'
<1> DEFINE Fits(x) ==
             x.type = "OK" => x.frame \in 1..used.frames /\ (x.final => x.frame \in answered)
<1>1. UNCHANGED <<answered, refused, stranded>> /\ used'.frames = used.frames
  BY RefuseParts, TellParts, LinkDiesParts, PublishWire
<1>2. /\ ToSet(out') \subseteq ToSet(out)
      /\ \A x \in ToSet(wire') : x \in ToSet(wire) \/ Fits(x)
  <2>1. ASSUME NEW r \in Reason, Refuse(r)
        PROVE  /\ ToSet(out') \subseteq ToSet(out)
               /\ \A x \in ToSet(wire') : x \in ToSet(wire) \/ Fits(x)
    <3>1. PICK m \in Outgoing : /\ Taken(m)
                                /\ ToSet(wire') = ToSet(wire) \cup {Closed(m.sub, r)}
      BY <2>1, RefuseParts
    <3>2. Fits(Closed(m.sub, r))
      BY DEF Closed
    <3> QED
      BY <3>1, <3>2 DEF Taken
  <2>2. CASE Throttle \/ ThrottleAll \/ \E c \in Channel : Evict(c)
    <3>1. PICK x \in Incoming : Told(x) /\ ToSet(wire') = ToSet(wire) \cup {x}
      BY <2>2, TellParts
    <3>2. \A m \in ToSet(out) : m.type = "FRAME" => m.frame \in 1..used.frames
      BY DEF SentInv
    <3>3. ToSet(out') \subseteq ToSet(out)
      BY <3>1 DEF Told, Taken
    <3>4. Fits(x)
      BY <3>1, <3>2 DEF Told, Ok, Notice, Closed
    <3> QED
      BY <3>1, <3>3, <3>4
  <2>3. CASE LinkDies
    BY <2>3, LinkDiesParts, EmptyFacts
  <2>4. ASSUME NEW s \in Sub, Publish(s) \/ PublishUnseen(s)
        PROVE  /\ ToSet(out') \subseteq ToSet(out)
               /\ \A x \in ToSet(wire') : x \in ToSet(wire) \/ Fits(x)
    BY <2>4, PublishWire DEF Event
  <2> QED
    BY <2>1, <2>2, <2>3, <2>4
<1> QED
  BY <1>1, <1>2 DEF SentInv

LEMMA IssueSent ==
    ASSUME TypeInv, SentInv, UNCHANGED <<out, wire, answered, refused, stranded>>,
           used'.frames \in {used.frames, used.frames + 1}
    PROVE  SentInv'
<1>1. 1..used.frames \subseteq 1..used'.frames
  BY CmdsNow
<1> QED
  BY <1>1 DEF SentInv

LEMMA SentNext ==
    ASSUME TypeInv, SentInv, LineInv, [Next]_vars PROVE SentInv'
<1> USE DEF relayVars, frameVars
<1>0. /\ refused \subseteq 1..used.frames /\ stranded \subseteq 1..used.frames
      /\ used.frames \in {used.frames, used.frames + 1}
  BY DEF SentInv
<1>1. CASE ClientStep
  <2>1. CASE DrainDone \/ ConnectGated
    BY <1>0, <2>1, IssueSent DEF DrainDone, ConnectGated
  <2>2. CASE FailedDrainDone
    <3>1. CASE DropSocket /\ stranded' = ToSet(st.inflight)
      <4>1. ToSet(st.inflight) \subseteq ToSet(Line)
        BY StNow, ConcatFacts DEF Line
      <4>2. stranded' \subseteq 1..used.frames /\ UNCHANGED <<used, refused>>
        BY <2>2, <3>1, <4>1 DEF LineInv, FailedDrainDone
      <4> QED
        BY <3>1, <4>2, EmptiedSent
    <3>2. CASE ~(DropSocket /\ stranded' = ToSet(st.inflight))
      BY <1>0, <2>2, <3>2, IssueSent DEF FailedDrainDone
    <3> QED
      BY <3>1, <3>2
  <2>3. ASSUME NEW s \in Sub, ParkRetry(s) PROVE SentInv'
    BY <1>0, <2>3, IssueSent DEF ParkRetry
  <2>4. CASE DetectLoss
    <3>1. DropSocket /\ UNCHANGED <<used, refused>> /\ stranded' = {}
      BY <2>4 DEF DetectLoss, Reconnecting
    <3> QED
      BY <3>1, EmptiedSent
  <2> QED
    BY <1>1, <2>1, <2>2, <2>3, <2>4, CommandSent, ConnectSent, LoopSent, DrainFrameSent,
       HandleSent, ClosedSent DEF ClientStep
<1>2. CASE RequeueAgain
  <2>1. UNCHANGED <<out, wire, used, answered, refused>> /\ stranded' = {}
    BY <1>2 DEF RequeueAgain
  <2> QED
    BY <1>0, <2>1, SentQuiet
<1>3. CASE GateExpires
  BY <1>0, <1>3, IssueSent DEF GateExpires
<1>4. CASE UNCHANGED vars
  BY <1>0, <1>4, IssueSent DEF vars
<1>5. ASSUME NEW c, Issue(c), used'.frames \in {used.frames, used.frames + 1} PROVE SentInv'
  BY <1>5, IssueSent DEF Issue
<1>6. CASE NextEvent
  BY <1>0, <1>6, IssueSent DEF NextEvent
<1>7. Spend("commands") => used'.frames = used.frames
  BY SpendType
<1>8. CASE \/ \E s \in Channel : SubscribeChannel(s) \/ UnsubscribeChannel(s)
           \/ \E s \in Control : SubscribeControl(s)
  BY <1>0, <1>5, <1>7, <1>8 DEF SubscribeChannel, UnsubscribeChannel, SubscribeControl
<1>9. CASE PublishFrame
  <2>1. used'.frames = used.frames + 1
    BY <1>9, SpendType DEF PublishFrame
  <2> QED
    BY <1>5, <1>9, <2>1 DEF PublishFrame
<1> QED
  BY <1>1, <1>2, <1>3, <1>4, <1>6, <1>8, <1>9, ServeSent, RelaySent DEF Next

LEMMA FramesInit ==
    ASSUME Init PROVE SentInv /\ LineInv
<1>1. /\ out = <<>> /\ wire = <<>> /\ cmds = <<>> /\ answered = {} /\ refused = {} /\ stranded = {}
      /\ st.pending = <<>> /\ st.inflight = <<>> /\ st.evicted = 0 /\ used.frames = 0
  BY DEF Init
<1>2. SentInv
  BY <1>1, EmptyFacts DEF SentInv
<1>3. Line = <<>> /\ DOMAIN Line = {} /\ ToSet(Line) = {} /\ Len(cmds) = 0
  <2>1. Line = <<>>
    BY <1>1, EmptyConcat, EmptyFacts DEF Line
  <2> QED
    BY <1>1, <2>1, EmptyFacts
<1>4. FramesAccounted
  <2>1. Published = {}
    BY <1>1 DEF Published
  <2>2. Published \ (answered \cup Kept) = {}
    BY <2>1
  <2>3. Cardinality({}) = 0
    BY FS_EmptySet
  <2>4. Cardinality(Published \ (answered \cup Kept)) = 0
    BY <2>2, <2>3
  <2>5. 0 <= st.evicted
    BY <1>1
  <2> QED
    BY <2>4, <2>5 DEF FramesAccounted
<1> QED
  BY <1>2, <1>3, <1>4 DEF LineInv, CmdFramesInv, Ordered

LEMMA FramesAlways ==
    Spec => [](TypeInv /\ NewestInv /\ RecentInv /\ SentInv /\ LineInv)
<1>1. Init => SentInv /\ LineInv
  BY FramesInit
<1>2. TypeInv /\ NewestInv /\ SentInv /\ LineInv /\ [Next]_vars => (SentInv /\ LineInv)'
  BY TypeNext, SentNext, LineNext
<1> QED
  BY <1>1, <1>2, RecentAlways, PTL DEF Spec

(* No telemetry frame disappears silently, for every size of the buffers:  *)
(* those the relay has not answered and the task no longer holds were      *)
(* counted as dropped (gated_observer_dropped).                            *)
THEOREM FramesAreAccounted ==
    Spec => []FramesAccounted
<1>1. LineInv => FramesAccounted
  BY DEF LineInv
<1> QED
  BY <1>1, FramesAlways, PTL

(* Telemetry frames keep their order through gates, lost sockets, failed   *)
(* writes and evictions, but for those the relay put off one by one.       *)
THEOREM FramesKeepOrder ==
    Spec => []FramesStayInOrder
<1>1. LineInv => FramesStayInOrder
  BY DEF LineInv, Ordered, Line, FramesStayInOrder
<1> QED
  BY <1>1, FramesAlways, PTL

(* Type correctness, with the bounds of the two id generations, of the     *)
(* frame buffers and of the event channel, and nothing on a dead socket.   *)
THEOREM TypeCorrect ==
    Spec => []TypeOK
<1>1. ASSUME TypeInv, NewestInv, RecentInv, SentInv PROVE TypeOK
  <2>1. /\ st.cur \subseteq DOMAIN stored /\ st.prev \subseteq DOMAIN stored
        /\ Cardinality(st.cur) < DedupLimit \div 2 /\ Cardinality(st.prev) <= DedupLimit \div 2
    BY <1>1 DEF RecentInv, IdSets, Half, TypeInv, HistoryType
  <2>2. answered \cup refused \cup stranded \subseteq 1..used.frames
    BY <1>1 DEF SentInv
  <2>3. /\ phase \in {"main", "down", "drain", "last_drain", "failed_drain", "failed_last"}
        /\ link \in {"up", "dead"} /\ live \subseteq Sub /\ (link = "dead" => out = <<>> /\ live = {})
        /\ Len(queue) <= Capacity /\ cut \subseteq DOMAIN stored /\ forgotten \subseteq Sub
    BY <1>1 DEF TypeInv, LinkType, EnvType, HistoryType, Phases
  <2>4. newest \in [Channel -> Startup..now] /\ unsent \subseteq DOMAIN stored
    <3>1. Startup \in Nat /\ now \in Nat
      BY <1>1, Types DEF TypeInv, EnvType, Positive
    <3> QED
      BY <1>1, <3>1 DEF NewestInv
  <2> QED
    BY <1>1, <2>1, <2>2, <2>3, <2>4, StNow DEF TypeOK
<1> QED
  BY <1>1, FramesAlways, PTL

-----------------------------------------------------------------------------
(***************************************************************************)
(* The subscriptions.  Of the socket they see the REQs on their way or in  *)
(* the relay's handlers, the events that arrive and the subscriptions that *)
(* a CLOSED names; the kinds of steps below are all that happens to        *)
(* subscriptions and cursors.                                              *)
(***************************************************************************)

Asks == {m \in ToSet(out) : m.type = "REQ" \/ m.type = "QUERY"}
Arriving == {m.id : m \in {x \in ToSet(wire) : x.type = "EVENT"}}
Refusals == {m.sub : m \in {x \in ToSet(wire) : x.type = "CLOSED"}}

Asked(e) == \E m \in Asks : stored[e].sub = m.sub /\ stored[e].ts >= m.since

(* The socket is about to be replaced. *)
Repairing == phase \in {"down", "failed_drain"} \/ link = "dead"

LEMMA SocketNow ==
    ASSUME TypeInv
    PROVE  /\ \A m \in Asks : /\ m.type = "REQ" \/ m.type = "QUERY"
                              /\ m.sub \in Sub /\ m.since \in Int
           /\ Arriving \subseteq DOMAIN stored /\ Refusals \subseteq Sub
           /\ \A s : Underway(s) <=> \/ \E m \in Asks : m.type = "REQ" /\ m.sub = s
                                    \/ s \in Refusals
           /\ AskedBy(out) = {e \in Unhanded : Asked(e)}
           /\ Carrying(wire) = Unhanded \cap Arriving
<1>1. ToSet(out) \subseteq Outgoing /\ ToSet(wire) \subseteq Incoming
  BY SeqFacts DEF TypeInv, LinkType, WireType
<1>2. \A m \in Asks : (m.type = "REQ" \/ m.type = "QUERY") /\ m.sub \in Sub /\ m.since \in Int
  BY <1>1 DEF Asks, Outgoing
<1>3. Arriving \subseteq DOMAIN stored
  BY DEF Arriving, TypeInv, WireType
<1>4. Refusals \subseteq Sub
  BY <1>1 DEF Refusals, Incoming
<1>5. \A s : Underway(s) <=> (\E m \in Asks : m.type = "REQ" /\ m.sub = s) \/ s \in Refusals
  BY DEF Underway, Asks, Refusals
<1>6. \A e : e \in AskedBy(out) <=> e \in Unhanded /\ Asked(e)
  BY DEF AskedBy, Requested, Asked, Asks, Unhanded
<1>7. \A e : e \in Carrying(wire) <=> e \in Unhanded /\ e \in Arriving
  BY DEF Carrying, Carried, Arriving
<1> QED
  BY <1>2, <1>3, <1>4, <1>5, <1>6, <1>7

(* A message is read. *)
LEMMA ReadFacts ==
    ASSUME TypeInv, wire # <<>>, wire' = Tail(wire)
    PROVE  /\ Head(wire).type = "EVENT" =>
                Arriving = Arriving' \cup {Head(wire).id} /\ Refusals' = Refusals
           /\ Head(wire).type = "CLOSED" =>
                Arriving' = Arriving /\ Refusals = Refusals' \cup {Head(wire).sub}
           /\ Head(wire).type \in {"OK", "NOTICE"} => Arriving' = Arriving /\ Refusals' = Refusals
<1> DEFINE h == Head(wire)
<1>1. ToSet(wire) = ToSet(wire') \cup {h}
  BY HeadMessage
<1> HIDE DEF h
<1>2. h.type = "EVENT" => Arriving = Arriving' \cup {h.id} /\ Refusals' = Refusals
  BY <1>1 DEF Arriving, Refusals
<1>3. h.type = "CLOSED" => Arriving' = Arriving /\ Refusals = Refusals' \cup {h.sub}
  BY <1>1 DEF Arriving, Refusals
<1>4. h.type \in {"OK", "NOTICE"} => Arriving' = Arriving /\ Refusals' = Refusals
  BY <1>1 DEF Arriving, Refusals
<1> QED
  BY <1>2, <1>3, <1>4 DEF h

(* Messages are put on the wire. *)
LEMMA WireAdds ==
    ASSUME NEW M, ToSet(wire') = ToSet(wire) \cup M
    PROVE  /\ \A E : M = {Event(e) : e \in E} =>
                Arriving' = Arriving \cup E /\ Refusals' = Refusals
           /\ \A s, r : M = {Closed(s, r)} =>
                Arriving' = Arriving /\ Refusals' = Refusals \cup {s}
           /\ (\A m \in M : m.type \in {"OK", "NOTICE"}) =>
                Arriving' = Arriving /\ Refusals' = Refusals
<1>1. ASSUME NEW E, M = {Event(e) : e \in E}
      PROVE  Arriving' = Arriving \cup E /\ Refusals' = Refusals
  <2>1. \A e : Event(e).type = "EVENT" /\ Event(e).id = e
    BY DEF Event
  <2> QED
    BY <1>1, <2>1 DEF Arriving, Refusals
<1>2. ASSUME NEW s, NEW r, M = {Closed(s, r)}
      PROVE  Arriving' = Arriving /\ Refusals' = Refusals \cup {s}
  <2>1. Closed(s, r).type = "CLOSED" /\ Closed(s, r).sub = s
    BY DEF Closed
  <2> QED
    BY <1>2, <2>1 DEF Arriving, Refusals
<1>3. ASSUME \A m \in M : m.type \in {"OK", "NOTICE"}
      PROVE  Arriving' = Arriving /\ Refusals' = Refusals
  BY <1>3 DEF Arriving, Refusals
<1> QED
  BY <1>1, <1>2, <1>3

LEMMA WireSame ==
    ASSUME UNCHANGED wire PROVE Arriving' = Arriving /\ Refusals' = Refusals
  BY DEF Arriving, Refusals

LEMMA OutSame ==
    ASSUME UNCHANGED out PROVE Asks' = Asks
  BY DEF Asks

LEMMA OutAdds ==
    ASSUME NEW m, ToSet(out') = ToSet(out) \cup {m}
    PROVE  /\ m.type = "REQ" => Asks' = Asks \cup {m}
           /\ m.type # "REQ" /\ m.type # "QUERY" => Asks' = Asks
  BY DEF Asks

LEMMA OutTakes ==
    ASSUME NEW m \in ToSet(out), Taken(m)
    PROVE  /\ Asks' \subseteq Asks /\ Asks \subseteq Asks' \cup {m}
           /\ m.type # "REQ" /\ m.type # "QUERY" => Asks' = Asks
           /\ m.type = "REQ" \/ m.type = "QUERY" => m \in Asks
  BY DEF Asks, Taken

LEMMA AsQueryParts ==
    \A m : AsQuery(m).type = "QUERY" /\ AsQuery(m).sub = m.sub /\ AsQuery(m).since = m.since
  BY DEF AsQuery

LEMMA OutTurns ==
    ASSUME NEW m \in ToSet(out), m.type = "REQ", Turned(m)
    PROVE  /\ m \in Asks /\ AsQuery(m) \in Asks'
           /\ Asks' \subseteq Asks \cup {AsQuery(m)} /\ Asks \subseteq Asks' \cup {m}
  BY AsQueryParts DEF Asks, Turned

(* What a REQ asks for. *)
LEMMA RequestedNow ==
    ASSUME NEW m, m.type = "REQ" \/ m.type = "QUERY"
    PROVE  /\ \A e : e \in Requested(m) <=>
                e \in DOMAIN stored /\ stored[e].sub = m.sub /\ stored[e].ts >= m.since
           /\ AskedBy(<<m>>) = Unhanded \cap Requested(m)
<1>1. \A x : x \in ToSet(<<m>>) <=> x = m
  BY SingleFacts
<1> QED
  BY <1>1 DEF Requested, AskedBy

(* A frame that is not a REQ leaves the subscriptions alone; a REQ reaches *)
(* the socket or is cut. *)
LEMMA WroteOther ==
    ASSUME TypeInv, NEW m \in Outgoing, m.type # "REQ", m.type # "QUERY", Wrote(m)
    PROVE  Asks' = Asks /\ cut' = cut
<1>1. AskedBy(<<m>>) = {}
  <2>1. \A x : x \in ToSet(<<m>>) <=> x = m
    BY SingleFacts
  <2> QED
    BY <2>1 DEF AskedBy, Requested
<1>2. link = "up" \/ link = "dead"
  BY DEF TypeInv, LinkType
<1> QED
  BY <1>1, <1>2, WroteFacts, OutAdds, OutSame

LEMMA SentOther ==
    ASSUME TypeInv, NEW m \in Outgoing, m.type # "REQ", m.type # "QUERY", Sent(m)
    PROVE  Asks' = Asks
<1>2. link = "up" \/ link = "dead"
  BY DEF TypeInv, LinkType
<1> QED
  BY <1>2, SentFacts, OutAdds, OutSame

ReqWritten(m) ==
    \/ link = "up" /\ Asks' = Asks \cup {m} /\ cut' = cut
    \/ link = "dead" /\ Asks' = Asks /\ cut' = cut \cup (Unhanded \cap Requested(m))

LEMMA WroteReq ==
    ASSUME TypeInv, NEW m \in Outgoing, m.type = "REQ", Wrote(m)
    PROVE  ReqWritten(m)
<1>1. AskedBy(<<m>>) = Unhanded \cap Requested(m)
  BY RequestedNow
<1>2. link = "up" \/ link = "dead"
  BY DEF TypeInv, LinkType
<1> QED
  BY <1>1, <1>2, WroteFacts, OutAdds, OutSame DEF ReqWritten

(* The kinds of steps.  The commands: none is taken but a subscribe by the *)
(* steps that say so, and a new subscribe starts where the harness is.     *)
Begin(s) == IF s \in Channel THEN newest[s] ELSE now
BeginThen(s) == IF s \in Channel THEN newest'[s] ELSE now'

CmdsRest ==
    \/ cmds' = cmds
    \/ cmds # <<>> /\ cmds' = Tail(cmds) /\ Head(cmds).op # "subscribe"
    \/ \E c \in Command : /\ cmds' = Append(cmds, c)
                          /\ c.op = "subscribe" => c.since = BeginThen(c.sub)

CursorsSame ==
    /\ st'.active = st.active /\ st'.floor = st.floor
    /\ st'.last = st.last /\ st'.dropped = st.dropped

(* The head of the commands subscribes. *)
Intends ==
    LET c == Head(cmds) IN
    /\ cmds # <<>> /\ cmds' = Tail(cmds) /\ c.op = "subscribe"
    /\ st'.active = st.active \cup {c.sub}
    /\ st'.floor = [st.floor EXCEPT ![c.sub] = IF st.floor[c.sub] = None THEN c.since
                                               ELSE st.floor[c.sub]]
    /\ st'.last = st.last /\ st'.dropped = st.dropped

SubsQuiet ==
    /\ CmdsRest /\ CursorsSame
    /\ \A s \in st.active : /\ s \in ParkedSubs => s \in ParkedSubs'
                            /\ s \in forgotten' <=> s \in forgotten
    /\ (Repairing => Repairing') /\ UNCHANGED <<live, stored, now, handed, cut>>
    /\ Asks' = Asks /\ Arriving' \subseteq Arriving /\ Arriving \subseteq Arriving' \cup handed
    /\ \A s \in Refusals : s \in Refusals' \cup ParkedSubs' \/ s \notin st.active

(* The socket dies or is dropped. *)
SocketLost ==
    /\ Repairing' /\ Asks' = {} /\ live' = {} /\ Arriving' \subseteq Arriving
    /\ cut' = cut \cup {e \in Unhanded : Asked(e)} \cup (Unhanded \cap (Arriving \ Arriving'))
    /\ UNCHANGED <<stored, now, handed, forgotten>>
    /\ (CmdsRest /\ CursorsSame) \/ Intends

(* A replay from the cursor of an active subscription. *)
ReplayAsked(s) ==
    /\ s \in st.active /\ cmds' = cmds
    /\ st'.active = st.active /\ st'.floor = st.floor /\ st'.last = st.last
    /\ \A t \in Sub : st'.dropped[t] = IF t = s THEN None ELSE st.dropped[t]
    /\ \A t \in ParkedSubs : t # s => t \in ParkedSubs'
    /\ forgotten' = forgotten \ {s}
    /\ (Repairing => Repairing') /\ UNCHANGED <<link, live, stored, now, handed>>
    /\ ReqWritten(Req(s, Since(s))) /\ Arriving' = Arriving
    /\ \A t \in Refusals : t # s => t \in Refusals'

(* A subscribe is carried out, or parked by the gate. *)
Subscribing ==
    LET c == Head(cmds) IN
    /\ Intends /\ forgotten' = forgotten \ {c.sub}
    /\ \A t \in ParkedSubs : t # c.sub => t \in ParkedSubs'
    /\ (Repairing => Repairing') /\ UNCHANGED <<link, live, stored, now, handed>>
    /\ \/ c.sub \in ParkedSubs' /\ Asks' = Asks /\ cut' = cut
       \/ ReqWritten(ReqOf(c))
    /\ Arriving' = Arriving /\ Refusals' = Refusals

(* Only the intent of a subscribe is kept. *)
IntentKept ==
    LET c == Head(cmds) IN
    /\ Intends /\ (Repairing' \/ c.sub \in forgotten')
    /\ forgotten \subseteq forgotten' /\ forgotten' \subseteq forgotten \cup {c.sub}
    /\ ParkedSubs \subseteq ParkedSubs'
    /\ (Repairing => Repairing') /\ UNCHANGED <<live, stored, now, handed, cut>>
    /\ Asks' = Asks /\ Arriving' = Arriving /\ Refusals' = Refusals

(* An unsubscribe or a denial. *)
ChannelLeft(s) ==
    /\ s \in Channel /\ CmdsRest
    /\ st'.active = st.active \ {s}
    /\ st'.floor = [st.floor EXCEPT ![s] = None]
    /\ st'.last = [st.last EXCEPT ![s] = None]
    /\ st'.dropped = [st.dropped EXCEPT ![s] = None]
    /\ \A t \in ParkedSubs : t # s => t \in ParkedSubs'
    /\ \A t \in forgotten : t # s => t \in forgotten'
    /\ forgotten' \subseteq forgotten
    /\ (Repairing => Repairing') /\ UNCHANGED <<live, stored, now, handed>>
    /\ cut' = cut \cup DropsOf(s)
    /\ Asks' = Asks /\ Arriving' = Arriving
    /\ \A t \in Refusals : t # s => t \in Refusals'

(* A new socket: everything is parked, or asked for with the failing       *)
(* channels to be retried; or the attempt fails.                           *)
ConnectedGated ==
    /\ CursorsSame /\ st.active \subseteq ParkedSubs' /\ UNCHANGED cut /\ Asks' = Asks
Connected(sent) ==
    /\ st'.active = st.active /\ st'.floor = st.floor /\ st'.last = st.last
    /\ \A t \in Sub : st'.dropped[t] = IF t \in sent THEN None ELSE st.dropped[t]
    /\ \/ /\ st.active \subseteq sent \cup ParkedSubs'
          /\ Asks' = Burst(sent) /\ UNCHANGED cut
       \/ /\ Repairing' /\ forgotten' = forgotten /\ Asks' = Asks
          /\ cut' = cut \cup {e \in Unhanded : \E m \in Burst(sent) : e \in Requested(m)}
Reconnected ==
    /\ ConnectedGated \/ \E sent \in SUBSET st.active : Connected(sent)
    /\ UNCHANGED <<cmds, live, stored, now, handed>>
    /\ Asks = {} /\ Arriving = {} /\ Arriving' = {}

(* An event is read: it is handed on, or dropped by the full channel.      *)
EventRead(e) ==
    /\ e \in Arriving /\ cmds' = cmds
    /\ st'.active = st.active /\ st'.floor = st.floor /\ ParkedSubs' = ParkedSubs
    /\ (Repairing => Repairing') /\ UNCHANGED <<live, stored, now, forgotten>>
    /\ Asks' = Asks /\ Refusals' = Refusals
    /\ Arriving' \subseteq Arriving /\ Arriving \subseteq Arriving' \cup {e}
    /\ EventHanded(e) \/ EventDropped(e)

(* The relay stores an event, and sends it if its subscription is served,  *)
(* or leaves it out.                                                       *)
EventStored(s) ==
    LET n == Len(stored) + 1 IN
    /\ s \in Sub /\ s # Observer /\ n \notin DOMAIN stored /\ DOMAIN stored' = DOMAIN stored \cup {n}
    /\ \A i \in DOMAIN stored : stored'[i] = stored[i]
    /\ stored'[n].sub = s /\ stored'[n].ts \in Positive
    /\ stored'[n].ts + Skew >= now /\ stored'[n].ts <= now' /\ now' >= now /\ now' \in Nat
    /\ stored'[n].ts >= now' \/ now' = now
    /\ UNCHANGED <<st, phase, link, live, handed, cut, forgotten, cmds>>
    /\ Asks' = Asks /\ Refusals' = Refusals
    /\ \/ s \in live /\ Arriving' = Arriving \cup {n}
       \/ (s \in live => n \in unsent') /\ Arriving' = Arriving

(* The relay takes a REQ or a CLOSE from the socket, or sends the history. *)
RelayTook ==
    UNCHANGED <<st, phase, link, stored, now, handed, forgotten, cmds>>
ReqRegistered(m) ==
    /\ RelayTook /\ m \in Asks /\ m.type = "REQ" /\ AsQuery(m) \in Asks'
    /\ Asks' \subseteq Asks \cup {AsQuery(m)} /\ Asks \subseteq Asks' \cup {m}
    /\ live' = live \cup {m.sub} /\ Arriving' = Arriving /\ Refusals' = Refusals /\ cut' = cut
HistorySent(m) ==
    /\ RelayTook /\ m \in Asks /\ m.type = "QUERY"
    /\ Asks' \subseteq Asks /\ Asks \subseteq Asks' \cup {m}
    /\ live' = live /\ Refusals' = Refusals /\ cut' = cut
    /\ Arriving \subseteq Arriving' /\ Arriving' \subseteq Arriving \cup Requested(m)
    /\ \A e \in Unhanded \cap Requested(m) : e \in Arriving' \cup unsent'
CloseServed(s) ==
    /\ RelayTook /\ Asks' = Asks /\ live' = live \ {s} /\ Arriving' = Arriving
    /\ Refusals' = Refusals \cup {s} /\ cut' = cut
ReqRefused(m) ==
    /\ RelayTook /\ m \in Asks /\ Asks' \subseteq Asks /\ Asks \subseteq Asks' \cup {m}
    /\ live' = live /\ Arriving' = Arriving /\ Refusals' = Refusals \cup {m.sub}
    /\ cut' = cut \cup (Unhanded \cap Requested(m))

SubStep ==
    \/ SubsQuiet \/ SocketLost \/ Subscribing \/ IntentKept \/ Reconnected
    \/ \E s \in Sub : ReplayAsked(s) \/ ChannelLeft(s) \/ EventStored(s) \/ CloseServed(s)
    \/ \E e \in Arriving : EventRead(e)
    \/ \E m \in Asks : ReqRegistered(m) \/ HistorySent(m) \/ ReqRefused(m)

(* A step that touches neither subscriptions nor socket. *)
LEMMA QuietStep ==
    ASSUME CmdsRest, SameSubs(st', st), (Repairing => Repairing'), Asks' = Asks,
           Arriving' = Arriving, Refusals' = Refusals,
           UNCHANGED <<live, stored, now, handed, cut, forgotten>>
    PROVE  SubStep
<1>1. CursorsSame /\ ParkedSubs' = ParkedSubs
  BY DEF SameSubs, CursorsSame, ParkedSubs
<1> QED
  BY <1>1 DEF SubsQuiet, SubStep

LEMMA RepairingSame ==
    ASSUME UNCHANGED <<phase, link>> PROVE Repairing => Repairing'
  BY DEF Repairing

LEMMA SameSubsRefl ==
    st' = st => SameSubs(st', st)
  BY DEF SameSubs

LEMMA DropSocketSub ==
    ASSUME TypeInv, DropSocket, UNCHANGED <<handed, forgotten>>,
           (CmdsRest /\ CursorsSame) \/ Intends
    PROVE  SocketLost
<1>1. /\ phase' = "down" /\ out' = <<>> /\ wire' = <<>> /\ live' = {}
      /\ cut' = cut \cup AskedBy(out) \cup Carrying(wire) /\ UNCHANGED <<stored, now>>
  BY DEF DropSocket
<1>2. ToSet(out') = {} /\ ToSet(wire') = {}
  BY <1>1, EmptyFacts
<1>3. Asks' = {} /\ Arriving' = {}
  BY <1>2 DEF Asks, Arriving
<1>4. AskedBy(out) = {e \in Unhanded : Asked(e)} /\ Carrying(wire) = Unhanded \cap Arriving
  BY SocketNow
<1>5. Repairing'
  BY <1>1 DEF Repairing
<1> HIDE DEF Asks, Arriving
<1> QED
  BY <1>1, <1>3, <1>4, <1>5 DEF SocketLost

LEMMA ExecuteSub ==
    ASSUME TypeInv, cmds # <<>>, cmds' = Tail(cmds), Execute(Head(cmds)),
           UNCHANGED <<phase, link, wire, live, stored, now, handed>>
    PROVE  SubStep
<1> DEFINE c == Head(cmds)
<1>1. c \in Command /\ cmds' = Tail(cmds)
  BY HeadCommand
<1>2. (Repairing => Repairing') /\ Arriving' = Arriving /\ Refusals' = Refusals
  BY RepairingSame, WireSame
<1>3. CASE ExecuteSubscribe(c)
  <2>1. /\ c.op = "subscribe" /\ c.sub \in Sub
        /\ st'.active = st.active \cup {c.sub}
        /\ st'.floor = [st.floor EXCEPT ![c.sub] = IF st.floor[c.sub] = None THEN c.since
                                                   ELSE st.floor[c.sub]]
        /\ st'.last = st.last /\ st'.dropped = st.dropped
        /\ st.gate => st'.parked = st.parked \cup {c.sub} /\ st'.retry = st.retry
        /\ ~st.gate => st'.parked = st.parked \ {c.sub} /\ st'.retry = st.retry \ {c.sub}
    BY <1>1, <1>3, ExecuteSubscribeSt
  <2>2. /\ ReqOf(c) \in Outgoing /\ ReqOf(c).type = "REQ" /\ forgotten' = forgotten \ {c.sub}
        /\ \/ st.gate /\ out' = out /\ cut' = cut
           \/ ~st.gate /\ Wrote(ReqOf(c))
    BY <1>1, <1>3, ExecuteSubscribeOut
  <2>3. Intends
    BY <1>1, <2>1 DEF Intends
  <2>4. /\ \A t \in ParkedSubs : t # c.sub => t \in ParkedSubs'
        /\ st.gate => c.sub \in ParkedSubs'
    BY <2>1, StNow DEF ParkedSubs
  <2>5. \/ c.sub \in ParkedSubs' /\ Asks' = Asks /\ cut' = cut
        \/ ReqWritten(ReqOf(c))
    BY <2>2, <2>4, WroteReq, OutSame
  <2> QED
    BY <1>1, <1>2, <2>2, <2>3, <2>4, <2>5 DEF Subscribing, SubStep
<1>4. CASE ExecuteUnsubscribe(c)
  <2>1. c.op = "unsubscribe" /\ c.sub \in Sub /\ c.sub \in Channel /\ st' = Removed(st, c.sub)
    BY <1>1, <1>4, ExecuteUnsubscribeSt
  <2>2. /\ Close(c.sub) \in Outgoing /\ Close(c.sub).type = "CLOSE"
        /\ forgotten' = forgotten \ {c.sub} /\ cut' = cut \cup DropsOf(c.sub)
        /\ out' = out \/ Sent(Close(c.sub))
    BY <1>1, <1>4, ExecuteUnsubscribeOut
  <2>3. /\ st'.active = st.active \ {c.sub}
        /\ st'.floor = [st.floor EXCEPT ![c.sub] = None]
        /\ st'.last = [st.last EXCEPT ![c.sub] = None]
        /\ st'.dropped = [st.dropped EXCEPT ![c.sub] = None]
        /\ st'.parked = st.parked \ {c.sub} /\ st'.retry = st.retry \ {c.sub}
    BY <2>1, RemovedSt
  <2>4. Asks' = Asks
    BY <2>2, SentOther, OutSame
  <2>5. \A t \in ParkedSubs : t # c.sub => t \in ParkedSubs'
    BY <2>3 DEF ParkedSubs
  <2>6. CmdsRest
    BY <1>1, <2>1 DEF CmdsRest
  <2>7. ChannelLeft(c.sub)
    BY <1>2, <2>1, <2>2, <2>3, <2>4, <2>5, <2>6 DEF ChannelLeft
  <2> QED
    BY <2>1, <2>7 DEF SubStep
<1>5. CASE ExecutePublish(c)
  <2>1. c.op = "publish" /\ SameSubs(st', st)
    BY <1>1, <1>5, ExecutePublishSt
  <2>2. /\ Frame(c.frame) \in Outgoing /\ Frame(c.frame).type = "FRAME" /\ forgotten' = forgotten
        /\ (out' = out /\ cut' = cut) \/ Wrote(Frame(c.frame))
    BY <1>1, <1>5, ExecutePublishOut
  <2>3. Asks' = Asks /\ cut' = cut
    BY <2>2, WroteOther, OutSame
  <2>4. CmdsRest
    BY <1>1, <2>1 DEF CmdsRest
  <2> QED
    BY <1>2, <2>1, <2>2, <2>3, <2>4, QuietStep
<1> QED
  BY <1>3, <1>4, <1>5 DEF Execute

(* A command of a task without a socket, or after a failed write. *)
LEMMA AppliedSub ==
    ASSUME TypeInv, cmds # <<>>, cmds' = Tail(cmds), st' = Applied(st, Head(cmds)),
           cut' = cut \cup DropsForgotten(Head(cmds)),
           UNCHANGED <<phase, link, out, wire, live, stored, now, handed>>,
           Head(cmds).op # "subscribe" => forgotten' = forgotten,
           Head(cmds).op = "subscribe" =>
             /\ forgotten \subseteq forgotten' /\ forgotten' \subseteq forgotten \cup {Head(cmds).sub}
             /\ Repairing \/ Head(cmds).sub \in forgotten'
    PROVE  SubStep
<1> DEFINE c == Head(cmds)
<1>1. c \in Command /\ st \in BgState /\ c.op \in {"subscribe", "unsubscribe", "publish", "reconnect"}
      /\ (c.op = "unsubscribe" => c.sub \in Sub /\ c.sub \in Channel)
      /\ (c.op = "publish" => c.frame \in Positive)
  BY HeadCommand, StNow
<1>2. (Repairing => Repairing') /\ Arriving' = Arriving /\ Refusals' = Refusals /\ Asks' = Asks
  BY RepairingSame, WireSame, OutSame
<1>3. CASE c.op = "subscribe"
  <2>1. /\ st'.active = st.active \cup {c.sub}
        /\ st'.floor = [st.floor EXCEPT ![c.sub] = IF st.floor[c.sub] = None THEN c.since
                                                   ELSE st.floor[c.sub]]
        /\ st'.last = st.last /\ st'.dropped = st.dropped
        /\ st'.parked = st.parked /\ st'.retry = st.retry
    BY <1>1, <1>3, AppliedFields
  <2>2. Intends /\ ParkedSubs \subseteq ParkedSubs'
    BY <1>3, <2>1 DEF Intends, ParkedSubs
  <2>3. cut' = cut
    BY <1>3 DEF DropsForgotten
  <2>4. IntentKept
    BY <1>2, <1>3, <2>2, <2>3 DEF IntentKept
  <2> QED
    BY <2>4 DEF SubStep
<1>4. CmdsRest \/ c.op = "subscribe"
  BY DEF CmdsRest
<1>5. CASE c.op = "unsubscribe"
  <2>1. st' = Removed(st, c.sub) /\ c.sub \in Sub /\ cut' = cut \cup DropsOf(c.sub)
    BY <1>1, <1>5, AppliedFields DEF DropsForgotten
  <2>3. /\ st'.active = st.active \ {c.sub}
        /\ st'.floor = [st.floor EXCEPT ![c.sub] = None]
        /\ st'.last = [st.last EXCEPT ![c.sub] = None]
        /\ st'.dropped = [st.dropped EXCEPT ![c.sub] = None]
        /\ st'.parked = st.parked \ {c.sub} /\ st'.retry = st.retry \ {c.sub}
    BY <2>1, RemovedSt
  <2>4. \A t \in ParkedSubs : t # c.sub => t \in ParkedSubs'
    BY <2>3 DEF ParkedSubs
  <2>5. ChannelLeft(c.sub)
    BY <1>1, <1>2, <1>4, <1>5, <2>1, <2>3, <2>4 DEF ChannelLeft
  <2> QED
    BY <2>1, <2>5 DEF SubStep
<1>6. CASE c.op = "publish" \/ c.op = "reconnect"
  <2>1. SameSubs(st', st)
    <3>1. c.op = "publish" => st' = Parked(st, c.frame)
      BY <1>1, AppliedFields
    <3>2. c.op = "reconnect" => st' = st
      BY <1>1, AppliedFields
    <3> QED
      BY <1>1, <1>6, <3>1, <3>2, ParkedFields, SameSubsRefl
  <2>2. cut' = cut
    BY <1>6 DEF DropsForgotten
  <2> QED
    BY <1>2, <1>4, <1>6, <2>1, <2>2, QuietStep
<1> QED
  BY <1>1, <1>3, <1>5, <1>6

(* The write of a subscribe failed. *)
LEMMA FailsSub ==
    ASSUME TypeInv, cmds # <<>>, cmds' = Tail(cmds), SubscribeFails(Head(cmds)),
           NEW b, b = Intent(Applied(st, Head(cmds)), Head(cmds)), UNCHANGED handed,
           \/ Reconnecting(b) /\ UNCHANGED forgotten
           \/ /\ st' = b /\ UNCHANGED <<link, out, wire, live, stored, now, cut>>
              /\ \/ phase' = "failed_drain" /\ UNCHANGED forgotten
                 \/ /\ phase = "last_drain" /\ phase' = "failed_last"
                    /\ forgotten' = forgotten \cup {Head(cmds).sub}
    PROVE  SubStep
<1> DEFINE c == Head(cmds)
<1>1. c \in Command
  BY HeadCommand
<1>2. /\ c.op = "subscribe" /\ c.sub \in Sub /\ b \in BgState
      /\ b.active = st.active \cup {c.sub}
      /\ b.floor = [st.floor EXCEPT ![c.sub] = IF st.floor[c.sub] = None THEN c.since
                                               ELSE st.floor[c.sub]]
      /\ b.last = st.last /\ b.dropped = st.dropped
      /\ b.parked = st.parked \cup ({c.sub} \cap Control) /\ b.retry = st.retry
  BY <1>1, SubscribeFailsSt
<1>3. SameSubs(st', b)
  BY <1>2, ReconnectingSt DEF SameSubs
<1>4. Intends /\ ParkedSubs \subseteq ParkedSubs'
  BY <1>2, <1>3 DEF SameSubs, Intends, ParkedSubs
<1>5. CASE Reconnecting(b) /\ UNCHANGED forgotten
  BY <1>4, <1>5, DropSocketSub DEF Reconnecting, SubStep
<1>6. CASE /\ st' = b /\ UNCHANGED <<link, out, wire, live, stored, now, cut>>
           /\ \/ phase' = "failed_drain" /\ UNCHANGED forgotten
              \/ /\ phase = "last_drain" /\ phase' = "failed_last"
                 /\ forgotten' = forgotten \cup {Head(cmds).sub}
  <2>1. Arriving' = Arriving /\ Refusals' = Refusals /\ Asks' = Asks
    BY <1>6, WireSame, OutSame
  <2>2. (Repairing => Repairing') /\ (Repairing' \/ c.sub \in forgotten')
    BY <1>6 DEF Repairing
  <2>3. IntentKept
    BY <1>4, <1>6, <2>1, <2>2 DEF IntentKept
  <2> QED
    BY <2>3 DEF SubStep
<1> QED
  BY <1>5, <1>6

LEMMA CommandSub ==
    ASSUME TypeInv, MainCommand \/ DrainCommand \/ DrainFailed \/ ApplyCommand
    PROVE  SubStep
<1> DEFINE c == Head(cmds)
           b == Intent(Applied(st, c), c)
<1> USE DEF relayVars, handVars
<1>1. CASE MainCommand
  <2>1. /\ cmds # <<>> /\ cmds' = Tail(cmds) /\ handed' = handed
        /\ \/ c.op = "reconnect" /\ Reconnecting(st) /\ UNCHANGED forgotten
           \/ Execute(c) /\ UNCHANGED <<phase, link, wire, live, stored, now>>
           \/ SubscribeFails(c) /\ Reconnecting(b) /\ UNCHANGED forgotten
    BY <1>1 DEF MainCommand
  <2> HIDE DEF b
  <2>2. CASE c.op = "reconnect" /\ Reconnecting(st) /\ UNCHANGED forgotten
    <3>1. CmdsRest
      BY <2>1, <2>2 DEF CmdsRest
    <3>2. CursorsSame
      BY <2>2, StNow, ReconnectingSt DEF SameSubs, CursorsSame
    <3> QED
      BY <2>1, <2>2, <3>1, <3>2, DropSocketSub DEF Reconnecting, SubStep
  <2>3. CASE Execute(c) /\ UNCHANGED <<phase, link, wire, live, stored, now>>
    BY <2>1, <2>3, ExecuteSub
  <2>4. CASE SubscribeFails(c) /\ Reconnecting(b) /\ UNCHANGED forgotten
    BY <2>1, <2>4, FailsSub DEF b
  <2> QED
    BY <2>1, <2>2, <2>3, <2>4
<1>2. CASE DrainCommand
  <2>1. /\ cmds # <<>> /\ cmds' = Tail(cmds) /\ handed' = handed
        /\ \/ /\ c.op = "reconnect"
              /\ UNCHANGED <<st, phase, link, out, wire, live, stored, now, cut, forgotten>>
           \/ Execute(c) /\ UNCHANGED <<phase, link, wire, live, stored, now>>
           \/ /\ SubscribeFails(c) /\ st' = b
              /\ UNCHANGED <<link, out, wire, live, stored, now, cut>>
              /\ \/ phase' = "failed_drain" /\ UNCHANGED forgotten
                 \/ /\ phase = "last_drain" /\ phase' = "failed_last"
                    /\ forgotten' = forgotten \cup {c.sub}
    BY <1>2 DEF DrainCommand
  <2> HIDE DEF b
  <2>2. CASE /\ c.op = "reconnect"
             /\ UNCHANGED <<st, phase, link, out, wire, live, stored, now, cut, forgotten>>
    <3>1. CmdsRest
      BY <2>1, <2>2 DEF CmdsRest
    <3> QED
      BY <2>1, <2>2, <3>1, QuietStep, SameSubsRefl, RepairingSame, WireSame, OutSame
  <2>3. CASE Execute(c) /\ UNCHANGED <<phase, link, wire, live, stored, now>>
    BY <2>1, <2>3, ExecuteSub
  <2>4. CASE /\ SubscribeFails(c) /\ st' = b
             /\ UNCHANGED <<link, out, wire, live, stored, now, cut>>
             /\ \/ phase' = "failed_drain" /\ UNCHANGED forgotten
                \/ /\ phase = "last_drain" /\ phase' = "failed_last"
                   /\ forgotten' = forgotten \cup {c.sub}
    BY <2>1, <2>4, FailsSub DEF b
  <2> QED
    BY <2>1, <2>2, <2>3, <2>4
<1>3. CASE DrainFailed
  <2>1. /\ cmds # <<>> /\ cmds' = Tail(cmds) /\ st' = Applied(st, c)
        /\ cut' = cut \cup DropsForgotten(c)
        /\ UNCHANGED <<phase, link, out, wire, live, stored, now, handed>>
        /\ phase \in {"failed_drain", "failed_last"}
        /\ forgotten' = IF phase = "failed_last" /\ c.op = "subscribe"
                        THEN forgotten \cup {c.sub} ELSE forgotten
    BY <1>3 DEF DrainFailed
  <2>2. Repairing \/ phase = "failed_last"
    BY <2>1 DEF Repairing
  <2> QED
    BY <2>1, <2>2, AppliedSub
<1>4. CASE ApplyCommand
  <2>1. /\ cmds # <<>> /\ cmds' = Tail(cmds) /\ st' = Applied(st, c)
        /\ cut' = cut \cup DropsForgotten(c)
        /\ UNCHANGED <<phase, link, out, wire, live, stored, now, handed, forgotten>>
        /\ Repairing
    BY <1>4 DEF ApplyCommand, Repairing
  <2> QED
    BY <2>1, AppliedSub
<1> QED
  BY <1>1, <1>2, <1>3, <1>4

(* Between sockets nothing is on its way. *)
DownInv == phase = "down" => link = "dead" /\ wire = <<>>

LEMMA DownNext ==
    ASSUME TypeInv, DownInv, [Next]_vars PROVE DownInv'
<1> USE DEF relayVars, handVars, frameVars
<1>1. DropSocket => DownInv'
  BY DEF DropSocket, DownInv
<1>2. phase' # "down" => DownInv'
  BY DEF DownInv
<1>3. UNCHANGED <<phase, link, wire>> => DownInv'
  BY DEF DownInv
<1>4. CASE ClientStep
  <2>1. CASE MainCommand
    BY <1>1, <1>2, <2>1 DEF MainCommand, Reconnecting
  <2>2. CASE ApplyCommand \/ DrainFailed
    BY <1>3, <2>2 DEF ApplyCommand, DrainFailed
  <2>3. CASE DrainCommand \/ DrainDone \/ FailedDrainDone
    BY <1>1, <1>2, <2>3 DEF DrainCommand, DrainDone, FailedDrainDone
  <2>4. CASE ConnectGated
    BY <1>2, <2>4 DEF ConnectGated
  <2>5. CASE Connect
    <3>1. wire' = wire /\ (phase' = "drain" \/ UNCHANGED <<phase, link>>)
      BY <2>5, ConnectParts DEF ConnectWith
    <3> QED
      BY <1>2, <1>3, <3>1
  <2>6. ASSUME NEW s \in Sub, DrainPending(s) \/ ParkRetry(s) \/ RecoverOne(s)
        PROVE  DownInv'
    BY <1>3, <2>6 DEF DrainPending, ParkRetry, RecoverOne
  <2>7. CASE DrainFrame
    BY <1>3, <2>7 DEF DrainFrame
  <2>8. CASE DetectLoss
    BY <1>1, <2>8 DEF DetectLoss, Reconnecting
  <2>9. CASE HandleEvent \/ HandleNotice \/ HandleOk
    BY <1>2, <2>9 DEF HandleEvent, HandleNotice, HandleOk, Received
  <2>10. CASE HandleClosed
    BY <1>1, <1>2, <2>10, ClosedOutcomes
       DEF ClosedDenied, ClosedLimited, ClosedIgnored, ClosedAnswered, ClosedDrops,
           ClosedQuietly, Reconnecting
  <2> QED
    BY <1>4, <2>1, <2>2, <2>3, <2>4, <2>5, <2>6, <2>7, <2>8, <2>9, <2>10 DEF ClientStep
<1>5. CASE RequeueAgain \/ GateExpires \/ NextEvent \/ PublishFrame \/ UNCHANGED vars
  BY <1>3, <1>5 DEF RequeueAgain, GateExpires, NextEvent, PublishFrame, Issue, vars
<1>6. CASE \/ \E c \in Channel : SubscribeChannel(c) \/ UnsubscribeChannel(c)
           \/ \E s \in Control : SubscribeControl(s)
  BY <1>3, <1>6 DEF SubscribeChannel, UnsubscribeChannel, SubscribeControl, Issue
<1>7. ASSUME NEW s \in Sub, Publish(s) \/ PublishUnseen(s) PROVE DownInv'
  <2>1. UNCHANGED <<phase, link, live>> /\ (s \notin live => wire' = wire)
    BY <1>7, PublishWire
  <2>2. link = "dead" => live = {}
    BY DEF TypeInv, LinkType
  <2> QED
    BY <2>1, <2>2 DEF DownInv
<1>8. ASSUME link = "up", UNCHANGED phase PROVE DownInv'
  BY <1>8 DEF DownInv
<1>9. CASE Serve \/ (\E r \in Reason : Refuse(r)) \/ LinkDies
  BY <1>8, <1>9, ServeParts, RefuseParts, LinkDiesParts
<1>10. CASE Throttle \/ ThrottleAll \/ \E c \in Channel : Evict(c)
  BY <1>8, <1>10, TellParts
<1> QED
  BY <1>4, <1>5, <1>6, <1>7, <1>9, <1>10 DEF Next

(* The main loop. *)
LEMMA LoopSub ==
    ASSUME TypeInv, NEW s \in Sub, DrainPending(s) \/ ParkRetry(s) \/ RecoverOne(s)
    PROVE  SubStep
<1> USE DEF relayVars, handVars, frameVars
<1>1. /\ UNCHANGED <<phase, link, wire, live, stored, now, cmds, handed>>
  BY DEF DrainPending, ParkRetry, RecoverOne
<1>2. (Repairing => Repairing') /\ Arriving' = Arriving /\ Refusals' = Refusals /\ CmdsRest
  BY <1>1, RepairingSame, WireSame DEF CmdsRest
<1>3. Req(s, Since(s)) \in Outgoing /\ Req(s, Since(s)).type = "REQ"
  BY SinceFacts, Constructors DEF Req
<1>4. CASE DrainPending(s)
  <2>1. /\ st'.active = st.active /\ st'.floor = st.floor /\ st'.last = st.last
        /\ st.parked \ {s} \subseteq st'.parked /\ st.retry \ {s} \subseteq st'.retry
        /\ s \in st.active =>
             \A t \in Sub : st'.dropped[t] = IF t = s THEN None ELSE st.dropped[t]
        /\ s \notin st.active => st'.dropped = st.dropped
    BY <1>4, DrainPendingSt
  <2>2. \A t \in ParkedSubs : t # s => t \in ParkedSubs'
    BY <2>1 DEF ParkedSubs
  <2>3. forgotten' = forgotten \ {s}
    BY <1>4 DEF DrainPending
  <2>4. CASE s \in st.active
    <3>1. ReqWritten(Req(s, Since(s)))
      BY <1>3, <1>4, <2>4, WroteReq DEF DrainPending
    <3>2. ReplayAsked(s)
      BY <1>1, <1>2, <2>1, <2>2, <2>3, <2>4, <3>1 DEF ReplayAsked
    <3> QED
      BY <3>2 DEF SubStep
  <2>5. CASE s \notin st.active
    <3>1. UNCHANGED <<out, cut>>
      BY <1>4, <2>5 DEF DrainPending
    <3>2. CursorsSame /\ Asks' = Asks
      BY <2>1, <2>5, <3>1, OutSame DEF CursorsSame
    <3>3. SubsQuiet
      BY <1>1, <1>2, <2>2, <2>3, <2>5, <3>1, <3>2 DEF SubsQuiet
    <3> QED
      BY <3>3 DEF SubStep
  <2> QED
    BY <2>4, <2>5
<1>5. CASE ParkRetry(s)
  <2>1. CursorsSame /\ st'.parked = st.parked \cup {s} /\ st'.retry = st.retry \ {s}
    BY <1>5, ParkRetrySt DEF CursorsSame
  <2>2. \A t \in ParkedSubs : t \in ParkedSubs'
    BY <2>1 DEF ParkedSubs
  <2>3. UNCHANGED <<out, cut, forgotten>>
    BY <1>5 DEF ParkRetry
  <2>4. Asks' = Asks
    BY <2>3, OutSame
  <2>5. SubsQuiet
    BY <1>1, <1>2, <2>1, <2>2, <2>3, <2>4 DEF SubsQuiet
  <2> QED
    BY <2>5 DEF SubStep
<1>6. CASE RecoverOne(s)
  <2>1. st' = Cleared(st, {s}) /\ Wrote(Req(s, Since(s))) /\ s \in st.active
        /\ forgotten' = forgotten \ {s}
    BY <1>6 DEF RecoverOne, Recoverable
  <2>2. /\ st'.active = st.active /\ st'.floor = st.floor /\ st'.last = st.last
        /\ st'.parked = st.parked /\ st'.retry = st.retry
        /\ \A t \in Sub : st'.dropped[t] = IF t \in {s} THEN None ELSE st.dropped[t]
    BY <2>1, ClearedSt
  <2>3. \A t \in ParkedSubs : t \in ParkedSubs'
    BY <2>2 DEF ParkedSubs
  <2>4. ReqWritten(Req(s, Since(s)))
    BY <1>3, <2>1, WroteReq
  <2>5. ReplayAsked(s)
    BY <1>1, <1>2, <2>1, <2>2, <2>3, <2>4 DEF ReplayAsked
  <2> QED
    BY <2>5 DEF SubStep
<1> QED
  BY <1>4, <1>5, <1>6

(* The messages read. *)
LEMMA ReadSub ==
    ASSUME TypeInv, IdSets, HandleEvent \/ HandleNotice \/ HandleOk
    PROVE  SubStep
<1> DEFINE e == Head(wire).id
<1> USE DEF relayVars, handVars, frameVars
<1>1. /\ wire # <<>> /\ wire' = Tail(wire)
      /\ UNCHANGED <<phase, link, out, live, stored, now, cmds, forgotten>>
  BY DEF HandleEvent, HandleNotice, HandleOk, Received
<1>2. (Repairing => Repairing') /\ Asks' = Asks /\ CmdsRest
  BY <1>1, RepairingSame, OutSame DEF CmdsRest
<1>3. CASE HandleEvent
  <2>1. Head(wire).type = "EVENT" /\ \/ Seen(e) /\ UNCHANGED <<st, handed, cut>>
                                     \/ NewEvent(e)
    BY <1>3 DEF HandleEvent, Received
  <2>2. e \in DOMAIN stored /\ Arriving = Arriving' \cup {e} /\ Refusals' = Refusals
    BY <1>1, <2>1, HeadMessage, ReadFacts
  <2> HIDE DEF e
  <2>3. CASE Seen(e) /\ UNCHANGED <<st, handed, cut>>
    <3>1. e \in handed
      BY <2>3 DEF Seen, IdSets
    <3>2. CursorsSame /\ ParkedSubs' = ParkedSubs
      BY <2>3 DEF CursorsSame, ParkedSubs
    <3>3. SubsQuiet
      BY <1>1, <1>2, <2>2, <2>3, <3>1, <3>2 DEF SubsQuiet
    <3> QED
      BY <3>3 DEF SubStep
  <2>4. CASE NewEvent(e)
    <3>1. /\ st'.active = st.active /\ st'.floor = st.floor
          /\ st'.parked = st.parked /\ st'.retry = st.retry
          /\ EventHanded(e) \/ EventDropped(e)
      BY <2>2, <2>4, NewEventSt
    <3>2. ParkedSubs' = ParkedSubs
      BY <3>1 DEF ParkedSubs
    <3>3. EventRead(e) /\ e \in Arriving
      BY <1>1, <1>2, <2>2, <3>1, <3>2 DEF EventRead
    <3> QED
      BY <3>3 DEF SubStep
  <2> QED
    BY <2>1, <2>3, <2>4
<1>4. CASE HandleNotice \/ HandleOk
  <2>1. Head(wire).type \in {"OK", "NOTICE"} /\ UNCHANGED <<handed, cut>>
    BY <1>4 DEF HandleNotice, HandleOk, Received
  <2>2. Arriving' = Arriving /\ Refusals' = Refusals
    BY <1>1, <2>1, ReadFacts
  <2>3. SameSubs(st', st)
    BY <1>4, HandleNoticeSt, HandleOkSt
  <2> QED
    BY <1>1, <1>2, <2>1, <2>2, <2>3, QuietStep
<1> QED
  BY <1>3, <1>4

LEMMA ClosedSub ==
    ASSUME TypeInv, HandleClosed
    PROVE  SubStep
<1> DEFINE s == Head(wire).sub
<1>1. /\ wire # <<>> /\ Head(wire).type = "CLOSED" /\ s \in Sub
      /\ UNCHANGED <<cmds, handed>>
      /\ \/ ClosedDenied(s) \/ ClosedLimited(s) \/ ClosedIgnored(s) \/ ClosedAnswered(s)
         \/ ClosedDrops
  BY ClosedOutcomes
<1>2. CmdsRest
  BY <1>1 DEF CmdsRest
<1>3. CASE ClosedDrops
  <2>1. Reconnecting(st) /\ UNCHANGED forgotten
    BY <1>3 DEF ClosedDrops
  <2>2. CursorsSame
    BY <2>1, StNow, ReconnectingSt DEF SameSubs, CursorsSame
  <2> QED
    BY <1>1, <1>2, <2>1, <2>2, DropSocketSub DEF Reconnecting, SubStep
<1>4. CASE ClosedDenied(s) \/ ClosedLimited(s) \/ ClosedIgnored(s) \/ ClosedAnswered(s)
  <2>1. wire' = Tail(wire) /\ UNCHANGED <<phase, link, live, stored, now>>
    BY <1>4 DEF ClosedDenied, ClosedLimited, ClosedIgnored, ClosedAnswered, ClosedQuietly
  <2>2. Arriving' = Arriving /\ Refusals = Refusals' \cup {s}
    BY <1>1, <2>1, ReadFacts
  <2>3. Repairing => Repairing'
    BY <2>1, RepairingSame
  <2> HIDE DEF s
  <2>4. CASE ClosedDenied(s)
    <3>1. /\ s \in Channel /\ st' = Removed(st, s) /\ forgotten' = forgotten \ {s}
          /\ cut' = cut \cup DropsOf(s) /\ out' = out
      BY <2>4 DEF ClosedDenied
    <3>2. /\ st'.active = st.active \ {s}
          /\ st'.floor = [st.floor EXCEPT ![s] = None]
          /\ st'.last = [st.last EXCEPT ![s] = None]
          /\ st'.dropped = [st.dropped EXCEPT ![s] = None]
          /\ st'.parked = st.parked \ {s} /\ st'.retry = st.retry \ {s}
      BY <1>1, <3>1, RemovedSt
    <3>3. (\A t \in ParkedSubs : t # s => t \in ParkedSubs') /\ Asks' = Asks
      BY <3>1, <3>2, OutSame DEF ParkedSubs
    <3>4. ChannelLeft(s)
      BY <1>1, <1>2, <2>1, <2>2, <2>3, <3>1, <3>2, <3>3 DEF ChannelLeft
    <3> QED
      BY <1>1, <3>4 DEF SubStep
  <2>5. CASE ClosedLimited(s)
    <3>1. st' = ClosedParks(s) /\ UNCHANGED <<out, cut, forgotten>>
      BY <2>5 DEF ClosedLimited
    <3>2. CursorsSame /\ st'.parked = st.parked \cup {s} /\ st'.retry = st.retry
      BY <1>1, <3>1, ClosedParksFields DEF CursorsSame
    <3>3. (\A t \in ParkedSubs : t \in ParkedSubs') /\ s \in ParkedSubs' /\ Asks' = Asks
      BY <3>1, <3>2, OutSame DEF ParkedSubs
    <3>4. SubsQuiet
      BY <1>1, <1>2, <2>1, <2>2, <2>3, <3>1, <3>2, <3>3 DEF SubsQuiet
    <3> QED
      BY <3>4 DEF SubStep
  <2>6. CASE ClosedIgnored(s)
    <3>1. s \notin st.active /\ UNCHANGED <<st, out, cut, forgotten>>
      BY <2>6 DEF ClosedIgnored
    <3>2. CursorsSame /\ ParkedSubs' = ParkedSubs /\ Asks' = Asks
      BY <3>1, OutSame DEF CursorsSame, ParkedSubs
    <3>3. SubsQuiet
      BY <1>1, <1>2, <2>1, <2>2, <2>3, <3>1, <3>2 DEF SubsQuiet
    <3> QED
      BY <3>3 DEF SubStep
  <2>7. CASE ClosedAnswered(s)
    <3>1. /\ s \in st.active /\ Wrote(Req(s, Since(s))) /\ st' = Cleared(st, {s})
          /\ forgotten' = forgotten \ {s}
      BY <2>7 DEF ClosedAnswered
    <3>2. /\ st'.active = st.active /\ st'.floor = st.floor /\ st'.last = st.last
          /\ st'.parked = st.parked /\ st'.retry = st.retry
          /\ \A t \in Sub : st'.dropped[t] = IF t \in {s} THEN None ELSE st.dropped[t]
      BY <1>1, <3>1, ClearedSt
    <3>3. ReqWritten(Req(s, Since(s)))
      <4>1. Req(s, Since(s)) \in Outgoing /\ Req(s, Since(s)).type = "REQ"
        BY <1>1, SinceFacts, Constructors DEF Req
      <4> QED
        BY <3>1, <4>1, WroteReq
    <3>4. \A t \in ParkedSubs : t \in ParkedSubs'
      BY <3>2 DEF ParkedSubs
    <3>5. ReplayAsked(s)
      BY <1>1, <2>1, <2>2, <2>3, <3>1, <3>2, <3>3, <3>4 DEF ReplayAsked
    <3> QED
      BY <1>1, <3>5 DEF SubStep
  <2> QED
    BY <1>4, <2>4, <2>5, <2>6, <2>7
<1> QED
  BY <1>1, <1>3, <1>4

(* A fresh socket. *)
LEMMA ConnectSub ==
    ASSUME TypeInv, DownInv, ConnectGated \/ Connect
    PROVE  SubStep
<1> USE DEF relayVars, handVars, frameVars
<1>1. phase = "down" /\ wire' = wire /\ UNCHANGED <<cmds, live, stored, now, handed>>
  BY DEF ConnectGated, Connect
<1>2. out = <<>> /\ wire = <<>>
  BY <1>1 DEF DownInv, TypeInv, LinkType
<1>3. Asks = {} /\ Arriving = {} /\ Arriving' = {}
  BY <1>1, <1>2, EmptyFacts DEF Asks, Arriving
<1>4. CASE ConnectGated
  <2>1. CursorsSame /\ st'.parked = st.active
    BY <1>4, ConnectGatedSt DEF CursorsSame
  <2>2. UNCHANGED <<out, cut>>
    BY <1>4 DEF ConnectGated
  <2>3. st.active \subseteq ParkedSubs' /\ Asks' = Asks
    BY <2>1, <2>2, OutSame DEF ParkedSubs
  <2>4. Reconnected
    BY <1>1, <1>3, <2>1, <2>2, <2>3 DEF Reconnected, ConnectedGated
  <2> QED
    BY <2>4 DEF SubStep
<1>5. CASE Connect
  <2>1. PICK failing \in SUBSET st.active, sent \in SUBSET st.active :
          \E frames : ConnectWith(failing, sent, frames)
    BY <1>5, ConnectParts
  <2>2. PICK frames : ConnectWith(failing, sent, frames)
    BY <2>1
  <2>3. /\ ToSet(frames) = Burst(sent)
        /\ st'.active = st.active /\ st'.floor = st.floor /\ st'.last = st.last
        /\ st'.retry = failing \cap Channel
        /\ \A t \in Sub : st'.dropped[t] = IF t \in sent THEN None ELSE st.dropped[t]
        /\ \/ /\ sent = st.active \ failing /\ failing \subseteq Channel
              /\ out' = frames /\ cut' = cut
           \/ /\ cut' = cut \cup AskedBy(frames)
              /\ UNCHANGED <<phase, link, out, forgotten>>
    BY <2>2 DEF ConnectWith
  <2>4. CASE sent = st.active \ failing /\ failing \subseteq Channel /\ out' = frames /\ cut' = cut
    <3>1. Asks' = Burst(sent)
      <4>1. \A m \in Burst(sent) : m.type = "REQ"
        BY DEF Burst, Req
      <4> QED
        BY <2>3, <2>4, <4>1 DEF Asks
    <3>2. st.active \subseteq sent \cup ParkedSubs'
      BY <2>3, <2>4 DEF ParkedSubs
    <3>3. Connected(sent)
      BY <2>3, <2>4, <3>1, <3>2 DEF Connected
    <3> QED
      BY <1>1, <1>3, <3>3 DEF Reconnected, SubStep
  <2>5. CASE cut' = cut \cup AskedBy(frames) /\ UNCHANGED <<phase, link, out, forgotten>>
    <3>1. AskedBy(frames) = {e \in Unhanded : \E m \in Burst(sent) : e \in Requested(m)}
      BY <2>3 DEF AskedBy
    <3>2. Repairing' /\ Asks' = Asks
      BY <1>1, <2>5, OutSame DEF Repairing
    <3>3. Connected(sent)
      BY <2>3, <2>5, <3>1, <3>2 DEF Connected
    <3> QED
      BY <1>1, <1>3, <3>3 DEF Reconnected, SubStep
  <2> QED
    BY <2>3, <2>4, <2>5
<1> QED
  BY <1>4, <1>5

(* The relay and the network. *)
LEMMA PublishSub ==
    ASSUME TypeInv, NEW s \in Sub \ {Observer}, Publish(s) \/ PublishUnseen(s)
    PROVE  SubStep
<1> DEFINE n == Len(stored) + 1
<1>1. PICK e \in StoredEvent :
        /\ e.sub = s /\ e.ts + Skew >= now /\ e.ts <= now'
        /\ now' \in Nat /\ now' >= now /\ Len(stored) \in Nat
        /\ DOMAIN stored = 1..Len(stored) /\ DOMAIN stored' = 1..(Len(stored) + 1)
        /\ \A i \in DOMAIN stored : stored'[i] = stored[i]
        /\ stored'[Len(stored) + 1] = e
        /\ \/ e.ts >= now' \/ now' = now
  <2>1. StoreEvent(s)
    BY PublishWire
  <2> QED
    BY <2>1, PublishParts
<1>2. n \notin DOMAIN stored /\ DOMAIN stored' = DOMAIN stored \cup {n} /\ e.ts \in Positive
  BY <1>1 DEF StoredEvent
<1>3. /\ UNCHANGED <<st, phase, link, out, live, handed, cut, forgotten, cmds>>
      /\ \/ s \in live /\ ToSet(wire') = ToSet(wire) \cup {Event(n)}
         \/ (s \in live => n \in unsent') /\ wire' = wire
  BY PublishWire
<1> HIDE DEF n
<1>4. /\ Refusals' = Refusals
      /\ \/ s \in live /\ Arriving' = Arriving \cup {n}
         \/ (s \in live => n \in unsent') /\ Arriving' = Arriving
  <2>1. {Event(n)} = {Event(x) : x \in {n}}
    OBVIOUS
  <2>2. ToSet(wire') = ToSet(wire) \cup {Event(n)} => Arriving' = Arriving \cup {n} /\ Refusals' = Refusals
    BY <2>1, WireAdds
  <2> QED
    BY <1>3, <2>2, WireSame
<1>5. Asks' = Asks
  BY <1>3, OutSame
<1>6. EventStored(s)
  BY <1>1, <1>2, <1>3, <1>4, <1>5 DEF EventStored, n
<1> QED
  BY <1>6 DEF SubStep

LEMMA RelaySub ==
    ASSUME TypeInv,
           \/ Serve \/ (\E r \in Reason : Refuse(r)) \/ LinkDies
           \/ Throttle \/ ThrottleAll \/ \E c \in Channel : Evict(c)
    PROVE  SubStep
<1>1. CASE Serve
  <2>1. PICK m \in Outgoing : m \in ToSet(out) /\ Answered(m)
    BY <1>1, ServeParts
  <2>2. UNCHANGED <<st, phase, link, stored, now, cmds, handed, cut, forgotten>>
    BY <1>1, ServeParts
  <2>3. RelayTook /\ (Repairing => Repairing') /\ CmdsRest /\ SameSubs(st', st)
    BY <2>2, RepairingSame, SameSubsRefl DEF RelayTook, CmdsRest
  <2>4. CASE m.type = "REQ" /\ Turned(m) /\ live' = live \cup {m.sub} /\ wire' = wire
    <3>1. ReqRegistered(m) /\ m \in Asks
      BY <2>1, <2>2, <2>3, <2>4, OutTurns, WireSame DEF ReqRegistered
    <3> QED
      BY <3>1 DEF SubStep
  <2>5. ASSUME m.type = "QUERY", Taken(m), live' = live, NEW sent, Replayed(m, sent)
        PROVE  SubStep
    <3>1. Arriving' = Arriving \cup sent /\ Refusals' = Refusals
      BY <2>5, WireAdds DEF Replayed
    <3>2. /\ Asks' \subseteq Asks /\ Asks \subseteq Asks' \cup {m} /\ m \in Asks
      BY <2>1, <2>5, OutTakes
    <3>3. AskedBy(<<m>>) = Unhanded \cap Requested(m) /\ Carrying(wire) = Unhanded \cap Arriving
      BY <2>5, RequestedNow, SocketNow
    <3>4. \A e \in Unhanded \cap Requested(m) : e \in Arriving' \cup unsent'
      BY <2>5, <3>1, <3>3 DEF Replayed
    <3>5. sent \subseteq Requested(m)
      BY <2>5 DEF Replayed
    <3>6. HistorySent(m)
      BY <2>2, <2>3, <2>5, <3>1, <3>2, <3>4, <3>5 DEF HistorySent
    <3> QED
      BY <3>2, <3>6 DEF SubStep
  <2>6. CASE /\ m.type = "CLOSE" /\ Taken(m) /\ live' = live \ {m.sub}
             /\ ToSet(wire') = ToSet(wire) \cup {Closed(m.sub, "other")}
    <3>1. Arriving' = Arriving /\ Refusals' = Refusals \cup {m.sub}
      BY <2>6, WireAdds
    <3>2. CloseServed(m.sub)
      BY <2>1, <2>2, <2>3, <2>6, <3>1, OutTakes DEF CloseServed
    <3>3. m.sub \in Sub
      BY <2>1, <2>6, Types DEF Outgoing
    <3> QED
      BY <3>2, <3>3 DEF SubStep
  <2>7. CASE /\ m.type = "FRAME" /\ Taken(m) /\ live' = live
             /\ ToSet(wire') = ToSet(wire) \cup {Ok(m.frame, TRUE)}
    <3> DEFINE M == {Ok(m.frame, TRUE)}
    <3>1. (\A x \in M : x.type \in {"OK", "NOTICE"}) /\ ToSet(wire') = ToSet(wire) \cup M
      BY <2>7 DEF Ok
    <3> HIDE DEF M
    <3>2. Arriving' = Arriving /\ Refusals' = Refusals
      BY <3>1, WireAdds
    <3>3. Asks' = Asks
      BY <2>1, <2>7, OutTakes
    <3> QED
      BY <2>2, <2>3, <2>7, <3>2, <3>3, QuietStep
  <2> QED
    BY <2>1, <2>4, <2>5, <2>6, <2>7 DEF Answered
<1>2. ASSUME NEW r \in Reason, Refuse(r) PROVE SubStep
  <2>1. PICK m \in Outgoing :
          /\ m \in ToSet(out) /\ m.type = "REQ" /\ m.sub \in Sub /\ Taken(m)
          /\ ToSet(wire') = ToSet(wire) \cup {Closed(m.sub, r)}
          /\ cut' = cut \cup AskedBy(<<m>>)
    BY <1>2, RefuseParts
  <2>2. UNCHANGED <<st, phase, link, live, stored, now, cmds, handed, forgotten>>
    BY <1>2, RefuseParts
  <2>3. Asks' \subseteq Asks /\ Asks \subseteq Asks' \cup {m} /\ m \in Asks
    BY <2>1, OutTakes
  <2>4. Arriving' = Arriving /\ Refusals' = Refusals \cup {m.sub}
    BY <2>1, WireAdds
  <2>5. AskedBy(<<m>>) = Unhanded \cap Requested(m)
    BY <2>1, RequestedNow
  <2>6. ReqRefused(m)
    BY <2>1, <2>2, <2>3, <2>4, <2>5 DEF ReqRefused, RelayTook
  <2> QED
    BY <2>3, <2>6 DEF SubStep
<1>3. CASE Throttle \/ ThrottleAll \/ \E c \in Channel : Evict(c)
  <2>1. PICK x \in Incoming : Told(x) /\ ToSet(wire') = ToSet(wire) \cup {x}
    BY <1>3, TellParts
  <2>2. UNCHANGED <<st, phase, link, stored, now, cmds, handed, cut, forgotten>>
    BY <1>3, TellParts
  <2>3. /\ (Repairing => Repairing') /\ CmdsRest /\ SameSubs(st', st) /\ RelayTook
    BY <2>2, RepairingSame, SameSubsRefl DEF CmdsRest, RelayTook
  <2>4. CASE live' = live /\ x.type \in {"OK", "NOTICE"} /\ Asks' = Asks
    <3> DEFINE M == {x}
    <3>1. (\A y \in M : y.type \in {"OK", "NOTICE"}) /\ ToSet(wire') = ToSet(wire) \cup M
      BY <2>1, <2>4
    <3> HIDE DEF M
    <3>2. Arriving' = Arriving /\ Refusals' = Refusals
      BY <3>1, WireAdds
    <3> QED
      BY <2>2, <2>3, <2>4, <3>2, QuietStep
  <2>5. ASSUME x = Notice, out' = out, live' = live PROVE SubStep
    BY <2>4, <2>5, OutSame DEF Notice
  <2>6. ASSUME NEW m \in Outgoing, m \in ToSet(out), m.type = "FRAME", Taken(m), live' = live,
               x = Ok(m.frame, FALSE)
        PROVE  SubStep
    BY <2>4, <2>6, OutTakes DEF Ok
  <2>7. ASSUME NEW c \in Channel, x = Closed(c, "denied"), out' = out, live' = live \ {c}
        PROVE  SubStep
    <3>1. ToSet(wire') = ToSet(wire) \cup {Closed(c, "denied")} /\ c \in Sub
      BY <2>1, <2>7, Types
    <3>2. Arriving' = Arriving /\ Refusals' = Refusals \cup {c}
      BY <3>1, WireAdds
    <3>3. CloseServed(c)
      BY <2>2, <2>3, <2>7, <3>2, OutSame DEF CloseServed
    <3> QED
      BY <3>1, <3>3 DEF SubStep
  <2> QED
    BY <2>1, <2>5, <2>6, <2>7 DEF Told
<1>4. CASE LinkDies
  <2>1. /\ link' = "dead" /\ live' = {} /\ out' = <<>> /\ ToSet(wire') \subseteq ToSet(wire)
        /\ cut' = cut \cup AskedBy(out) \cup (Carrying(wire) \ Carrying(wire'))
        /\ UNCHANGED <<st, phase, stored, now, cmds, handed, forgotten>>
    BY <1>4, LinkDiesParts
  <2>2. Asks' = {} /\ Arriving' \subseteq Arriving /\ Repairing'
    BY <2>1, EmptyFacts DEF Asks, Arriving, Repairing
  <2>3. AskedBy(out) = {e \in Unhanded : Asked(e)} /\ Carrying(wire) = Unhanded \cap Arriving
    BY SocketNow
  <2>4. Carrying(wire') = Unhanded \cap Arriving'
    <3>1. \A e : e \in Carrying(wire') <=> e \in Unhanded /\ e \in Arriving'
      BY DEF Carrying, Carried, Arriving
    <3> QED
      BY <3>1
  <2>5. Carrying(wire) \ Carrying(wire') = Unhanded \cap (Arriving \ Arriving')
    BY <2>3, <2>4
  <2>6. CmdsRest /\ CursorsSame
    BY <2>1 DEF CmdsRest, CursorsSame
  <2>7. SocketLost
    BY <2>1, <2>2, <2>3, <2>5, <2>6 DEF SocketLost
  <2> QED
    BY <2>7 DEF SubStep
<1> QED
  BY <1>1, <1>2, <1>3, <1>4

LEMMA SubCases ==
    ASSUME TypeInv, NewestInv, IdSets, DownInv, [Next]_vars PROVE SubStep
<1> USE DEF relayVars, handVars, frameVars
<1>1. ASSUME CmdsRest, SameSubs(st', st), Repairing => Repairing',
             UNCHANGED <<out, wire, live, stored, now, handed, cut, forgotten>>
      PROVE  SubStep
  BY <1>1, QuietStep, WireSame, OutSame
<1>2. ASSUME CmdsRest, UNCHANGED <<st, phase, link, out, wire, live, stored, now, handed, cut, forgotten>>
      PROVE  SubStep
  BY <1>1, <1>2, SameSubsRefl, RepairingSame
<1>3. cmds' = cmds => CmdsRest
  BY DEF CmdsRest
<1>4. CASE ClientStep
  <2>1. CASE DrainDone
    <3>1. UNCHANGED <<st, link, out, wire, live, stored, now, cmds, handed, cut, forgotten>>
          /\ (Repairing => Repairing')
      BY <2>1 DEF DrainDone, Repairing
    <3> QED
      BY <1>1, <1>3, <3>1, SameSubsRefl
  <2>2. CASE FailedDrainDone
    <3>1. /\ UNCHANGED <<st, cmds, handed, forgotten>>
          /\ \/ DropSocket
             \/ /\ phase = "failed_last"
                /\ UNCHANGED <<link, out, wire, live, stored, now, cut>>
      BY <2>2 DEF FailedDrainDone
    <3>2. CASE DropSocket
      <4>1. CursorsSame
        BY <3>1 DEF CursorsSame
      <4> QED
        BY <1>3, <3>1, <3>2, <4>1, DropSocketSub DEF SubStep
    <3>3. CASE phase = "failed_last" /\ UNCHANGED <<link, out, wire, live, stored, now, cut>>
      <4>1. Repairing => Repairing'
        BY <3>3 DEF Repairing
      <4> QED
        BY <1>1, <1>3, <3>1, <3>3, <4>1, SameSubsRefl
    <3> QED
      BY <3>1, <3>2, <3>3
  <2>3. CASE DrainFrame
    <3>1. /\ Wrote(Frame(Head(st.pending)))
          /\ UNCHANGED <<phase, link, wire, live, stored, now, cmds, handed, forgotten>>
      BY <2>3 DEF DrainFrame
    <3>2. SameSubs(st', st) /\ Head(st.pending) \in Positive
      BY <2>3, DrainFrameSt
    <3>3. Frame(Head(st.pending)) \in Outgoing /\ Frame(Head(st.pending)).type = "FRAME"
      BY <3>2, Constructors DEF Frame
    <3>4. Asks' = Asks /\ cut' = cut
      BY <3>1, <3>3, WroteOther
    <3> QED
      BY <1>3, <3>1, <3>2, <3>4, QuietStep, WireSame, RepairingSame
  <2>4. CASE DetectLoss
    <3>1. Reconnecting(st) /\ UNCHANGED <<cmds, handed, forgotten>>
      BY <2>4 DEF DetectLoss
    <3>2. CursorsSame
      BY <3>1, StNow, ReconnectingSt DEF SameSubs, CursorsSame
    <3> QED
      BY <1>3, <3>1, <3>2, DropSocketSub DEF Reconnecting, SubStep
  <2> QED
    BY <1>4, <2>1, <2>2, <2>3, <2>4, CommandSub, ConnectSub, LoopSub, ReadSub, ClosedSub
       DEF ClientStep
<1>5. CASE RequeueAgain
  <2>1. SameSubs(st', st)
    BY <1>5, StNow, RequeuedFields DEF RequeueAgain
  <2>2. UNCHANGED <<phase, link, out, wire, live, stored, now, cmds, handed, cut, forgotten>>
    BY <1>5 DEF RequeueAgain
  <2> QED
    BY <1>1, <1>3, <2>1, <2>2, RepairingSame
<1>6. CASE GateExpires
  <2>1. SameSubs(st', st)
    BY <1>6, GateExpiresSt
  <2>2. UNCHANGED <<phase, link, out, wire, live, stored, now, cmds, handed, cut, forgotten>>
    BY <1>6 DEF GateExpires
  <2> QED
    BY <1>1, <1>3, <2>1, <2>2, RepairingSame
<1>7. CASE UNCHANGED vars
  BY <1>2, <1>3, <1>7 DEF vars
<1>8. ASSUME NEW c \in Command, c.op = "subscribe" => c.since = BeginThen(c.sub), Issue(c)
      PROVE  SubStep
  BY <1>2, <1>8 DEF Issue, CmdsRest
<1>9. ASSUME NEW s \in Sub, NEW t \in Nat, Startup <= t, t = BeginThen(s),
             Issue([op |-> "subscribe", sub |-> s, since |-> t])
      PROVE  SubStep
  <2> DEFINE c == [op |-> "subscribe", sub |-> s, since |-> t]
  <2>1. c \in Command /\ c.since = BeginThen(c.sub)
    BY <1>9, SubscribeOf
  <2>2. Issue(c)
    BY <1>9
  <2> HIDE DEF c
  <2> QED
    BY <1>8, <2>1, <2>2
<1>10. CASE \/ \E s \in Channel : SubscribeChannel(s) \/ UnsubscribeChannel(s)
            \/ \E s \in Control : SubscribeControl(s)
  <2>1. ASSUME NEW s \in Channel, SubscribeChannel(s) PROVE SubStep
    <3>1. PICK t \in Nat : SubscribedFrom(s, t)
      BY <2>1, SubscribeParts
    <3>2. t = BeginThen(s) /\ s \in Sub
      BY <3>1, Types DEF SubscribedFrom, BeginThen, NewestInv
    <3> QED
      BY <1>9, <3>1, <3>2 DEF SubscribedFrom
  <2>2. ASSUME NEW s \in Control, SubscribeControl(s) PROVE SubStep
    <3>1. Issue([op |-> "subscribe", sub |-> s, since |-> now])
      BY <2>2 DEF SubscribeControl
    <3>2. now = BeginThen(s) /\ s \in Sub /\ now \in Nat /\ Startup <= now
      BY <2>2, <3>1, Types DEF Issue, BeginThen, TypeInv, EnvType
    <3> QED
      BY <1>9, <3>1, <3>2
  <2>3. ASSUME NEW s \in Channel, UnsubscribeChannel(s) PROVE SubStep
    <3> DEFINE c == [op |-> "unsubscribe", sub |-> s]
    <3>1. c \in Command /\ c.op # "subscribe"
      BY DEF Command
    <3>2. Issue(c)
      BY <2>3 DEF UnsubscribeChannel
    <3> HIDE DEF c
    <3> QED
      BY <1>8, <3>1, <3>2
  <2> QED
    BY <1>10, <2>1, <2>2, <2>3
<1>11. CASE PublishFrame
  <2> DEFINE c == [op |-> "publish", frame |-> used.frames + 1]
  <2>1. used.frames + 1 \in Positive
    BY DEF TypeInv, EnvType, Spending, Positive
  <2>2. c \in Command /\ c.op # "subscribe"
    BY <2>1 DEF Command
  <2>3. Issue(c)
    BY <1>11 DEF PublishFrame
  <2> HIDE DEF c
  <2> QED
    BY <1>8, <2>2, <2>3
<1>12. CASE NextEvent
  <2> DEFINE c == [op |-> "reconnect"]
  <2>1. c \in Command /\ c.op # "subscribe"
    BY DEF Command
  <2>2. /\ UNCHANGED <<st, phase, link, out, wire, live, stored, now, handed, cut, forgotten>>
        /\ cmds' = Append(cmds, c) \/ cmds' = cmds
    BY <1>12 DEF NextEvent
  <2> HIDE DEF c
  <2>3. CmdsRest
    BY <2>1, <2>2 DEF CmdsRest
  <2> QED
    BY <1>2, <2>2, <2>3
<1> QED
  BY <1>4, <1>5, <1>6, <1>7, <1>10, <1>11, <1>12, PublishSub, RelaySub DEF Next

-----------------------------------------------------------------------------
(***************************************************************************)
(* A subscription is served, asked for, or refused by an answer on its way *)
(* to the task; or the task has it down; or the socket is being replaced.  *)
(***************************************************************************)

Tended(s) ==
    \/ Repairing \/ s \in ParkedSubs \/ s \in live
    \/ (\E m \in Asks : m.type = "REQ" /\ m.sub = s) \/ s \in Refusals

ServedInv == \A s \in st.active \ forgotten : Tended(s)

LEMMA ReqWrittenFacts ==
    ASSUME NEW m, ReqWritten(m), UNCHANGED link
    PROVE  /\ Asks \subseteq Asks' /\ Asks' \subseteq Asks \cup {m}
           /\ m \in Asks' \/ Repairing'
           /\ cut' = cut \/ cut' = cut \cup (Unhanded \cap Requested(m))
           /\ m \in Asks' \/ cut' = cut \cup (Unhanded \cap Requested(m))
  BY DEF ReqWritten, Repairing

LEMMA ReqParts ==
    \A s, t : Req(s, t).type = "REQ" /\ Req(s, t).sub = s /\ Req(s, t).since = t - Skew
  BY DEF Req

LEMMA ServedNext ==
    ASSUME TypeInv, ServedInv, SubStep PROVE ServedInv'
<1> SUFFICES ASSUME NEW s \in st'.active \ forgotten' PROVE Tended(s)'
  BY DEF ServedInv
<1>1. ASSUME Tended(s), Repairing => Repairing', s \in ParkedSubs => s \in ParkedSubs',
             s \in live => s \in live' \cup Refusals',
             \A m \in Asks : m.type = "REQ" => m \in Asks' \/ m.sub \in live' \cup Refusals',
             s \in Refusals => s \in Refusals' \cup ParkedSubs'
      PROVE  Tended(s)'
  BY <1>1 DEF Tended
<1>2. s \in st.active \ forgotten => Tended(s)
  BY DEF ServedInv
<1>3. \/ Repairing' \/ s \in ParkedSubs' \/ s \in Refusals'
      \/ \E m \in Asks' : m.type = "REQ" /\ m.sub = s
      => Tended(s)'
  BY DEF Tended
<1> HIDE DEF Tended
<1>4. CASE SubsQuiet
  <2>1. s \in st.active \ forgotten
    BY <1>4 DEF SubsQuiet, CursorsSame
  <2> QED
    BY <1>1, <1>2, <1>4, <2>1 DEF SubsQuiet
<1>5. CASE SocketLost
  BY <1>3, <1>5 DEF SocketLost
<1>6. CASE Subscribing
  <2> DEFINE c == Head(cmds)
  <2>1. /\ st'.active = st.active \cup {c.sub} /\ forgotten' = forgotten \ {c.sub}
        /\ \A t \in ParkedSubs : t # c.sub => t \in ParkedSubs'
        /\ (Repairing => Repairing') /\ UNCHANGED <<link, live>> /\ Refusals' = Refusals
        /\ (c.sub \in ParkedSubs' /\ Asks' = Asks) \/ ReqWritten(ReqOf(c))
    BY <1>6 DEF Subscribing, Intends
  <2>2. ReqOf(c).sub = c.sub /\ ReqOf(c).type = "REQ"
    BY ReqParts DEF ReqOf
  <2> HIDE DEF c
  <2>3. Asks \subseteq Asks' /\ (c.sub \in ParkedSubs' \/ ReqOf(c) \in Asks' \/ Repairing')
    BY <2>1, ReqWrittenFacts
  <2>4. CASE s = c.sub
    BY <1>3, <2>2, <2>3, <2>4
  <2>5. CASE s # c.sub
    BY <1>1, <1>2, <2>1, <2>3, <2>5
  <2> QED
    BY <2>4, <2>5
<1>7. CASE IntentKept
  <2> DEFINE c == Head(cmds)
  <2>1. /\ st'.active = st.active \cup {c.sub} /\ (Repairing' \/ c.sub \in forgotten')
        /\ forgotten \subseteq forgotten' /\ ParkedSubs \subseteq ParkedSubs'
        /\ (Repairing => Repairing') /\ UNCHANGED live
        /\ Asks' = Asks /\ Refusals' = Refusals
    BY <1>7 DEF IntentKept, Intends
  <2> HIDE DEF c
  <2>2. CASE s = c.sub
    BY <1>3, <2>1, <2>2
  <2>3. CASE s # c.sub
    BY <1>1, <1>2, <2>1, <2>3
  <2> QED
    BY <2>2, <2>3
<1>8. CASE Reconnected
  <2>1. CASE ConnectedGated
    BY <1>3, <2>1 DEF ConnectedGated, CursorsSame
  <2>2. ASSUME NEW sent \in SUBSET st.active, Connected(sent) PROVE Tended(s)'
    <3>1. s \in sent => /\ Req(s, Since(s)) \in Burst(sent) /\ Req(s, Since(s)).sub = s
                        /\ Req(s, Since(s)).type = "REQ"
      BY ReqParts DEF Burst
    <3>2. s \in st.active
      BY <2>2 DEF Connected
    <3> QED
      BY <1>3, <2>2, <3>1, <3>2 DEF Connected
  <2> QED
    BY <1>8, <2>1, <2>2 DEF Reconnected
<1>9. ASSUME NEW x \in Sub, ReplayAsked(x) PROVE Tended(s)'
  <2> DEFINE m == Req(x, Since(x))
  <2>1. m.sub = x /\ m.type = "REQ"
    BY ReqParts
  <2>2. /\ ReqWritten(m) /\ UNCHANGED <<link, live>> /\ st'.active = st.active
        /\ forgotten' = forgotten \ {x} /\ (Repairing => Repairing')
        /\ \A t \in ParkedSubs : t # x => t \in ParkedSubs'
        /\ \A t \in Refusals : t # x => t \in Refusals'
    BY <1>9 DEF ReplayAsked
  <2> HIDE DEF m
  <2>3. Asks \subseteq Asks' /\ (m \in Asks' \/ Repairing')
    BY <2>2, ReqWrittenFacts
  <2>4. CASE s = x
    BY <1>3, <2>1, <2>3, <2>4
  <2>5. CASE s # x
    BY <1>1, <1>2, <2>2, <2>3, <2>5
  <2> QED
    BY <2>4, <2>5
<1>10. ASSUME NEW x \in Sub, ChannelLeft(x) PROVE Tended(s)'
  <2>1. s # x /\ s \in st.active \ forgotten
    BY <1>10 DEF ChannelLeft
  <2> QED
    BY <1>1, <1>2, <1>10, <2>1 DEF ChannelLeft
<1>11. (st' = st => ParkedSubs' = ParkedSubs) /\ (UNCHANGED <<phase, link>> => Repairing' = Repairing)
  BY DEF ParkedSubs, Repairing
<1>12. ASSUME NEW x \in Sub, EventStored(x) \/ CloseServed(x) PROVE Tended(s)'
  <2>1. /\ UNCHANGED <<st, phase, link, forgotten>> /\ Asks' = Asks
        /\ Refusals \subseteq Refusals' /\ live \subseteq live' \cup Refusals'
    BY <1>12 DEF EventStored, CloseServed, RelayTook
  <2> QED
    BY <1>1, <1>2, <1>11, <2>1
<1>13. ASSUME NEW e \in Arriving, EventRead(e) PROVE Tended(s)'
  BY <1>1, <1>2, <1>13 DEF EventRead
<1>14. ASSUME NEW m \in Asks, ReqRegistered(m) \/ ReqRefused(m) PROVE Tended(s)'
  <2>1. /\ UNCHANGED <<st, phase, link, forgotten>> /\ Asks \subseteq Asks' \cup {m}
        /\ Refusals \subseteq Refusals' /\ live \subseteq live' /\ m.sub \in live' \cup Refusals'
    BY <1>14 DEF ReqRegistered, ReqRefused, RelayTook
  <2> QED
    BY <1>1, <1>2, <1>11, <2>1
<1>15. ASSUME NEW m \in Asks, HistorySent(m) PROVE Tended(s)'
  <2>1. /\ UNCHANGED <<st, phase, link, forgotten, live>> /\ Asks \subseteq Asks' \cup {m}
        /\ Refusals' = Refusals /\ m.type = "QUERY"
    BY <1>15 DEF HistorySent, RelayTook
  <2> QED
    BY <1>1, <1>2, <1>11, <2>1
<1> QED
  BY <1>4, <1>5, <1>6, <1>7, <1>8, <1>9, <1>10, <1>12, <1>13, <1>14, <1>15 DEF SubStep

SubsInv == TypeInv /\ NewestInv /\ RecentInv /\ DownInv /\ ServedInv

LEMMA SubsInit ==
    ASSUME Init PROVE SubsInv
<1>1. DownInv
  BY DEF Init, DownInv
<1>2. ServedInv
  BY DEF Init, ServedInv, Tended
<1> QED
  BY <1>1, <1>2, TypeInit, NewestInit, RecentInit DEF SubsInv

LEMMA SubsNext ==
    ASSUME SubsInv, [Next]_vars PROVE SubsInv'
<1>1. SubStep
  BY SubCases DEF SubsInv, RecentInv
<1> QED
  BY <1>1, TypeNext, NewestNext, RecentNext, DownNext, ServedNext DEF SubsInv

(* A subscription that the harness wants is served by the relay, or the    *)
(* task has it down to ask again: no interleaving of refusals, rate        *)
(* limits, lost sockets, failed writes and unsubscribes drops one          *)
(* (execute_connected_command, resubscribe_after_reconnect,                *)
(* handle_ws_message, drain_commands).                                     *)
THEOREM ActiveSubscriptionsServed ==
    Spec => []ActiveIsServed
<1>1. Spec => []SubsInv
  BY SubsInit, SubsNext, PTL DEF Spec
<1>2. ASSUME SubsInv PROVE ActiveIsServed
  <2>1. ASSUME NEW s \in st.active \ forgotten PROVE Served(s)
    <3>1. /\ Tended(s)
          /\ Underway(s) <=> (\E m \in Asks : m.type = "REQ" /\ m.sub = s) \/ s \in Refusals
      BY <1>2, <2>1, SocketNow DEF SubsInv, ServedInv
    <3> QED
      BY <3>1 DEF Tended, Served, Repairing
  <2> QED
    BY <2>1 DEF ActiveIsServed
<1> QED
  BY <1>1, <1>2, PTL

-----------------------------------------------------------------------------
(***************************************************************************)
(* The clock.  No cursor, no REQ and no subscribe is ahead of the time, no *)
(* floor and no subscribe is ahead of where the harness is, and a          *)
(* subscribe that still waits is as young as its channel's floor.          *)
(***************************************************************************)

Subscribes == {i \in DOMAIN cmds : cmds[i].op = "subscribe"}

StoredPast == \A e \in DOMAIN stored : stored[e].ts <= now
CursorsPast ==
    /\ st.last[Membership] # None
    /\ \A s \in Sub : /\ st.last[s] <= now /\ st.floor[s] <= now
                      /\ st.floor[s] <= Begin(s)
                      /\ st.dropped[s] # None => st.last[s] # None
                      /\ s \in st.active => st.floor[s] # None
AsksPast == \A m \in Asks : m.since + Skew <= now
CmdsPast ==
    \A i \in Subscribes :
      /\ cmds[i].since <= now /\ cmds[i].since <= Begin(cmds[i].sub)
      /\ st.floor[cmds[i].sub] <= cmds[i].since
      /\ \A j \in Subscribes : i < j /\ cmds[i].sub = cmds[j].sub => cmds[i].since <= cmds[j].since
ClockInv == StoredPast /\ CursorsPast /\ AsksPast /\ CmdsPast

(* The harness's starting points only advance, and an event that the relay *)
(* left out stays left out until it is sent.                               *)
BeginMoves ==
    \A s \in Sub : /\ Begin(s) \in Nat /\ Begin(s) <= now /\ BeginThen(s) \in Nat
                   /\ Begin(s) <= BeginThen(s) /\ BeginThen(s) <= now'
UnsentMoves == \A e \in unsent : e \in unsent' \cup Arriving'

LEMMA BeginAdvances ==
    ASSUME TypeInv, NewestInv, [Next]_vars PROVE BeginMoves
<1>1. /\ now \in Nat /\ now' \in Nat /\ now' >= now /\ newest \in [Channel -> Nat]
      /\ \A c \in Channel : newest[c] <= now
  BY NewestNext DEF TypeInv, EnvType, NewestInv
<1>2. /\ newest' \in [Channel -> Nat]
      /\ \A c \in Channel : newest'[c] >= newest[c] /\ newest'[c] <= now'
  BY NewestNext DEF NewestInv
<1> QED
  BY <1>1, <1>2 DEF BeginMoves, Begin, BeginThen

LEMMA UnsentStays ==
    ASSUME TypeInv, NewestInv, [Next]_vars PROVE UnsentMoves
<1>1. CASE unsent \subseteq unsent'
  BY <1>1 DEF UnsentMoves
<1>2. CASE Serve
  <2>1. PICK m \in Outgoing : m \in ToSet(out) /\ Answered(m)
    BY <1>2, ServeParts
  <2>2. ASSUME NEW sent, Replayed(m, sent) PROVE UnsentMoves
    <3>1. Arriving' = Arriving \cup sent
      BY <2>2, WireAdds DEF Replayed
    <3> QED
      BY <2>2, <3>1 DEF Replayed, UnsentMoves
  <2> QED
    BY <1>1, <2>1, <2>2 DEF Answered
<1>3. ASSUME NEW s \in Sub, Publish(s) \/ PublishUnseen(s) PROVE unsent \subseteq unsent'
  BY <1>3, PublishWire
<1> USE DEF relayVars, handVars
<1>4. CASE UNCHANGED vars \/ RequeueAgain \/ GateExpires \/ NextEvent \/ PublishFrame
  BY <1>1, <1>4 DEF vars, RequeueAgain, GateExpires, NextEvent, PublishFrame, Issue
<1>5. CASE \/ \E c \in Channel : SubscribeChannel(c) \/ UnsubscribeChannel(c)
           \/ \E s \in Control : SubscribeControl(s)
  <2>1. unsent' = unsent
    BY <1>5 DEF SubscribeChannel, UnsubscribeChannel, SubscribeControl, Issue
  <2> QED
    BY <1>1, <2>1
<1>6. CASE (\E r \in Reason : Refuse(r)) \/ LinkDies
  BY <1>1, <1>6, RefuseParts, LinkDiesParts
<1>7. CASE Throttle \/ ThrottleAll \/ \E c \in Channel : Evict(c)
  BY <1>1, <1>7, TellParts
<1>8. CASE ClientStep
  BY <1>1, <1>8, EnvClient DEF EnvQuiet
<1> QED
  BY <1>1, <1>2, <1>3, <1>4, <1>5, <1>6, <1>7, <1>8 DEF Next

LEMMA SubscribeAt ==
    ASSUME TypeInv, NEW i \in Subscribes
    PROVE  /\ i \in Nat /\ i >= 1 /\ i <= Len(cmds)
           /\ cmds[i].sub \in Sub /\ cmds[i].since \in Positive
<1>1. cmds \in Seq(Command) /\ i \in 1..Len(cmds) /\ Len(cmds) \in Nat /\ cmds[i].op = "subscribe"
  BY SeqFacts DEF Subscribes, TypeInv, EnvType
<1>2. cmds[i] \in Command
  BY <1>1, SeqFacts
<1> QED
  BY <1>1, <1>2 DEF Command

LEMMA TailSubscribes ==
    ASSUME TypeInv, cmds # <<>>, cmds' = Tail(cmds)
    PROVE  /\ \A i \in Subscribes' : i \in Nat /\ i >= 1 /\ i + 1 \in Subscribes /\ cmds'[i] = cmds[i + 1]
           /\ Head(cmds) = cmds[1] /\ (Head(cmds).op = "subscribe" => 1 \in Subscribes)
<1>1. /\ cmds \in Seq(Command) /\ Len(cmds) \in Nat /\ DOMAIN cmds = 1..Len(cmds)
      /\ Tail(cmds) \in Seq(Command) /\ Len(cmds) >= 1 /\ Head(cmds) = cmds[1]
      /\ Len(Tail(cmds)) = Len(cmds) - 1
      /\ \A i \in 1..Len(Tail(cmds)) : Tail(cmds)[i] = cmds[i + 1]
  BY SeqFacts, TailFacts DEF TypeInv, EnvType
<1>2. DOMAIN cmds' = 1..(Len(cmds) - 1)
  BY <1>1, SeqFacts
<1>3. \A i \in DOMAIN cmds' : i \in Nat /\ i >= 1 /\ i + 1 \in DOMAIN cmds /\ cmds'[i] = cmds[i + 1]
  BY <1>1, <1>2
<1>4. 1 \in DOMAIN cmds
  BY <1>1
<1> QED
  BY <1>1, <1>3, <1>4 DEF Subscribes

LEMMA AppendSubscribes ==
    ASSUME TypeInv, NEW c \in Command, cmds' = Append(cmds, c)
    PROVE  \A i \in Subscribes' :
             \/ i \in Subscribes /\ cmds'[i] = cmds[i]
             \/ i = Len(cmds) + 1 /\ Len(cmds) \in Nat /\ cmds'[i] = c /\ c.op = "subscribe"
<1>1. /\ cmds \in Seq(Command) /\ Len(cmds) \in Nat /\ DOMAIN cmds = 1..Len(cmds)
      /\ Append(cmds, c) \in Seq(Command) /\ Len(Append(cmds, c)) = Len(cmds) + 1
      /\ \A i \in 1..Len(cmds) : Append(cmds, c)[i] = cmds[i]
      /\ Append(cmds, c)[Len(cmds) + 1] = c
  BY SeqFacts, AppendFacts DEF TypeInv, EnvType
<1>2. DOMAIN cmds' = 1..(Len(cmds) + 1)
  BY <1>1, SeqFacts
<1>3. \A i \in DOMAIN cmds' : \/ i \in DOMAIN cmds /\ cmds'[i] = cmds[i]
                              \/ i = Len(cmds) + 1 /\ cmds'[i] = c
  BY <1>1, <1>2
<1> QED
  BY <1>1, <1>3 DEF Subscribes

(* Time passes, and the floors move with the subscribes. *)
LEMMA SubMoves ==
    ASSUME TypeInv, SubStep
    PROVE  /\ now \in Nat /\ now' \in Nat /\ now' >= now
           /\ \/ CmdsRest /\ \A s \in Sub : st'.floor[s] \in {st.floor[s], None}
              \/ Intends
<1>0. now \in Nat /\ (cmds' = cmds => CmdsRest) /\ (now' = now => now' \in Nat /\ now' >= now)
  BY DEF CmdsRest, TypeInv, EnvType
<1>1. CASE SubsQuiet
  BY <1>0, <1>1 DEF SubsQuiet, CursorsSame
<1>2. CASE SocketLost
  BY <1>0, <1>2 DEF SocketLost, CursorsSame
<1>3. CASE Subscribing \/ IntentKept
  BY <1>0, <1>3 DEF Subscribing, IntentKept
<1>4. CASE Reconnected
  <2>1. UNCHANGED <<cmds, now>> /\ st'.floor = st.floor
    BY <1>4 DEF Reconnected, ConnectedGated, Connected, CursorsSame
  <2> QED
    BY <1>0, <2>1
<1>5. ASSUME NEW s \in Sub, ReplayAsked(s) \/ EventStored(s) \/ CloseServed(s)
      PROVE  CmdsRest /\ st'.floor = st.floor /\ now' \in Nat /\ now' >= now
  BY <1>0, <1>5 DEF ReplayAsked, EventStored, CloseServed, RelayTook
<1>6. ASSUME NEW s \in Sub, ChannelLeft(s)
      PROVE  CmdsRest /\ now' = now /\ \A x \in Sub : st'.floor[x] \in {st.floor[x], None}
  <2>1. CmdsRest /\ now' = now /\ st'.floor = [st.floor EXCEPT ![s] = None]
    BY <1>6 DEF ChannelLeft
  <2> QED
    BY <2>1, StNow
<1>7. ASSUME NEW e \in Arriving, EventRead(e)
      PROVE  cmds' = cmds /\ now' = now /\ st'.floor = st.floor
  BY <1>7 DEF EventRead
<1>8. ASSUME NEW m \in Asks, ReqRegistered(m) \/ HistorySent(m) \/ ReqRefused(m)
      PROVE  cmds' = cmds /\ now' = now /\ st'.floor = st.floor
  BY <1>8 DEF ReqRegistered, HistorySent, ReqRefused, RelayTook
<1> QED
  BY <1>0, <1>1, <1>2, <1>3, <1>4, <1>5, <1>6, <1>7, <1>8 DEF SubStep

LEMMA IntendsFloor ==
    ASSUME TypeInv, Intends
    PROVE  LET c == Head(cmds) IN
           /\ cmds # <<>> /\ cmds' = Tail(cmds) /\ c.op = "subscribe"
           /\ c.sub \in Sub /\ c.since \in Positive
           /\ \A s \in Sub : s # c.sub => st'.floor[s] = st.floor[s]
           /\ st'.floor[c.sub] = IF st.floor[c.sub] = None THEN c.since ELSE st.floor[c.sub]
<1> DEFINE c == Head(cmds)
<1>1. /\ cmds # <<>> /\ cmds' = Tail(cmds) /\ c.op = "subscribe"
      /\ st'.floor = [st.floor EXCEPT ![c.sub] = IF st.floor[c.sub] = None THEN c.since
                                                 ELSE st.floor[c.sub]]
  BY DEF Intends
<1>2. c.sub \in Sub /\ c.since \in Positive
  BY <1>1, HeadCommand
<1> HIDE DEF c
<1>3. st.floor \in [Sub -> Nat]
  BY StNow
<1>4. /\ \A s \in Sub : s # c.sub => st'.floor[s] = st.floor[s]
      /\ st'.floor[c.sub] = IF st.floor[c.sub] = None THEN c.since ELSE st.floor[c.sub]
  BY <1>1, <1>2, <1>3
<1> QED
  BY <1>1, <1>2, <1>4 DEF c

LEMMA CmdsPastNext ==
    ASSUME TypeInv, TypeInv', ClockInv, BeginMoves, SubStep PROVE CmdsPast'
<1> DEFINE P(i, j) ==
             /\ cmds[i].since <= now /\ cmds[i].since <= Begin(cmds[i].sub)
             /\ st.floor[cmds[i].sub] <= cmds[i].since
             /\ i < j /\ cmds[i].sub = cmds[j].sub => cmds[i].since <= cmds[j].since
<1>1. /\ now \in Nat /\ now' \in Nat /\ now' >= now
      /\ \/ CmdsRest /\ \A s \in Sub : st'.floor[s] \in {st.floor[s], None}
         \/ Intends
  BY SubMoves
<1>2. \A i, j \in Subscribes : P(i, j)
  BY DEF ClockInv, CmdsPast
<1>3. \A i \in Subscribes : /\ i \in Nat /\ i >= 1 /\ i <= Len(cmds)
                            /\ cmds[i].sub \in Sub /\ cmds[i].since \in Nat
  BY SubscribeAt DEF Positive
<1>4. \A s \in Sub : /\ st.floor[s] \in Nat /\ st'.floor[s] \in Nat /\ st.floor[s] <= Begin(s)
                     /\ Begin(s) \in Nat /\ BeginThen(s) \in Nat
                     /\ Begin(s) <= BeginThen(s) /\ BeginThen(s) <= now'
  BY StNow DEF TypeInv, StType, BgState, ClockInv, CursorsPast, BeginMoves
(* A subscribe that was there keeps its place in time. *)
<1>5. ASSUME NEW i \in Subscribes, st'.floor[cmds[i].sub] <= cmds[i].since
      PROVE  /\ cmds[i].since <= now' /\ cmds[i].since <= BeginThen(cmds[i].sub)
             /\ st'.floor[cmds[i].sub] <= cmds[i].since
  <2>1. P(i, i) /\ cmds[i].sub \in Sub /\ cmds[i].since \in Nat
    BY <1>2, <1>3
  <2>2. /\ Begin(cmds[i].sub) \in Nat /\ BeginThen(cmds[i].sub) \in Nat
        /\ Begin(cmds[i].sub) <= BeginThen(cmds[i].sub)
    BY <1>4, <2>1
  <2> QED
    BY <1>1, <1>5, <2>1, <2>2
<1>6. CASE CmdsRest /\ \A s \in Sub : st'.floor[s] \in {st.floor[s], None}
  <2>1. \A s \in Sub : st'.floor[s] <= st.floor[s]
    BY <1>4, <1>6 DEF None
  <2>2. ASSUME NEW i \in Subscribes
        PROVE  /\ cmds[i].since <= now' /\ cmds[i].since <= BeginThen(cmds[i].sub)
               /\ st'.floor[cmds[i].sub] <= cmds[i].since
    <3>1. P(i, i) /\ cmds[i].sub \in Sub /\ cmds[i].since \in Nat
      BY <1>2, <1>3
    <3>2. st'.floor[cmds[i].sub] <= st.floor[cmds[i].sub] /\ st'.floor[cmds[i].sub] \in Nat
          /\ st.floor[cmds[i].sub] \in Nat
      BY <1>4, <2>1, <3>1
    <3>3. st'.floor[cmds[i].sub] <= cmds[i].since
      BY <3>1, <3>2
    <3> QED
      BY <1>5, <3>3
  <2>3. CASE cmds' = cmds
    <3>1. Subscribes' = Subscribes
      BY <2>3 DEF Subscribes
    <3> QED
      BY <1>2, <2>2, <2>3, <3>1 DEF CmdsPast, Begin, BeginThen
  <2>4. CASE cmds # <<>> /\ cmds' = Tail(cmds)
    <3>1. \A i \in Subscribes' : i \in Nat /\ i + 1 \in Subscribes /\ cmds'[i] = cmds[i + 1]
      BY <2>4, TailSubscribes
    <3>2. ASSUME NEW i \in Subscribes', NEW j \in Subscribes', i < j, cmds'[i].sub = cmds'[j].sub
          PROVE  cmds'[i].since <= cmds'[j].since
      <4>1. i \in Nat /\ j \in Nat /\ i + 1 \in Subscribes /\ j + 1 \in Subscribes
            /\ cmds'[i] = cmds[i + 1] /\ cmds'[j] = cmds[j + 1]
        BY <3>1
      <4>2. P(i + 1, j + 1) /\ i + 1 < j + 1
        BY <1>2, <3>2, <4>1
      <4> QED
        BY <3>2, <4>1, <4>2
    <3>3. ASSUME NEW i \in Subscribes'
          PROVE  /\ cmds'[i].since <= now' /\ cmds'[i].since <= BeginThen(cmds'[i].sub)
                 /\ st'.floor[cmds'[i].sub] <= cmds'[i].since
      <4>1. i + 1 \in Subscribes /\ cmds'[i] = cmds[i + 1]
        BY <3>1
      <4> QED
        BY <2>2, <4>1
    <3> QED
      BY <3>2, <3>3 DEF CmdsPast, Begin, BeginThen
  <2>5. ASSUME NEW c \in Command, cmds' = Append(cmds, c),
               c.op = "subscribe" => c.since = BeginThen(c.sub)
        PROVE  CmdsPast'
    <3>1. \A i \in Subscribes' :
            \/ i \in Subscribes /\ cmds'[i] = cmds[i]
            \/ i = Len(cmds) + 1 /\ Len(cmds) \in Nat /\ cmds'[i] = c /\ c.op = "subscribe"
      BY <2>5, AppendSubscribes
    <3>2. c.op = "subscribe" => c.sub \in Sub /\ c.since = BeginThen(c.sub)
      BY <2>5 DEF Command
    <3>3. ASSUME NEW i \in Subscribes'
          PROVE  /\ cmds'[i].since <= now' /\ cmds'[i].since <= BeginThen(cmds'[i].sub)
                 /\ st'.floor[cmds'[i].sub] <= cmds'[i].since
      <4>1. CASE i \in Subscribes /\ cmds'[i] = cmds[i]
        BY <2>2, <4>1
      <4>2. CASE cmds'[i] = c /\ c.op = "subscribe"
        <5>1. /\ st'.floor[c.sub] <= st.floor[c.sub] /\ st'.floor[c.sub] \in Nat
              /\ st.floor[c.sub] \in Nat /\ st.floor[c.sub] <= Begin(c.sub)
              /\ Begin(c.sub) \in Nat /\ BeginThen(c.sub) \in Nat
              /\ Begin(c.sub) <= BeginThen(c.sub) /\ BeginThen(c.sub) <= now'
          BY <1>4, <2>1, <3>2, <4>2
        <5> QED
          BY <1>1, <3>2, <4>2, <5>1
      <4> QED
        BY <3>1, <4>1, <4>2
    <3>4. ASSUME NEW i \in Subscribes', NEW j \in Subscribes', i < j, cmds'[i].sub = cmds'[j].sub
          PROVE  cmds'[i].since <= cmds'[j].since
      <4>1. i \in Subscribes /\ cmds'[i] = cmds[i]
        <5>1. i \in Subscribes \/ i = Len(cmds) + 1
          BY <3>1
        <5>2. j \in Subscribes \/ j = Len(cmds) + 1
          BY <3>1
        <5>3. i # Len(cmds) + 1 \/ Len(cmds) \notin Nat
          BY <1>3, <3>4, <5>2
        <5> QED
          BY <3>1, <5>3
      <4>2. P(i, i) /\ cmds[i].since \in Nat /\ cmds[i].sub \in Sub
        BY <1>2, <1>3, <4>1
      <4>3. CASE j \in Subscribes /\ cmds'[j] = cmds[j]
        BY <1>2, <3>4, <4>1, <4>3
      <4>4. CASE cmds'[j] = c /\ c.op = "subscribe"
        <5>1. /\ cmds[i].sub = c.sub /\ cmds'[j].since = BeginThen(c.sub)
              /\ cmds[i].since <= Begin(c.sub)
          BY <3>2, <3>4, <4>1, <4>2, <4>4
        <5>2. Begin(c.sub) \in Nat /\ BeginThen(c.sub) \in Nat /\ Begin(c.sub) <= BeginThen(c.sub)
          BY <1>4, <3>2, <4>4
        <5> QED
          BY <4>1, <4>2, <5>1, <5>2
      <4> QED
        BY <3>1, <4>3, <4>4
    <3> QED
      BY <3>3, <3>4 DEF CmdsPast, Begin, BeginThen
  <2> QED
    BY <1>6, <2>3, <2>4, <2>5 DEF CmdsRest
<1>7. CASE Intends
  <2> DEFINE c == Head(cmds)
  <2>1. /\ cmds # <<>> /\ cmds' = Tail(cmds) /\ c.op = "subscribe" /\ c.sub \in Sub
        /\ \A s \in Sub : s # c.sub => st'.floor[s] = st.floor[s]
        /\ st'.floor[c.sub] = IF st.floor[c.sub] = None THEN c.since ELSE st.floor[c.sub]
    BY <1>7, IntendsFloor
  <2>2. /\ \A i \in Subscribes' : i \in Nat /\ i >= 1 /\ i + 1 \in Subscribes /\ cmds'[i] = cmds[i + 1]
        /\ c = cmds[1] /\ 1 \in Subscribes
    BY <2>1, TailSubscribes
  <2> HIDE DEF c
  <2>3. ASSUME NEW i \in Subscribes'
        PROVE  /\ cmds'[i].since <= now' /\ cmds'[i].since <= BeginThen(cmds'[i].sub)
               /\ st'.floor[cmds'[i].sub] <= cmds'[i].since
    <3>1. i \in Nat /\ i >= 1 /\ i + 1 \in Subscribes /\ cmds'[i] = cmds[i + 1]
      BY <2>2
    <3>2. P(i + 1, i + 1) /\ cmds[i + 1].sub \in Sub /\ cmds[i + 1].since \in Nat /\ P(1, i + 1)
      BY <1>2, <1>3, <2>2, <3>1
    <3>3. 1 < i + 1
      BY <3>1
    <3>4. cmds[i + 1].sub = c.sub => c.since <= cmds[i + 1].since
      BY <2>2, <3>2, <3>3
    <3>5. st'.floor[cmds[i + 1].sub] <= cmds[i + 1].since
      <4>1. CASE cmds[i + 1].sub = c.sub
        BY <2>1, <3>2, <3>4, <4>1
      <4>2. CASE cmds[i + 1].sub # c.sub
        BY <2>1, <3>2, <4>2
      <4> QED
        BY <4>1, <4>2
    <3> QED
      BY <1>5, <3>1, <3>5
  <2>4. ASSUME NEW i \in Subscribes', NEW j \in Subscribes', i < j, cmds'[i].sub = cmds'[j].sub
        PROVE  cmds'[i].since <= cmds'[j].since
    <3>1. i \in Nat /\ j \in Nat /\ i + 1 \in Subscribes /\ j + 1 \in Subscribes
          /\ cmds'[i] = cmds[i + 1] /\ cmds'[j] = cmds[j + 1]
      BY <2>2
    <3>2. P(i + 1, j + 1) /\ i + 1 < j + 1
      BY <1>2, <2>4, <3>1
    <3> QED
      BY <2>4, <3>1, <3>2
  <2> QED
    BY <2>3, <2>4 DEF CmdsPast, Begin, BeginThen
<1> QED
  BY <1>1, <1>6, <1>7

(* The REQs that are written. *)
LEMMA NewAsks ==
    ASSUME TypeInv, SubStep, NEW m \in Asks'
    PROVE  \/ \E x \in Asks : m.sub = x.sub /\ m.since = x.since
           \/ \E s \in st.active : m = Req(s, Since(s))
           \/ Intends /\ m = ReqOf(Head(cmds))
<1>1. CASE SubsQuiet \/ SocketLost \/ IntentKept
  BY <1>1 DEF SubsQuiet, SocketLost, IntentKept
<1>2. CASE Subscribing
  <2>1. Asks' \subseteq Asks \cup {ReqOf(Head(cmds))}
    BY <1>2, ReqWrittenFacts DEF Subscribing
  <2> QED
    BY <1>2, <2>1 DEF Subscribing
<1>3. CASE Reconnected
  BY <1>3 DEF Reconnected, ConnectedGated, Connected, Burst
<1>4. ASSUME NEW s \in Sub, ReplayAsked(s)
      PROVE  m \in Asks \/ (s \in st.active /\ m = Req(s, Since(s)))
  <2>1. Asks' \subseteq Asks \cup {Req(s, Since(s))} /\ s \in st.active
    BY <1>4, ReqWrittenFacts DEF ReplayAsked
  <2> QED
    BY <2>1
<1>5. ASSUME NEW s \in Sub, ChannelLeft(s) \/ EventStored(s) \/ CloseServed(s) PROVE m \in Asks
  BY <1>5 DEF ChannelLeft, EventStored, CloseServed
<1>6. ASSUME NEW e \in Arriving, EventRead(e) PROVE m \in Asks
  BY <1>6 DEF EventRead
<1>7. ASSUME NEW x \in Asks, HistorySent(x) \/ ReqRefused(x) PROVE m \in Asks
  BY <1>7 DEF HistorySent, ReqRefused
<1>8. ASSUME NEW x \in Asks, ReqRegistered(x)
      PROVE  m \in Asks \/ (m.sub = x.sub /\ m.since = x.since)
  BY <1>8, AsQueryParts DEF ReqRegistered
<1> QED
  BY <1>1, <1>2, <1>3, <1>4, <1>5, <1>6, <1>7, <1>8 DEF SubStep

LEMMA SinceClock ==
    ASSUME TypeInv, CursorsPast, NEW s \in Sub
    PROVE  /\ Since(s) \in Nat /\ Since(s) <= now
           /\ st.last[s] \in Nat /\ st.dropped[s] \in Nat /\ st.floor[s] \in Nat
           /\ st.last[s] = None => st.dropped[s] = None /\ Since(s) = st.floor[s]
           /\ st.last[s] # None => Since(s) <= st.last[s]
           /\ st.dropped[s] # None => Since(s) <= st.dropped[s]
<1>1. /\ st.last[s] \in Nat /\ st.dropped[s] \in Nat /\ st.floor[s] \in Nat /\ now \in Nat
      /\ st.last[s] <= now /\ st.floor[s] <= now /\ (st.dropped[s] # None => st.last[s] # None)
  BY StNow DEF CursorsPast, TypeInv, EnvType
<1> QED
  BY <1>1, SinceFacts

(* The REQ of a subscribe. *)
Start(c) == IF st.last[c.sub] # None THEN st.last[c.sub]
            ELSE IF st.floor[c.sub] # None THEN st.floor[c.sub] ELSE c.since

LEMMA ReqOfParts ==
    \A c : ReqOf(c).sub = c.sub /\ ReqOf(c).since = Start(c) - Skew /\ ReqOf(c).type = "REQ"
  BY DEF ReqOf, Req, Start

LEMMA AsksPastNext ==
    ASSUME TypeInv, ClockInv, SubStep PROVE AsksPast'
<1> SUFFICES ASSUME NEW m \in Asks' PROVE m.since + Skew <= now'
  BY DEF AsksPast
<1>1. now \in Nat /\ now' \in Nat /\ now' >= now /\ Skew \in Nat /\ CursorsPast
  BY SubMoves, Types DEF ClockInv
<1>2. ASSUME NEW x \in Asks, m.since = x.since PROVE m.since + Skew <= now'
  <2>1. m.since \in Int /\ m.since + Skew <= now
    BY <1>2, SocketNow DEF ClockInv, AsksPast
  <2> QED
    BY <1>1, <2>1
<1>3. ASSUME NEW s \in st.active, m = Req(s, Since(s)) PROVE m.since + Skew <= now'
  <2>1. s \in Sub
    BY <1>3, StNow
  <2>2. Since(s) \in Nat /\ Since(s) <= now /\ m.since = Since(s) - Skew
    BY <1>1, <1>3, <2>1, SinceClock, ReqParts
  <2> QED
    BY <1>1, <2>2
<1>4. CASE Intends /\ m = ReqOf(Head(cmds))
  <2> DEFINE c == Head(cmds)
  <2>1. c.sub \in Sub /\ c.since \in Positive /\ cmds # <<>> /\ cmds' = Tail(cmds) /\ c.op = "subscribe"
    BY <1>4, IntendsFloor
  <2>2. c = cmds[1] /\ 1 \in Subscribes
    BY <2>1, TailSubscribes
  <2>3. c.since <= now
    BY <2>2 DEF ClockInv, CmdsPast
  <2> HIDE DEF c
  <2>4. /\ st.last[c.sub] \in Nat /\ st.floor[c.sub] \in Nat
        /\ st.last[c.sub] <= now /\ st.floor[c.sub] <= now
    BY <2>1, StNow DEF ClockInv, CursorsPast
  <2>5. Start(c) \in Nat /\ Start(c) <= now
    BY <2>1, <2>3, <2>4 DEF Start, Positive
  <2>6. m.since = Start(c) - Skew
    BY <1>4, ReqOfParts DEF c
  <2> QED
    BY <1>1, <2>5, <2>6
<1> QED
  BY <1>2, <1>3, <1>4, NewAsks

LEMMA StoredPastNext ==
    ASSUME TypeInv, TypeInv', ClockInv, SubStep PROVE StoredPast'
<1>1. now \in Nat /\ now' \in Nat /\ now' >= now
  BY SubMoves
<1>2. \A e \in DOMAIN stored : stored[e].ts \in Nat /\ stored[e].ts <= now
  BY StoredAt DEF ClockInv, StoredPast, Positive
<1>3. CASE stored' = stored
  BY <1>1, <1>2, <1>3 DEF StoredPast
<1>4. ASSUME NEW s \in Sub, EventStored(s) PROVE StoredPast'
  <2> DEFINE n == Len(stored) + 1
  <2>1. /\ DOMAIN stored' = DOMAIN stored \cup {n}
        /\ \A i \in DOMAIN stored : stored'[i] = stored[i]
        /\ stored'[n].ts <= now'
    BY <1>4 DEF EventStored
  <2> HIDE DEF n
  <2> QED
    BY <1>1, <1>2, <2>1 DEF StoredPast
<1>5. stored' = stored \/ \E s \in Sub : EventStored(s)
  BY DEF SubStep, SubsQuiet, SocketLost, Subscribing, IntentKept, Reconnected, ReplayAsked,
     ChannelLeft, CloseServed, EventRead, ReqRegistered, HistorySent, ReqRefused, RelayTook
<1> QED
  BY <1>3, <1>4, <1>5

LEMMA CursorsPastNext ==
    ASSUME TypeInv, TypeInv', ClockInv, BeginMoves, SubStep PROVE CursorsPast'
<1>1. /\ now \in Nat /\ now' \in Nat /\ now' >= now
      /\ \A s \in Sub : Begin(s) \in Nat /\ BeginThen(s) \in Nat /\ Begin(s) <= BeginThen(s)
  BY SubMoves DEF BeginMoves
<1>2. /\ st.last[Membership] # None
      /\ \A s \in Sub : /\ st.last[s] \in Nat /\ st.floor[s] \in Nat /\ st.dropped[s] \in Nat
                        /\ st.last[s] <= now /\ st.floor[s] <= now /\ st.floor[s] <= Begin(s)
                        /\ st.dropped[s] # None => st.last[s] # None
                        /\ s \in st.active => st.floor[s] # None
  BY StNow DEF ClockInv, CursorsPast
<1>3. Membership \in Sub /\ Membership \notin Channel /\ None = 0
  BY Types DEF None
<1>4. ASSUME st'.active = st.active, st'.floor = st.floor, st'.last = st.last,
             \A s \in Sub : st'.dropped[s] = st.dropped[s] \/ st'.dropped[s] = None
      PROVE  CursorsPast'
  BY <1>1, <1>2, <1>4 DEF CursorsPast, Begin, BeginThen
<1>5. CASE Intends
  <2> DEFINE c == Head(cmds)
  <2>1. /\ cmds # <<>> /\ cmds' = Tail(cmds) /\ c.op = "subscribe"
        /\ c.sub \in Sub /\ c.since \in Positive
        /\ \A s \in Sub : s # c.sub => st'.floor[s] = st.floor[s]
        /\ st'.floor[c.sub] = IF st.floor[c.sub] = None THEN c.since ELSE st.floor[c.sub]
    BY <1>5, IntendsFloor
  <2>2. c = cmds[1] /\ 1 \in Subscribes
    BY <2>1, TailSubscribes
  <2>3. c.since <= now /\ c.since <= Begin(c.sub) /\ c.since \in Nat /\ c.since # None
    BY <2>1, <2>2 DEF ClockInv, CmdsPast, Positive, None
  <2>4. st'.last = st.last /\ st'.dropped = st.dropped /\ st'.active = st.active \cup {c.sub}
    BY <1>5 DEF Intends
  <2> HIDE DEF c
  <2>5. \A s \in Sub : /\ st'.floor[s] \in Nat /\ st'.floor[s] <= now' /\ st'.floor[s] <= BeginThen(s)
                       /\ s \in st'.active => st'.floor[s] # None
    <3>1. ASSUME NEW s \in Sub
          PROVE  /\ st'.floor[s] \in Nat /\ st'.floor[s] <= now' /\ st'.floor[s] <= BeginThen(s)
                 /\ s \in st'.active => st'.floor[s] # None
      <4>1. CASE s = c.sub
        BY <1>1, <1>2, <2>1, <2>3, <4>1
      <4>2. CASE s # c.sub
        BY <1>1, <1>2, <2>1, <2>4, <4>2
      <4> QED
        BY <4>1, <4>2
    <3> QED
      BY <3>1
  <2> QED
    BY <1>1, <1>2, <2>4, <2>5 DEF CursorsPast, Begin, BeginThen
<1>6. CASE SubsQuiet
  BY <1>4, <1>6 DEF SubsQuiet, CursorsSame
<1>7. CASE SocketLost
  BY <1>4, <1>5, <1>7 DEF SocketLost, CursorsSame
<1>8. CASE Subscribing \/ IntentKept
  BY <1>5, <1>8 DEF Subscribing, IntentKept
<1>9. CASE Reconnected
  BY <1>4, <1>9 DEF Reconnected, ConnectedGated, Connected, CursorsSame
<1>10. ASSUME NEW s \in Sub, ReplayAsked(s) PROVE CursorsPast'
  BY <1>4, <1>10 DEF ReplayAsked
<1>11. ASSUME NEW s \in Sub, ChannelLeft(s) PROVE CursorsPast'
  <2>1. /\ s \in Channel /\ st'.active = st.active \ {s}
        /\ st'.floor = [st.floor EXCEPT ![s] = None]
        /\ st'.last = [st.last EXCEPT ![s] = None]
        /\ st'.dropped = [st.dropped EXCEPT ![s] = None]
    BY <1>11 DEF ChannelLeft
  <2>2. /\ st'.floor[s] = None /\ st'.last[s] = None /\ st'.dropped[s] = None
        /\ \A t \in Sub : t # s => /\ st'.floor[t] = st.floor[t] /\ st'.last[t] = st.last[t]
                                   /\ st'.dropped[t] = st.dropped[t]
    BY <2>1, StNow
  <2> QED
    BY <1>1, <1>2, <1>3, <2>1, <2>2 DEF CursorsPast, Begin, BeginThen
<1>12. ASSUME NEW s \in Sub, EventStored(s) \/ CloseServed(s) PROVE CursorsPast'
  BY <1>4, <1>12 DEF EventStored, CloseServed, RelayTook
<1>13. ASSUME NEW m \in Asks, ReqRegistered(m) \/ HistorySent(m) \/ ReqRefused(m)
       PROVE  CursorsPast'
  BY <1>4, <1>13 DEF ReqRegistered, HistorySent, ReqRefused, RelayTook
<1>14. ASSUME NEW e \in Arriving, EventRead(e) PROVE CursorsPast'
  <2> DEFINE s == stored[e].sub
             t == stored[e].ts
             l == Later(st.last[s], t)
  <2>1. e \in DOMAIN stored
    BY <1>14, SocketNow
  <2>2. s \in Sub /\ t \in Positive /\ t \in Nat /\ t # None /\ t <= now
    BY <2>1, StoredAt DEF ClockInv, StoredPast, Positive, None
  <2>3. /\ st'.active = st.active /\ st'.floor = st.floor
        /\ \/ st'.last = [st.last EXCEPT ![s] = l]
           \/ s = Membership /\ st'.last = st.last
        /\ \/ st'.dropped = st.dropped
           \/ st'.dropped = [st.dropped EXCEPT ![s] = DroppedCursor(s, t)]
    BY <1>14 DEF EventRead, EventHanded, EventDropped
  <2> HIDE DEF s, t
  <2>4. l \in Nat /\ l # None /\ l <= now
    BY <1>2, <1>3, <2>2 DEF Later
  <2> HIDE DEF l
  <2>5. \A x \in Sub : /\ x # s => st'.last[x] = st.last[x] /\ st'.dropped[x] = st.dropped[x]
                       /\ x = s => st'.last[x] # None /\ st'.last[x] <= now /\ st'.last[x] \in Nat
    BY <1>2, <2>2, <2>3, <2>4, StNow
  <2>6. ASSUME NEW x \in Sub
        PROVE  /\ st'.last[x] <= now' /\ (st'.dropped[x] # None => st'.last[x] # None)
    <3>1. CASE x = s
      BY <1>1, <2>5, <3>1
    <3>2. CASE x # s
      BY <1>1, <1>2, <2>5, <3>2
    <3> QED
      BY <3>1, <3>2
  <2>7. st'.last[Membership] # None
    BY <1>2, <1>3, <2>5
  <2>8. \A x \in Sub : /\ st'.floor[x] <= now' /\ st'.floor[x] <= BeginThen(x)
                       /\ x \in st'.active => st'.floor[x] # None
    BY <1>1, <1>2, <2>3
  <2> QED
    BY <2>6, <2>7, <2>8 DEF CursorsPast, Begin, BeginThen
<1> QED
  BY <1>6, <1>7, <1>8, <1>9, <1>10, <1>11, <1>12, <1>13, <1>14 DEF SubStep

LEMMA ClockNext ==
    ASSUME TypeInv, TypeInv', ClockInv, BeginMoves, SubStep PROVE ClockInv'
  BY StoredPastNext, CursorsPastNext, AsksPastNext, CmdsPastNext DEF ClockInv

-----------------------------------------------------------------------------
(***************************************************************************)
(* What the cursor still reaches is on its way or will be asked for, or    *)
(* the relay left it out.                                                  *)
(***************************************************************************)

Ahead(e) ==
    LET l == st.last[stored[e].sub] IN l # None => stored[e].ts + Skew >= l

Awaited(e) ==
    LET s == stored[e].sub IN
    \/ Asked(e) \/ e \in Arriving \/ e \in unsent \/ Repairing
    \/ s \in ParkedSubs \/ st.dropped[s] # None \/ s \in Refusals

ReachInv == \A e \in Unhanded : Wanted(e) /\ Ahead(e) => Awaited(e)

(* The relay keeps what it has stored. *)
LEMMA StoredKept ==
    ASSUME TypeInv, SubStep
    PROVE  /\ \A e \in DOMAIN stored : stored'[e] = stored[e] /\ e \in DOMAIN stored'
           /\ \/ stored' = stored
              \/ \E s \in Sub : EventStored(s)
           /\ handed \subseteq handed'
<1>1. stored' = stored \/ \E s \in Sub : EventStored(s)
  BY DEF SubStep, SubsQuiet, SocketLost, Subscribing, IntentKept, Reconnected, ReplayAsked,
     ChannelLeft, CloseServed, EventRead, ReqRegistered, HistorySent, ReqRefused, RelayTook
<1>2. handed \subseteq handed'
  BY DEF SubStep, SubsQuiet, SocketLost, Subscribing, IntentKept, Reconnected, ReplayAsked,
     ChannelLeft, EventStored, CloseServed, EventRead, EventHanded, EventDropped, ReqRegistered,
     HistorySent, ReqRefused, RelayTook
<1>3. ASSUME NEW s \in Sub, EventStored(s)
      PROVE  \A e \in DOMAIN stored : stored'[e] = stored[e] /\ e \in DOMAIN stored'
  BY <1>3 DEF EventStored
<1> QED
  BY <1>1, <1>2, <1>3

(* The replay of a cursor reaches what is wanted and ahead of it. *)
LEMMA SinceReaches ==
    ASSUME TypeInv, ClockInv, NEW s \in Sub, NEW t \in Positive,
           t >= st.floor[s], st.last[s] # None => t + Skew >= st.last[s]
    PROVE  t >= Req(s, Since(s)).since
<1>1. Skew \in Nat /\ t \in Nat /\ Req(s, Since(s)).since = Since(s) - Skew
  BY Types, ReqParts DEF Positive
<1>2. /\ Since(s) \in Nat /\ st.last[s] \in Nat /\ st.floor[s] \in Nat
      /\ st.last[s] = None => Since(s) = st.floor[s]
      /\ st.last[s] # None => Since(s) <= st.last[s]
  BY SinceClock DEF ClockInv
<1> QED
  BY <1>1, <1>2

LEMMA ReachOld ==
    ASSUME TypeInv, ClockInv, ReachInv, UnsentMoves, SubStep, NEW e \in DOMAIN stored, e \in Unhanded',
           Wanted(e)', Ahead(e)'
    PROVE  Awaited(e)'
<1> DEFINE s == stored[e].sub
           t == stored[e].ts
<1>1. s \in Sub /\ t \in Positive /\ t \in Nat /\ Skew \in Nat
  BY StoredAt, Types DEF Positive
<1>2. stored'[e] = stored[e] /\ handed \subseteq handed' /\ e \in Unhanded
  BY StoredKept DEF Unhanded
<1>3. /\ s \in st'.active \ forgotten' /\ t >= st'.floor[s]
      /\ st'.last[s] # None => t + Skew >= st'.last[s]
  BY <1>2 DEF Wanted, Ahead
<1>4. \/ \E m \in Asks' : s = m.sub /\ t >= m.since
      \/ e \in Arriving' \/ e \in unsent' \/ Repairing' \/ s \in ParkedSubs'
      \/ st'.dropped[s] # None \/ s \in Refusals'
      => Awaited(e)'
  BY <1>2 DEF Awaited, Asked
<1>5. ASSUME s \in st.active \ forgotten, t >= st.floor[s], st.last[s] # None => t + Skew >= st.last[s]
      PROVE  \/ \E m \in Asks : s = m.sub /\ t >= m.since
             \/ e \in Arriving \/ e \in unsent \/ Repairing \/ s \in ParkedSubs
             \/ st.dropped[s] # None \/ s \in Refusals
  BY <1>2, <1>5 DEF ReachInv, Wanted, Ahead, Awaited, Asked
<1> HIDE DEF s, t
<1>6. ASSUME s \in st.active \ forgotten, t >= st.floor[s], st.last[s] # None => t + Skew >= st.last[s],
             \A m \in Asks : s = m.sub /\ t >= m.since =>
               m \in Asks' \/ e \in Arriving' \/ s \in Refusals' \/ Awaited(e)',
             e \in Arriving => e \in Arriving', Repairing => Repairing',
             s \in ParkedSubs => s \in ParkedSubs', st.dropped[s] # None => st'.dropped[s] # None,
             s \in Refusals => s \in Refusals' \cup ParkedSubs'
      PROVE  Awaited(e)'
  BY <1>4, <1>5, <1>6 DEF UnsentMoves
<1>7. CASE SubsQuiet
  <2>1. /\ s \in st.active \ forgotten /\ st'.floor = st.floor /\ st'.last = st.last
        /\ st'.dropped = st.dropped
    BY <1>3, <1>7 DEF SubsQuiet, CursorsSame
  <2>2. e \in Arriving => e \in Arriving'
    BY <1>2, <1>7 DEF SubsQuiet, Unhanded
  <2> QED
    BY <1>3, <1>6, <1>7, <2>1, <2>2 DEF SubsQuiet
<1>8. CASE SocketLost
  BY <1>4, <1>8 DEF SocketLost
<1>9. CASE Subscribing
  <2> DEFINE c == Head(cmds)
             m == ReqOf(c)
  <2>1. /\ c.sub \in Sub /\ c.since \in Positive
        /\ \A x \in Sub : x # c.sub => st'.floor[x] = st.floor[x]
        /\ st'.floor[c.sub] = IF st.floor[c.sub] = None THEN c.since ELSE st.floor[c.sub]
        /\ st'.last = st.last /\ st'.dropped = st.dropped /\ st'.active = st.active \cup {c.sub}
    BY <1>9, IntendsFloor DEF Subscribing, Intends
  <2>2. /\ forgotten' = forgotten \ {c.sub} /\ UNCHANGED link
        /\ \A x \in ParkedSubs : x # c.sub => x \in ParkedSubs'
        /\ (Repairing => Repairing') /\ Arriving' = Arriving /\ Refusals' = Refusals
        /\ (c.sub \in ParkedSubs' /\ Asks' = Asks) \/ ReqWritten(m)
    BY <1>9 DEF Subscribing
  <2>3. m.sub = c.sub /\ m.since = Start(c) - Skew
    BY ReqOfParts
  <2>4. Start(c) = IF st.last[c.sub] # None THEN st.last[c.sub] ELSE st'.floor[c.sub]
    BY <2>1 DEF Start
  <2>5. st.last[c.sub] \in Nat /\ st'.floor[c.sub] \in Nat
    BY <2>1, StNow DEF Positive
  <2> HIDE DEF c, m
  <2>6. Asks \subseteq Asks' /\ (c.sub \in ParkedSubs' \/ m \in Asks' \/ Repairing')
    BY <2>2, ReqWrittenFacts
  <2>7. CASE s = c.sub
    <3>1. t >= m.since
      BY <1>1, <1>3, <2>1, <2>3, <2>4, <2>5, <2>7
    <3> QED
      BY <1>4, <2>3, <2>6, <2>7, <3>1
  <2>8. CASE s # c.sub
    BY <1>1, <1>3, <1>6, <2>1, <2>2, <2>6, <2>8
  <2> QED
    BY <2>7, <2>8
<1>10. CASE IntentKept
  <2> DEFINE c == Head(cmds)
  <2>1. /\ c.sub \in Sub /\ \A x \in Sub : x # c.sub => st'.floor[x] = st.floor[x]
        /\ st'.last = st.last /\ st'.dropped = st.dropped /\ st'.active = st.active \cup {c.sub}
    BY <1>10, IntendsFloor DEF IntentKept, Intends
  <2>2. /\ Repairing' \/ c.sub \in forgotten'
        /\ forgotten \subseteq forgotten' /\ ParkedSubs \subseteq ParkedSubs'
        /\ (Repairing => Repairing') /\ Asks' = Asks /\ Arriving' = Arriving /\ Refusals' = Refusals
    BY <1>10 DEF IntentKept
  <2> HIDE DEF c
  <2>3. CASE s = c.sub
    BY <1>3, <1>4, <2>2, <2>3
  <2>4. CASE s # c.sub
    BY <1>1, <1>3, <1>6, <2>1, <2>2, <2>4
  <2> QED
    BY <2>3, <2>4
<1>11. CASE Reconnected
  <2>1. CASE ConnectedGated
    BY <1>3, <1>4, <2>1 DEF ConnectedGated, CursorsSame
  <2>2. ASSUME NEW sent \in SUBSET st.active, Connected(sent) PROVE Awaited(e)'
    <3>1. s \in st.active /\ st'.floor = st.floor /\ st'.last = st.last
      BY <1>3, <2>2 DEF Connected
    <3>2. t >= Req(s, Since(s)).since /\ Req(s, Since(s)).sub = s
      BY <1>1, <1>3, <3>1, SinceReaches, ReqParts
    <3>3. s \in sent => Req(s, Since(s)) \in Burst(sent)
      BY DEF Burst
    <3> QED
      BY <1>4, <2>2, <3>1, <3>2, <3>3 DEF Connected
  <2> QED
    BY <1>11, <2>1, <2>2 DEF Reconnected
<1>12. ASSUME NEW x \in Sub, ReplayAsked(x) PROVE Awaited(e)'
  <2> DEFINE m == Req(x, Since(x))
  <2>1. /\ ReqWritten(m) /\ UNCHANGED link /\ st'.active = st.active
        /\ st'.floor = st.floor /\ st'.last = st.last
        /\ \A y \in Sub : y # x => st'.dropped[y] = st.dropped[y]
        /\ forgotten' = forgotten \ {x} /\ (Repairing => Repairing') /\ Arriving' = Arriving
        /\ \A y \in ParkedSubs : y # x => y \in ParkedSubs'
        /\ \A y \in Refusals : y # x => y \in Refusals'
    BY <1>12 DEF ReplayAsked
  <2>2. m.sub = x
    BY ReqParts
  <2>3. s = x => t >= m.since
    BY <1>1, <1>3, <2>1, SinceReaches
  <2> HIDE DEF m
  <2>4. Asks \subseteq Asks' /\ (m \in Asks' \/ Repairing')
    BY <2>1, ReqWrittenFacts
  <2>5. CASE s = x
    BY <1>4, <2>2, <2>3, <2>4, <2>5
  <2>6. CASE s # x
    BY <1>1, <1>3, <1>6, <2>1, <2>4, <2>6
  <2> QED
    BY <2>5, <2>6
<1>13. ASSUME NEW x \in Sub, ChannelLeft(x) PROVE Awaited(e)'
  <2>1. s # x /\ s \in st.active \ forgotten
    BY <1>3, <1>13 DEF ChannelLeft
  <2>2. st'.floor[s] = st.floor[s] /\ st'.last[s] = st.last[s] /\ st'.dropped[s] = st.dropped[s]
    BY <1>1, <1>13, <2>1, StNow DEF ChannelLeft
  <2> QED
    BY <1>3, <1>6, <1>13, <2>1, <2>2 DEF ChannelLeft
<1>14. (st' = st => ParkedSubs' = ParkedSubs) /\ (UNCHANGED <<phase, link>> => Repairing' = Repairing)
  BY DEF ParkedSubs, Repairing
<1>15. ASSUME NEW x \in Sub, EventStored(x) \/ CloseServed(x) PROVE Awaited(e)'
  <2>1. /\ UNCHANGED <<st, phase, link, forgotten>> /\ Asks' = Asks
        /\ Refusals \subseteq Refusals' /\ Arriving \subseteq Arriving'
    BY <1>15 DEF EventStored, CloseServed, RelayTook
  <2> QED
    BY <1>3, <1>6, <1>14, <2>1
<1>16. ASSUME NEW x \in Arriving, EventRead(x) PROVE Awaited(e)'
  <2> DEFINE r == stored[x].sub
             u == stored[x].ts
             l == Later(st.last[r], u)
  <2>1. x \in DOMAIN stored
    BY <1>16, SocketNow
  <2>2. r \in Sub /\ u \in Positive /\ u \in Nat
    BY <2>1, StoredAt DEF Positive
  <2>3. /\ st'.active = st.active /\ st'.floor = st.floor /\ ParkedSubs' = ParkedSubs
        /\ (Repairing => Repairing') /\ forgotten' = forgotten /\ Asks' = Asks
        /\ Refusals' = Refusals /\ Arriving \subseteq Arriving' \cup {x}
        /\ EventHanded(x) \/ EventDropped(x)
    BY <1>16 DEF EventRead
  <2>4. st.last \in [Sub -> Nat] /\ st.dropped \in [Sub -> Nat]
    BY StNow
  <2>5. CASE EventHanded(x)
    <3>1. st'.last = [st.last EXCEPT ![r] = l] /\ st'.dropped = st.dropped /\ x \in handed'
      BY <2>5 DEF EventHanded
    <3>2. e # x
      BY <3>1 DEF Unhanded
    <3>3. l \in Nat /\ l >= st.last[r]
      BY <2>2, <2>4 DEF Later
    <3> HIDE DEF r, u, l
    <3>4. st.last[s] # None => t + Skew >= st.last[s]
      <4>1. CASE s = r
        <5>1. st'.last[s] = l
          BY <2>2, <2>4, <3>1, <4>1
        <5> QED
          BY <1>1, <1>3, <2>4, <3>3, <4>1, <5>1 DEF None
      <4>2. CASE s # r
        BY <1>1, <1>3, <2>4, <3>1, <4>2
      <4> QED
        BY <4>1, <4>2
    <3> QED
      BY <1>3, <1>6, <2>3, <3>1, <3>2, <3>4
  <2>6. CASE EventDropped(x)
    <3>1. /\ st'.last = [st.last EXCEPT ![r] = l] \/ st'.last = st.last
          /\ st'.dropped = [st.dropped EXCEPT ![r] = DroppedCursor(r, u)]
      BY <2>6 DEF EventDropped
    <3>2. DroppedCursor(r, u) # None
      BY <2>2, DroppedCursorFacts DEF Positive, None
    <3> HIDE DEF r, u, l
    <3>3. CASE s = r
      <4>1. st'.dropped[s] = DroppedCursor(r, u)
        BY <2>2, <2>4, <3>1, <3>3
      <4> QED
        BY <1>4, <3>2, <4>1
    <3>4. CASE s # r
      <4>1. st'.last[s] = st.last[s] /\ st'.dropped[s] = st.dropped[s]
        BY <1>1, <2>4, <3>1, <3>4
      <4>2. e # x
        BY <3>4 DEF s, r
      <4> QED
        BY <1>3, <1>6, <2>3, <4>1, <4>2
    <3> QED
      BY <3>3, <3>4
  <2> QED
    BY <2>3, <2>5, <2>6
<1>17. ASSUME NEW x \in Asks, HistorySent(x) PROVE Awaited(e)'
  <2>1. /\ UNCHANGED <<st, phase, link, forgotten>> /\ Asks \subseteq Asks' \cup {x}
        /\ Refusals' = Refusals /\ Arriving \subseteq Arriving'
        /\ \A y \in Unhanded \cap Requested(x) : y \in Arriving' \cup unsent'
    BY <1>17 DEF HistorySent, RelayTook
  <2>2. s = x.sub /\ t >= x.since => e \in Requested(x)
    BY <1>17, SocketNow, RequestedNow DEF s, t
  <2>3. s = x.sub /\ t >= x.since => Awaited(e)'
    BY <1>2, <1>4, <2>1, <2>2
  <2> QED
    BY <1>3, <1>6, <1>14, <2>1, <2>3
<1>19. ASSUME NEW x \in Asks, ReqRegistered(x) PROVE Awaited(e)'
  <2>1. /\ UNCHANGED <<st, phase, link, forgotten>> /\ Asks \subseteq Asks' \cup {x}
        /\ Refusals' = Refusals /\ Arriving' = Arriving /\ AsQuery(x) \in Asks'
    BY <1>19 DEF ReqRegistered, RelayTook
  <2>2. s = x.sub /\ t >= x.since => Awaited(e)'
    BY <1>4, <2>1, AsQueryParts
  <2> QED
    BY <1>3, <1>6, <1>14, <2>1, <2>2
<1>18. ASSUME NEW x \in Asks, ReqRefused(x) PROVE Awaited(e)'
  <2>1. /\ UNCHANGED <<st, phase, link, forgotten>> /\ Asks \subseteq Asks' \cup {x}
        /\ Refusals' = Refusals \cup {x.sub} /\ Arriving' = Arriving
    BY <1>18 DEF ReqRefused, RelayTook
  <2> QED
    BY <1>3, <1>6, <1>14, <2>1
<1> QED
  BY <1>7, <1>8, <1>9, <1>10, <1>11, <1>12, <1>13, <1>15, <1>16, <1>17, <1>18, <1>19 DEF SubStep

(* An event that is stored finds its subscription tended. *)
LEMMA ReachNew ==
    ASSUME TypeInv, ClockInv, ServedInv, NEW x \in Sub, EventStored(x),
           NEW e, e = Len(stored) + 1, Wanted(e)'
    PROVE  Awaited(e)'
<1>1. /\ stored'[e].sub = x /\ stored'[e].ts \in Nat /\ stored'[e].ts + Skew >= now
      /\ UNCHANGED <<st, phase, link, live, forgotten>> /\ Asks' = Asks /\ Refusals' = Refusals
      /\ x \in live => e \in Arriving' \/ e \in unsent'
  BY DEF EventStored, Positive
<1>2. Tended(x)
  BY <1>1 DEF Wanted, ServedInv
<1>3. \A m \in Asks : m.since \in Int /\ m.since + Skew <= now
  BY SocketNow DEF ClockInv, AsksPast
<1>4. Skew \in Nat /\ now \in Nat
  BY Types DEF TypeInv, EnvType
<1>5. \A m \in Asks : stored'[e].ts >= m.since
  BY <1>1, <1>3, <1>4
<1>6. ParkedSubs' = ParkedSubs /\ Repairing' = Repairing
  BY <1>1 DEF ParkedSubs, Repairing
<1> QED
  BY <1>1, <1>2, <1>5, <1>6 DEF Tended, Awaited, Asked

LEMMA ReachNext ==
    ASSUME TypeInv, ClockInv, ServedInv, ReachInv, UnsentMoves, SubStep PROVE ReachInv'
<1> SUFFICES ASSUME NEW e \in Unhanded', Wanted(e)', Ahead(e)' PROVE Awaited(e)'
  BY DEF ReachInv
<1>1. CASE e \in DOMAIN stored
  BY <1>1, ReachOld
<1>2. CASE e \notin DOMAIN stored
  <2>1. PICK s \in Sub : EventStored(s)
    BY <1>2, StoredKept DEF Unhanded
  <2>2. e = Len(stored) + 1
    BY <1>2, <2>1 DEF EventStored, Unhanded
  <2> QED
    BY <2>1, <2>2, ReachNew
<1> QED
  BY <1>1, <1>2

-----------------------------------------------------------------------------
(***************************************************************************)
(* What the cursor has passed.  A cursor passes an event by reading a      *)
(* younger one of the same subscription.  Before that the event itself was *)
(* asked for, is arriving, was dropped, cut or left out by the relay, or   *)
(* it is older than anything the harness subscribed to.                    *)
(***************************************************************************)

Past(e) ==
    LET s == stored[e].sub
        t == stored[e].ts IN
    /\ t < Begin(s) /\ (st.floor[s] # None => t < st.floor[s])
    /\ \A i \in Subscribes : cmds[i].sub = s => t < cmds[i].since

Overtaken(e) ==
    LET s == stored[e].sub
        t == stored[e].ts IN
    \/ st.last[s] > t + Skew
    \/ \E x \in Arriving : stored[x].sub = s /\ stored[x].ts > t + Skew
    \/ s \in live
    \/ \E m \in Asks : m.sub = s /\ t < m.since

Settled(e) ==
    \/ Asked(e) \/ e \in Arriving \/ e \in unsent \/ e \in cut
    \/ e \in DropsOf(stored[e].sub) \/ Past(e)

SettledInv == \A e \in Unhanded : Overtaken(e) => Settled(e)

LEMMA PastKept ==
    ASSUME TypeInv, BeginMoves, SubStep, NEW e \in DOMAIN stored, Past(e) PROVE Past(e)'
<1> DEFINE s == stored[e].sub
           t == stored[e].ts
<1>1. s \in Sub /\ t \in Positive /\ t \in Nat /\ stored'[e] = stored[e]
  BY StoredAt, StoredKept DEF Positive
<1>2. /\ t < Begin(s) /\ (st.floor[s] # None => t < st.floor[s])
      /\ \A i \in Subscribes : cmds[i].sub = s => t < cmds[i].since
  BY DEF Past
<1>3. /\ t < BeginThen(s) /\ (st'.floor[s] # None => t < st'.floor[s])
      /\ \A i \in Subscribes' : cmds'[i].sub = s => t < cmds'[i].since
      => Past(e)'
  BY <1>1 DEF Past, Begin, BeginThen
<1> HIDE DEF s, t
<1>4. /\ now \in Nat /\ now' \in Nat /\ now' >= now
      /\ \/ CmdsRest /\ \A x \in Sub : st'.floor[x] \in {st.floor[x], None}
         \/ Intends
  BY SubMoves
<1>5. t < BeginThen(s)
  BY <1>1, <1>2 DEF BeginMoves
<1>6. ASSUME cmds # <<>>, cmds' = Tail(cmds)
      PROVE  \A i \in Subscribes' : cmds'[i].sub = s => t < cmds'[i].since
  BY <1>2, <1>6, TailSubscribes
<1>7. CASE CmdsRest /\ \A x \in Sub : st'.floor[x] \in {st.floor[x], None}
  <2>1. st'.floor[s] # None => t < st'.floor[s]
    BY <1>1, <1>2, <1>7
  <2>2. cmds' = cmds => \A i \in Subscribes' : cmds'[i].sub = s => t < cmds'[i].since
    BY <1>2 DEF Subscribes
  <2>3. ASSUME NEW c \in Command, cmds' = Append(cmds, c),
               c.op = "subscribe" => c.since = BeginThen(c.sub)
        PROVE  \A i \in Subscribes' : cmds'[i].sub = s => t < cmds'[i].since
    BY <1>2, <1>5, <2>3, AppendSubscribes
  <2> QED
    BY <1>3, <1>5, <1>6, <1>7, <2>1, <2>2, <2>3 DEF CmdsRest
<1>8. CASE Intends
  <2> DEFINE c == Head(cmds)
  <2>1. /\ cmds # <<>> /\ cmds' = Tail(cmds) /\ c.op = "subscribe"
        /\ \A x \in Sub : x # c.sub => st'.floor[x] = st.floor[x]
        /\ st'.floor[c.sub] = IF st.floor[c.sub] = None THEN c.since ELSE st.floor[c.sub]
    BY <1>8, IntendsFloor
  <2>2. c = cmds[1] /\ 1 \in Subscribes
    BY <2>1, TailSubscribes
  <2> HIDE DEF c
  <2>3. c.sub = s => t < c.since
    BY <1>2, <2>2
  <2>4. st'.floor[s] # None => t < st'.floor[s]
    BY <1>1, <1>2, <2>1, <2>3
  <2> QED
    BY <1>3, <1>5, <1>6, <2>1, <2>4
<1> QED
  BY <1>4, <1>7, <1>8

LEMMA LastMoves ==
    ASSUME TypeInv, SubStep, NEW s \in Sub
    PROVE  \/ st'.last[s] \in {st.last[s], None}
           \/ \E x \in Arriving : stored[x].sub = s /\ st'.last[s] = stored[x].ts
<1>1. CASE SubsQuiet \/ SocketLost \/ Subscribing \/ IntentKept \/ Reconnected
  <2>1. st'.last = st.last
    BY <1>1 DEF SubsQuiet, SocketLost, Subscribing, IntentKept, Reconnected, ConnectedGated,
       Connected, CursorsSame, Intends
  <2> QED
    BY <2>1
<1>2. ASSUME NEW x \in Sub, ReplayAsked(x) \/ EventStored(x) \/ CloseServed(x)
      PROVE  st'.last = st.last
  BY <1>2 DEF ReplayAsked, EventStored, CloseServed, RelayTook
<1>3. ASSUME NEW x \in Sub, ChannelLeft(x) PROVE st'.last[s] \in {st.last[s], None}
  <2>1. st'.last = [st.last EXCEPT ![x] = None] /\ st.last \in [Sub -> Nat]
    BY <1>3, StNow DEF ChannelLeft
  <2> QED
    BY <2>1
<1>4. ASSUME NEW x \in Arriving, EventRead(x)
      PROVE  st'.last[s] = st.last[s] \/ (stored[x].sub = s /\ st'.last[s] = stored[x].ts)
  <2> DEFINE r == stored[x].sub
             u == stored[x].ts
  <2>1. st'.last = [st.last EXCEPT ![r] = Later(st.last[r], u)] \/ st'.last = st.last
    BY <1>4 DEF EventRead, EventHanded, EventDropped
  <2>2. st.last \in [Sub -> Nat]
    BY StNow
  <2>3. Later(st.last[r], u) \in {st.last[r], u}
    BY DEF Later
  <2> HIDE DEF r, u
  <2>4. st'.last[s] = st.last[s] \/ (r = s /\ st'.last[s] = u)
    BY <2>1, <2>2, <2>3
  <2> QED
    BY <2>4 DEF r, u
<1>5. ASSUME NEW m \in Asks, ReqRegistered(m) \/ HistorySent(m) \/ ReqRefused(m)
      PROVE  st'.last = st.last
  BY <1>5 DEF ReqRegistered, HistorySent, ReqRefused, RelayTook
<1> QED
  BY <1>1, <1>2, <1>3, <1>4, <1>5 DEF SubStep

LEMMA ArrivingMoves ==
    ASSUME TypeInv, SubStep
    PROVE  /\ \A x \in Arriving' :
                \/ x \in Arriving
                \/ \E m \in Asks : HistorySent(m) /\ x \in Requested(m)
                \/ \E s \in live : EventStored(s) /\ x = Len(stored) + 1
           /\ \A s \in live' : s \in live \/ \E m \in Asks : ReqRegistered(m) /\ m.sub = s
<1>1. CASE SubsQuiet \/ SocketLost \/ Subscribing \/ IntentKept \/ Reconnected
  <2>1. Arriving' \subseteq Arriving /\ live' \subseteq live
    BY <1>1 DEF SubsQuiet, SocketLost, Subscribing, IntentKept, Reconnected
  <2> QED
    BY <2>1
<1>2. ASSUME NEW x \in Sub, ReplayAsked(x) \/ ChannelLeft(x) \/ CloseServed(x)
      PROVE  Arriving' \subseteq Arriving /\ live' \subseteq live
  BY <1>2 DEF ReplayAsked, ChannelLeft, CloseServed
<1>3. ASSUME NEW x \in Sub, EventStored(x)
      PROVE  /\ \A y \in Arriving' : y \in Arriving \/ (x \in live /\ y = Len(stored) + 1)
             /\ live' = live
  BY <1>3 DEF EventStored
<1>4. ASSUME NEW e \in Arriving, EventRead(e) PROVE Arriving' \subseteq Arriving /\ live' = live
  BY <1>4 DEF EventRead
<1>5. ASSUME NEW m \in Asks, ReqRegistered(m)
      PROVE  Arriving' = Arriving /\ live' = live \cup {m.sub}
  BY <1>5 DEF ReqRegistered
<1>7. ASSUME NEW m \in Asks, HistorySent(m)
      PROVE  Arriving' \subseteq Arriving \cup Requested(m) /\ live' = live
  BY <1>7 DEF HistorySent
<1>6. ASSUME NEW m \in Asks, ReqRefused(m) PROVE Arriving' = Arriving /\ live' = live
  BY <1>6 DEF ReqRefused
<1> QED
  BY <1>1, <1>2, <1>3, <1>4, <1>5, <1>6, <1>7 DEF SubStep

(* What the REQ of a cursor leaves out was passed before, or is past. *)
LEMMA SinceOvertakes ==
    ASSUME TypeInv, ClockInv, BeginMoves, NEW e \in DOMAIN stored, stored[e].sub \in st.active,
           stored[e].ts < Since(stored[e].sub) - Skew
    PROVE  Overtaken(e) \/ Past(e)
<1> DEFINE s == stored[e].sub
           t == stored[e].ts
<1>1. s \in Sub /\ t \in Nat /\ Skew \in Nat /\ Begin(s) \in Nat
  BY StoredAt, Types DEF Positive, BeginMoves
<1>2. /\ Since(s) \in Nat /\ st.last[s] \in Nat /\ st.floor[s] \in Nat
      /\ st.last[s] = None => Since(s) = st.floor[s]
      /\ st.last[s] # None => Since(s) <= st.last[s]
      /\ st.floor[s] <= Begin(s)
  BY <1>1, SinceClock DEF ClockInv, CursorsPast
<1>3. t < Since(s) - Skew
  OBVIOUS
<1>4. CASE st.last[s] # None
  <2> HIDE DEF s, t
  <2>1. st.last[s] > t + Skew
    BY <1>1, <1>2, <1>3, <1>4
  <2> QED
    BY <2>1 DEF Overtaken, s, t
<1>5. CASE st.last[s] = None
  <2>1. \A i \in Subscribes : cmds[i].sub = s => st.floor[s] <= cmds[i].since /\ cmds[i].since \in Nat
    BY SubscribeAt DEF ClockInv, CmdsPast, Positive
  <2> HIDE DEF s, t
  <2>2. t < st.floor[s] /\ t < Begin(s)
    BY <1>1, <1>2, <1>3, <1>5
  <2>3. \A i \in Subscribes : cmds[i].sub = s => t < cmds[i].since
    BY <1>1, <1>2, <2>1, <2>2
  <2> QED
    BY <2>2, <2>3 DEF Past, s, t
<1> QED
  BY <1>4, <1>5

(* The same for the REQ of a subscribe. *)
LEMMA StartOvertakes ==
    ASSUME TypeInv, ClockInv, BeginMoves, Intends, NEW e \in DOMAIN stored,
           stored[e].sub = Head(cmds).sub, stored[e].ts < Start(Head(cmds)) - Skew
    PROVE  Overtaken(e) \/ Past(e)
<1> DEFINE s == stored[e].sub
           t == stored[e].ts
           c == Head(cmds)
<1>1. s \in Sub /\ t \in Nat /\ Skew \in Nat /\ Begin(s) \in Nat
  BY StoredAt, Types DEF Positive, BeginMoves
<1>2. /\ st.last[s] \in Nat /\ st.floor[s] \in Nat /\ st.floor[s] <= Begin(s)
  BY <1>1, SinceClock DEF ClockInv, CursorsPast
<1>3. cmds # <<>> /\ cmds' = Tail(cmds) /\ c.op = "subscribe" /\ c.since \in Positive
  BY IntendsFloor
<1>4. c = cmds[1] /\ 1 \in Subscribes
  BY <1>3, TailSubscribes
<1>5. c.since <= Begin(c.sub) /\ c.since \in Nat
  BY <1>3, <1>4 DEF ClockInv, CmdsPast, Positive
<1>6. \A i \in Subscribes : /\ i \in Nat /\ i >= 1 /\ cmds[i].since \in Nat
                            /\ cmds[i].sub = s => c.since <= cmds[i].since
                            /\ cmds[i].sub = s => st.floor[s] <= cmds[i].since
  <2>1. ASSUME NEW i \in Subscribes
        PROVE  /\ i \in Nat /\ i >= 1 /\ cmds[i].since \in Nat
               /\ cmds[i].sub = s => c.since <= cmds[i].since
               /\ cmds[i].sub = s => st.floor[s] <= cmds[i].since
    <3>1. i \in Nat /\ i >= 1 /\ cmds[i].since \in Nat
      BY SubscribeAt DEF Positive
    <3>2. i = 1 \/ 1 < i
      BY <3>1
    <3>3. cmds[i].sub = s => c.since <= cmds[i].since
      BY <1>4, <1>5, <3>1, <3>2 DEF ClockInv, CmdsPast
    <3> QED
      BY <3>1, <3>3 DEF ClockInv, CmdsPast
  <2> QED
    BY <2>1
<1>7. t < Start(c) - Skew /\ s = c.sub
  OBVIOUS
<1>8. CASE st.last[s] # None
  <2>1. Start(c) = st.last[s]
    BY <1>7, <1>8 DEF Start
  <2> HIDE DEF s, t, c
  <2>2. st.last[s] > t + Skew
    BY <1>1, <1>2, <1>7, <2>1
  <2> QED
    BY <2>2 DEF Overtaken, s, t
<1>9. CASE st.last[s] = None
  <2>1. Start(c) = IF st.floor[s] # None THEN st.floor[s] ELSE c.since
    BY <1>7, <1>9 DEF Start
  <2> HIDE DEF s, t, c
  <2>2. Start(c) \in Nat /\ Start(c) <= Begin(s) /\ (st.floor[s] # None => Start(c) = st.floor[s])
    BY <1>2, <1>5, <1>7, <2>1
  <2>3. \A i \in Subscribes : cmds[i].sub = s => Start(c) <= cmds[i].since
    BY <1>6, <2>1
  <2>4. t < Start(c)
    BY <1>1, <1>7, <2>2
  <2>5. t < Begin(s) /\ (st.floor[s] # None => t < st.floor[s])
    BY <1>1, <2>2, <2>4
  <2>6. \A i \in Subscribes : cmds[i].sub = s => t < cmds[i].since
    BY <1>1, <1>6, <2>2, <2>3, <2>4
  <2> QED
    BY <2>5, <2>6 DEF Past, s, t
<1> QED
  BY <1>8, <1>9

LEMMA OvertakenBefore ==
    ASSUME TypeInv, ClockInv, BeginMoves, SubStep, NEW e \in DOMAIN stored, Overtaken(e)'
    PROVE  Overtaken(e) \/ Past(e) \/ Asked(e)
<1> DEFINE s == stored[e].sub
           t == stored[e].ts
<1>1. s \in Sub /\ t \in Nat /\ Skew \in Nat /\ stored'[e] = stored[e]
  BY StoredAt, StoredKept, Types DEF Positive
<1>2. \/ st'.last[s] > t + Skew
      \/ \E x \in Arriving' : stored'[x].sub = s /\ stored'[x].ts > t + Skew
      \/ s \in live'
      \/ \E m \in Asks' : m.sub = s /\ t < m.since
  BY <1>1 DEF Overtaken
<1>3. \/ st.last[s] > t + Skew
      \/ \E x \in Arriving : stored[x].sub = s /\ stored[x].ts > t + Skew
      \/ s \in live
      \/ \E m \in Asks : m.sub = s /\ t < m.since
      => Overtaken(e)
  BY DEF Overtaken
<1>4. ASSUME NEW m \in Asks, m.sub = s PROVE Overtaken(e) \/ Asked(e)
  <2>1. CASE t < m.since
    BY <1>3, <1>4, <2>1
  <2>2. CASE ~(t < m.since)
    <3>1. m.since \in Int
      BY SocketNow
    <3>2. t >= m.since
      BY <1>1, <2>2, <3>1
    <3> QED
      BY <1>4, <3>2 DEF Asked
  <2> QED
    BY <2>1, <2>2
<1> DEFINE Goal == Overtaken(e) \/ Past(e) \/ Asked(e)
<1>5. CASE st'.last[s] > t + Skew
  <2> HIDE DEF s, t
  <2>1. CASE st'.last[s] \in {st.last[s], None}
    BY <1>1, <1>3, <1>5, <2>1 DEF None
  <2>2. ASSUME NEW x \in Arriving, stored[x].sub = s, st'.last[s] = stored[x].ts PROVE Goal
    BY <1>3, <1>5, <2>2
  <2> QED
    BY <1>1, <2>1, <2>2, LastMoves
<1>6. ASSUME NEW x \in Arriving', stored'[x].sub = s, stored'[x].ts > t + Skew PROVE Goal
  <2>1. CASE x \in Arriving
    <3>1. stored'[x] = stored[x]
      BY <2>1, SocketNow, StoredKept
    <3> QED
      BY <1>3, <1>6, <2>1, <3>1
  <2>2. ASSUME NEW m \in Asks, HistorySent(m), x \in Requested(m) PROVE Goal
    <3>1. m.type = "QUERY" /\ stored' = stored
      BY <2>2 DEF HistorySent, RelayTook
    <3>2. stored[x].sub = m.sub
      BY <2>2, <3>1, RequestedNow
    <3> QED
      BY <1>4, <1>6, <2>2, <3>1, <3>2
  <2>3. ASSUME NEW y \in live, EventStored(y), x = Len(stored) + 1 PROVE Goal
    BY <1>3, <1>6, <2>3 DEF EventStored
  <2> QED
    BY <2>1, <2>2, <2>3, ArrivingMoves
<1>7. CASE s \in live'
  BY <1>3, <1>4, <1>7, ArrivingMoves
<1>8. ASSUME NEW m \in Asks', m.sub = s, t < m.since PROVE Goal
  <2>1. ASSUME NEW x \in Asks, m.sub = x.sub, m.since = x.since PROVE Goal
    BY <1>3, <1>8, <2>1
  <2>2. ASSUME NEW x \in st.active, m = Req(x, Since(x)) PROVE Goal
    BY <1>8, <2>2, ReqParts, SinceOvertakes
  <2>3. CASE Intends /\ m = ReqOf(Head(cmds))
    BY <1>8, <2>3, ReqOfParts, StartOvertakes
  <2> QED
    BY <2>1, <2>2, <2>3, NewAsks
<1> QED
  BY <1>2, <1>5, <1>6, <1>7, <1>8

LEMMA SettledKept ==
    ASSUME TypeInv, ClockInv, BeginMoves, UnsentMoves, SubStep, NEW e \in DOMAIN stored,
           e \in Unhanded', Settled(e)
    PROVE  Settled(e)'
<1> DEFINE s == stored[e].sub
           t == stored[e].ts
<1>1. s \in Sub /\ t \in Nat /\ t \in Positive /\ Skew \in Nat /\ stored'[e] = stored[e]
      /\ e \in Unhanded /\ e \notin handed /\ e \notin handed'
  BY StoredAt, StoredKept, Types DEF Positive, Unhanded
<1>2. st.dropped[s] \in Nat
  BY <1>1, StNow
<1>3. \/ \E m \in Asks' : s = m.sub /\ t >= m.since
      \/ e \in Arriving' \/ e \in unsent' \/ e \in cut'
      \/ st'.dropped[s] # None /\ t >= st'.dropped[s]
      => Settled(e)'
  BY <1>1 DEF Settled, Asked, DropsOf
<1>4. \/ \E m \in Asks : s = m.sub /\ t >= m.since
      \/ e \in Arriving \/ e \in cut
      \/ st.dropped[s] # None /\ t >= st.dropped[s]
      \/ Settled(e)'
  <2>1. e \in unsent => Settled(e)'
    BY <1>3 DEF UnsentMoves
  <2> QED
    BY <2>1, PastKept DEF Settled, Asked, DropsOf
<1>5. \A m \in Asks : s = m.sub /\ t >= m.since => e \in Requested(m)
  BY SocketNow, RequestedNow
<1>6. st.dropped[s] # None /\ t >= st.dropped[s] => e \in Requested(Req(s, Since(s)))
  <2>1. ASSUME st.dropped[s] # None, t >= st.dropped[s] PROVE t >= Req(s, Since(s)).since
    <3>1. Since(s) \in Nat /\ Since(s) <= st.dropped[s] /\ Req(s, Since(s)).since = Since(s) - Skew
      BY <1>1, <2>1, SinceClock, ReqParts DEF ClockInv
    <3> HIDE DEF s, t
    <3> QED
      BY <1>1, <1>2, <2>1, <3>1
  <2> DEFINE m == Req(s, Since(s))
  <2>2. m.type = "REQ" /\ m.sub = s
    BY ReqParts
  <2>3. (st.dropped[s] # None /\ t >= st.dropped[s]) => t >= m.since
    BY <2>1
  <2> HIDE DEF m
  <2>4. (st.dropped[s] # None /\ t >= st.dropped[s]) => e \in Requested(m)
    BY <2>2, <2>3, RequestedNow
  <2> QED
    BY <2>4 DEF m
<1>7. \A m : m.type = "REQ" /\ e \in Requested(m) => s = m.sub /\ t >= m.since
  BY RequestedNow
<1> HIDE DEF s, t
<1>8. ASSUME \A m \in Asks : s = m.sub /\ t >= m.since =>
               m \in Asks' \/ e \in Arriving' \/ e \in cut' \/ Settled(e)',
             e \in Arriving => e \in Arriving' \cup cut', e \in cut => e \in cut',
             \/ st'.dropped[s] = st.dropped[s]
             \/ st.dropped[s] # None /\ t >= st.dropped[s] => Settled(e)'
      PROVE  Settled(e)'
  BY <1>3, <1>4, <1>8
<1>9. CASE SubsQuiet
  BY <1>1, <1>8, <1>9 DEF SubsQuiet, CursorsSame
<1>10. CASE SocketLost
  <2>1. st'.dropped = st.dropped
    BY <1>10 DEF SocketLost, CursorsSame, Intends
  <2>2. \A m \in Asks : s = m.sub /\ t >= m.since => e \in cut'
    BY <1>1, <1>10 DEF SocketLost, Asked, s, t
  <2>3. e \in Arriving => e \in Arriving' \cup cut'
    BY <1>1, <1>10 DEF SocketLost
  <2> QED
    BY <1>8, <1>10, <2>1, <2>2, <2>3 DEF SocketLost
<1>11. CASE Subscribing
  <2>1. st'.dropped = st.dropped /\ Arriving' = Arriving
    BY <1>11 DEF Subscribing, Intends
  <2>2. Asks \subseteq Asks' /\ cut \subseteq cut'
    BY <1>11, ReqWrittenFacts DEF Subscribing
  <2> QED
    BY <1>8, <2>1, <2>2
<1>12. CASE IntentKept
  BY <1>8, <1>12 DEF IntentKept, Intends
<1>13. ASSUME Asks' = Asks, Arriving' = Arriving, cut' = cut, st'.dropped = st.dropped
       PROVE  Settled(e)'
  BY <1>8, <1>13
<1>14. CASE Reconnected
  <2>1. Asks = {} /\ Arriving = {} /\ Arriving' = {}
    BY <1>14 DEF Reconnected
  <2>2. CASE ConnectedGated
    BY <1>13, <2>1, <2>2 DEF ConnectedGated, CursorsSame
  <2>3. ASSUME NEW sent \in SUBSET st.active, Connected(sent) PROVE Settled(e)'
    <3>1. st'.dropped[s] = IF s \in sent THEN None ELSE st.dropped[s]
      BY <1>1, <2>3 DEF Connected
    <3>2. cut \subseteq cut'
      BY <2>3 DEF Connected
    <3>3. ASSUME s \in sent, st.dropped[s] # None, t >= st.dropped[s] PROVE Settled(e)'
      <4> DEFINE m == Req(s, Since(s))
      <4>1. m \in Burst(sent) /\ e \in Requested(m) /\ m.type = "REQ"
        BY <1>6, <3>3, ReqParts DEF Burst
      <4>2. s = m.sub /\ t >= m.since
        BY <1>7, <4>1
      <4> HIDE DEF m
      <4>3. Asks' = Burst(sent) \/ e \in cut'
        BY <1>1, <2>3, <4>1 DEF Connected
      <4> QED
        BY <1>3, <4>1, <4>2, <4>3
    <3> QED
      BY <1>8, <2>1, <3>1, <3>2, <3>3
  <2> QED
    BY <1>14, <2>2, <2>3 DEF Reconnected
<1>15. ASSUME NEW x \in Sub, ReplayAsked(x) PROVE Settled(e)'
  <2> DEFINE m == Req(x, Since(x))
  <2>1. /\ ReqWritten(m) /\ UNCHANGED link /\ Arriving' = Arriving
        /\ st'.dropped[s] = IF s = x THEN None ELSE st.dropped[s]
    BY <1>1, <1>15 DEF ReplayAsked
  <2>2. m.type = "REQ"
    BY ReqParts
  <2>3. s = x /\ st.dropped[s] # None /\ t >= st.dropped[s] => e \in Requested(m)
    BY <1>6
  <2> HIDE DEF m
  <2>4. /\ Asks \subseteq Asks' /\ cut \subseteq cut'
        /\ m \in Asks' \/ cut' = cut \cup (Unhanded \cap Requested(m))
    BY <2>1, ReqWrittenFacts
  <2>5. e \in Requested(m) => Settled(e)'
    BY <1>1, <1>3, <1>7, <2>2, <2>4
  <2> QED
    BY <1>8, <2>1, <2>3, <2>4, <2>5
<1>16. ASSUME NEW x \in Sub, ChannelLeft(x) PROVE Settled(e)'
  <2>1. /\ st'.dropped = [st.dropped EXCEPT ![x] = None] /\ cut' = cut \cup DropsOf(x)
        /\ Asks' = Asks /\ Arriving' = Arriving
    BY <1>16 DEF ChannelLeft
  <2>2. s # x => st'.dropped[s] = st.dropped[s]
    BY <1>1, <2>1, StNow
  <2>3. s = x /\ st.dropped[s] # None /\ t >= st.dropped[s] => e \in cut'
    BY <1>1, <2>1 DEF DropsOf, s, t
  <2> QED
    BY <1>3, <1>8, <2>1, <2>2, <2>3
<1>17. ASSUME NEW x \in Sub, EventStored(x) \/ CloseServed(x) PROVE Settled(e)'
  <2>1. st' = st /\ Asks' = Asks /\ Arriving \subseteq Arriving' /\ cut' = cut
    BY <1>17 DEF EventStored, CloseServed, RelayTook
  <2> QED
    BY <1>8, <2>1
<1>18. ASSUME NEW x \in Arriving, EventRead(x) PROVE Settled(e)'
  <2> DEFINE r == stored[x].sub
             u == stored[x].ts
  <2>1. x \in DOMAIN stored
    BY <1>18, SocketNow
  <2>2. r \in Sub /\ u \in Positive /\ u \in Nat
    BY <2>1, StoredAt DEF Positive
  <2>3. Asks' = Asks /\ Arriving \subseteq Arriving' \cup {x} /\ (EventHanded(x) \/ EventDropped(x))
    BY <1>18 DEF EventRead
  <2>4. CASE EventHanded(x)
    <3>1. x \in handed' /\ cut' = cut \ {x} /\ st'.dropped = st.dropped
      BY <2>4 DEF EventHanded
    <3>2. e # x
      BY <1>1, <3>1
    <3> QED
      BY <1>8, <2>3, <3>1, <3>2
  <2>5. CASE EventDropped(x)
    <3> DEFINE d == DroppedCursor(r, u)
    <3>1. cut' = cut /\ st'.dropped = [st.dropped EXCEPT ![r] = d]
      BY <2>5 DEF EventDropped
    <3>2. d \in Nat /\ d # None /\ d <= u /\ (st.dropped[r] # None => d <= st.dropped[r])
      BY <2>2, DroppedCursorFacts DEF Positive, None
    <3>3. e = x => s = r /\ t = u
      BY DEF s, t
    <3> HIDE DEF r, u, d
    <3>4. st.dropped \in [Sub -> Nat]
      BY StNow
    <3>5. st'.dropped[s] = IF s = r THEN d ELSE st.dropped[s]
      BY <1>1, <3>1, <3>4
    <3>6. e = x => Settled(e)'
      BY <1>3, <3>2, <3>3, <3>5
    <3>7. s = r /\ st.dropped[s] # None /\ t >= st.dropped[s] => Settled(e)'
      BY <1>1, <1>2, <1>3, <3>2, <3>5
    <3> QED
      BY <1>8, <2>3, <3>1, <3>5, <3>6, <3>7
  <2> QED
    BY <2>3, <2>4, <2>5
<1>19. ASSUME NEW x \in Asks, HistorySent(x) PROVE Settled(e)'
  <2>1. /\ st' = st /\ Asks \subseteq Asks' \cup {x} /\ cut' = cut
        /\ Arriving \subseteq Arriving'
        /\ \A y \in Unhanded \cap Requested(x) : y \in Arriving' \cup unsent'
    BY <1>19 DEF HistorySent, RelayTook
  <2>2. s = x.sub /\ t >= x.since => Settled(e)'
    BY <1>1, <1>3, <1>5, <2>1
  <2> QED
    BY <1>8, <2>1, <2>2
<1>21. ASSUME NEW x \in Asks, ReqRegistered(x) PROVE Settled(e)'
  <2>1. /\ st' = st /\ Asks \subseteq Asks' \cup {x} /\ cut' = cut /\ Arriving' = Arriving
        /\ AsQuery(x) \in Asks'
    BY <1>21 DEF ReqRegistered, RelayTook
  <2>2. s = x.sub /\ t >= x.since => Settled(e)'
    BY <1>3, <2>1, AsQueryParts
  <2> QED
    BY <1>8, <2>1, <2>2
<1>20. ASSUME NEW x \in Asks, ReqRefused(x) PROVE Settled(e)'
  <2>1. /\ st' = st /\ Asks \subseteq Asks' \cup {x} /\ Arriving' = Arriving
        /\ cut' = cut \cup (Unhanded \cap Requested(x))
    BY <1>20 DEF ReqRefused, RelayTook
  <2> QED
    BY <1>1, <1>5, <1>8, <2>1
<1> QED
  BY <1>9, <1>10, <1>11, <1>12, <1>14, <1>15, <1>16, <1>17, <1>18, <1>19, <1>20, <1>21
     DEF SubStep

(* Nothing overtakes an event before it is stored. *)
LEMMA SettledNew ==
    ASSUME TypeInv, ClockInv, NEW x \in Sub, EventStored(x), NEW e, e = Len(stored) + 1,
           Overtaken(e)'
    PROVE  Settled(e)'
<1> DEFINE t == stored'[e].ts
<1>1. /\ stored'[e].sub = x /\ t \in Nat /\ t + Skew >= now
      /\ \A i \in DOMAIN stored : stored'[i] = stored[i]
      /\ st' = st /\ live' = live /\ Asks' = Asks
      /\ x \in live => e \in Arriving' \/ e \in unsent'
      /\ Arriving' \subseteq Arriving \cup {e}
  BY DEF EventStored, Positive
<1>2. now \in Nat /\ Skew \in Nat /\ st.last[x] \in Nat /\ st.last[x] <= now
  BY StNow, Types DEF TypeInv, EnvType, ClockInv, CursorsPast
<1>3. \A m \in Asks : m.since \in Int /\ m.since + Skew <= now
  BY SocketNow DEF ClockInv, AsksPast
<1>4. \A y \in Arriving : stored'[y] = stored[y] /\ stored[y].ts \in Nat /\ stored[y].ts <= now
  BY <1>1, SocketNow, StoredAt DEF ClockInv, StoredPast, Positive
<1>5. \/ st.last[x] > t + Skew
      \/ \E y \in Arriving' : stored'[y].ts > t + Skew
      \/ x \in live
      \/ \E m \in Asks : t < m.since
  BY <1>1 DEF Overtaken
<1> HIDE DEF t
<1>6. ~(st.last[x] > t + Skew)
  BY <1>1, <1>2
<1>7. \A m \in Asks : ~(t < m.since)
  BY <1>1, <1>2, <1>3
<1>8. \A y \in Arriving : ~(stored'[y].ts > t + Skew)
  BY <1>1, <1>2, <1>4
<1>9. e \in Arriving' \/ e \in unsent'
  BY <1>1, <1>5, <1>6, <1>7, <1>8
<1> QED
  BY <1>9 DEF Settled

LEMMA SettledNext ==
    ASSUME TypeInv, ClockInv, SettledInv, BeginMoves, UnsentMoves, SubStep PROVE SettledInv'
<1> SUFFICES ASSUME NEW e \in Unhanded', Overtaken(e)' PROVE Settled(e)'
  BY DEF SettledInv
<1>1. CASE e \in DOMAIN stored
  <2>1. e \in Unhanded
    BY <1>1, StoredKept DEF Unhanded
  <2>2. Settled(e)
    BY <1>1, <2>1, OvertakenBefore DEF SettledInv, Settled
  <2> QED
    BY <1>1, <2>2, SettledKept
<1>2. CASE e \notin DOMAIN stored
  <2>1. PICK s \in Sub : EventStored(s)
    BY <1>2, StoredKept DEF Unhanded
  <2>2. e = Len(stored) + 1
    BY <1>2, <2>1 DEF EventStored, Unhanded
  <2> QED
    BY <2>1, <2>2, SettledNew
<1> QED
  BY <1>1, <1>2

ReplayInv == SubsInv /\ ClockInv /\ ReachInv /\ SettledInv

LEMMA ReplayInit ==
    ASSUME Init PROVE ReplayInv
<1>1. /\ out = <<>> /\ cmds = <<>> /\ stored = <<>> /\ now = Startup
      /\ st.active = Started
      /\ st.floor = [s \in Sub |-> IF s \in Started \cup {Membership} THEN Startup ELSE None]
      /\ st.last = [s \in Sub |-> IF s = Membership THEN Startup ELSE None]
      /\ st.dropped = [s \in Sub |-> None] /\ newest = [c \in Channel |-> Startup]
  BY DEF Init
<1>2. Asks = {} /\ Subscribes = {} /\ DOMAIN stored = {}
  BY <1>1, EmptyFacts DEF Asks, Subscribes
<1>3. Startup \in Nat /\ Startup # None /\ None \in Nat /\ None <= Startup /\ Membership \in Sub
      /\ Started \subseteq Sub
  BY Types DEF Positive, None
<1>4. CursorsPast
  <2>1. \A s \in Sub : Begin(s) = Startup
    BY <1>1 DEF Begin
  <2> QED
    BY <1>1, <1>3, <2>1 DEF CursorsPast
<1>5. ClockInv /\ ReachInv /\ SettledInv
  BY <1>2, <1>4 DEF ClockInv, StoredPast, AsksPast, CmdsPast, ReachInv, SettledInv, Unhanded
<1> QED
  BY <1>5, SubsInit DEF ReplayInv

LEMMA ReplayNext ==
    ASSUME ReplayInv, [Next]_vars PROVE ReplayInv'
<1>1. SubsInv /\ TypeInv /\ NewestInv /\ RecentInv /\ DownInv /\ ServedInv /\ ClockInv /\ ReachInv /\ SettledInv
  BY DEF ReplayInv, SubsInv
<1>2. SubStep /\ TypeInv' /\ SubsInv' /\ BeginMoves /\ UnsentMoves
  BY <1>1, SubCases, TypeNext, SubsNext, BeginAdvances, UnsentStays DEF RecentInv
<1> QED
  BY <1>1, <1>2, ClockNext, ReachNext, SettledNext DEF ReplayInv

LEMMA NothingLost ==
    ASSUME ReplayInv PROVE NothingSlipsBy
<1>1. TypeInv /\ ClockInv /\ ReachInv /\ SettledInv /\ CursorsPast
  BY DEF ReplayInv, SubsInv, ClockInv
<1> SUFFICES ASSUME NEW e \in Unhanded \ unsent, Wanted(e)
             PROVE  \/ Coming(e)
                    \/ e \in cut /\ stored[e].ts < Since(stored[e].sub) - Skew
  BY DEF NothingSlipsBy
<1> DEFINE s == stored[e].sub
           t == stored[e].ts
<1>2. s \in Sub /\ t \in Nat /\ Skew \in Nat
  BY <1>1, StoredAt, Types DEF Positive, Unhanded
<1>3. s \in st.active \ forgotten /\ t >= st.floor[s] /\ st.floor[s] # None
  BY <1>1, <1>2 DEF Wanted, CursorsPast
<1>4. /\ Since(s) \in Nat
      /\ st.last[s] \in Nat /\ st.dropped[s] \in Nat /\ st.floor[s] \in Nat
      /\ st.last[s] = None => st.dropped[s] = None /\ Since(s) = st.floor[s]
      /\ st.last[s] # None => Since(s) <= st.last[s]
      /\ st.dropped[s] # None => Since(s) <= st.dropped[s]
      /\ st.last[s] # None /\ st.dropped[s] = None => Since(s) = st.last[s]
  BY <1>1, <1>2, SinceClock, SinceFacts
<1>5. (Asked(e) => e \in AskedBy(out)) /\ (e \in Arriving => e \in Carrying(wire))
      /\ (s \in Refusals => Underway(s))
  BY <1>1, SocketNow
<1>6. Asked(e) \/ e \in Arriving => Coming(e)
  BY <1>5 DEF Coming
<1>7. CASE t >= Since(s) - Skew
  <2>1. Owed(s) \/ s \in Refusals => Coming(e)
    BY <1>5, <1>7 DEF Coming
  <2>2. CASE st.dropped[s] # None
    BY <2>1, <2>2 DEF Owed
  <2>3. CASE st.dropped[s] = None
    <3>1. st.last[s] # None => t + Skew >= st.last[s]
      <4> HIDE DEF s, t
      <4> QED
        BY <1>2, <1>4, <1>7, <2>3
    <3>2. Awaited(e)
      BY <1>1, <3>1 DEF ReachInv, Ahead
    <3> QED
      BY <1>6, <2>1, <2>3, <3>2 DEF Awaited, Owed, Repairing
  <2> QED
    BY <2>2, <2>3
<1>8. CASE ~(t >= Since(s) - Skew)
  <2>1. t < Since(s) - Skew
    BY <1>2, <1>4, <1>8
  <2>2. st.last[s] # None /\ st.last[s] > t + Skew
    <3> HIDE DEF s, t
    <3> QED
      BY <1>2, <1>3, <1>4, <2>1
  <2>3. Settled(e)
    BY <1>1, <2>2 DEF SettledInv, Overtaken
  <2>4. e \notin DropsOf(s)
    <3>1. ASSUME st.dropped[s] # None PROVE t < st.dropped[s]
      <4> HIDE DEF s, t
      <4> QED
        BY <1>2, <1>4, <2>1, <3>1
    <3>2. st.dropped[s] # None => ~(t >= st.dropped[s])
      BY <1>2, <1>4, <3>1
    <3> QED
      BY <3>2 DEF DropsOf
  <2>5. ~Past(e)
    <3>1. ~(t < st.floor[s])
      BY <1>2, <1>3, <1>4
    <3> QED
      BY <1>3, <3>1 DEF Past
  <2> QED
    BY <1>6, <2>1, <2>3, <2>4, <2>5 DEF Settled
<1> QED
  BY <1>7, <1>8

(* No event of a wanted subscription slips by: until it is handed to the   *)
(* harness it is on its way, or the task still has to ask for a replay     *)
(* that reaches it, or the relay left it out of its answer; only a replay  *)
(* that is cut short loses one, and only one that the cursor has passed    *)
(* (channel_since, record_event, recover_one, resubscribe_after_reconnect, *)
(* handle_req).                                                            *)
THEOREM NoEventSlipsBy ==
    Spec => []NothingSlipsBy
<1>1. Spec => []ReplayInv
  BY ReplayInit, ReplayNext, PTL DEF Spec
<1> QED
  BY <1>1, NothingLost, PTL
=============================================================================
