-------------------------- MODULE EventQueueProofs --------------------------
(***************************************************************************)
(* What holds of the event queue for every set of scopes and channels, any *)
(* caps, batch size, retry budget and deadline, and any number of events.  *)
(***************************************************************************)
EXTENDS EventQueue, NatLemmas, SequenceTheorems, FiniteSetTheorems, TLAPS

Tables == [Scope -> Seq(Event)]

(* No event twice. *)
Distinct(q) == \A i, j \in DOMAIN q : q[i] = q[j] => i = j

(* A queue that has lost events of another, and nothing else. *)
Shrunk(new, old) ==
    /\ Len(new) <= Len(old)
    /\ Elems(new) \subseteq Elems(old)
    /\ Distinct(old) => Distinct(new)

(* The pending events of channel c, which ChannelEventTotal counts. *)
Slots(qs, c) == UNION {{s} \X DOMAIN qs[s] : s \in ScopesOf(c)}

-----------------------------------------------------------------------------
(* The caps. *)

LEMMA SlotsElement ==
    ASSUME NEW qs, NEW c, NEW x
    PROVE  x \in Slots(qs, c) <=> \E s \in ScopesOf(c) : \E i \in DOMAIN qs[s] : x = <<s, i>>
BY DEF Slots

LEMMA SlotsFinite ==
    ASSUME NEW qs \in Tables, NEW c
    PROVE  IsFiniteSet(Slots(qs, c)) /\ ChannelEventTotal(qs, c) \in Nat
<1> DEFINE rows == {{s} \X DOMAIN qs[s] : s \in ScopesOf(c)}
           row == [s \in ScopesOf(c) |-> {s} \X DOMAIN qs[s]]
<1>1. IsFiniteSet(ScopesOf(c))
  BY FS_Subset, ConstantsAssumption DEF ScopesOf
<1>2. IsFiniteSet(rows)
  <2>1. row \in Surjection(ScopesOf(c), rows)
    BY DEF Surjection
  <2> QED
    BY <1>1, <2>1, FS_Surjection
<1>3. ASSUME NEW s \in ScopesOf(c) PROVE IsFiniteSet({s} \X DOMAIN qs[s])
  <2>1. qs[s] \in Seq(Event)
    BY DEF Tables, ScopesOf
  <2>2. DOMAIN qs[s] = 1..Len(qs[s]) /\ Len(qs[s]) \in Nat
    BY <2>1, LenProperties
  <2>3. IsFiniteSet(DOMAIN qs[s])
    BY <2>2, FS_Interval
  <2>4. IsFiniteSet({s})
    BY FS_Singleton
  <2> QED
    BY <2>3, <2>4, FS_Product
<1>4. IsFiniteSet(UNION rows)
  BY <1>2, <1>3, FS_UNION
<1> QED
  BY <1>4, FS_CardinalityType DEF Slots, ChannelEventTotal

(* The scope that flush_next or an eviction picks. *)
LEMMA OldestHeadIsReady ==
    ASSUME NEW qs \in Tables, NEW ready \in SUBSET Scope, ready # {},
           \A s \in ready : qs[s] # <<>>
    PROVE  OldestHead(qs, ready) \in ready
<1> DEFINE heads == {Head(qs[s]) : s \in ready}
<1>1. \A s \in ready : Head(qs[s]) \in Nat
  <2> SUFFICES ASSUME NEW s \in ready PROVE Head(qs[s]) \in Nat
    OBVIOUS
  <2>1. qs[s] \in Seq(Event) /\ qs[s] # <<>>
    BY DEF Tables
  <2> QED
    BY <2>1, HeadTailProperties, ConstantsAssumption DEF Event
<1>2. heads # {} /\ heads \subseteq Nat
  BY <1>1
<1>3. \E h \in heads : \A k \in heads : h <= k
  <2> HIDE DEF heads
  <2> QED
    BY <1>2, LeastExists
<1>4. \E s \in ready : \A t \in ready : Head(qs[s]) <= Head(qs[t])
  BY <1>3
<1> QED
  BY <1>4 DEF OldestHead

(* One eviction: one event of the channel less, its scope's oldest. *)
LEMMA EvictOne ==
    ASSUME NEW qs \in Tables, NEW c, ChannelEventTotal(qs, c) > 0
    PROVE  LET new == EvictOldestHead(qs, c) IN
           /\ new \in Tables
           /\ ChannelEventTotal(new, c) = ChannelEventTotal(qs, c) - 1
           /\ \A s \in Scope : Shrunk(new[s], qs[s])
           /\ \A s \in Scope : ChannelOf[s] # c => new[s] = qs[s]
<1> DEFINE ready == {s \in ScopesOf(c) : qs[s] # <<>>}
           v == OldestHead(qs, ready)
           new == [qs EXCEPT ![v] = Tail(@)]
<1>1. ready # {}
  <2>1. Slots(qs, c) # {}
    BY SlotsFinite, FS_EmptySet DEF ChannelEventTotal, Slots
  <2>2. PICK s \in ScopesOf(c) : DOMAIN qs[s] # {}
    BY <2>1, SlotsElement
  <2>3. qs[s] # <<>>
    BY <2>2
  <2> QED
    BY <2>2, <2>3
<1>2. v \in Scope /\ ChannelOf[v] = c /\ qs[v] # <<>>
  <2>1. ready \subseteq Scope /\ \A s \in ready : qs[s] # <<>>
    BY DEF ScopesOf
  <2>2. OldestHead(qs, ready) \in ready
    <3> HIDE DEF ready
    <3> QED BY <1>1, <2>1, OldestHeadIsReady
  <2> QED
    BY <2>2 DEF ScopesOf
<1> HIDE DEF v
<1>3. /\ qs[v] \in Seq(Event)
      /\ Tail(qs[v]) \in Seq(Event)
      /\ Len(qs[v]) \in Nat \ {0}
      /\ Len(Tail(qs[v])) = Len(qs[v]) - 1
      /\ DOMAIN qs[v] = 1..Len(qs[v])
      /\ DOMAIN Tail(qs[v]) = 1..(Len(qs[v]) - 1)
      /\ \A i \in 1..(Len(qs[v]) - 1) : Tail(qs[v])[i] = qs[v][i + 1]
  <2>1. qs[v] \in Seq(Event)
    BY <1>2 DEF Tables
  <2> QED
    BY <1>2, <2>1, HeadTailProperties, LenProperties, EmptySeq
<1>4. new \in Tables
  BY <1>3 DEF Tables
<1>5. \A s \in Scope : new[s] = IF s = v THEN Tail(qs[v]) ELSE qs[s]
  BY DEF Tables
<1>6. Slots(new, c) = Slots(qs, c) \ {<<v, Len(qs[v])>>}
  <2>1. ASSUME NEW s \in ScopesOf(c), NEW i
        PROVE  i \in DOMAIN new[s] <=> i \in DOMAIN qs[s] /\ <<s, i>> # <<v, Len(qs[v])>>
    <3>1. CASE s = v
      <4>1. DOMAIN new[s] = 1..(Len(qs[v]) - 1) /\ DOMAIN qs[s] = 1..Len(qs[v])
        BY <1>2, <1>3, <1>5, <3>1
      <4>2. i \in 1..(Len(qs[v]) - 1) <=> i \in 1..Len(qs[v]) /\ i # Len(qs[v])
        BY <1>3
      <4> QED
        BY <3>1, <4>1, <4>2
    <3>2. CASE s # v
      BY <1>5, <3>2 DEF ScopesOf
    <3> QED
      BY <3>1, <3>2
  <2> HIDE DEF new
  <2>2. ASSUME NEW x \in Slots(new, c) PROVE x \in Slots(qs, c) \ {<<v, Len(qs[v])>>}
    <3>1. PICK s \in ScopesOf(c) : \E i \in DOMAIN new[s] : x = <<s, i>>
      BY <2>2, SlotsElement
    <3> QED
      BY <2>1, <3>1, SlotsElement
  <2>3. ASSUME NEW x \in Slots(qs, c) \ {<<v, Len(qs[v])>>} PROVE x \in Slots(new, c)
    <3>1. PICK s \in ScopesOf(c) : \E i \in DOMAIN qs[s] : x = <<s, i>>
      BY <2>3, SlotsElement
    <3> QED
      BY <2>1, <2>3, <3>1, SlotsElement
  <2> QED
    BY <2>2, <2>3
<1>7. <<v, Len(qs[v])>> \in Slots(qs, c)
  BY <1>2, <1>3, SlotsElement DEF ScopesOf
<1>8. Cardinality(Slots(new, c)) = Cardinality(Slots(qs, c)) - 1
  BY <1>6, <1>7, SlotsFinite, FS_RemoveElement
<1>9. \A s \in Scope : Shrunk(new[s], qs[s])
  <2> SUFFICES ASSUME NEW s \in Scope PROVE Shrunk(new[s], qs[s])
    OBVIOUS
  <2>1. CASE s = v
    <3>1. new[s] = Tail(qs[v]) /\ qs[s] = qs[v]
      BY <1>5, <2>1
    <3>2. Distinct(qs[v]) => Distinct(Tail(qs[v]))
      BY <1>3 DEF Distinct
    <3>3. Elems(Tail(qs[v])) \subseteq Elems(qs[v])
      BY <1>3 DEF Elems
    <3> QED
      BY <1>3, <3>1, <3>2, <3>3 DEF Shrunk
  <2>2. CASE s # v
    <3>1. Len(qs[s]) \in Nat
      BY LenProperties DEF Tables
    <3> QED
      BY <1>5, <2>2, <3>1 DEF Shrunk
  <2> QED
    BY <2>1, <2>2
<1>10. EvictOldestHead(qs, c) = new
  BY DEF EvictOldestHead, v
<1> QED
  BY <1>2, <1>4, <1>5, <1>8, <1>9, <1>10 DEF ChannelEventTotal, Slots

(* The eviction loop runs through: n evictions for n events to spare. *)
LEMMA EvictMany ==
    ASSUME NEW qs \in Tables, NEW c, NEW n \in Nat, n <= ChannelEventTotal(qs, c)
    PROVE  LET new == Evictions(qs, c, n) IN
           /\ new \in Tables
           /\ ChannelEventTotal(new, c) = ChannelEventTotal(qs, c) - n
           /\ \A s \in Scope : Shrunk(new[s], qs[s])
           /\ \A s \in Scope : ChannelOf[s] # c => new[s] = qs[s]
<1> DEFINE IsRun(f, m) == f = [i \in 0..m |-> IF i = 0 THEN qs ELSE EvictOldestHead(f[i - 1], c)]
           S == {m \in Nat : \E f : IsRun(f, m)}
<1>1. 0 \in S
  <2>1. IsRun([i \in 0..0 |-> qs], 0)
    OBVIOUS
  <2> QED
    BY <2>1
<1>2. ASSUME NEW m \in Nat, m \in S PROVE m + 1 \in S
  <2>1. PICK f : IsRun(f, m)
    BY <1>2
  <2> DEFINE g == [i \in 0..(m + 1) |-> IF i = m + 1 THEN EvictOldestHead(f[m], c) ELSE f[i]]
  <2>2. \A i \in 0..(m + 1) : g[i] = IF i = 0 THEN qs ELSE EvictOldestHead(g[i - 1], c)
    BY <2>1
  <2>3. IsRun(g, m + 1)
    <3> HIDE DEF g
    <3>1. g = [i \in 0..(m + 1) |-> g[i]]
      BY DEF g
    <3> QED
      BY <2>2, <3>1
  <2>4. \E h : IsRun(h, m + 1)
    <3> HIDE DEF g, IsRun
    <3> QED
      BY <2>3
  <2> QED
    BY <2>4
<1>3. \E f : IsRun(f, n)
  <2>1. Nat \subseteq S
    <3> HIDE DEF S
    <3> QED
      BY <1>1, <1>2, SetInduction
  <2> QED
    BY <2>1
<1> DEFINE run == CHOOSE f : IsRun(f, n)
<1>4. Evictions(qs, c, n) = run[n]
  BY DEF Evictions
<1>5. \A i \in 0..n : run[i] = IF i = 0 THEN qs ELSE EvictOldestHead(run[i - 1], c)
  <2>1. IsRun(run, n)
    BY <1>3
  <2> HIDE DEF run
  <2> QED
    BY <2>1
<1> HIDE DEF run
<1> DEFINE Good(new, m) ==
             /\ new \in Tables
             /\ ChannelEventTotal(new, c) = ChannelEventTotal(qs, c) - m
             /\ \A s \in Scope : Shrunk(new[s], qs[s])
             /\ \A s \in Scope : ChannelOf[s] # c => new[s] = qs[s]
           G == {m \in Nat : m <= n => Good(run[m], m)}
<1> HIDE DEF Good
<1>6. 0 \in G
  <2>1. run[0] = qs
    BY <1>5
  <2>2. ChannelEventTotal(qs, c) \in Nat
    BY SlotsFinite
  <2>3. \A s \in Scope : Len(qs[s]) \in Nat
    BY LenProperties DEF Tables
  <2> QED
    BY <2>1, <2>2, <2>3 DEF Good, Shrunk
<1>7. ASSUME NEW m \in Nat, m \in G PROVE m + 1 \in G
  <2> SUFFICES ASSUME m + 1 <= n PROVE Good(run[m + 1], m + 1)
    OBVIOUS
  <2> DEFINE old == run[m]
             new == EvictOldestHead(old, c)
  <2>1. run[m + 1] = new
    BY <1>5
  <2>2. Good(old, m)
    BY <1>7
  <2> HIDE DEF old
  <2> USE DEF Good
  <2>3. ChannelEventTotal(old, c) > 0
    BY <2>2, SlotsFinite
  <2>4. /\ new \in Tables
        /\ ChannelEventTotal(new, c) = ChannelEventTotal(old, c) - 1
        /\ \A s \in Scope : Shrunk(new[s], old[s])
        /\ \A s \in Scope : ChannelOf[s] # c => new[s] = old[s]
    BY <2>2, <2>3, EvictOne
  <2> HIDE DEF new
  <2>5. ChannelEventTotal(new, c) = ChannelEventTotal(qs, c) - (m + 1)
    BY <2>2, <2>4, SlotsFinite
  <2>6. \A s \in Scope : Len(new[s]) \in Nat /\ Len(old[s]) \in Nat /\ Len(qs[s]) \in Nat
    BY <2>2, <2>4, LenProperties DEF Tables
  <2>7. \A s \in Scope : Shrunk(new[s], qs[s])
    <3> SUFFICES ASSUME NEW s \in Scope PROVE Shrunk(new[s], qs[s])
      OBVIOUS
    <3>1. Shrunk(new[s], old[s]) /\ Shrunk(old[s], qs[s])
      BY <2>2, <2>4
    <3> HIDE DEF Good
    <3> QED
      BY <2>6, <3>1 DEF Shrunk
  <2> QED
    BY <2>1, <2>2, <2>4, <2>5, <2>7
<1>8. n \in G
  <2> HIDE DEF G
  <2> QED
    BY <1>6, <1>7, SetInduction
<1> QED
  BY <1>4, <1>8 DEF Good

(* The channel cap after a push, a requeue, a release or an expiry. *)
LEMMA CapEnforced ==
    ASSUME NEW qs \in Tables, NEW c
    PROVE  LET new == EnforceChannelCap(qs, c) IN
           /\ new \in Tables
           /\ ChannelEventTotal(new, c) <= MaxPerChannel
           /\ new = qs \/ ChannelEventTotal(new, c) = MaxPerChannel
           /\ \A s \in Scope : Shrunk(new[s], qs[s])
           /\ \A s \in Scope : ChannelOf[s] # c => new[s] = qs[s]
<1> DEFINE excess == ChannelEventTotal(qs, c) - MaxPerChannel
<1>1. ChannelEventTotal(qs, c) \in Nat /\ MaxPerChannel \in Nat
  BY SlotsFinite, ConstantsAssumption
<1>2. \A s \in Scope : Len(qs[s]) \in Nat
  BY LenProperties DEF Tables
<1>3. CASE excess > 0
  <2>1. excess \in Nat /\ excess <= ChannelEventTotal(qs, c)
    BY <1>1, <1>3
  <2>2. EnforceChannelCap(qs, c) = Evictions(qs, c, excess)
    BY <1>3 DEF EnforceChannelCap
  <2> DEFINE new == Evictions(qs, c, excess)
  <2>3. /\ new \in Tables
        /\ ChannelEventTotal(new, c) = ChannelEventTotal(qs, c) - excess
        /\ \A s \in Scope : Shrunk(new[s], qs[s])
        /\ \A s \in Scope : ChannelOf[s] # c => new[s] = qs[s]
    <3> HIDE DEF excess
    <3> QED
      BY <2>1, EvictMany
  <2> HIDE DEF new
  <2>4. ChannelEventTotal(new, c) = MaxPerChannel
    BY <1>1, <2>3
  <2> QED
    BY <1>1, <2>2, <2>3, <2>4 DEF new
<1>4. CASE ~(excess > 0)
  <2>1. EnforceChannelCap(qs, c) = qs
    BY <1>4 DEF EnforceChannelCap
  <2> QED
    BY <1>1, <1>2, <1>4, <2>1 DEF Shrunk
<1> QED
  BY <1>3, <1>4

(* The caps of CapsHold, for any table of pending events. *)
Capped(qs) ==
    /\ \A s \in Scope : Len(qs[s]) <= MaxPerScope
    /\ \A c \in Channel : ChannelEventTotal(qs, c) <= MaxPerChannel

(* A channel whose queues have only shrunk holds no more events. *)
LEMMA TotalShrinks ==
    ASSUME NEW qs \in Tables, NEW new \in Tables, NEW c,
           \A s \in ScopesOf(c) : Len(new[s]) <= Len(qs[s])
    PROVE  ChannelEventTotal(new, c) <= ChannelEventTotal(qs, c)
<1>1. ASSUME NEW s \in ScopesOf(c) PROVE DOMAIN new[s] \subseteq DOMAIN qs[s]
  <2>1. new[s] \in Seq(Event) /\ qs[s] \in Seq(Event)
    BY DEF Tables, ScopesOf
  <2>2. /\ DOMAIN new[s] = 1..Len(new[s]) /\ Len(new[s]) \in Nat
        /\ DOMAIN qs[s] = 1..Len(qs[s]) /\ Len(qs[s]) \in Nat
    BY <2>1, LenProperties
  <2> QED
    BY <2>2
<1>2. Slots(new, c) \subseteq Slots(qs, c)
  BY <1>1, SlotsElement
<1> QED
  BY <1>2, SlotsFinite, FS_Subset DEF ChannelEventTotal, Slots

LEMMA CappedShrinks ==
    ASSUME NEW qs \in Tables, NEW new \in Tables, Capped(qs),
           \A s \in Scope : Len(new[s]) <= Len(qs[s])
    PROVE  Capped(new)
<1>1. ASSUME NEW s \in Scope PROVE Len(new[s]) <= MaxPerScope
  BY LenProperties, ConstantsAssumption DEF Capped, Tables
<1>2. ASSUME NEW c \in Channel PROVE ChannelEventTotal(new, c) <= MaxPerChannel
  <2>1. ChannelEventTotal(new, c) <= ChannelEventTotal(qs, c)
    BY TotalShrinks DEF ScopesOf
  <2> QED
    BY <2>1, SlotsFinite, ConstantsAssumption DEF Capped
<1> QED
  BY <1>1, <1>2 DEF Capped

(* A scope gets a new queue within the scope cap, and the channel cap is   *)
(* enforced.                                                               *)
LEMMA CappedReplace ==
    ASSUME NEW qs \in Tables, Capped(qs), NEW s \in Scope, NEW q \in Seq(Event),
           Len(q) <= MaxPerScope
    PROVE  LET new == EnforceChannelCap([qs EXCEPT ![s] = q], ChannelOf[s]) IN
           new \in Tables /\ Capped(new)
<1> DEFINE mid == [qs EXCEPT ![s] = q]
           new == EnforceChannelCap(mid, ChannelOf[s])
<1>1. mid \in Tables /\ \A t \in Scope : mid[t] = IF t = s THEN q ELSE qs[t]
  BY DEF Tables
<1> HIDE DEF mid
<1>2. /\ new \in Tables
      /\ ChannelEventTotal(new, ChannelOf[s]) <= MaxPerChannel
      /\ \A t \in Scope : Len(new[t]) <= Len(mid[t])
      /\ \A t \in Scope : ChannelOf[t] # ChannelOf[s] => new[t] = mid[t]
  BY <1>1, CapEnforced DEF Shrunk
<1> HIDE DEF new
<1>3. ASSUME NEW t \in Scope PROVE Len(new[t]) <= MaxPerScope
  <2>1. Len(new[t]) \in Nat /\ Len(mid[t]) \in Nat /\ MaxPerScope \in Nat
    BY <1>1, <1>2, LenProperties, ConstantsAssumption DEF Tables
  <2>2. Len(mid[t]) <= MaxPerScope
    BY <1>1 DEF Capped
  <2> QED
    BY <1>2, <2>1, <2>2
<1>4. ASSUME NEW c \in Channel PROVE ChannelEventTotal(new, c) <= MaxPerChannel
  <2>1. CASE c = ChannelOf[s]
    BY <1>2, <2>1
  <2>2. CASE c # ChannelOf[s]
    <3>1. \A t \in ScopesOf(c) : new[t] = qs[t] /\ Len(new[t]) \in Nat
      BY <1>1, <1>2, <2>2, LenProperties DEF ScopesOf, Tables
    <3>2. ChannelEventTotal(new, c) <= ChannelEventTotal(qs, c)
      BY <1>2, <3>1, TotalShrinks
    <3> QED
      BY <1>2, <3>2, SlotsFinite, ConstantsAssumption DEF Capped
  <2> QED
    BY <2>1, <2>2
<1> QED
  BY <1>2, <1>3, <1>4 DEF Capped, new, mid

(* push keeps the caps. *)
LEMMA PushBackCapped ==
    ASSUME NEW qs \in Tables, Capped(qs), NEW s \in Scope, NEW e \in Event
    PROVE  PushBack(qs, s, e) \in Tables /\ Capped(PushBack(qs, s, e))
<1> DEFINE kept == IF Len(qs[s]) >= MaxPerScope THEN Tail(qs[s]) ELSE qs[s]
<1>1. qs[s] \in Seq(Event) /\ Len(qs[s]) \in Nat /\ MaxPerScope \in Nat \ {0}
  BY LenProperties, ConstantsAssumption DEF Tables
<1>2. Len(qs[s]) <= MaxPerScope
  BY DEF Capped
<1>3. kept \in Seq(Event) /\ Len(kept) < MaxPerScope /\ Len(kept) \in Nat
  <2>1. CASE Len(qs[s]) >= MaxPerScope
    <3>1. qs[s] # <<>>
      BY <1>1, <2>1, EmptySeq
    <3>2. Tail(qs[s]) \in Seq(Event) /\ Len(Tail(qs[s])) = Len(qs[s]) - 1
      BY <1>1, <3>1, HeadTailProperties
    <3> QED
      BY <1>1, <1>2, <2>1, <3>2
  <2>2. CASE ~(Len(qs[s]) >= MaxPerScope)
    BY <1>1, <2>2
  <2> QED
    BY <2>1, <2>2
<1>4. PushBack(qs, s, e) = EnforceChannelCap([qs EXCEPT ![s] = Append(kept, e)], ChannelOf[s])
  BY DEF PushBack
<1> HIDE DEF kept
<1>5. Append(kept, e) \in Seq(Event) /\ Len(Append(kept, e)) <= MaxPerScope
  BY <1>1, <1>3, AppendProperties
<1> QED
  BY <1>4, <1>5, CappedReplace

(* Requeue, release and expiry recovery keep the caps. *)
LEMMA PushFrontCapped ==
    ASSUME NEW qs \in Tables, Capped(qs), NEW s \in Scope, NEW evs \in Seq(Event)
    PROVE  PushFront(qs, s, evs) \in Tables /\ Capped(PushFront(qs, s, evs))
<1> DEFINE all == evs \o qs[s]
           kept == IF Len(all) > MaxPerScope THEN SubSeq(all, 1, MaxPerScope) ELSE all
<1>1. all \in Seq(Event) /\ Len(all) \in Nat /\ MaxPerScope \in Nat \ {0}
  <2>1. qs[s] \in Seq(Event)
    BY DEF Tables
  <2> QED
    BY <2>1, ConcatProperties, LenProperties, ConstantsAssumption
<1>2. PushFront(qs, s, evs) = EnforceChannelCap([qs EXCEPT ![s] = kept], ChannelOf[s])
  BY DEF PushFront
<1> HIDE DEF all
<1>3. kept \in Seq(Event) /\ Len(kept) <= MaxPerScope
  <2>1. CASE Len(all) > MaxPerScope
    <3>1. \A i \in 1..MaxPerScope : all[i] \in Event
      BY <1>1, <2>1, ElementOfSeq
    <3>2. /\ SubSeq(all, 1, MaxPerScope) \in Seq(Event)
          /\ Len(SubSeq(all, 1, MaxPerScope)) = MaxPerScope
      BY <1>1, <3>1, SubSeqProperties
    <3> QED
      BY <1>1, <2>1, <3>2
  <2>2. CASE ~(Len(all) > MaxPerScope)
    BY <1>1, <2>2
  <2> QED
    BY <2>1, <2>2
<1> HIDE DEF kept
<1> QED
  BY <1>2, <1>3, CappedReplace

(* A table without an event. *)
LEMMA WithoutShrinks ==
    ASSUME NEW q \in Seq(Event), NEW e
    PROVE  /\ Without(q, e) \in Seq(Event)
           /\ Len(Without(q, e)) <= Len(q)
<1>1. Len(q) \in Nat /\ DOMAIN q = 1..Len(q)
  BY LenProperties
<1>2. CASE e \in Elems(q)
  <2> DEFINE i == CHOOSE j \in DOMAIN q : q[j] = e
  <2>1. i \in 1..Len(q)
    BY <1>1, <1>2 DEF Elems
  <2>2. Without(q, e) = SubSeq(q, 1, i - 1) \o SubSeq(q, i + 1, Len(q))
    BY <1>2 DEF Without
  <2> HIDE DEF i
  <2>3. \A k \in 1..Len(q) : q[k] \in Event
    BY <1>1, ElementOfSeq
  <2>4. SubSeq(q, 1, i - 1) \in Seq(Event) /\ Len(SubSeq(q, 1, i - 1)) = i - 1
    <3>1. \A k \in 1..(i - 1) : q[k] \in Event
      BY <1>1, <2>1, <2>3
    <3> QED
      BY <1>1, <2>1, <3>1, SubSeqProperties
  <2>5. SubSeq(q, i + 1, Len(q)) \in Seq(Event) /\ Len(SubSeq(q, i + 1, Len(q))) = Len(q) - i
    <3>1. i + 1 \in Int /\ Len(q) \in Int /\ \A k \in (i + 1)..Len(q) : q[k] \in Event
      BY <1>1, <2>1, <2>3
    <3> DEFINE rest == SubSeq(q, i + 1, Len(q))
               n == Len(rest)
               m == Len(q)
    <3>2. rest \in Seq(Event) /\ n = IF i + 1 <= m THEN m - (i + 1) + 1 ELSE 0
      BY <3>1, SubSeqProperties
    <3>3. m \in Nat /\ i \in 1..m
      BY <1>1, <2>1
    <3> HIDE DEF n, m
    <3>4. n = m - i
      BY <3>2, <3>3
    <3> QED
      BY <3>2, <3>4 DEF n, m
  <2>6. /\ Without(q, e) \in Seq(Event)
        /\ Len(Without(q, e)) = (i - 1) + (Len(q) - i)
    BY <2>2, <2>4, <2>5, ConcatProperties
  <2> QED
    BY <1>1, <2>1, <2>6
<1>3. CASE e \notin Elems(q)
  BY <1>1, <1>3 DEF Without
<1> QED
  BY <1>2, <1>3

(* The sort of a batch permutes positions; it keeps the length. *)
LEMMA SortedIsSeq ==
    ASSUME NEW q \in Seq(Event), NEW r \in SortedByCreation(q)
    PROVE  r \in Seq(Event) /\ Len(r) = Len(q)
<1>1. Len(q) \in Nat /\ DOMAIN q = 1..Len(q) /\ \A k \in 1..Len(q) : q[k] \in Event
  BY LenProperties, ElementOfSeq
<1>2. PICK p \in [DOMAIN q -> DOMAIN q] : r = [i \in DOMAIN q |-> q[p[i]]]
  BY DEF SortedByCreation
<1>3. r \in [1..Len(q) -> Event]
  BY <1>1, <1>2
<1>4. r \in Seq(Event)
  BY <1>1, <1>3, SeqDef
<1> QED
  BY <1>1, <1>3, <1>4, LenProperties

-----------------------------------------------------------------------------
(* Type correctness, together with the caps it needs: the head of a queue  *)
(* is dropped only from one that is full.                                  *)

QueueInv == TypeOK /\ CapsHold

Deadlines == [Scope -> {NoDeadline} \cup 0..TurnDeadline]
Throttles == [Scope -> 0..MaxDelay]
Counts == [Scope -> 0..MaxRetries]

LEMMA CapsHoldIsCapped == CapsHold <=> Capped(queues)
BY DEF CapsHold, Capped

LEMMA SettleType ==
    ASSUME TypeOK, NEW evs, NEW f \in Fate
    PROVE  Settle(evs, f) \in [Event -> Fate]
BY DEF Settle, TypeOK

LEMMA BackoffType ==
    ASSUME NEW attempt \in Nat \ {0}
    PROVE  Backoff(attempt) \in 1..MaxDelay
<1> DEFINE k == IF attempt - 1 < 6 THEN attempt - 1 ELSE 6
           p == 2 ^ k
<1>1. k \in 0..6
  OBVIOUS
<1>2. p \in Nat \ {0}
  <2> HIDE DEF k
  <2>1. 2^0 = 1 /\ 2^1 = 2 /\ 2^2 = 4 /\ 2^3 = 8 /\ 2^4 = 16 /\ 2^5 = 32 /\ 2^6 = 64
    OBVIOUS
  <2>2. k = 0 \/ k = 1 \/ k = 2 \/ k = 3 \/ k = 4 \/ k = 5 \/ k = 6
    BY <1>1
  <2>3. p \in {1, 2, 4, 8, 16, 32, 64}
    BY <2>1, <2>2, Zenon
  <2> HIDE DEF p
  <2> QED
    BY <2>3
<1>3. Backoff(attempt) = IF BaseDelay * p < MaxDelay THEN BaseDelay * p ELSE MaxDelay
  BY DEF Backoff
<1> HIDE DEF p
<1>4. BaseDelay * p \in Nat \ {0}
  BY <1>2, ConstantsAssumption
<1> QED
  BY <1>3, <1>4, ConstantsAssumption

LEMMA MarkCompleteType ==
    ASSUME TypeOK, NEW s \in Scope, NEW ra \in Throttles, NEW rc \in Counts,
           MarkComplete(s, ra, rc)
    PROVE  /\ inFlight' \subseteq Scope
           /\ deadline' \in Deadlines
           /\ retryAfter' \in Throttles
           /\ retryCount' \in Counts
<1>1. inFlight' \subseteq Scope
  BY DEF MarkComplete, TypeOK
<1>2. deadline' \in Deadlines
  BY DEF MarkComplete, TypeOK, Deadlines
<1>3. retryAfter' \in Throttles
  BY DEF MarkComplete
<1>4. retryCount' \in Counts
  BY ConstantsAssumption DEF MarkComplete, Counts
<1> QED
  BY <1>1, <1>2, <1>3, <1>4

(* Arrivals. *)
LEMMA InvArrive ==
    ASSUME QueueInv, NEW s \in Scope, Push(s) \/ PushRefused(s) \/ SteerPush(s)
    PROVE  QueueInv'
<1> USE DEF QueueInv
<1>1. arrived' \in Event /\ arrived' \in 0..MaxEvents
  BY ConstantsAssumption DEF Push, PushRefused, SteerPush, Arrive, TypeOK, Event
<1>2. PushBack(queues, s, arrived') \in Tables /\ Capped(PushBack(queues, s, arrived'))
  BY <1>1, PushBackCapped, CapsHoldIsCapped DEF TypeOK, Tables
<1>3. CASE Push(s)
  <2>1. queues' = PushBack(queues, s, arrived') /\ fate' = Settle({arrived'}, "open")
    BY <1>3 DEF Push
  <2>2. fate' \in [Event -> Fate]
    BY <2>1, SettleType DEF Fate
  <2>3. TypeOK'
    BY <1>1, <1>2, <1>3, <2>1, <2>2 DEF Push, TypeOK, Tables
  <2> QED
    BY <1>2, <2>1, <2>3 DEF CapsHold, Capped
<1>4. CASE PushRefused(s)
  <2>1. fate' \in [Event -> Fate]
    BY <1>4, SettleType DEF Fate, PushRefused
  <2> QED
    BY <1>1, <1>4, <2>1 DEF PushRefused, TypeOK, CapsHold, queueVars
<1>5. CASE SteerPush(s)
  <2> DEFINE qs == PushBack(queues, s, arrived')
             w == Without(qs[s], arrived')
  <2>1. /\ queues' = [qs EXCEPT ![s] = w]
        /\ withheld' = [withheld EXCEPT ![s] = Append(@, arrived')]
        /\ fate' = Settle({arrived'}, "open")
        /\ steers' = steers \cup {<<s, arrived'>>}
    BY <1>5 DEF SteerPush, Withhold
  <2>2. fate' \in [Event -> Fate]
    BY <2>1, SettleType DEF Fate
  <2> HIDE DEF qs
  <2>3. qs \in Tables /\ Capped(qs)
    BY <1>2 DEF qs
  <2>4. qs[s] \in Seq(Event) /\ \A t \in Scope : Len(qs[t]) \in Nat
    BY <2>3, LenProperties DEF Tables
  <2>5. w \in Seq(Event) /\ Len(w) <= Len(qs[s])
    BY <2>4, WithoutShrinks
  <2> HIDE DEF w
  <2>6. queues' \in Tables /\ \A t \in Scope : Len(queues'[t]) <= Len(qs[t])
    BY <2>1, <2>3, <2>4, <2>5 DEF Tables
  <2>7. withheld' \in Tables
    <3>1. withheld \in Tables /\ Append(withheld[s], arrived') \in Seq(Event)
      BY <1>1, AppendProperties DEF TypeOK, Tables
    <3> QED
      BY <2>1, <3>1 DEF Tables
  <2>8. Capped(queues')
    BY <2>3, <2>6, CappedShrinks
  <2>9. TypeOK'
    <3>1. steers' \subseteq Scope \X Event
      BY <1>1, <2>1 DEF TypeOK
    <3>2. UNCHANGED <<inFlight, deadline, retryAfter, retryCount, cancelled,
                      cancelReason, held, turns, removed>>
      BY <1>5 DEF SteerPush
    <3> QED
      BY <1>1, <2>2, <2>6, <2>7, <3>1, <3>2 DEF TypeOK, Tables
  <2> QED
    BY <2>8, <2>9 DEF CapsHold, Capped
<1> QED
  BY <1>3, <1>4, <1>5

(* Expiry, flush and the return of held batches. *)
LEMMA InvExpire ==
    ASSUME QueueInv, NEW s \in Scope, ExpireInFlight(s)
    PROVE  QueueInv'
<1> USE DEF QueueInv
<1>1. withheld[s] \in Seq(Event) /\ queues \in Tables /\ Capped(queues)
  BY CapsHoldIsCapped DEF TypeOK, Tables
<1>2. queues' \in Tables /\ Capped(queues')
  <2>1. PushFront(queues, s, withheld[s]) \in Tables /\ Capped(PushFront(queues, s, withheld[s]))
    BY <1>1, PushFrontCapped
  <2> QED
    BY <1>1, <2>1 DEF ExpireInFlight
<1>3. withheld' \in Tables
  BY EmptySeq DEF ExpireInFlight, TypeOK, Tables
<1>4. deadline' \in Deadlines
  BY DEF ExpireInFlight, TypeOK, Deadlines
<1>5. TypeOK'
  BY <1>2, <1>3, <1>4 DEF ExpireInFlight, TypeOK, Tables, Deadlines
<1> QED
  BY <1>2, <1>5 DEF CapsHold, Capped

LEMMA TakeInFlightType ==
    ASSUME TypeOK, NEW s \in Scope, TakeInFlight(s)
    PROVE  /\ inFlight' \subseteq Scope
           /\ deadline' \in Deadlines
           /\ cancelled' \in Tables
           /\ cancelReason' \in [Scope -> Reason]
<1>1. inFlight' \subseteq Scope
  BY DEF TakeInFlight, TypeOK
<1>2. deadline' \in Deadlines
  BY ConstantsAssumption DEF TakeInFlight, TypeOK, Deadlines
<1>3. cancelled' \in Tables
  BY EmptySeq DEF TakeInFlight, TypeOK, Tables
<1>4. cancelReason' \in [Scope -> Reason]
  BY DEF TakeInFlight, TypeOK, Reason
<1> QED
  BY <1>1, <1>2, <1>3, <1>4

LEMMA HandOverType ==
    ASSUME TypeOK, NEW b \in Batch, HandOver(b)
    PROVE  turns' \subseteq Batch /\ held' \subseteq Batch
BY DEF HandOver, TypeOK

(* The scope a flush picks, and what it takes from it. *)
LEMMA FlushedScope ==
    ASSUME TypeOK, Ready # {}
    PROVE  LET s == OldestHead(queues, Ready)
               n == IF Len(queues[s]) < MaxBatch THEN Len(queues[s]) ELSE MaxBatch
               taken == SubSeq(queues[s], 1, n)
               left == SubSeq(queues[s], n + 1, Len(queues[s]))
           IN  /\ s \in Ready
               /\ taken \in Seq(Event) /\ Len(taken) \in Nat \ {0}
               /\ left \in Seq(Event) /\ Len(left) <= Len(queues[s])
<1> DEFINE s == OldestHead(queues, Ready)
           q == queues[s]
           n == IF Len(q) < MaxBatch THEN Len(q) ELSE MaxBatch
<1>1. s \in Ready
  <2>1. Ready \in SUBSET Scope /\ \A t \in Ready : queues[t] # <<>>
    BY DEF Ready
  <2> QED
    BY <2>1, OldestHeadIsReady DEF TypeOK, Tables
<1>2. q \in Seq(Event) /\ q # <<>>
  BY <1>1 DEF Ready, TypeOK
<1> HIDE DEF q
<1>3. Len(q) \in Nat \ {0} /\ \A i \in 1..Len(q) : q[i] \in Event
  BY <1>2, EmptySeq, ElementOfSeq
<1>4. n \in 1..Len(q)
  BY <1>3, ConstantsAssumption
<1> HIDE DEF n
<1>5. SubSeq(q, 1, n) \in Seq(Event) /\ Len(SubSeq(q, 1, n)) = n
  <2>1. \A i \in 1..n : q[i] \in Event
    BY <1>3, <1>4
  <2> QED
    BY <1>3, <1>4, <2>1, SubSeqProperties
<1>6. SubSeq(q, n + 1, Len(q)) \in Seq(Event) /\ Len(SubSeq(q, n + 1, Len(q))) <= Len(q)
  <2> DEFINE left == SubSeq(q, n + 1, Len(q))
             l == Len(left)
             m == Len(q)
  <2>1. n + 1 \in Int /\ m \in Int /\ \A i \in (n + 1)..m : q[i] \in Event
    BY <1>3, <1>4
  <2>2. left \in Seq(Event) /\ l = IF n + 1 <= m THEN m - (n + 1) + 1 ELSE 0
    BY <2>1, SubSeqProperties
  <2>3. m \in Nat /\ n \in 1..m
    BY <1>3, <1>4
  <2> HIDE DEF l, m
  <2>4. l <= m
    BY <2>2, <2>3
  <2> QED
    BY <2>2, <2>4 DEF l, m
<1>7. Len(SubSeq(q, 1, n)) \in Nat \ {0}
  BY <1>3, <1>4, <1>5
<1> QED
  BY <1>1, <1>5, <1>6, <1>7 DEF q, n

LEMMA InvFlush ==
    ASSUME QueueInv, Flush
    PROVE  QueueInv'
<1> USE DEF QueueInv
<1> DEFINE s == OldestHead(queues, Ready)
           n == IF Len(queues[s]) < MaxBatch THEN Len(queues[s]) ELSE MaxBatch
           taken == SubSeq(queues[s], 1, n)
           left == SubSeq(queues[s], n + 1, Len(queues[s]))
           batch(evs) == [scope |-> s, events |-> evs, cancelled |-> cancelled[s],
                          reason |-> IF cancelled[s] = <<>> THEN "none" ELSE cancelReason[s]]
<1>1. /\ Ready # {}
      /\ \E evs \in SortedByCreation(taken) : HandOver(batch(evs))
      /\ queues' = [queues EXCEPT ![s] = left]
      /\ TakeInFlight(s)
      /\ UNCHANGED <<retryAfter, retryCount, withheld, steers, removed, arrived, fate>>
  BY DEF Flush
<1>2. /\ s \in Ready
      /\ taken \in Seq(Event)
      /\ left \in Seq(Event) /\ Len(left) <= Len(queues[s])
  BY <1>1, FlushedScope
<1> HIDE DEF s, taken, left
<1>3. s \in Scope
  BY <1>2 DEF Ready
<1>4. turns' \subseteq Batch /\ held' \subseteq Batch
  <2>1. PICK evs \in SortedByCreation(taken) : HandOver(batch(evs))
    BY <1>1
  <2>2. evs \in Seq(Event)
    BY <1>2, SortedIsSeq
  <2>3. batch(evs) \in Batch
    BY <1>3, <2>2 DEF Batch, TypeOK, Reason
  <2> HIDE DEF batch
  <2> QED
    BY <2>1, <2>3, HandOverType
<1>5. queues \in Tables /\ Capped(queues) /\ \A t \in Scope : Len(queues[t]) \in Nat
  BY CapsHoldIsCapped, LenProperties DEF TypeOK, Tables
<1>6. queues' \in Tables /\ \A t \in Scope : Len(queues'[t]) <= Len(queues[t])
  BY <1>1, <1>2, <1>3, <1>5 DEF Tables
<1>7. Capped(queues')
  BY <1>5, <1>6, CappedShrinks
<1>8. TypeOK'
  BY <1>1, <1>3, <1>4, <1>6, TakeInFlightType DEF TypeOK, Tables, Deadlines
<1> QED
  BY <1>7, <1>8 DEF CapsHold, Capped

LEMMA InvFlushCancelled ==
    ASSUME QueueInv, NEW s \in Scope, FlushCancelled(s)
    PROVE  QueueInv'
<1> USE DEF QueueInv
<1> DEFINE b == [scope |-> s, events |-> cancelled[s], cancelled |-> <<>>,
                 reason |-> cancelReason[s]]
<1>1. HandOver(b) /\ TakeInFlight(s)
      /\ UNCHANGED <<queues, retryAfter, retryCount, withheld, steers, removed, arrived, fate>>
  BY DEF FlushCancelled
<1>2. b \in Batch
  BY EmptySeq DEF Batch, TypeOK
<1> HIDE DEF b
<1>3. turns' \subseteq Batch /\ held' \subseteq Batch
  BY <1>1, <1>2, HandOverType
<1>4. TypeOK'
  BY <1>1, <1>3, TakeInFlightType DEF TypeOK, Tables, Deadlines
<1> QED
  BY <1>1, <1>4 DEF CapsHold

LEMMA InvReturnHeld ==
    ASSUME QueueInv, NEW b \in held, ReturnHeld(b)
    PROVE  QueueInv'
<1> USE DEF QueueInv
<1> DEFINE s == b.scope
<1>1. /\ s \in Scope /\ b.events \in Seq(Event) /\ b.cancelled \in Seq(Event)
      /\ b.reason \in Reason
  BY DEF TypeOK, Batch
<1>2. queues' \in Tables /\ Capped(queues')
  BY <1>1, PushFrontCapped, CapsHoldIsCapped DEF ReturnHeld, TypeOK, Tables
<1>3. cancelled' \in Tables
  <2>1. cancelled \in Tables /\ b.cancelled \o cancelled[s] \in Seq(Event)
    BY <1>1, ConcatProperties DEF TypeOK, Tables
  <2>2. cancelled' = [cancelled EXCEPT ![s] = b.cancelled \o cancelled[s]]
    BY DEF ReturnHeld
  <2> QED
    BY <1>1, <2>1, <2>2 DEF Tables
<1>4. cancelReason' \in [Scope -> Reason]
  BY <1>1 DEF ReturnHeld, TypeOK
<1>5. /\ inFlight' \subseteq Scope
      /\ deadline' \in Deadlines
      /\ retryAfter' \in Throttles
      /\ retryCount' \in Counts
  BY <1>1, MarkCompleteType DEF ReturnHeld, TypeOK, Throttles, Counts
<1>6. held' \subseteq Batch
  BY DEF ReturnHeld, TypeOK
<1>7. UNCHANGED <<withheld, turns, steers, removed, arrived, fate>>
  BY DEF ReturnHeld
<1>8. TypeOK'
  BY <1>2, <1>3, <1>4, <1>5, <1>6, <1>7 DEF TypeOK, Tables, Deadlines, Throttles, Counts
<1> QED
  BY <1>2, <1>8 DEF CapsHold, Capped

(* Turn results. *)
LEMMA InvTurn ==
    ASSUME QueueInv, NEW b \in turns, TurnReturns(b)
    PROVE  QueueInv'
<1> USE DEF QueueInv
<1> DEFINE s == b.scope
<1>1. s \in Scope /\ b.events \in Seq(Event) /\ b.cancelled \in Seq(Event)
  BY DEF TypeOK, Batch
<1>2. retryAfter \in Throttles /\ retryCount \in Counts
  BY DEF TypeOK, Throttles, Counts
<1>3. ASSUME NEW f \in Fate, Returns(b), MarkComplete(s, retryAfter, retryCount),
             fate' = Settle(BatchEvents(b), f),
             UNCHANGED <<queues, cancelled, cancelReason, withheld, held, steers,
                         removed, arrived>>
      PROVE  QueueInv'
  <2>1. fate' \in [Event -> Fate]
    BY <1>3, SettleType
  <2>2. turns' \subseteq Batch
    BY <1>3 DEF Returns, TypeOK
  <2>3. /\ inFlight' \subseteq Scope
        /\ deadline' \in Deadlines
        /\ retryAfter' \in Throttles
        /\ retryCount' \in Counts
    BY <1>1, <1>2, <1>3, MarkCompleteType
  <2>4. TypeOK'
    BY <1>3, <2>1, <2>2, <2>3 DEF TypeOK, Deadlines, Throttles, Counts
  <2> QED
    BY <1>3, <2>4 DEF CapsHold
<1>4. CASE TurnSucceeded(b) \/ TurnDiscarded(b) \/ TurnDeadLettered(b)
  <2>1. "delivered" \in Fate /\ "discarded" \in Fate /\ "dead_letter" \in Fate
    BY DEF Fate
  <2> QED
    BY <1>3, <1>4, <2>1 DEF TurnSucceeded, TurnDiscarded, TurnDeadLettered
<1>5. CASE TurnFailed(b)
  <2> DEFINE attempt == retryCount[s] + 1
  <2>1. attempt \in Nat \ {0}
    BY <1>1, <1>2, ConstantsAssumption DEF Counts
  <2>2. turns' \subseteq Batch
    BY <1>5 DEF TurnFailed, Returns, TypeOK
  <2>3. UNCHANGED <<cancelled, cancelReason, withheld, held, steers, removed, arrived>>
    BY <1>5 DEF TurnFailed
  <2>4. CASE Exhausted(attempt)
    <3>1. /\ MarkComplete(s, [retryAfter EXCEPT ![s] = 0], [retryCount EXCEPT ![s] = 0])
          /\ fate' = Settle(BatchEvents(b), "dead_letter")
          /\ UNCHANGED queues
      BY <1>5, <2>4 DEF TurnFailed
    <3>2. [retryAfter EXCEPT ![s] = 0] \in Throttles /\ [retryCount EXCEPT ![s] = 0] \in Counts
      <4>1. 0 \in 0..MaxDelay /\ 0 \in 0..MaxRetries
        BY ConstantsAssumption
      <4> QED
        BY <1>2, <4>1 DEF Throttles, Counts
    <3>3. /\ inFlight' \subseteq Scope
          /\ deadline' \in Deadlines
          /\ retryAfter' \in Throttles
          /\ retryCount' \in Counts
      BY <1>1, <3>1, <3>2, MarkCompleteType
    <3>4. fate' \in [Event -> Fate]
      BY <3>1, SettleType DEF Fate
    <3>5. TypeOK'
      BY <2>2, <2>3, <3>1, <3>3, <3>4 DEF TypeOK, Deadlines, Throttles, Counts
    <3> QED
      BY <3>1, <3>5 DEF CapsHold
  <2>5. CASE ~Exhausted(attempt)
    <3>1. /\ queues' = PushFront(queues, s, b.events)
          /\ MarkComplete(s, [retryAfter EXCEPT ![s] = Backoff(attempt)],
                             [retryCount EXCEPT ![s] = attempt])
          /\ fate' = Settle(Elems(b.cancelled), "context_lost")
      BY <1>5, <2>5 DEF TurnFailed
    <3>2. Backoff(attempt) \in 0..MaxDelay /\ attempt \in 0..MaxRetries
      <4>1. Backoff(attempt) \in 1..MaxDelay
        BY <2>1, BackoffType
      <4>2. attempt <= MaxRetries
        BY <2>1, <2>5, ConstantsAssumption DEF Exhausted
      <4> QED
        BY <2>1, <4>1, <4>2, ConstantsAssumption
    <3> HIDE DEF attempt
    <3>3. /\ [retryAfter EXCEPT ![s] = Backoff(attempt)] \in Throttles
          /\ [retryCount EXCEPT ![s] = attempt] \in Counts
      BY <1>2, <3>2 DEF Throttles, Counts
    <3>4. /\ inFlight' \subseteq Scope
          /\ deadline' \in Deadlines
          /\ retryAfter' \in Throttles
          /\ retryCount' \in Counts
      BY <1>1, <3>1, <3>3, MarkCompleteType
    <3>5. queues' \in Tables /\ Capped(queues')
      BY <1>1, <3>1, PushFrontCapped, CapsHoldIsCapped DEF TypeOK, Tables
    <3>6. fate' \in [Event -> Fate]
      BY <3>1, SettleType DEF Fate
    <3>7. TypeOK'
      BY <2>2, <2>3, <3>4, <3>5, <3>6 DEF TypeOK, Tables, Deadlines, Throttles, Counts
    <3> QED
      BY <3>5, <3>7 DEF CapsHold, Capped
  <2> QED
    BY <2>4, <2>5
<1>6. ASSUME NEW reason \in {"steer", "interrupt"}, TurnCancelled(b, reason) PROVE QueueInv'
  <2>1. /\ inFlight' \subseteq Scope
        /\ deadline' \in Deadlines
        /\ retryAfter' \in Throttles
        /\ retryCount' \in Counts
    BY <1>1, <1>2, <1>6, MarkCompleteType DEF TurnCancelled
  <2>2. cancelled' \in Tables
    <3>1. cancelled \in Tables /\ cancelled[s] \in Seq(Event)
      BY <1>1 DEF TypeOK, Tables
    <3>2. cancelled[s] \o b.cancelled \o b.events \in Seq(Event)
      BY <1>1, <3>1, ConcatProperties
    <3>3. cancelled' = [cancelled EXCEPT ![s] = cancelled[s] \o b.cancelled \o b.events]
      BY <1>6 DEF TurnCancelled
    <3> QED
      BY <1>1, <3>1, <3>2, <3>3 DEF Tables
  <2>3. cancelReason' \in [Scope -> Reason]
    BY <1>1, <1>6 DEF TurnCancelled, TypeOK, Reason
  <2>4. turns' \subseteq Batch
    BY <1>6 DEF TurnCancelled, Returns, TypeOK
  <2>5. UNCHANGED <<queues, withheld, held, steers, removed, arrived, fate>>
    BY <1>6 DEF TurnCancelled
  <2>6. TypeOK'
    BY <2>1, <2>2, <2>3, <2>4, <2>5 DEF TypeOK, Tables, Deadlines, Throttles, Counts
  <2> QED
    BY <2>5, <2>6 DEF CapsHold
<1> QED
  BY <1>4, <1>5, <1>6 DEF TurnReturns

(* The acknowledgement of a steer. *)
LEMMA InvSteerAck ==
    ASSUME QueueInv, NEW s \in Scope, NEW e \in Event,
           SteerDelivered(s, e) \/ SteerReleased(s, e)
    PROVE  QueueInv'
<1> USE DEF QueueInv
<1>1. /\ queues \in Tables /\ Capped(queues) /\ withheld \in Tables
      /\ \A t \in Scope : Len(queues[t]) \in Nat
  BY CapsHoldIsCapped, LenProperties DEF TypeOK, Tables
<1>2. withheld' \in Tables
  <2>1. Without(withheld[s], e) \in Seq(Event)
    BY <1>1, WithoutShrinks DEF Tables
  <2>2. withheld' = [withheld EXCEPT ![s] = Without(withheld[s], e)]
    BY DEF SteerDelivered, SteerReleased
  <2> QED
    BY <1>1, <2>1, <2>2 DEF Tables
<1>3. steers' \subseteq Scope \X Event
  BY DEF SteerDelivered, SteerReleased, Acknowledge, TypeOK
<1>4. CASE SteerDelivered(s, e)
  <2> DEFINE w == Without(queues[s], e)
  <2>1. w \in Seq(Event) /\ Len(w) <= Len(queues[s])
    BY <1>1, WithoutShrinks DEF Tables
  <2>2. queues' = [queues EXCEPT ![s] = w]
    BY <1>4 DEF SteerDelivered
  <2> HIDE DEF w
  <2>3. queues' \in Tables /\ \A t \in Scope : Len(queues'[t]) <= Len(queues[t])
    BY <1>1, <2>1, <2>2 DEF Tables
  <2>4. Capped(queues')
    BY <1>1, <2>3, CappedShrinks
  <2>5. deadline' \in Deadlines
    BY <1>4, ConstantsAssumption
       DEF SteerDelivered, ExtendInFlightDeadline, TypeOK, Deadlines, NoDeadline
  <2>6. fate' \in [Event -> Fate]
    BY <1>4, SettleType DEF SteerDelivered, Fate
  <2>7. UNCHANGED <<inFlight, retryAfter, retryCount, cancelled, cancelReason, held,
                    turns, removed, arrived>>
    BY <1>4 DEF SteerDelivered
  <2>8. TypeOK'
    BY <1>2, <1>3, <2>3, <2>5, <2>6, <2>7 DEF TypeOK, Tables, Deadlines
  <2> QED
    BY <2>4, <2>8 DEF CapsHold, Capped
<1>5. CASE SteerReleased(s, e)
  <2>1. queues' \in Tables /\ Capped(queues')
    <3>1. <<e>> \in Seq(Event)
      OBVIOUS
    <3>2. PushFront(queues, s, <<e>>) \in Tables /\ Capped(PushFront(queues, s, <<e>>))
      BY <1>1, <3>1, PushFrontCapped
    <3> QED
      BY <1>1, <1>5, <3>2 DEF SteerReleased
  <2>2. UNCHANGED <<inFlight, deadline, retryAfter, retryCount, cancelled,
                    cancelReason, held, turns, removed, arrived, fate>>
    BY <1>5 DEF SteerReleased
  <2>3. TypeOK'
    BY <1>2, <1>3, <2>1, <2>2 DEF TypeOK, Tables
  <2> QED
    BY <2>1, <2>3 DEF CapsHold, Capped
<1> QED
  BY <1>4, <1>5

(* Membership, maintenance and time. *)
LEMMA InvOther ==
    ASSUME QueueInv,
           \/ \E c \in Channel : Drain(c) \/ Rejoin(c)
           \/ CompactExpiredState
           \/ Tick
    PROVE  QueueInv'
<1> USE DEF QueueInv
<1>1. ASSUME NEW c \in Channel, Drain(c) PROVE QueueInv'
  <2>1. /\ queues \in Tables /\ Capped(queues)
        /\ \A t \in Scope : Len(queues[t]) \in Nat
        /\ <<>> \in Seq(Event) /\ Len(<<>>) = 0
    BY CapsHoldIsCapped, LenProperties, EmptySeq DEF TypeOK, Tables
  <2>2. \A t \in Scope : queues'[t] = <<>> \/ queues'[t] = queues[t]
    BY <1>1 DEF Drain, Cleared
  <2>3. queues' \in Tables
    BY <1>1, <2>1 DEF Drain, Cleared, Tables
  <2>4. Capped(queues')
    BY <2>1, <2>2, <2>3, CappedShrinks
  <2>5. cancelled' \in Tables /\ withheld' \in Tables
    BY <1>1, <2>1 DEF Drain, Cleared, TypeOK, Tables
  <2>6. retryAfter' \in Throttles /\ retryCount' \in Counts
    BY <1>1, ConstantsAssumption DEF Drain, Cleared, TypeOK, Throttles, Counts
  <2>7. cancelReason' \in [Scope -> Reason]
    BY <1>1 DEF Drain, Cleared, TypeOK, Reason
  <2>8. fate' \in [Event -> Fate] /\ removed' \subseteq Channel
    BY <1>1, SettleType DEF Drain, Fate, TypeOK
  <2>9. UNCHANGED <<inFlight, deadline, held, turns, steers, arrived>>
    BY <1>1 DEF Drain
  <2>10. TypeOK'
    BY <2>3, <2>5, <2>6, <2>7, <2>8, <2>9 DEF TypeOK, Tables, Throttles, Counts
  <2> QED
    BY <2>4, <2>10 DEF CapsHold, Capped
<1>2. ASSUME NEW c \in Channel, Rejoin(c) PROVE QueueInv'
  BY <1>2 DEF Rejoin, TypeOK, CapsHold, queueVars
<1>3. CASE CompactExpiredState
  <2>1. retryCount' \in Counts
    BY <1>3, ConstantsAssumption DEF CompactExpiredState, TypeOK, Counts
  <2> QED
    BY <1>3, <2>1 DEF CompactExpiredState, TypeOK, CapsHold, Counts
<1>4. CASE Tick
  <2>1. deadline' \in Deadlines
    BY <1>4, ConstantsAssumption DEF Tick, TypeOK, Deadlines, NoDeadline
  <2>2. retryAfter' \in Throttles
    BY <1>4, ConstantsAssumption DEF Tick, TypeOK, Throttles
  <2> QED
    BY <1>4, <2>1, <2>2 DEF Tick, TypeOK, CapsHold, Deadlines, Throttles
<1> QED
  BY <1>1, <1>2, <1>3, <1>4

LEMMA InvInit == Init => QueueInv
<1> SUFFICES ASSUME Init PROVE QueueInv
  OBVIOUS
<1>1. <<>> \in Seq(Event) /\ Len(<<>>) = 0
  BY EmptySeq
<1>2. queues \in Tables /\ cancelled \in Tables /\ withheld \in Tables
  BY <1>1 DEF Init, Tables
<1>3. deadline \in Deadlines
  BY DEF Init, Deadlines
<1>4. retryAfter \in Throttles /\ retryCount \in Counts
  BY ConstantsAssumption DEF Init, Throttles, Counts
<1>5. cancelReason \in [Scope -> Reason] /\ fate \in [Event -> Fate]
  BY DEF Init, Reason, Fate
<1>6. arrived \in 0..MaxEvents
  BY ConstantsAssumption DEF Init
<1>7. TypeOK
  BY <1>2, <1>3, <1>4, <1>5, <1>6 DEF Init, TypeOK, Tables, Deadlines, Throttles, Counts
<1>8. Capped(queues)
  <2>1. \A s \in Scope : Len(queues[s]) <= MaxPerScope
    BY <1>1, ConstantsAssumption DEF Init
  <2>2. ASSUME NEW c \in Channel PROVE ChannelEventTotal(queues, c) <= MaxPerChannel
    <3>1. \A s \in ScopesOf(c) : DOMAIN queues[s] = {}
      BY DEF Init, ScopesOf
    <3>2. Slots(queues, c) = {}
      BY <3>1, SlotsElement
    <3> QED
      BY <3>2, FS_EmptySet, ConstantsAssumption DEF ChannelEventTotal, Slots
  <2> QED
    BY <2>1, <2>2 DEF Capped
<1> QED
  BY <1>7, <1>8, CapsHoldIsCapped DEF QueueInv

LEMMA InvNext == QueueInv /\ [Next]_vars => QueueInv'
<1> SUFFICES ASSUME QueueInv, [Next]_vars PROVE QueueInv'
  OBVIOUS
<1>1. CASE UNCHANGED vars
  BY <1>1 DEF vars, QueueInv, TypeOK, CapsHold
<1>2. ASSUME NEW a \in steers, SteerDelivered(a[1], a[2]) \/ SteerReleased(a[1], a[2])
      PROVE  QueueInv'
  <2>1. a[1] \in Scope /\ a[2] \in Event
    BY DEF QueueInv, TypeOK
  <2> QED
    BY <1>2, <2>1, InvSteerAck
<1>3. CASE Next
  BY <1>2, <1>3, InvArrive, InvExpire, InvFlush, InvFlushCancelled, InvReturnHeld, InvTurn,
     InvOther DEF Next
<1> QED
  BY <1>1, <1>3

(* Every table of the queue keeps its shape, and no scope's failures ever  *)
(* count past the retry budget.                                            *)
THEOREM QueueTypeCorrect == Spec => []TypeOK
<1>1. QueueInv => TypeOK
  BY DEF QueueInv
<1> QED
  BY <1>1, InvInit, InvNext, PTL DEF Spec

(* No sequence of pushes, retries, releases, expiries and drains leaves a  *)
(* scope or a channel over its cap: each operation that refills a queue    *)
(* trims enough, over all scopes of the channel.                           *)
THEOREM CapsAlwaysHold == Spec => []CapsHold
<1>1. QueueInv => CapsHold
  BY DEF QueueInv
<1> QED
  BY <1>1, InvInit, InvNext, PTL DEF Spec

=============================================================================
