---------------------------- MODULE KVScanProofs ----------------------------
(***************************************************************************)
(* The scan of K/V pages by concurrent loads, for every page table, cache  *)
(* capacity, hot fraction, ring depth, number of threads and list of       *)
(* scans: types, the consistency of the shared cache, the bytes a consumer *)
(* finds in a stage, and quiet threads once the cache is closed.  First    *)
(* the operations of the cache alone, then the loads that interleave them. *)
(***************************************************************************)
EXTENDS KVScan, FiniteSetTheorems, TLAPS

-----------------------------------------------------------------------------
(* The cache alone: every operation keeps it consistent. *)

\* What the operations preserve together.
CacheInv ==
  /\ CacheTypeOK
  /\ RecencyListExact
  /\ SlotsNotShared
  /\ LookupsReturnTheirPage
  /\ NoSlotLost
  /\ PresentCountExact

-----------------------------------------------------------------------------
\* How the slots are split: the hot ones, then the rolling ones.
LEMMA SlotFacts ==
  /\ SlotCount \in Nat /\ SlotCount <= NumPages
  /\ HotSlotCount \in 0 .. SlotCount
  /\ RollingSlotCount \in Nat
<1>1. NumPages \in Nat /\ Capacity \in Nat /\ HotPercent \in 0 .. 100
  BY CacheAssumption
<1>2. SlotCount \in Nat /\ SlotCount <= NumPages
  BY <1>1 DEF SlotCount, AtMost
<1> DEFINE share == (SlotCount * HotPercent) \div 100
<1>3. SlotCount * HotPercent \in Nat
  BY <1>1, <1>2
<1>4. share \in Nat
  <2> HIDE DEF CacheAssumption
  <2> DEFINE n == SlotCount * HotPercent
  <2> SUFFICES n \div 100 \in Nat
    OBVIOUS
  <2>1. n \in Nat
    BY <1>3
  <2> HIDE DEF n
  <2> QED BY <2>1
<1>5. HotSlotCount \in 0 .. SlotCount
  <2> HIDE DEF share
  <2>1. HotSlotCount = AtMost(SlotCount, IF HotPercent > 0 /\ SlotCount > 0
                                         THEN AtLeast(1, share) ELSE share)
    BY DEF HotSlotCount, share
  <2> QED
    BY <1>2, <1>4, <2>1 DEF AtMost, AtLeast
<1> QED
  BY <1>2, <1>5 DEF RollingSlotCount

LEMMA SlotSets ==
  /\ HotPages \subseteq Pages /\ HotPages \subseteq Slots
  /\ RollingSlots \subseteq Slots /\ RollingSlots \cap HotPages = {}
  /\ RollingPages \subseteq Pages /\ RollingPages \cap HotPages = {}
  /\ NoSlot \notin Slots /\ NoPage \notin Pages
  /\ IsFiniteSet(HotPages)
<1>1. IsFiniteSet(HotPages)
  BY SlotFacts, FS_Interval DEF HotPages
<1>2. /\ NumPages \in Nat /\ SlotCount \in Nat /\ HotSlotCount \in Nat
      /\ HotSlotCount <= SlotCount /\ SlotCount <= NumPages
  BY SlotFacts, CacheAssumption
<1>3. HotPages \subseteq Pages /\ HotPages \subseteq Slots /\ RollingSlots \subseteq Slots
  BY <1>2 DEF HotPages, Pages, Slots, RollingSlots
<1>4. RollingSlots \cap HotPages = {} /\ RollingPages \subseteq Pages /\ RollingPages \cap HotPages = {}
  BY <1>2 DEF HotPages, RollingSlots, RollingPages
<1>5. NoSlot \notin Slots /\ NoPage \notin Pages
  BY DEF Slots, Pages, NoSlot, NoPage
<1> QED
  BY <1>1, <1>3, <1>4, <1>5

LEMMA InitCache == CacheInit => CacheInv
<1> SUFFICES ASSUME CacheInit PROVE CacheInv
  OBVIOUS
<1>1. /\ freeSlots = [i \in 1 .. RollingSlotCount |-> HotSlotCount + i - 1]
      /\ RollingSlotCount \in Nat /\ HotSlotCount \in Nat
      /\ RollingSlotCount = SlotCount - HotSlotCount /\ SlotCount \in Nat
  BY SlotFacts DEF CacheInit, RollingSlotCount
<1>2. freeSlots \in Seq(RollingSlots) /\ Len(freeSlots) = RollingSlotCount
  BY <1>1 DEF RollingSlots
<1>3. \A i, j \in 1 .. Len(freeSlots) : freeSlots[i] = freeSlots[j] => i = j
  BY <1>1, <1>2
<1>4. \A i \in 1 .. Len(freeSlots) : freeSlots[i] # NoSlot
  BY <1>1, <1>2 DEF NoSlot
<1>5. /\ lru = <<>> /\ Len(lru) = 0 /\ hotPresent = {} /\ presentCount = 0
      /\ slotOf = [p \in RollingPages |-> NoSlot]
  BY DEF CacheInit
<1>6. CacheTypeOK
  BY <1>2, <1>5 DEF CacheInit, CacheTypeOK
<1>7. RecencyListExact /\ SlotsNotShared
  BY <1>3, <1>4, <1>5 DEF RecencyListExact, SlotsNotShared
<1>8. LookupsReturnTheirPage
  BY <1>5 DEF LookupsReturnTheirPage, Find, RollingPages
<1>9. NoSlotLost
  BY <1>1, <1>2, <1>5 DEF NoSlotLost
<1>10. PresentCountExact
  BY <1>5, FS_EmptySet DEF PresentCountExact
<1> QED
  BY <1>6, <1>7, <1>8, <1>9, <1>10 DEF CacheInv

-----------------------------------------------------------------------------
(* Lookups. *)

\* Moving a listed page to the end permutes the list.
LEMMA MoveToEndFacts ==
  ASSUME CacheTypeOK, RecencyListExact, NEW p \in RollingPages, slotOf[p] # NoSlot
  PROVE  /\ MoveToEnd(p) \in Seq(RollingPages)
         /\ Len(MoveToEnd(p)) = Len(lru)
         /\ \A x : (\E i \in 1 .. Len(lru) : lru[i] = x)
                   <=> (\E i \in 1 .. Len(lru) : MoveToEnd(p)[i] = x)
         /\ \A i, j \in 1 .. Len(lru) : MoveToEnd(p)[i] = MoveToEnd(p)[j] => i = j
<1> DEFINE n == Len(lru)
           at == CHOOSE i \in 1 .. n : lru[i] = p
           m == MoveToEnd(p)
<1>1. /\ n \in Nat /\ at \in 1 .. n /\ lru[at] = p
      /\ \A i \in 1 .. n : lru[i] \in RollingPages
  <2>1. \E i \in 1 .. n : lru[i] = p
    BY DEF RecencyListExact
  <2> QED
    BY <2>1 DEF CacheTypeOK
<1>2. m = [i \in 1 .. n |-> IF i < at THEN lru[i] ELSE IF i < n THEN lru[i + 1] ELSE p]
  BY DEF MoveToEnd
<1>3. \A i, j \in 1 .. n : lru[i] = lru[j] => i = j
  BY DEF RecencyListExact
<1> HIDE DEF n, at, m
<1>4. /\ \A i \in 1 .. n : m[i] \in RollingPages
      /\ m = [i \in 1 .. n |-> m[i]]
  BY <1>1, <1>2
<1>5. m \in Seq(RollingPages) /\ Len(m) = n
  BY <1>1, <1>4
<1>6. ASSUME NEW x
      PROVE  (\E i \in 1 .. n : lru[i] = x) <=> (\E i \in 1 .. n : m[i] = x)
  <2>1. ASSUME NEW i \in 1 .. n, lru[i] = x
        PROVE  \E j \in 1 .. n : m[j] = x
    <3>1. CASE i < at
      BY <1>1, <1>2, <2>1, <3>1
    <3>2. CASE i = at
      <4>1. n \in 1 .. n /\ ~(n < at) /\ m[n] = p
        BY <1>1, <1>2
      <4> QED BY <1>1, <2>1, <3>2, <4>1
    <3>3. CASE i > at
      <4>1. i - 1 \in 1 .. n /\ ~(i - 1 < at) /\ i - 1 < n /\ (i - 1) + 1 = i
        BY <1>1, <3>3
      <4>2. m[i - 1] = lru[i]
        BY <1>2, <4>1
      <4> QED BY <2>1, <4>1, <4>2
    <3> QED BY <1>1, <3>1, <3>2, <3>3
  <2>2. ASSUME NEW i \in 1 .. n, m[i] = x
        PROVE  \E j \in 1 .. n : lru[j] = x
    <3>1. CASE i < at
      BY <1>2, <2>2, <3>1
    <3>2. CASE ~(i < at) /\ i < n
      <4>1. i + 1 \in 1 .. n /\ m[i] = lru[i + 1]
        BY <1>1, <1>2, <3>2
      <4> QED BY <2>2, <4>1
    <3>3. CASE ~(i < at) /\ ~(i < n)
      BY <1>1, <1>2, <2>2, <3>3
    <3> QED BY <3>1, <3>2, <3>3
  <2> QED BY <2>1, <2>2
<1>7. ASSUME NEW i \in 1 .. n, NEW j \in 1 .. n, m[i] = m[j]
      PROVE  i = j
  <2> DEFINE from(k) == IF k < at THEN k ELSE IF k < n THEN k + 1 ELSE at
  <2>1. \A k \in 1 .. n : from(k) \in 1 .. n /\ m[k] = lru[from(k)]
    BY <1>1, <1>2
  <2>2. from(i) = from(j)
    <3> HIDE DEF from
    <3> QED BY <1>3, <1>7, <2>1
  <2> QED BY <1>1, <2>2
<1> QED
  BY <1>5, <1>6, <1>7 DEF n, m

\* Refreshing the recency of a page changes nothing else.
LEMMA TouchInv ==
  ASSUME CacheInv, NEW p \in Pages, Touch(p),
         UNCHANGED <<hotPresent, slotOf, freeSlots, slotData, presentCount, peakSlots>>,
         hits' \in Nat, misses' \in Nat
  PROVE  CacheInv'
<1>1. /\ lru' \in Seq(RollingPages) /\ Len(lru') = Len(lru)
      /\ \A x : (\E i \in 1 .. Len(lru) : lru[i] = x)
                <=> (\E i \in 1 .. Len(lru) : lru'[i] = x)
      /\ \A i, j \in 1 .. Len(lru) : lru'[i] = lru'[j] => i = j
  <2>1. CASE p \in RollingPages /\ slotOf[p] # NoSlot
    <3>1. lru' = MoveToEnd(p)
      BY <2>1 DEF Touch
    <3>2. CacheTypeOK /\ RecencyListExact
      BY DEF CacheInv
    <3> DEFINE m == MoveToEnd(p)
    <3>3. /\ m \in Seq(RollingPages) /\ Len(m) = Len(lru)
          /\ \A x : (\E i \in 1 .. Len(lru) : lru[i] = x) <=> (\E i \in 1 .. Len(lru) : m[i] = x)
          /\ \A i, j \in 1 .. Len(lru) : m[i] = m[j] => i = j
      BY <2>1, <3>2, MoveToEndFacts
    <3>4. lru' = m
      BY <3>1
    <3> HIDE DEF m
    <3> QED BY <3>3, <3>4
  <2>2. CASE ~(p \in RollingPages /\ slotOf[p] # NoSlot)
    BY <2>2 DEF CacheInv, CacheTypeOK, RecencyListExact, Touch
  <2> QED BY <2>1, <2>2
<1>2. CacheTypeOK'
  BY <1>1 DEF CacheInv, CacheTypeOK
<1>3. RecencyListExact'
  BY <1>1 DEF CacheInv, RecencyListExact
<1>4. SlotsNotShared'
  BY DEF CacheInv, SlotsNotShared
<1>5. LookupsReturnTheirPage'
  BY DEF CacheInv, LookupsReturnTheirPage, Find
<1>6. NoSlotLost' /\ PresentCountExact'
  BY <1>1 DEF CacheInv, NoSlotLost, PresentCountExact
<1> QED
  BY <1>2, <1>3, <1>4, <1>5, <1>6 DEF CacheInv

LEMMA GetInv ==
  ASSUME CacheInv, NEW p \in Pages, Get(p)
  PROVE  CacheInv'
<1>1. hits' \in Nat /\ misses' \in Nat
  BY DEF CacheInv, CacheTypeOK, Get
<1> QED
  BY <1>1, TouchInv DEF Get

-----------------------------------------------------------------------------
(* Insertions. *)

LEMMA PutNothingInv ==
  ASSUME CacheInv, NEW p \in Pages, PutNothing(p), UNCHANGED <<hits, misses>>
  PROVE  CacheInv'
<1>1. hits' \in Nat /\ misses' \in Nat
  BY DEF CacheInv, CacheTypeOK
<1> QED
  BY <1>1, TouchInv DEF PutNothing

\* What Fill does to the slots and the counters.
LEMMA FillFacts ==
  ASSUME CacheInv, NEW p \in Pages, NEW s \in Slots, NEW count \in Nat, Fill(p, s, count),
         UNCHANGED <<hits, misses>>
  PROVE  /\ slotData' \in [Slots -> Pages \cup {NoPage}]
         /\ slotData'[s] = p /\ \A t \in Slots : t # s => slotData'[t] = slotData[t]
         /\ presentCount' = count /\ presentCount' \in Nat
         /\ peakSlots' \in Nat /\ hits' \in Nat /\ misses' \in Nat
<1>1. peakSlots' \in Nat
  BY SlotFacts DEF CacheInv, CacheTypeOK, Fill, AtMost, AtLeast
<1> QED
  BY <1>1 DEF CacheInv, CacheTypeOK, Fill

LEMMA PutHotInv ==
  ASSUME CacheInv, NEW p \in HotPages, Find(p) = NoSlot, PutHot(p), UNCHANGED <<hits, misses>>
  PROVE  CacheInv'
<1>1. /\ p \notin hotPresent /\ hotPresent' = hotPresent \cup {p} /\ Fill(p, p, presentCount + 1)
      /\ UNCHANGED <<slotOf, lru, freeSlots>>
  <2>1. p # NoSlot
    BY SlotSets DEF Slots, NoSlot
  <2> QED BY <2>1 DEF Find, PutHot
<1>2. p \in Pages /\ p \in Slots /\ presentCount + 1 \in Nat
  BY SlotSets DEF CacheInv, CacheTypeOK
<1>3. /\ slotData' \in [Slots -> Pages \cup {NoPage}]
      /\ slotData'[p] = p /\ \A t \in Slots : t # p => slotData'[t] = slotData[t]
      /\ presentCount' = presentCount + 1 /\ presentCount' \in Nat
      /\ peakSlots' \in Nat /\ hits' \in Nat /\ misses' \in Nat
  BY <1>1, <1>2, FillFacts
<1>4. CacheTypeOK'
  BY <1>1, <1>3 DEF CacheInv, CacheTypeOK
<1>5. RecencyListExact' /\ SlotsNotShared' /\ NoSlotLost'
  BY <1>1 DEF CacheInv, RecencyListExact, SlotsNotShared, NoSlotLost
<1>6. LookupsReturnTheirPage'
  <2> SUFFICES ASSUME NEW r \in Pages, Find(r)' # NoSlot
               PROVE  slotData'[Find(r)'] = r
    BY DEF LookupsReturnTheirPage
  <2>1. CASE r = p
    BY <1>1, <1>3, <2>1 DEF Find
  <2>2. CASE r # p
    <3>1. Find(r)' = Find(r) /\ slotData[Find(r)] = r
      BY <1>1, <2>2 DEF CacheInv, LookupsReturnTheirPage, Find
    <3>2. Find(r) \in Slots /\ Find(r) # p
      BY <2>2, <3>1, SlotSets DEF CacheInv, CacheTypeOK, Find, RollingPages
    <3> QED BY <1>3, <3>1, <3>2
  <2> QED BY <2>1, <2>2
<1>7. PresentCountExact'
  <2>1. IsFiniteSet(hotPresent)
    BY SlotSets, FS_Subset DEF CacheInv, CacheTypeOK
  <2>2. Cardinality(hotPresent') = Cardinality(hotPresent) + 1
    BY <1>1, <2>1, FS_AddElement
  <2>3. Cardinality(hotPresent) \in Nat /\ Len(lru) \in Nat
    BY <2>1, FS_CardinalityType DEF CacheInv, CacheTypeOK
  <2> QED
    BY <1>1, <1>3, <2>2, <2>3 DEF CacheInv, PresentCountExact
<1> QED
  BY <1>4, <1>5, <1>6, <1>7 DEF CacheInv

\* A rolling page p takes slot s, which no other page owns once the keys are
\* updated: lookups stay right.
LEMMA RollingFillLookups ==
  ASSUME CacheInv, NEW p \in RollingPages, NEW s \in RollingSlots,
         slotData' = [slotData EXCEPT ![s] = p], hotPresent' = hotPresent,
         slotOf'[p] = s,
         \A r \in RollingPages : r # p => \/ slotOf'[r] = NoSlot
                                          \/ slotOf'[r] = slotOf[r] /\ slotOf[r] # s
  PROVE  LookupsReturnTheirPage'
<1>1. p \in Pages /\ s \in Slots
  BY SlotSets
<1>2. slotData'[s] = p /\ \A t \in Slots : t # s => slotData'[t] = slotData[t]
  BY <1>1 DEF CacheInv, CacheTypeOK
<1> SUFFICES ASSUME NEW r \in Pages, Find(r)' # NoSlot
             PROVE  slotData'[Find(r)'] = r
  BY DEF LookupsReturnTheirPage
<1>3. CASE r \in HotPages
  <2>1. Find(r)' = r /\ Find(r) = r
    BY <1>3 DEF Find
  <2>2. r \in Slots /\ r # s /\ r # NoSlot /\ slotData[r] = r
    BY <1>3, <2>1, SlotSets DEF CacheInv, LookupsReturnTheirPage
  <2> QED BY <1>2, <2>1, <2>2
<1>4. CASE r \notin HotPages
  <2>1. r \in RollingPages /\ Find(r)' = slotOf'[r] /\ Find(r) = slotOf[r]
    BY <1>4 DEF Find, RollingPages
  <2>2. CASE r = p
    BY <1>2, <2>1, <2>2
  <2>3. CASE r # p
    <3>1. slotOf'[r] = slotOf[r] /\ slotOf[r] # s /\ slotOf[r] # NoSlot
      BY <2>1, <2>3
    <3>2. slotOf[r] \in Slots /\ slotData[slotOf[r]] = r
      BY <2>1, <3>1, SlotSets DEF CacheInv, CacheTypeOK, LookupsReturnTheirPage
    <3> QED BY <1>2, <2>1, <3>1, <3>2
  <2> QED BY <2>2, <2>3
<1> QED
  BY <1>3, <1>4

LEMMA PutInFreeSlotInv ==
  ASSUME CacheInv, NEW p \in RollingPages, Find(p) = NoSlot, freeSlots # <<>>, PutInFreeSlot(p),
         UNCHANGED <<hits, misses>>
  PROVE  CacheInv'
<1> DEFINE s == Head(freeSlots)
<1>1. /\ slotOf[p] = NoSlot /\ p \in Pages
  BY SlotSets DEF Find
<1>2. /\ freeSlots \in Seq(RollingSlots) /\ Len(freeSlots) \in Nat \ {0}
      /\ s = freeSlots[1] /\ s \in RollingSlots /\ s \in Slots
      /\ lru \in Seq(RollingPages) /\ Len(lru) \in Nat
      /\ slotOf \in [RollingPages -> RollingSlots \cup {NoSlot}] /\ presentCount + 1 \in Nat
  BY SlotSets DEF CacheInv, CacheTypeOK
<1>3. /\ Tail(freeSlots) \in Seq(RollingSlots) /\ Len(Tail(freeSlots)) = Len(freeSlots) - 1
      /\ \A i \in 1 .. Len(Tail(freeSlots)) : /\ Tail(freeSlots)[i] = freeSlots[i + 1]
                                              /\ i + 1 \in 1 .. Len(freeSlots)
  BY <1>2
<1>4. /\ freeSlots' = Tail(freeSlots) /\ slotOf' = [slotOf EXCEPT ![p] = s]
      /\ lru' = Append(lru, p) /\ Fill(p, s, presentCount + 1) /\ hotPresent' = hotPresent
  BY DEF PutInFreeSlot
<1> HIDE DEF s
<1>5. /\ slotOf'[p] = s /\ \A r \in RollingPages : r # p => slotOf'[r] = slotOf[r] /\ slotOf[r] # s
  BY <1>2, <1>4 DEF CacheInv, SlotsNotShared
<1>6. /\ lru' \in Seq(RollingPages) /\ Len(lru') = Len(lru) + 1 /\ lru'[Len(lru) + 1] = p
      /\ \A i \in 1 .. Len(lru) : lru'[i] = lru[i]
  BY <1>2, <1>4
<1>7. \A i \in 1 .. Len(lru) : lru[i] # p
  BY <1>1 DEF CacheInv, RecencyListExact
<1>8. /\ presentCount' = presentCount + 1 /\ CacheTypeOK'
  <2>1. /\ slotData' \in [Slots -> Pages \cup {NoPage}]
        /\ presentCount' = presentCount + 1 /\ presentCount' \in Nat
        /\ peakSlots' \in Nat /\ hits' \in Nat /\ misses' \in Nat
    BY <1>1, <1>2, <1>4, FillFacts
  <2>2. slotOf' \in [RollingPages -> RollingSlots \cup {NoSlot}]
    BY <1>2, <1>4
  <2> QED
    BY <1>3, <1>4, <1>6, <2>1, <2>2 DEF CacheInv, CacheTypeOK
<1>9. RecencyListExact'
  <2>1. \A i, j \in 1 .. Len(lru') : lru'[i] = lru'[j] => i = j
    <3> SUFFICES ASSUME NEW i \in 1 .. Len(lru) + 1, NEW j \in 1 .. Len(lru) + 1, lru'[i] = lru'[j]
                 PROVE  i = j
      BY <1>6
    <3>1. \A k \in 1 .. Len(lru) + 1 : k # Len(lru) + 1 => k \in 1 .. Len(lru)
      BY <1>2
    <3>2. CASE i = Len(lru) + 1 \/ j = Len(lru) + 1
      BY <1>6, <1>7, <3>1, <3>2
    <3>3. CASE i # Len(lru) + 1 /\ j # Len(lru) + 1
      <4>1. i \in 1 .. Len(lru) /\ j \in 1 .. Len(lru) /\ lru[i] = lru[j]
        BY <1>6, <3>1, <3>3
      <4> QED BY <4>1 DEF CacheInv, RecencyListExact
    <3> QED BY <3>2, <3>3
  <2>2. ASSUME NEW r \in RollingPages
        PROVE  slotOf'[r] # NoSlot <=> \E i \in 1 .. Len(lru') : lru'[i] = r
    <3>1. CASE r = p
      <4>1. s # NoSlot
        BY <1>2, SlotSets
      <4> QED BY SMTT(30), <1>2, <1>5, <1>6, <3>1, <4>1
    <3>2. CASE r # p
      <4>1. slotOf[r] # NoSlot <=> \E i \in 1 .. Len(lru) : lru[i] = r
        BY DEF CacheInv, RecencyListExact
      <4>2. (\E i \in 1 .. Len(lru') : lru'[i] = r) <=> \E i \in 1 .. Len(lru) : lru[i] = r
        BY <1>2, <1>6, <3>2
      <4> QED BY <1>5, <3>2, <4>1, <4>2
    <3> QED BY <3>1, <3>2
  <2> QED BY <2>1, <2>2 DEF RecencyListExact
<1>10. SlotsNotShared'
  <2>1. \A r, t \in RollingPages : slotOf'[r] = slotOf'[t] /\ slotOf'[r] # NoSlot => r = t
    BY <1>5 DEF CacheInv, SlotsNotShared
  <2>2. \A i, j \in 1 .. Len(freeSlots) : freeSlots[i] = freeSlots[j] => i = j
    BY DEF CacheInv, SlotsNotShared
  <2>3. ASSUME NEW i \in 1 .. Len(freeSlots'), NEW r \in RollingPages
        PROVE  slotOf'[r] # freeSlots'[i]
    <3>1. freeSlots'[i] = freeSlots[i + 1] /\ i + 1 \in 1 .. Len(freeSlots) /\ i + 1 # 1
      BY <1>3, <1>4
    <3>2. 1 \in 1 .. Len(freeSlots)
      BY <1>2
    <3>3. freeSlots[i + 1] # s
      BY <1>2, <2>2, <3>1, <3>2
    <3> QED
      BY <1>5, <3>1, <3>3 DEF CacheInv, SlotsNotShared
  <2>4. \A i, j \in 1 .. Len(freeSlots') : freeSlots'[i] = freeSlots'[j] => i = j
    BY <1>3, <1>4, <2>2
  <2> QED BY <2>1, <2>3, <2>4 DEF SlotsNotShared
<1>11. LookupsReturnTheirPage'
  <2>1. slotData' = [slotData EXCEPT ![s] = p] /\ hotPresent' = hotPresent
    BY <1>4 DEF Fill
  <2>2. \A r \in RollingPages : r # p => \/ slotOf'[r] = NoSlot
                                         \/ slotOf'[r] = slotOf[r] /\ slotOf[r] # s
    BY <1>5
  <2>3. p \in RollingPages /\ s \in RollingSlots /\ slotOf'[p] = s
    BY <1>2, <1>5
  <2> QED BY <2>1, <2>2, <2>3, RollingFillLookups
<1>12. NoSlotLost'
  BY <1>2, <1>3, <1>4, <1>6 DEF CacheInv, NoSlotLost
<1>13. PresentCountExact'
  <2>1. Cardinality(hotPresent) \in Nat
    BY SlotSets, FS_Subset, FS_CardinalityType DEF CacheInv, CacheTypeOK
  <2> QED
    BY <1>2, <1>4, <1>6, <1>8, <2>1 DEF CacheInv, PresentCountExact
<1> QED
  BY <1>8, <1>9, <1>10, <1>11, <1>12, <1>13 DEF CacheInv

LEMMA PutByEvictionInv ==
  ASSUME CacheInv, NEW p \in RollingPages, Find(p) = NoSlot, freeSlots = <<>>,
         RollingSlotCount # 0, PutByEviction(p), UNCHANGED <<hits, misses>>
  PROVE  CacheInv'
<1> DEFINE victim == Head(lru)
           s == slotOf[victim]
<1>1. /\ slotOf[p] = NoSlot /\ p \in Pages
  BY SlotSets DEF Find
<1>2. /\ lru \in Seq(RollingPages) /\ Len(lru) \in Nat \ {0}
      /\ slotOf \in [RollingPages -> RollingSlots \cup {NoSlot}] /\ presentCount \in Nat
  BY SlotFacts DEF CacheInv, CacheTypeOK, NoSlotLost
<1>3. /\ victim = lru[1] /\ victim \in RollingPages /\ s # NoSlot /\ victim # p
      /\ s \in RollingSlots
  <2>1. victim = lru[1] /\ 1 \in 1 .. Len(lru) /\ victim \in RollingPages
    BY <1>2
  <2>2. slotOf[victim] # NoSlot
    BY <2>1 DEF CacheInv, RecencyListExact
  <2> QED BY <1>1, <1>2, <2>1, <2>2
<1>4. /\ slotOf' = [slotOf EXCEPT ![victim] = NoSlot, ![p] = s]
      /\ lru' = Append(Tail(lru), p) /\ Fill(p, s, presentCount)
      /\ hotPresent' = hotPresent /\ freeSlots' = freeSlots
  BY DEF PutByEviction
<1> HIDE DEF victim, s
<1>5. /\ slotOf'[p] = s /\ slotOf'[victim] = NoSlot
      /\ \A r \in RollingPages \ {p, victim} : slotOf'[r] = slotOf[r] /\ slotOf[r] # s
  <2>1. \A r \in RollingPages : slotOf[r] = s => r = victim
    BY <1>3 DEF CacheInv, SlotsNotShared, s
  <2> QED BY <1>2, <1>3, <1>4, <2>1
<1>6. /\ lru' \in Seq(RollingPages) /\ Len(lru') = Len(lru) /\ lru'[Len(lru)] = p
      /\ \A i \in 1 .. Len(lru) - 1 : lru'[i] = lru[i + 1]
  BY <1>2, <1>4
<1>7. /\ \A i \in 1 .. Len(lru) : lru[i] # p
      /\ \A i, j \in 1 .. Len(lru) : lru[i] = lru[j] => i = j
  BY <1>1 DEF CacheInv, RecencyListExact
<1>8. /\ presentCount' = presentCount /\ CacheTypeOK'
  <2>1. s \in Slots
    BY <1>3, SlotSets
  <2>2. /\ slotData' \in [Slots -> Pages \cup {NoPage}]
        /\ presentCount' = presentCount /\ presentCount' \in Nat
        /\ peakSlots' \in Nat /\ hits' \in Nat /\ misses' \in Nat
    BY <1>1, <1>2, <1>4, <2>1, FillFacts
  <2>3. slotOf' \in [RollingPages -> RollingSlots \cup {NoSlot}]
    BY <1>2, <1>3, <1>4
  <2> QED
    BY <1>4, <1>6, <2>2, <2>3 DEF CacheInv, CacheTypeOK
<1>9. RecencyListExact'
  <2>1. \A i, j \in 1 .. Len(lru') : lru'[i] = lru'[j] => i = j
    <3> SUFFICES ASSUME NEW i \in 1 .. Len(lru), NEW j \in 1 .. Len(lru), lru'[i] = lru'[j]
                 PROVE  i = j
      BY <1>6
    <3> DEFINE from(k) == IF k = Len(lru) THEN 0 ELSE k + 1
    <3>1. \A k \in 1 .. Len(lru) : k # Len(lru) => k \in 1 .. Len(lru) - 1 /\ k + 1 \in 1 .. Len(lru)
      BY <1>2
    <3>2. CASE i = Len(lru) \/ j = Len(lru)
      BY <1>6, <1>7, <3>1, <3>2
    <3>3. CASE i # Len(lru) /\ j # Len(lru)
      <4>1. i + 1 = j + 1
        BY <1>6, <1>7, <3>1, <3>3
      <4> QED BY <4>1
    <3> QED BY <3>2, <3>3
  <2>2. ASSUME NEW r \in RollingPages
        PROVE  slotOf'[r] # NoSlot <=> \E i \in 1 .. Len(lru') : lru'[i] = r
    <3>1. CASE r = p
      <4>1. Len(lru) \in 1 .. Len(lru')
        BY <1>2, <1>6
      <4> QED BY <1>3, <1>5, <1>6, <3>1, <4>1
    <3>2. CASE r = victim
      <4>1. ASSUME NEW i \in 1 .. Len(lru'), lru'[i] = r
            PROVE  FALSE
        <5>1. CASE i = Len(lru)
          BY <1>3, <1>6, <3>2, <4>1, <5>1
        <5>2. CASE i # Len(lru)
          <6>1. i + 1 \in 1 .. Len(lru) /\ 1 \in 1 .. Len(lru) /\ lru[i + 1] = victim
            BY <1>2, <1>6, <3>2, <4>1, <5>2
          <6>2. i + 1 = 1
            BY <1>3, <1>7, <6>1
          <6> QED BY <4>1, <6>2
        <5> QED BY <5>1, <5>2
      <4> QED BY <1>5, <3>2, <4>1
    <3>3. CASE r # p /\ r # victim
      <4>1. slotOf[r] # NoSlot <=> \E i \in 1 .. Len(lru) : lru[i] = r
        BY DEF CacheInv, RecencyListExact
      <4>2. ASSUME NEW i \in 1 .. Len(lru), lru[i] = r
            PROVE  \E j \in 1 .. Len(lru') : lru'[j] = r
        <5>1. i # 1
          BY <1>3, <3>3, <4>2
        <5>2. i - 1 \in 1 .. Len(lru) - 1 /\ (i - 1) + 1 = i /\ i - 1 \in 1 .. Len(lru')
          BY <1>2, <1>6, <5>1
        <5>3. lru'[i - 1] = lru[i]
          BY <1>6, <5>2
        <5> QED BY <4>2, <5>2, <5>3
      <4>3. ASSUME NEW i \in 1 .. Len(lru'), lru'[i] = r
            PROVE  \E j \in 1 .. Len(lru) : lru[j] = r
        <5>1. i # Len(lru)
          BY <1>6, <3>3, <4>3
        <5>2. i \in 1 .. Len(lru) - 1 /\ i + 1 \in 1 .. Len(lru)
          BY <1>2, <1>6, <5>1
        <5> QED BY <1>6, <4>3, <5>2
      <4> QED BY <1>5, <3>3, <4>1, <4>2, <4>3
    <3> QED BY <3>1, <3>2, <3>3
  <2> QED BY <2>1, <2>2 DEF RecencyListExact
<1>10. SlotsNotShared'
  <2>1. \A r, t \in RollingPages : slotOf'[r] = slotOf'[t] /\ slotOf'[r] # NoSlot => r = t
    BY <1>5 DEF CacheInv, SlotsNotShared
  <2>2. freeSlots' = <<>> /\ \A i : i \notin 1 .. Len(freeSlots')
    BY <1>4
  <2> QED BY <2>1, <2>2 DEF SlotsNotShared
<1>11. LookupsReturnTheirPage'
  <2>1. ASSUME NEW r \in RollingPages, r # p
        PROVE  slotOf'[r] = NoSlot \/ (slotOf'[r] = slotOf[r] /\ slotOf[r] # s)
    BY <1>5, <2>1
  <2>2. slotData' = [slotData EXCEPT ![s] = p] /\ hotPresent' = hotPresent
    BY <1>4 DEF Fill
  <2>3. \A r \in RollingPages : r # p => \/ slotOf'[r] = NoSlot
                                         \/ slotOf'[r] = slotOf[r] /\ slotOf[r] # s
    BY <2>1
  <2>4. s \in RollingSlots /\ slotOf'[p] = s
    BY <1>3, <1>5
  <2> QED
    BY <2>2, <2>3, <2>4, RollingFillLookups
<1>12. NoSlotLost'
  BY <1>4, <1>6 DEF CacheInv, NoSlotLost
<1>13. PresentCountExact'
  BY <1>4, <1>6, <1>8 DEF CacheInv, PresentCountExact
<1> QED
  BY <1>8, <1>9, <1>10, <1>11, <1>12, <1>13 DEF CacheInv

\* An insertion of any page, cached or not, keeps the cache consistent.
LEMMA PutInv ==
  ASSUME CacheInv, NEW p \in Pages, Put(p)
  PROVE  CacheInv'
<1>1. UNCHANGED <<hits, misses>>
  BY DEF Put
<1>2. CASE PutNothing(p)
  BY <1>1, <1>2, PutNothingInv
<1>3. CASE p \in HotPages /\ Find(p) = NoSlot /\ PutHot(p)
  BY <1>1, <1>3, PutHotInv
<1>4. CASE p \notin HotPages /\ Find(p) = NoSlot /\ freeSlots # <<>> /\ PutInFreeSlot(p)
  BY <1>1, <1>4, PutInFreeSlotInv DEF RollingPages
<1>5. CASE /\ p \notin HotPages /\ Find(p) = NoSlot /\ freeSlots = <<>> /\ RollingSlotCount # 0
           /\ PutByEviction(p)
  BY <1>1, <1>5, PutByEvictionInv DEF RollingPages
<1> QED
  BY <1>2, <1>3, <1>4, <1>5 DEF Put

-----------------------------------------------------------------------------
(* How long the cache keeps a rolling page. *)

\* In a recency list, p and all pages used after it are in pages.
Behind(list, p, pages) ==
  \A i, j \in 1 .. Len(list) : list[i] = p /\ i <= j => list[j] \in pages

\* A page q used again goes behind the others; nothing comes between the others.
LEMMA MovedBehind ==
  ASSUME CacheTypeOK, RecencyListExact, NEW q \in RollingPages, slotOf[q] # NoSlot,
         NEW p, NEW pages, q \in pages, p = q \/ Behind(lru, p, pages)
  PROVE  Behind(MoveToEnd(q), p, pages)
<1> DEFINE n == Len(lru)
           at == CHOOSE i \in 1 .. n : lru[i] = q
           m == MoveToEnd(q)
<1>1. /\ n \in Nat /\ at \in 1 .. n /\ lru[at] = q
  <2>1. \E i \in 1 .. n : lru[i] = q
    BY DEF RecencyListExact
  <2> QED
    BY <2>1 DEF CacheTypeOK
<1>2. m = [i \in 1 .. n |-> IF i < at THEN lru[i] ELSE IF i < n THEN lru[i + 1] ELSE q]
  BY DEF MoveToEnd
<1>3. Len(m) = n /\ \A i, j \in 1 .. n : m[i] = m[j] => i = j
  BY MoveToEndFacts
<1>4. \A i, j \in 1 .. n : lru[i] = lru[j] => i = j
  BY DEF RecencyListExact
<1>5. p = q \/ \A i, j \in 1 .. n : lru[i] = p /\ i <= j => lru[j] \in pages
  BY DEF Behind
<1> HIDE DEF n, at, m
<1>6. ASSUME NEW i \in 1 .. n, NEW j \in 1 .. n, m[i] = p, i <= j
      PROVE  m[j] \in pages
  <2>1. n \in 1 .. n /\ m[n] = q
    BY <1>1, <1>2
  <2>2. CASE j = n
    BY <2>1, <2>2
  <2>3. CASE j # n /\ p = q
    <3>1. i = n
      BY <1>3, <1>6, <2>1, <2>3
    <3> QED BY <1>1, <1>6, <2>3, <3>1
  <2>4. CASE j # n /\ p # q
    <3> DEFINE from(k) == IF k < at THEN k ELSE k + 1
    <3>1. i < n /\ j < n
      BY <1>1, <1>6, <2>4
    <3>2. m[i] = lru[from(i)] /\ from(i) \in 1 .. n
      BY <1>1, <1>2, <3>1
    <3>3. m[j] = lru[from(j)] /\ from(j) \in 1 .. n
      BY <1>1, <1>2, <3>1
    <3>4. from(i) <= from(j)
      BY <1>1, <1>6
    <3> HIDE DEF from
    <3> QED BY <1>5, <1>6, <2>4, <3>2, <3>3, <3>4
  <2> QED BY <2>2, <2>3, <2>4
<1>7. \A i, j \in 1 .. n : m[i] = p /\ i <= j => m[j] \in pages
  BY <1>6
<1> QED
  BY <1>3, <1>7 DEF Behind, m

\* A lookup of q, or an insertion that finds q: pages kept stay kept.
LEMMA TouchedBehind ==
  ASSUME CacheInv, NEW q \in Pages, Touch(q), NEW p, NEW pages,
         q \in RollingPages /\ slotOf[q] # NoSlot => q \in pages,
         \/ p = q /\ q \in RollingPages /\ slotOf[q] # NoSlot
         \/ Behind(lru, p, pages)
  PROVE  Behind(lru', p, pages)
<1>1. CASE q \in RollingPages /\ slotOf[q] # NoSlot
  <2>1. lru' = MoveToEnd(q)
    BY <1>1 DEF Touch
  <2>2. Behind(MoveToEnd(q), p, pages)
    BY <1>1, MovedBehind DEF CacheInv
  <2> QED BY <2>1, <2>2
<1>2. CASE ~(q \in RollingPages /\ slotOf[q] # NoSlot)
  <2>1. lru' = lru
    BY <1>2 DEF Touch
  <2> QED BY <1>2, <2>1
<1> QED
  BY <1>1, <1>2

\* A new page goes behind the others.
LEMMA AppendedBehind ==
  ASSUME NEW list \in Seq(RollingPages), NEW q \in RollingPages, NEW p, NEW pages,
         \A i \in 1 .. Len(list) : list[i] # q,
         q \in pages, p = q \/ Behind(list, p, pages)
  PROVE  Behind(Append(list, q), p, pages)
<1> DEFINE n == Len(list)
           m == Append(list, q)
<1>1. n \in Nat /\ Len(m) = n + 1 /\ m[n + 1] = q /\ \A i \in 1 .. n : m[i] = list[i]
  OBVIOUS
<1>2. p = q \/ \A i, j \in 1 .. n : list[i] = p /\ i <= j => list[j] \in pages
  BY DEF Behind
<1>3. \A i \in 1 .. n : list[i] # q
  OBVIOUS
<1> HIDE DEF n, m
<1>4. ASSUME NEW i \in 1 .. n + 1, NEW j \in 1 .. n + 1, m[i] = p, i <= j
      PROVE  m[j] \in pages
  <2>1. CASE j = n + 1
    BY <1>1, <2>1
  <2>2. CASE j # n + 1
    <3>1. i \in 1 .. n /\ j \in 1 .. n
      BY <1>1, <1>4, <2>2
    <3> QED BY <1>1, <1>2, <1>3, <1>4, <3>1
  <2> QED BY <2>1, <2>2
<1>5. \A i, j \in 1 .. Len(m) : m[i] = p /\ i <= j => m[j] \in pages
  BY <1>1, <1>4
<1> QED
  BY <1>5 DEF Behind, m

LEMMA TailBehind ==
  ASSUME NEW list \in Seq(RollingPages), list # <<>>, NEW p, NEW pages, Behind(list, p, pages)
  PROVE  Behind(Tail(list), p, pages)
<1> DEFINE n == Len(list)
           m == Tail(list)
<1>1. n \in Nat \ {0} /\ Len(m) = n - 1 /\ \A i \in 1 .. n - 1 : m[i] = list[i + 1]
  OBVIOUS
<1>2. \A i, j \in 1 .. n : list[i] = p /\ i <= j => list[j] \in pages
  BY DEF Behind
<1> HIDE DEF n, m
<1>3. ASSUME NEW i \in 1 .. n - 1, NEW j \in 1 .. n - 1, m[i] = p, i <= j
      PROVE  m[j] \in pages
  <2>1. i + 1 \in 1 .. n /\ j + 1 \in 1 .. n /\ i + 1 <= j + 1
    BY <1>1, <1>3
  <2> QED BY <1>1, <1>2, <1>3, <2>1
<1>4. \A i, j \in 1 .. Len(m) : m[i] = p /\ i <= j => m[j] \in pages
  BY <1>1, <1>3
<1> QED
  BY <1>4 DEF Behind, m

\* A page is evicted only when, with the page that takes its slot, more pages
\* were used since than there are rolling slots.
LEMMA EvictedWhenFull ==
  ASSUME CacheInv, freeSlots = <<>>, NEW q \in RollingPages, slotOf[q] = NoSlot,
         RollingSlotCount # 0, NEW pages, IsFiniteSet(pages),
         Cardinality(pages) <= RollingSlotCount, q \in pages,
         Behind(lru, Head(lru), pages)
  PROVE  FALSE
<1> DEFINE n == RollingSlotCount
           f == [i \in 1 .. n + 1 |-> IF i = n + 1 THEN q ELSE lru[i]]
<1>1. n \in Nat \ {0} /\ Len(lru) = n /\ lru \in Seq(RollingPages) /\ Head(lru) = lru[1]
  BY SlotFacts DEF CacheInv, CacheTypeOK, NoSlotLost
<1>2. /\ \A i, j \in 1 .. n : lru[i] = lru[j] => i = j
      /\ \A i \in 1 .. n : lru[i] # q
  BY <1>1 DEF CacheInv, RecencyListExact
<1>3. \A j \in 1 .. n : lru[j] \in pages
  <2>1. 1 \in 1 .. n /\ \A j \in 1 .. n : 1 <= j
    BY <1>1
  <2> QED BY <1>1, <2>1 DEF Behind
<1>4. /\ f \in [1 .. n + 1 -> pages]
      /\ \A i, j \in 1 .. n + 1 : f[i] = f[j] => i = j
  <2> HIDE DEF n
  <2>1. \A i \in 1 .. n + 1 : i # n + 1 => i \in 1 .. n
    BY <1>1
  <2>2. f \in [1 .. n + 1 -> pages]
    BY <1>3, <2>1
  <2>3. ASSUME NEW i \in 1 .. n + 1, NEW j \in 1 .. n + 1, f[i] = f[j]
        PROVE  i = j
    BY <1>2, <2>1, <2>3
  <2> HIDE DEF f
  <2> QED BY <2>2, <2>3
<1>5. IsFiniteSet(1 .. n + 1) /\ Cardinality(1 .. n + 1) = n + 1
  <2> HIDE DEF n
  <2>1. 1 <= n + 1 /\ n + 1 \in Int /\ 1 \in Int
    BY <1>1
  <2>2. Cardinality(1 .. n + 1) = (n + 1) - 1 + 1
    BY <1>1, <2>1, FS_Interval
  <2> QED BY <1>1, <2>1, <2>2, FS_Interval
<1>6. Cardinality(pages) \in Nat /\ Cardinality(pages) < n + 1
  BY <1>1, FS_CardinalityType
<1> HIDE DEF n, f
<1>7. \E i, j \in 1 .. n + 1 : i # j /\ f[i] = f[j]
  <2> DEFINE places == 1 .. n + 1
  <2>1. /\ IsFiniteSet(places) /\ IsFiniteSet(pages) /\ f \in [places -> pages]
        /\ Cardinality(pages) < Cardinality(places)
    BY <1>4, <1>5, <1>6
  <2> HIDE DEF places
  <2>2. \E i, j \in places : i # j /\ f[i] = f[j]
    BY <2>1, FS_PigeonHole
  <2> QED BY <2>2 DEF places
<1> QED
  BY <1>4, <1>7

\* Inserting q keeps q, and keeps p while the pages used since p fit the
\* rolling region.
LEMMA PutKeeps ==
  ASSUME CacheInv, NEW q \in Pages, Find(q) = NoSlot, Put(q),
         NEW p \in RollingPages, NEW pages, IsFiniteSet(pages),
         Cardinality(pages) <= RollingSlotCount, p \in pages, q \in RollingPages => q \in pages,
         p = q \/ (slotOf[p] # NoSlot /\ Behind(lru, p, pages))
  PROVE  slotOf'[p] # NoSlot /\ Behind(lru', p, pages)
<1>1. RollingSlotCount \in Nat \ {0}
  <2>1. Cardinality(pages) \in Nat /\ Cardinality(pages) # 0
    BY FS_CardinalityType, FS_EmptySet
  <2> QED BY <2>1, SlotFacts
<1>2. SlotCount # 0
  BY <1>1, SlotFacts DEF RollingSlotCount
<1>3. /\ lru \in Seq(RollingPages) /\ freeSlots \in Seq(RollingSlots)
      /\ slotOf \in [RollingPages -> RollingSlots \cup {NoSlot}]
  BY DEF CacheInv, CacheTypeOK
<1>4. CASE q \in HotPages
  <2>1. PutHot(q)
    BY <1>2, <1>4 DEF Put
  <2>2. p # q /\ slotOf' = slotOf /\ lru' = lru
    BY <1>4, <2>1, SlotSets DEF PutHot
  <2> QED BY <2>2
<1>5. CASE q \notin HotPages
  <2>1. q \in RollingPages /\ q \in pages /\ slotOf[q] = NoSlot
    BY <1>5 DEF RollingPages, Find
  <2>2. \A i \in 1 .. Len(lru) : lru[i] # q
    BY <2>1 DEF CacheInv, RecencyListExact
  <2>3. CASE freeSlots # <<>>
    <3>1. PutInFreeSlot(q)
      BY <1>1, <1>2, <1>5, <2>3 DEF Put
    <3>2. lru' = Append(lru, q) /\ slotOf' = [slotOf EXCEPT ![q] = Head(freeSlots)]
      BY <3>1 DEF PutInFreeSlot
    <3>3. Head(freeSlots) # NoSlot
      BY <1>3, <2>3, SlotSets
    <3>4. Behind(lru', p, pages)
      BY <1>3, <2>1, <2>2, <3>2, AppendedBehind
    <3>5. slotOf'[p] # NoSlot
      BY <1>3, <2>1, <3>2, <3>3
    <3> QED BY <3>4, <3>5
  <2>4. CASE freeSlots = <<>>
    <3> DEFINE victim == Head(lru)
    <3>1. PutByEviction(q)
      BY <1>1, <1>2, <1>5, <2>4 DEF Put
    <3>2. /\ lru' = Append(Tail(lru), q)
          /\ slotOf' = [slotOf EXCEPT ![victim] = NoSlot, ![q] = slotOf[victim]]
      BY <3>1 DEF PutByEviction
    <3>3. Len(lru) \in Nat \ {0} /\ lru # <<>>
      BY <1>1, <1>3, <2>4 DEF CacheInv, NoSlotLost
    <3>4. victim \in RollingPages /\ slotOf[victim] # NoSlot /\ victim # q
      <4>1. victim = lru[1] /\ 1 \in 1 .. Len(lru)
        BY <1>3, <3>3
      <4> QED BY <1>3, <2>2, <4>1 DEF CacheInv, RecencyListExact
    <3>5. p # victim
      BY <1>1, <2>1, <2>4, <3>4, EvictedWhenFull
    <3> HIDE DEF victim
    <3>6. slotOf'[p] # NoSlot
      BY <1>3, <2>1, <3>2, <3>4, <3>5
    <3>7. Behind(lru', p, pages)
      <4>1. Tail(lru) \in Seq(RollingPages) /\ \A i \in 1 .. Len(Tail(lru)) : Tail(lru)[i] # q
        BY <1>3, <2>2, <3>3
      <4>2. p = q \/ Behind(Tail(lru), p, pages)
        BY <1>3, <3>3, TailBehind
      <4> QED BY <2>1, <3>2, <4>1, <4>2, AppendedBehind
    <3> QED BY <3>6, <3>7
  <2> QED BY <2>3, <2>4
<1> QED
  BY <1>4, <1>5

\* Inserting a page caches no other page.
LEMMA PutLeavesOthersOut ==
  ASSUME CacheInv, NEW q \in Pages, Put(q), NEW r \in Pages, r # q, Find(r) = NoSlot
  PROVE  Find(r)' = NoSlot
<1>1. /\ slotOf \in [RollingPages -> RollingSlots \cup {NoSlot}] /\ RollingPages = Pages \ HotPages
      /\ \A x \in HotPages : x # NoSlot
  BY SlotSets DEF CacheInv, CacheTypeOK, RollingPages
<1>2. CASE r \in HotPages
  <2>1. r \notin hotPresent /\ hotPresent' \in {hotPresent, hotPresent \cup {q}}
    BY <1>1, <1>2 DEF Find, Put, PutNothing, PutHot, PutInFreeSlot, PutByEviction
  <2> QED BY <1>2, <2>1 DEF Find
<1>3. CASE r \notin HotPages
  <2>1. slotOf[r] = NoSlot /\ r \in RollingPages
    BY <1>1, <1>3 DEF Find
  <2>2. CASE slotOf' = slotOf
    BY <1>3, <2>1, <2>2 DEF Find
  <2>3. CASE \E x, s : slotOf' = [slotOf EXCEPT ![q] = x] \/ slotOf' = [slotOf EXCEPT ![s] = NoSlot, ![q] = x]
    <3>1. slotOf'[r] = NoSlot
      BY <1>1, <2>1, <2>3
    <3> QED BY <1>3, <3>1 DEF Find
  <2> QED
    BY <2>2, <2>3 DEF Put, PutNothing, PutHot, PutInFreeSlot, PutByEviction
<1> QED
  BY <1>2, <1>3

\* An inserted hot page is present, and hot pages stay.
LEMMA PutKeepsHot ==
  ASSUME CacheInv, NEW q \in Pages, Find(q) = NoSlot, Put(q)
  PROVE  hotPresent \subseteq hotPresent' /\ (q \in HotPages => q \in hotPresent')
<1>1. q \in HotPages => SlotCount # 0
  BY SlotFacts DEF HotPages
<1> QED
  BY <1>1 DEF Put, PutNothing, PutHot, PutInFreeSlot, PutByEviction

-----------------------------------------------------------------------------
(* The scan. *)

\* The pool's queue names loads that wait to start, each once.
QueueExact ==
  /\ \A i \in 1 .. Len(queue) : load[queue[i]].phase = "queued"
  /\ \A i, j \in 1 .. Len(queue) : queue[i] = queue[j] => i = j

\* A load that holds a stage has a page, no copy out of that stage is pending,
\* and once it has read or finished, the stage holds its page.
StagesOwned ==
  /\ \A s \in Stages : load[s].phase # "none" =>
       /\ load[s].page \in Pages
       /\ \A i \in 1 .. Len(h2d) : h2d[i].slot # s
  /\ \A s \in Stages : load[s].phase \in {"read", "done"} => stage[s] = load[s].page
  /\ \A i \in 1 .. Len(h2d) : stage[h2d[i].slot] = h2d[i].page

\* While scanning, the loads that hold a stage are those of the window: the
\* pages submitted and not yet consumed.
WindowExact ==
  mode = "scanning" =>
    /\ consumed <= submitted
    /\ submitted <= consumed + NumStages
    /\ scan \in Scans => submitted <= PageTotal
    /\ scan \notin Scans => submitted = consumed
    /\ \A s \in Stages : load[s].phase # "none" =>
         \E i \in consumed .. submitted - 1 : s = SlotAt(i) /\ load[s].page = PageAt(i)

\* An aborted run has dropped the queue; a closed one has joined its threads.
Quiet ==
  /\ mode # "scanning" => queue = <<>>
  /\ mode = "closed" => Busy = {}

ScanInv ==
  /\ TypeOK
  /\ CacheInv
  /\ QueueExact
  /\ StagesOwned
  /\ WindowExact
  /\ Quiet

-----------------------------------------------------------------------------
(* The ring of stages. *)

LEMMA SlotInRing ==
  ASSUME NEW i \in Nat
  PROVE  SlotAt(i) \in Stages
BY ScanAssumption DEF SlotAt, Stages

\* Fewer than NumStages apart, two indices of a window have two slots.
LEMMA SlotsDistinct ==
  ASSUME NEW i \in Nat, NEW j \in Nat, i <= j, j < i + NumStages, SlotAt(i) = SlotAt(j)
  PROVE  i = j
<1> DEFINE n == NumStages
           a == i \div n
           b == j \div n
<1>1. n \in Nat \ {0}
  BY ScanAssumption
<1> HIDE DEF n
<1>2. /\ a \in Int /\ b \in Int
      /\ i = (n * a) + (i % n) /\ j = (n * b) + (j % n)
      /\ i % n = j % n /\ i % n \in Int
  BY <1>1 DEF SlotAt, n
<1> HIDE DEF a, b
<1> DEFINE d == b - a
<1>3. d \in Int /\ j - i = n * d
  <2>1. n * d = (n * b) - (n * a)
    BY <1>1, <1>2
  <2>2. (n * a) \in Int /\ (n * b) \in Int
    BY <1>1, <1>2
  <2> HIDE DEF d
  <2>3. j - i = (n * b) - (n * a)
    BY <1>2, <2>2
  <2>4. d \in Int
    BY <1>2 DEF d
  <2> QED BY <2>1, <2>3, <2>4
<1>4. j - i \in 0 .. n - 1
  BY <1>1 DEF n
<1> HIDE DEF d
<1>5. ~(d >= 1)
  BY <1>1, <1>3, <1>4
<1>6. ~(d <= -1)
  BY <1>1, <1>3, <1>4
<1>7. d = 0
  BY <1>3, <1>5, <1>6
<1> QED
  BY <1>1, <1>3, <1>7

LEMMA PagesOfScans ==
  ASSUME scan \in Scans
  PROVE  /\ PageTotal \in Nat \ {0}
         /\ \A i \in 0 .. PageTotal - 1 : PageAt(i) \in Pages
<1>1. ScanPages[scan] \in Seq(Pages) /\ ScanPages[scan] # <<>>
  BY ScanAssumption DEF Scans
<1> QED
  BY <1>1 DEF PageTotal, PageAt

\* A copy the device has still to perform goes from a stage.
LEMMA CopyTyped ==
  ASSUME TypeOK, NEW i \in 1 .. Len(h2d)
  PROVE  h2d[i] \in [slot : Stages, page : Pages]
<1> DEFINE copies == [slot : Stages, page : Pages]
<1>1. h2d \in Seq(copies)
  BY DEF TypeOK
<1> HIDE DEF copies
<1>2. h2d[i] \in copies
  BY <1>1
<1> QED BY <1>2 DEF copies

-----------------------------------------------------------------------------
LEMMA InitScan == Init => ScanInv
<1> SUFFICES ASSUME Init PROVE ScanInv
  OBVIOUS
<1>1. CacheInv
  BY InitCache DEF Init
<1>2. /\ Len(ScanPages) \in Nat /\ queue = <<>> /\ h2d = <<>>
      /\ \A s \in Stages : load[s].phase = "none"
      /\ Busy = {}
  BY ScanAssumption DEF Init, Busy, Running
<1>3. TypeOK
  BY <1>1, <1>2 DEF Init, TypeOK, CacheInv, Phases
<1>4. QueueExact /\ StagesOwned /\ Quiet
  BY <1>2 DEF QueueExact, StagesOwned, Quiet
<1>5. WindowExact
  <2>1. scan \in Scans => PageTotal \in Nat
    BY PagesOfScans
  <2> QED BY <1>2, <2>1, ScanAssumption DEF Init, WindowExact
<1> QED
  BY <1>1, <1>3, <1>4, <1>5 DEF ScanInv

-----------------------------------------------------------------------------
(* The threads of the pool. *)

LEMMA CacheUnchanged ==
  ASSUME CacheInv, UNCHANGED cacheVars
  PROVE  CacheInv'
BY DEF CacheInv, cacheVars, CacheTypeOK, RecencyListExact, SlotsNotShared,
   LookupsReturnTheirPage, Find, NoSlotLost, PresentCountExact

\* A step of a running load that moves it on and writes at most its own stage.
LEMMA LoadStep ==
  ASSUME ScanInv, CacheInv', NEW s \in Stages, load[s].phase \in Running,
         NEW phase \in (Phases \ {"none", "queued"}), SetPhase(s, phase),
         stage' \in [Stages -> Pages \cup {NoPage}],
         \A t \in Stages : t # s => stage'[t] = stage[t],
         phase \in {"read", "done"} => stage'[s] = load[s].page,
         UNCHANGED <<mode, scan, submitted, consumed, queue, h2d>>
  PROVE  ScanInv'
<1>1. /\ load \in [Stages -> [page : Pages \cup {NoPage}, phase : Phases]]
      /\ load' \in [Stages -> [page : Pages \cup {NoPage}, phase : Phases]]
      /\ \A t \in Stages : load'[t].page = load[t].page
      /\ \A t \in Stages : t # s => load'[t].phase = load[t].phase
      /\ load'[s].phase = phase /\ load[s].phase \notin {"none", "queued"}
  BY DEF ScanInv, TypeOK, SetPhase, Phases, Running
<1>2. TypeOK'
  BY <1>1 DEF ScanInv, TypeOK, CacheInv
<1>3. QueueExact'
  <2>1. \A i \in 1 .. Len(queue) : queue[i] \in Stages /\ load[queue[i]].phase = "queued"
    BY DEF ScanInv, QueueExact, TypeOK
  <2>2. \A i \in 1 .. Len(queue) : load'[queue[i]].phase = "queued"
    BY <1>1, <2>1
  <2> QED BY <2>2 DEF ScanInv, QueueExact
<1>4. StagesOwned'
  <2>1. \A i \in 1 .. Len(h2d) : h2d[i].slot # s /\ h2d[i].slot \in Stages
    <3>1. \A i \in 1 .. Len(h2d) : h2d[i] \in [slot : Stages, page : Pages]
      BY CopyTyped DEF ScanInv
    <3>2. \A i \in 1 .. Len(h2d) : h2d[i].slot # s
      BY <1>1 DEF ScanInv, StagesOwned
    <3> QED BY <3>1, <3>2
  <2>2. \A t \in Stages : load'[t].phase # "none" =>
          load'[t].page \in Pages /\ \A i \in 1 .. Len(h2d) : h2d[i].slot # t
    BY <1>1 DEF ScanInv, StagesOwned
  <2>3. ASSUME NEW t \in Stages, load'[t].phase \in {"read", "done"}
        PROVE  stage'[t] = load'[t].page
    BY <1>1, <2>3 DEF ScanInv, StagesOwned
  <2>4. \A i \in 1 .. Len(h2d) : stage'[h2d[i].slot] = h2d[i].page
    BY <2>1 DEF ScanInv, StagesOwned
  <2> QED
    BY <2>2, <2>3, <2>4 DEF StagesOwned
<1>5. WindowExact'
  BY <1>1 DEF ScanInv, WindowExact, PageTotal, PageAt
<1>6. Quiet'
  <2>1. Busy # {}
    BY DEF Busy
  <2>2. mode # "closed"
    BY <2>1 DEF ScanInv, Quiet
  <2> QED BY <2>2 DEF ScanInv, Quiet
<1> QED
  BY <1>2, <1>3, <1>4, <1>5, <1>6 DEF ScanInv

LEMMA StartInv == ScanInv /\ Start => ScanInv'
<1> SUFFICES ASSUME ScanInv, Start PROVE ScanInv'
  OBVIOUS
<1> DEFINE s == Head(queue)
<1>1. /\ queue \in Seq(Stages) /\ queue # <<>> /\ s = queue[1] /\ s \in Stages
      /\ queue' = Tail(queue) /\ 1 \in 1 .. Len(queue)
  BY DEF ScanInv, TypeOK, Start
<1>2. queue' \in Seq(Stages) /\ \A i \in 1 .. Len(queue') : /\ queue'[i] = queue[i + 1]
                                                            /\ i + 1 \in 1 .. Len(queue)
                                                            /\ i + 1 # 1
  BY <1>1
<1>3. load[s].phase = "queued" /\ UNCHANGED <<cacheVars, mode, scan, submitted, consumed, stage, h2d>>
  BY <1>1 DEF ScanInv, QueueExact, Start
<1>4. load' = [load EXCEPT ![s].phase = "started"]
  BY DEF Start, SetPhase
<1> HIDE DEF s
<1>5. /\ load' \in [Stages -> [page : Pages \cup {NoPage}, phase : Phases]]
      /\ \A t \in Stages : load'[t].page = load[t].page
      /\ \A t \in Stages : t # s => load'[t].phase = load[t].phase
      /\ load'[s].phase = "started"
  BY <1>1, <1>4 DEF ScanInv, TypeOK, Phases, Running
<1>6. CacheInv'
  BY <1>3, CacheUnchanged DEF ScanInv
<1>7. TypeOK'
  BY <1>2, <1>3, <1>5, <1>6 DEF ScanInv, TypeOK, CacheInv
<1>8. QueueExact'
  <2>1. \A i, j \in 1 .. Len(queue) : queue[i] = queue[j] => i = j
    BY DEF ScanInv, QueueExact
  <2>2. ASSUME NEW i \in 1 .. Len(queue')
        PROVE  load'[queue'[i]].phase = "queued"
    <3>1. queue[i + 1] # s /\ queue[i + 1] \in Stages
      BY <1>1, <1>2, <2>1
    <3>2. load[queue[i + 1]].phase = "queued"
      BY <1>2 DEF ScanInv, QueueExact
    <3> QED BY <1>2, <1>5, <3>1, <3>2
  <2>3. ASSUME NEW i \in 1 .. Len(queue'), NEW j \in 1 .. Len(queue'), queue'[i] = queue'[j]
        PROVE  i = j
    <3>1. i + 1 = j + 1
      BY <1>2, <2>1, <2>3
    <3> QED BY <3>1
  <2> QED BY <2>2, <2>3 DEF QueueExact
<1>9. StagesOwned'
  BY <1>1, <1>3, <1>5 DEF ScanInv, StagesOwned
<1>10. WindowExact'
  BY <1>1, <1>3, <1>5 DEF ScanInv, WindowExact, PageTotal, PageAt
<1>11. Quiet'
  BY <1>1, <1>3 DEF ScanInv, Quiet
<1> QED
  BY <1>6, <1>7, <1>8, <1>9, <1>10, <1>11 DEF ScanInv

LEMMA LookUpInv == ASSUME ScanInv, NEW s \in Stages, LookUp(s) PROVE ScanInv'
<1> DEFINE p == load[s].page
<1>1. /\ load[s].phase = "started" /\ Get(p)
      /\ stage' = [stage EXCEPT ![s] = IF Find(p) = NoSlot THEN NoPage ELSE slotData[Find(p)]]
      /\ SetPhase(s, IF Find(p) = NoSlot THEN "reading" ELSE "done")
      /\ UNCHANGED <<mode, scan, submitted, consumed, queue, h2d>>
  BY DEF LookUp
<1>2. p \in Pages
  BY <1>1 DEF ScanInv, StagesOwned
<1>3. CacheInv'
  BY <1>1, <1>2, GetInv DEF ScanInv
<1>4. Find(p) # NoSlot => slotData[Find(p)] = p
  BY <1>2 DEF ScanInv, CacheInv, LookupsReturnTheirPage
<1>5. /\ stage' \in [Stages -> Pages \cup {NoPage}]
      /\ \A t \in Stages : t # s => stage'[t] = stage[t]
      /\ Find(p) # NoSlot => stage'[s] = p
  BY <1>1, <1>2, <1>4 DEF ScanInv, TypeOK
<1>6. CASE Find(p) = NoSlot
  BY <1>1, <1>3, <1>5, <1>6, LoadStep DEF Phases, Running
<1>7. CASE Find(p) # NoSlot
  BY <1>1, <1>3, <1>5, <1>7, LoadStep DEF Phases, Running
<1> QED
  BY <1>6, <1>7

LEMMA ReadPageInv == ASSUME ScanInv, NEW s \in Stages, ReadPage(s) PROVE ScanInv'
<1>1. load[s].phase = "reading" /\ SetPhase(s, "read") /\ stage' = [stage EXCEPT ![s] = load[s].page]
  BY DEF ReadPage
<1>2. CacheInv' /\ UNCHANGED <<mode, scan, submitted, consumed, queue, h2d>>
  BY CacheUnchanged DEF ScanInv, ReadPage
<1>3. /\ stage' \in [Stages -> Pages \cup {NoPage}]
      /\ \A t \in Stages : t # s => stage'[t] = stage[t]
      /\ stage'[s] = load[s].page
  BY <1>1 DEF ScanInv, TypeOK
<1> QED
  BY <1>1, <1>2, <1>3, LoadStep DEF Phases, Running

LEMMA ReadFailsInv == ASSUME ScanInv, NEW s \in Stages, ReadFails(s) PROVE ScanInv'
<1>1. load[s].phase = "reading" /\ SetPhase(s, "failed") /\ stage' = stage
  BY DEF ReadFails
<1>2. CacheInv' /\ UNCHANGED <<mode, scan, submitted, consumed, queue, h2d>>
  BY CacheUnchanged DEF ScanInv, ReadFails
<1>3. stage' \in [Stages -> Pages \cup {NoPage}]
  BY <1>1 DEF ScanInv, TypeOK
<1> QED
  BY <1>1, <1>2, <1>3, LoadStep DEF Phases, Running

LEMMA InsertInv == ASSUME ScanInv, NEW s \in Stages, Insert(s) PROVE ScanInv'
<1>1. /\ load[s].phase = "read" /\ SetPhase(s, "done") /\ Put(load[s].page)
      /\ UNCHANGED <<mode, scan, submitted, consumed, queue, stage, h2d>>
  BY DEF Insert
<1>2. load[s].page \in Pages /\ stage[s] = load[s].page
  BY <1>1 DEF ScanInv, StagesOwned
<1>3. CacheInv'
  BY <1>1, <1>2, PutInv DEF ScanInv
<1>4. stage' \in [Stages -> Pages \cup {NoPage}]
  BY <1>1 DEF ScanInv, TypeOK
<1> QED
  BY <1>1, <1>2, <1>3, <1>4, LoadStep DEF Phases, Running

-----------------------------------------------------------------------------
(* The main thread and the device. *)

\* The slot of the next page to submit holds no load: the window is not full.
LEMMA NextSlotIdle ==
  ASSUME ScanInv, InScan, submitted < WindowEnd
  PROVE  /\ submitted < PageTotal /\ submitted < consumed + NumStages
         /\ SlotAt(submitted) \in Stages /\ load[SlotAt(submitted)].phase = "none"
<1>1. /\ submitted \in Nat /\ consumed \in Nat /\ PageTotal \in Nat /\ NumStages \in Nat
      /\ mode = "scanning" /\ scan \in Scans
  BY PagesOfScans, ScanAssumption DEF ScanInv, TypeOK, InScan
<1>2. submitted < PageTotal /\ submitted < consumed + NumStages
  BY <1>1 DEF WindowEnd, Depth, AtMost
<1>3. SlotAt(submitted) \in Stages
  BY <1>1, SlotInRing
<1>4. ASSUME load[SlotAt(submitted)].phase # "none"
      PROVE  FALSE
  <2>1. PICK i \in consumed .. submitted - 1 : SlotAt(submitted) = SlotAt(i)
    BY <1>1, <1>3, <1>4 DEF ScanInv, WindowExact
  <2>2. i \in Nat /\ i <= submitted /\ submitted < i + NumStages
    BY <1>1, <1>2
  <2>3. i = submitted
    BY <1>1, <2>1, <2>2, SlotsDistinct
  <2> QED BY <1>1, <2>3
<1> QED
  BY <1>2, <1>3, <1>4

LEMMA SubmitInv == ScanInv /\ Submit => ScanInv'
<1> SUFFICES ASSUME ScanInv, Submit PROVE ScanInv'
  OBVIOUS
<1> DEFINE s == SlotAt(submitted)
           p == PageAt(submitted)
<1>1. /\ InScan /\ submitted < WindowEnd /\ StageFree(s)
      /\ load' = [load EXCEPT ![s] = [page |-> p, phase |-> "queued"]]
      /\ queue' = Append(queue, s) /\ submitted' = submitted + 1
      /\ UNCHANGED <<cacheVars, mode, scan, consumed, stage, h2d>>
  BY DEF Submit
<1>2. /\ submitted < PageTotal /\ submitted < consumed + NumStages
      /\ s \in Stages /\ load[s].phase = "none"
  BY <1>1, NextSlotIdle
<1>3. /\ submitted \in Nat /\ consumed \in Nat /\ PageTotal \in Nat /\ NumStages \in Nat
      /\ mode = "scanning" /\ scan \in Scans /\ consumed <= submitted
  BY <1>1, PagesOfScans, ScanAssumption DEF ScanInv, TypeOK, InScan, WindowExact
<1>4. p \in Pages
  BY <1>2, <1>3, PagesOfScans
<1>5. queue \in Seq(Stages) /\ load \in [Stages -> [page : Pages \cup {NoPage}, phase : Phases]]
  BY DEF ScanInv, TypeOK
<1>6. /\ load' \in [Stages -> [page : Pages \cup {NoPage}, phase : Phases]]
      /\ load'[s].page = p /\ load'[s].phase = "queued"
      /\ \A t \in Stages : t # s => load'[t] = load[t]
  BY <1>1, <1>2, <1>4, <1>5 DEF Phases
<1>7. /\ queue' \in Seq(Stages) /\ Len(queue) \in Nat /\ Len(queue') = Len(queue) + 1
      /\ queue'[Len(queue) + 1] = s
      /\ \A i \in 1 .. Len(queue) : queue'[i] = queue[i] /\ queue[i] \in Stages
  BY <1>1, <1>2, <1>5
<1> HIDE DEF s, p
<1>8. \A i \in 1 .. Len(queue) : load[queue[i]].phase = "queued" /\ queue[i] # s
  BY <1>2 DEF ScanInv, QueueExact
<1>9. CacheInv'
  BY <1>1, CacheUnchanged DEF ScanInv
<1>10. TypeOK'
  BY <1>1, <1>3, <1>6, <1>7, <1>9 DEF ScanInv, TypeOK, CacheInv
<1>11. QueueExact'
  <2>1. \A i \in 1 .. Len(queue) + 1 : i # Len(queue) + 1 => i \in 1 .. Len(queue)
    BY <1>7
  <2>2. ASSUME NEW i \in 1 .. Len(queue')
        PROVE  load'[queue'[i]].phase = "queued"
    BY <1>6, <1>7, <1>8, <2>1
  <2>3. ASSUME NEW i \in 1 .. Len(queue'), NEW j \in 1 .. Len(queue'), queue'[i] = queue'[j]
        PROVE  i = j
    <3>1. CASE i = Len(queue) + 1 \/ j = Len(queue) + 1
      BY <1>7, <1>8, <2>1, <2>3, <3>1
    <3>2. CASE i # Len(queue) + 1 /\ j # Len(queue) + 1
      <4>1. i \in 1 .. Len(queue) /\ j \in 1 .. Len(queue) /\ queue[i] = queue[j]
        BY <1>7, <2>1, <2>3, <3>2
      <4> QED BY <4>1 DEF ScanInv, QueueExact
    <3> QED BY <3>1, <3>2
  <2> QED BY <2>2, <2>3 DEF QueueExact
<1>12. StagesOwned'
  <2>1. \A i \in 1 .. Len(h2d) : h2d[i].slot # s
    BY <1>1 DEF StageFree
  <2>2. ASSUME NEW t \in Stages, load'[t].phase # "none"
        PROVE  load'[t].page \in Pages /\ \A i \in 1 .. Len(h2d) : h2d[i].slot # t
    BY <1>4, <1>6, <2>1, <2>2 DEF ScanInv, StagesOwned
  <2>3. ASSUME NEW t \in Stages, load'[t].phase \in {"read", "done"}
        PROVE  stage[t] = load'[t].page
    BY <1>6, <2>3 DEF ScanInv, StagesOwned
  <2>4. \A i \in 1 .. Len(h2d) : stage[h2d[i].slot] = h2d[i].page
    BY DEF ScanInv, StagesOwned
  <2> QED
    BY <1>1, <2>2, <2>3, <2>4 DEF StagesOwned
<1>13. WindowExact'
  <2>1. ASSUME NEW t \in Stages, load'[t].phase # "none"
        PROVE  \E i \in consumed .. submitted : t = SlotAt(i) /\ load'[t].page = PageAt(i)
    <3>1. CASE t = s
      BY <1>3, <1>6, <3>1 DEF s, p
    <3>2. CASE t # s
      <4>1. PICK i \in consumed .. submitted - 1 : t = SlotAt(i) /\ load[t].page = PageAt(i)
        BY <1>3, <1>6, <2>1, <3>2 DEF ScanInv, WindowExact
      <4>2. i \in consumed .. submitted
        BY <1>3
      <4> QED BY <1>6, <3>2, <4>1, <4>2
    <3> QED BY <3>1, <3>2
  <2>2. submitted' - 1 = submitted
    BY <1>1, <1>3
  <2> QED
    BY <1>1, <1>2, <1>3, <2>1, <2>2 DEF WindowExact, PageAt, PageTotal
<1>14. Quiet'
  BY <1>1, <1>3 DEF Quiet
<1> QED
  BY <1>9, <1>10, <1>11, <1>12, <1>13, <1>14 DEF ScanInv

LEMMA ConsumeInv == ScanInv /\ Consume => ScanInv'
<1> SUFFICES ASSUME ScanInv, Consume PROVE ScanInv'
  OBVIOUS
<1> DEFINE s == SlotAt(consumed)
           p == PageAt(consumed)
           copy == [slot |-> s, page |-> p]
<1>1. /\ InScan /\ submitted = WindowEnd /\ consumed < PageTotal /\ load[s].phase = "done"
      /\ load' = [load EXCEPT ![s].phase = "none"]
      /\ h2d' = IF DeviceCopy THEN Append(h2d, copy) ELSE h2d
      /\ consumed' = consumed + 1
      /\ UNCHANGED <<cacheVars, mode, scan, submitted, queue, stage>>
  BY DEF Consume, SetPhase
<1>2. /\ submitted \in Nat /\ consumed \in Nat /\ PageTotal \in Nat /\ NumStages \in Nat \ {0}
      /\ mode = "scanning" /\ scan \in Scans
      /\ consumed <= submitted /\ submitted <= consumed + NumStages /\ submitted <= PageTotal
  BY <1>1, PagesOfScans, ScanAssumption DEF ScanInv, TypeOK, InScan, WindowExact
<1>3. consumed < submitted /\ s \in Stages /\ p \in Pages
  BY <1>1, <1>2, SlotInRing, PagesOfScans DEF WindowEnd, Depth, AtMost
<1>4. load[s].page = p
  <2>1. PICK i \in consumed .. submitted - 1 : s = SlotAt(i) /\ load[s].page = PageAt(i)
    BY <1>1, <1>2, <1>3 DEF ScanInv, WindowExact
  <2>2. i \in Nat /\ consumed <= i /\ i < consumed + NumStages
    BY <1>2
  <2>3. i = consumed
    BY <1>2, <2>1, <2>2, SlotsDistinct
  <2> QED BY <2>1, <2>3
<1>5. stage[s] = p
  BY <1>1, <1>3, <1>4 DEF ScanInv, StagesOwned
<1>6. /\ load \in [Stages -> [page : Pages \cup {NoPage}, phase : Phases]]
      /\ load' \in [Stages -> [page : Pages \cup {NoPage}, phase : Phases]]
      /\ load'[s].phase = "none"
      /\ \A t \in Stages : t # s => load'[t] = load[t]
  BY <1>1, <1>3 DEF ScanInv, TypeOK, Phases
<1>7. /\ h2d' \in Seq([slot : Stages, page : Pages])
      /\ \A i \in 1 .. Len(h2d') : \/ h2d'[i].slot = s /\ h2d'[i].page = p
                                   \/ i \in 1 .. Len(h2d) /\ h2d'[i] = h2d[i]
  <2> DEFINE copies == [slot : Stages, page : Pages]
  <2>1. copy \in copies /\ copy.slot = s /\ copy.page = p
    BY <1>3
  <2>2. h2d \in Seq(copies)
    BY DEF ScanInv, TypeOK
  <2> HIDE DEF copies, copy
  <2>3. h2d' \in Seq(copies) /\ \A i \in 1 .. Len(h2d') :
                                    h2d'[i] = copy \/ (i \in 1 .. Len(h2d) /\ h2d'[i] = h2d[i])
    BY <1>1, <2>1, <2>2
  <2> QED BY <2>1, <2>3 DEF copies
<1> HIDE DEF s, p, copy
<1>8. CacheInv'
  BY <1>1, CacheUnchanged DEF ScanInv
<1>9. TypeOK'
  BY <1>1, <1>2, <1>6, <1>7, <1>8 DEF ScanInv, TypeOK, CacheInv
<1>10. QueueExact'
  <2>1. \A i \in 1 .. Len(queue) : queue[i] \in Stages /\ load[queue[i]].phase = "queued"
    BY DEF ScanInv, QueueExact, TypeOK
  <2>2. \A i \in 1 .. Len(queue) : load'[queue[i]].phase = "queued"
    BY <1>1, <1>6, <2>1
  <2> QED BY <1>1, <2>2 DEF ScanInv, QueueExact
<1>11. StagesOwned'
  <2>1. ASSUME NEW t \in Stages, load'[t].phase # "none"
        PROVE  load'[t].page \in Pages /\ \A i \in 1 .. Len(h2d') : h2d'[i].slot # t
    <3>1. t # s /\ load[t].phase # "none" /\ load'[t] = load[t]
      BY <1>6, <2>1
    <3>2. load[t].page \in Pages /\ \A i \in 1 .. Len(h2d) : h2d[i].slot # t
      BY <3>1 DEF ScanInv, StagesOwned
    <3> QED BY <1>7, <3>1, <3>2
  <2>2. ASSUME NEW t \in Stages, load'[t].phase \in {"read", "done"}
        PROVE  stage[t] = load'[t].page
    BY <1>6, <2>2 DEF ScanInv, StagesOwned
  <2>3. ASSUME NEW i \in 1 .. Len(h2d')
        PROVE  stage[h2d'[i].slot] = h2d'[i].page
    BY <1>5, <1>7 DEF ScanInv, StagesOwned
  <2> QED
    BY <1>1, <2>1, <2>2, <2>3 DEF StagesOwned
<1>12. WindowExact'
  <2>1. ASSUME NEW t \in Stages, load'[t].phase # "none"
        PROVE  \E i \in consumed + 1 .. submitted - 1 : t = SlotAt(i) /\ load'[t].page = PageAt(i)
    <3>1. t # s /\ load[t].phase # "none" /\ load'[t] = load[t]
      BY <1>6, <2>1
    <3>2. PICK i \in consumed .. submitted - 1 : t = SlotAt(i) /\ load[t].page = PageAt(i)
      BY <1>2, <3>1 DEF ScanInv, WindowExact
    <3>3. i # consumed
      BY <3>1, <3>2 DEF s
    <3>4. i \in consumed + 1 .. submitted - 1
      BY <1>2, <3>3
    <3> QED BY <3>1, <3>2, <3>4
  <2> QED
    BY <1>1, <1>2, <1>3, <2>1 DEF WindowExact, PageAt, PageTotal
<1>13. Quiet'
  BY <1>1, <1>2 DEF Quiet
<1> QED
  BY <1>8, <1>9, <1>10, <1>11, <1>12, <1>13 DEF ScanInv

\* With an empty window no load holds a stage.
LEMMA EmptyWindowIdle ==
  ASSUME ScanInv, mode = "scanning", submitted = consumed
  PROVE  (\A s \in Stages : load[s].phase = "none") /\ queue = <<>>
<1>1. submitted \in Nat /\ consumed \in Nat /\ queue \in Seq(Stages)
  BY DEF ScanInv, TypeOK
<1>2. \A s \in Stages : load[s].phase = "none"
  <2> SUFFICES ASSUME NEW s \in Stages, load[s].phase # "none" PROVE FALSE
    OBVIOUS
  <2>1. PICK i \in consumed .. submitted - 1 : s = SlotAt(i)
    BY DEF ScanInv, WindowExact
  <2> QED BY <1>1, <2>1
<1>3. queue = <<>>
  <2>1. ASSUME queue # <<>> PROVE FALSE
    <3>1. 1 \in 1 .. Len(queue) /\ queue[1] \in Stages
      BY <1>1, <2>1
    <3> QED BY <1>2, <3>1 DEF ScanInv, QueueExact
  <2> QED BY <2>1
<1> QED
  BY <1>2, <1>3

LEMMA EndScanInv == ScanInv /\ EndScan => ScanInv'
<1> SUFFICES ASSUME ScanInv, EndScan PROVE ScanInv'
  OBVIOUS
<1>1. /\ mode = "scanning" /\ scan \in Scans /\ consumed = PageTotal
      /\ scan' = scan + 1 /\ submitted' = 0 /\ consumed' = 0
      /\ UNCHANGED <<cacheVars, mode, queue, load, stage, h2d>>
  BY DEF EndScan, InScan
<1>2. submitted = consumed
  <2>1. submitted \in Nat /\ consumed \in Nat /\ consumed <= submitted /\ submitted <= PageTotal
    BY <1>1 DEF ScanInv, TypeOK, WindowExact
  <2> QED BY <1>1, <2>1
<1>3. (\A s \in Stages : load[s].phase = "none") /\ queue = <<>>
  BY <1>1, <1>2, EmptyWindowIdle
<1>4. CacheInv'
  BY <1>1, CacheUnchanged DEF ScanInv
<1>5. TypeOK'
  <2>1. Len(ScanPages) \in Nat
    BY ScanAssumption
  <2>2. scan' \in 1 .. Len(ScanPages) + 1
    BY <1>1, <2>1 DEF Scans
  <2> QED BY <1>1, <1>4, <2>2 DEF ScanInv, TypeOK, CacheInv
<1>6. QueueExact' /\ StagesOwned' /\ Quiet'
  BY <1>1 DEF ScanInv, QueueExact, StagesOwned, Quiet
<1>7. WindowExact'
  <2>1. NumStages \in Nat
    BY ScanAssumption
  <2>2. ASSUME scan' \in Scans PROVE 0 <= PageTotal'
    <3>1. ScanPages[scan'] \in Seq(Pages)
      BY <2>2, ScanAssumption DEF Scans
    <3> QED BY <3>1 DEF PageTotal
  <2> QED BY <1>1, <1>3, <2>1, <2>2 DEF WindowExact, Scans
<1> QED
  BY <1>4, <1>5, <1>6, <1>7 DEF ScanInv

LEMMA RaiseInv == ScanInv /\ Raise => ScanInv'
<1> SUFFICES ASSUME ScanInv, Raise PROVE ScanInv'
  OBVIOUS
<1>1. /\ mode' = "aborting" /\ queue' = <<>> /\ load' = DropQueued
      /\ UNCHANGED <<cacheVars, scan, submitted, consumed, stage, h2d>>
  BY DEF Raise
<1>2. /\ load \in [Stages -> [page : Pages \cup {NoPage}, phase : Phases]]
      /\ load' \in [Stages -> [page : Pages \cup {NoPage}, phase : Phases]]
      /\ \A s \in Stages : load'[s].phase = "none" \/ load'[s] = load[s]
  BY <1>1 DEF ScanInv, TypeOK, DropQueued, Phases
<1>3. CacheInv'
  BY <1>1, CacheUnchanged DEF ScanInv
<1>4. TypeOK'
  BY <1>1, <1>2, <1>3 DEF ScanInv, TypeOK, CacheInv
<1>5. QueueExact' /\ WindowExact' /\ Quiet'
  BY <1>1 DEF QueueExact, WindowExact, Quiet
<1>6. StagesOwned'
  <2>1. ASSUME NEW s \in Stages, load'[s].phase # "none"
        PROVE  load'[s].page \in Pages /\ \A i \in 1 .. Len(h2d) : h2d[i].slot # s
    BY <1>2, <2>1 DEF ScanInv, StagesOwned
  <2>2. ASSUME NEW s \in Stages, load'[s].phase \in {"read", "done"}
        PROVE  stage[s] = load'[s].page
    BY <1>2, <2>2 DEF ScanInv, StagesOwned
  <2>3. \A i \in 1 .. Len(h2d) : stage[h2d[i].slot] = h2d[i].page
    BY DEF ScanInv, StagesOwned
  <2> QED BY <1>1, <2>1, <2>2, <2>3 DEF StagesOwned
<1> QED
  BY <1>3, <1>4, <1>5, <1>6 DEF ScanInv

LEMMA CloseInv == ScanInv /\ Close => ScanInv'
<1> SUFFICES ASSUME ScanInv, Close PROVE ScanInv'
  OBVIOUS
<1>1. /\ mode = "aborting" \/ (mode = "scanning" /\ scan \notin Scans)
      /\ Busy = {} /\ mode' = "closed"
      /\ UNCHANGED <<cacheVars, scan, submitted, consumed, queue, load, stage, h2d>>
  BY DEF Close
<1>2. queue = <<>>
  <2>1. CASE mode = "aborting"
    BY <2>1 DEF ScanInv, Quiet
  <2>2. CASE mode = "scanning" /\ scan \notin Scans
    BY <2>2, EmptyWindowIdle DEF ScanInv, WindowExact
  <2> QED BY <1>1, <2>1, <2>2
<1>3. CacheInv'
  BY <1>1, CacheUnchanged DEF ScanInv
<1>4. TypeOK' /\ QueueExact' /\ StagesOwned'
  BY <1>1, <1>3 DEF ScanInv, TypeOK, CacheInv, QueueExact, StagesOwned
<1>5. WindowExact' /\ Quiet'
  BY <1>1, <1>2 DEF WindowExact, Quiet, Busy
<1> QED
  BY <1>3, <1>4, <1>5 DEF ScanInv

LEMMA CopyOutInv == ScanInv /\ CopyOut => ScanInv'
<1> SUFFICES ASSUME ScanInv, CopyOut PROVE ScanInv'
  OBVIOUS
<1>1. /\ h2d # <<>> /\ h2d' = Tail(h2d)
      /\ UNCHANGED <<cacheVars, mode, scan, submitted, consumed, queue, load, stage>>
  BY DEF CopyOut
<1> DEFINE copies == [slot : Stages, page : Pages]
<1>2. h2d \in Seq(copies)
  BY DEF ScanInv, TypeOK
<1> HIDE DEF copies
<1>3. h2d' \in Seq(copies) /\ \A i \in 1 .. Len(h2d') : h2d'[i] = h2d[i + 1] /\ i + 1 \in 1 .. Len(h2d)
  BY <1>1, <1>2
<1>4. CacheInv'
  BY <1>1, CacheUnchanged DEF ScanInv
<1>5. TypeOK'
  BY <1>1, <1>3, <1>4 DEF ScanInv, TypeOK, CacheInv, copies
<1>6. QueueExact' /\ WindowExact' /\ Quiet'
  BY <1>1 DEF ScanInv, QueueExact, WindowExact, Quiet, Busy, PageAt, PageTotal
<1>7. StagesOwned'
  <2>1. ASSUME NEW s \in Stages, load[s].phase # "none"
        PROVE  load[s].page \in Pages /\ \A i \in 1 .. Len(h2d') : h2d'[i].slot # s
    BY <1>3, <2>1 DEF ScanInv, StagesOwned
  <2>2. \A s \in Stages : load[s].phase \in {"read", "done"} => stage[s] = load[s].page
    BY DEF ScanInv, StagesOwned
  <2>3. \A i \in 1 .. Len(h2d') : stage[h2d'[i].slot] = h2d'[i].page
    BY <1>3 DEF ScanInv, StagesOwned
  <2> QED BY <1>1, <2>1, <2>2, <2>3 DEF StagesOwned
<1> QED
  BY <1>4, <1>5, <1>6, <1>7 DEF ScanInv

-----------------------------------------------------------------------------
(* The theorems. *)

LEMMA StutterInv == ScanInv /\ UNCHANGED vars => ScanInv'
<1> SUFFICES ASSUME ScanInv, UNCHANGED vars PROVE ScanInv'
  OBVIOUS
<1>1. UNCHANGED cacheVars /\ UNCHANGED <<mode, scan, submitted, consumed, queue, load, stage, h2d>>
  BY DEF vars, scanVars
<1>2. CacheInv'
  BY <1>1, CacheUnchanged DEF ScanInv
<1>3. TypeOK'
  BY <1>1, <1>2 DEF ScanInv, TypeOK, CacheInv
<1>4. QueueExact' /\ StagesOwned' /\ Quiet'
  BY <1>1 DEF ScanInv, QueueExact, StagesOwned, Quiet, Busy
<1>5. WindowExact'
  BY <1>1 DEF ScanInv, WindowExact, PageAt, PageTotal
<1> QED
  BY <1>2, <1>3, <1>4, <1>5 DEF ScanInv

LEMMA StepInv == ScanInv /\ [Next]_vars => ScanInv'
<1> SUFFICES ASSUME ScanInv, [Next]_vars PROVE ScanInv'
  OBVIOUS
<1>1. CASE Submit
  BY <1>1, SubmitInv
<1>2. CASE Consume
  BY <1>2, ConsumeInv
<1>3. CASE EndScan
  BY <1>3, EndScanInv
<1>4. CASE Raise
  BY <1>4, RaiseInv
<1>5. CASE Close
  BY <1>5, CloseInv
<1>6. CASE Start
  BY <1>6, StartInv
<1>7. ASSUME NEW s \in Stages, LookUp(s) \/ ReadPage(s) \/ ReadFails(s) \/ Insert(s)
      PROVE  ScanInv'
  BY <1>7, LookUpInv, ReadPageInv, ReadFailsInv, InsertInv
<1>8. CASE CopyOut
  BY <1>8, CopyOutInv
<1>9. CASE UNCHANGED vars
  BY <1>9, StutterInv
<1> QED
  BY <1>1, <1>2, <1>3, <1>4, <1>5, <1>6, <1>7, <1>8, <1>9
  DEF Next, Main, Worker, LoadFailed, Finished

\* The inductive invariant of the scan holds in every reachable state.
THEOREM ScanInvariance == Spec => []ScanInv
BY InitScan, StepInv, PTL DEF Spec

\* The variables of the scan and of the cache keep their types.
THEOREM ScanTypeCorrect == Spec => []TypeOK
<1>1. ScanInv => TypeOK
  BY DEF ScanInv
<1> QED
  BY <1>1, ScanInvariance, PTL

\* Concurrent loads leave the cache consistent (cache.py get and put run under
\* the lock, load_kv_page as a whole does not).
THEOREM CacheStaysConsistent == Spec => []CacheConsistent
<1>1. ScanInv => CacheConsistent
  BY DEF ScanInv, CacheInv, CacheConsistent
<1> QED
  BY <1>1, ScanInvariance, PTL

\* A finished load, and a copy the device has still to perform, finds the bytes
\* of its page in the stage (io.py _scan_kv_pages).
THEOREM StagesKeepTheirPage == Spec => []StagesHoldTheirPage
<1>1. ScanInv => StagesHoldTheirPage
  BY DEF ScanInv, StagesOwned, StagesHoldTheirPage
<1> QED
  BY <1>1, ScanInvariance, PTL

\* No load is queued or running when the cache has been closed (runner.py run).
THEOREM ClosedIsQuiet == Spec => []NoLoadAfterClose
<1>1. ScanInv => NoLoadAfterClose
  BY DEF ScanInv, Quiet, NoLoadAfterClose
<1> QED
  BY <1>1, ScanInvariance, PTL

-----------------------------------------------------------------------------
(* Pages read once. *)

\* The rolling pages of the scans from t to the one in progress.
Since(t) == (UNION {Scanned(u) : u \in {v \in Scans : t <= v /\ v <= scan}}) \ HotPages

\* Scan t has been through the cache with p: it is over, or it is in progress
\* and p is consumed or its load finished.
Loaded(p, t) ==
  \/ t < scan
  \/ /\ t = scan
     /\ \/ \E i \in 0 .. consumed - 1 : PageAt(i) = p
        \/ \E s \in Stages : load[s].phase = "done" /\ load[s].page = p

\* p is cached, and every page used since belongs to scan t or a later one.
Kept(p, t) == slotOf[p] # NoSlot /\ Behind(lru, p, Since(t))

\* The loads that hold a stage are of the scan in progress, one per page.
LoadsOfScan ==
  /\ \A s \in Stages : load[s].phase # "none" => scan \in Scans /\ load[s].page \in Scanned(scan)
  /\ \A s, u \in Stages :
       load[s].phase # "none" /\ load[u].phase # "none" /\ load[s].page = load[u].page => s = u

\* Nobody else inserts the page a load is reading.
MissesAbsent == \A s \in Stages : load[s].phase \in {"reading", "read"} => Find(load[s].page) = NoSlot

HotKept == \A t \in Scans : \A p \in Scanned(t) \cap HotPages : Loaded(p, t) => p \in hotPresent

RecencyKept ==
  \A t \in Scans : \A p \in Scanned(t) \ HotPages :
    Loaded(p, t) /\ Cardinality(Since(t)) <= RollingSlotCount => Kept(p, t)

RecencyInv ==
  /\ LoadsOfScan
  /\ MissesAbsent
  /\ HotKept
  /\ RecencyKept

LEMMA ScannedPages == ASSUME NEW t \in Scans PROVE Scanned(t) \subseteq Pages
<1>1. ScanPages[t] \in Seq(Pages)
  BY ScanAssumption DEF Scans
<1> QED
  BY <1>1 DEF Scanned

LEMMA SinceFinite ==
  ASSUME NEW t
  PROVE  /\ Since(t) \subseteq RollingPages
         /\ IsFiniteSet(Since(t)) /\ Cardinality(Since(t)) \in Nat
<1>1. Since(t) \subseteq RollingPages
  BY ScannedPages DEF Since, RollingPages
<1>2. IsFiniteSet(Pages)
  <2>1. 0 \in Int /\ NumPages - 1 \in Int
    BY CacheAssumption
  <2> QED BY <2>1, FS_Interval DEF Pages
<1>3. Since(t) \subseteq Pages
  BY <1>1, SlotSets
<1> QED
  BY <1>1, <1>2, <1>3, FS_Subset, FS_CardinalityType

\* A page of the scan in progress counts among those since any earlier scan.
LEMMA ScanCounts ==
  ASSUME scan \in Scans, NEW t \in Scans, t <= scan, NEW p \in Scanned(scan), p \notin HotPages
  PROVE  p \in Since(t)
<1>1. scan \in {v \in Scans : t <= v /\ v <= scan}
  BY DEF Scans
<1> QED
  BY <1>1 DEF Since

\* The pages of one scan are distinct.
LEMMA PagesDistinct ==
  ASSUME scan \in Scans, NEW i \in 0 .. PageTotal - 1, NEW j \in 0 .. PageTotal - 1,
         PageAt(i) = PageAt(j)
  PROVE  i = j
<1>1. PageTotal \in Nat
  BY PagesOfScans
<1>2. i + 1 \in 1 .. Len(ScanPages[scan]) /\ j + 1 \in 1 .. Len(ScanPages[scan])
  BY <1>1 DEF PageTotal
<1>3. ScanPages[scan][i + 1] = ScanPages[scan][j + 1] => i + 1 = j + 1
  BY <1>2, ScanAssumption DEF Scans
<1> QED
  BY <1>3 DEF PageAt

LEMMA PageScanned ==
  ASSUME scan \in Scans, NEW i \in 0 .. PageTotal - 1
  PROVE  PageAt(i) \in Scanned(scan)
<1>1. PageTotal \in Nat
  BY PagesOfScans
<1>2. i + 1 \in 1 .. Len(ScanPages[scan])
  BY <1>1 DEF PageTotal
<1> QED
  BY <1>2 DEF PageAt, Scanned

LEMMA InitRecency == Init => RecencyInv
<1> SUFFICES ASSUME Init PROVE RecencyInv
  OBVIOUS
<1>1. /\ scan = 1 /\ consumed = 0 /\ \A s \in Stages : load[s].phase = "none"
  BY DEF Init
<1>2. LoadsOfScan /\ MissesAbsent
  BY <1>1 DEF LoadsOfScan, MissesAbsent
<1>3. \A t \in Scans : \A p : ~Loaded(p, t)
  BY <1>1 DEF Loaded, Scans
<1> QED
  BY <1>2, <1>3 DEF RecencyInv, HotKept, RecencyKept

\* A step that leaves the cache alone keeps what it kept, as long as it loads
\* nothing new and scans nothing new.
LEMMA CacheAlone ==
  ASSUME RecencyInv, UNCHANGED <<cacheVars, scan>>, LoadsOfScan', MissesAbsent',
         \A t \in Scans : \A p \in Scanned(t) : Loaded(p, t)' => Loaded(p, t)
  PROVE  RecencyInv'
<1>1. hotPresent' = hotPresent /\ slotOf' = slotOf /\ lru' = lru /\ scan' = scan
  BY DEF cacheVars
<1>2. HotKept'
  BY <1>1 DEF RecencyInv, HotKept
<1>3. RecencyKept'
  <2>1. ASSUME NEW t \in Scans, NEW p \in Scanned(t) \ HotPages, Loaded(p, t)',
               Cardinality(Since(t))' <= RollingSlotCount
        PROVE  Kept(p, t)'
    <3>1. Since(t)' = Since(t)
      BY <1>1 DEF Since
    <3>2. Loaded(p, t) /\ Cardinality(Since(t)) <= RollingSlotCount
      BY <2>1, <3>1
    <3>3. Kept(p, t)
      BY <3>2 DEF RecencyInv, RecencyKept
    <3> QED BY <1>1, <3>1, <3>3 DEF Kept
  <2> QED BY <2>1 DEF RecencyKept
<1> QED
  BY <1>2, <1>3 DEF RecencyInv

\* A step of one load that finishes no load.
LEMMA LoadMoves ==
  ASSUME ScanInv, RecencyInv, NEW s \in Stages, load[s].phase # "none",
         NEW phase \in (Phases \ {"none", "done"}), SetPhase(s, phase),
         UNCHANGED <<cacheVars, scan, consumed>>,
         phase \in {"reading", "read"} => load[s].phase \in {"reading", "read"}
  PROVE  RecencyInv'
<1>1. /\ \A u \in Stages : load'[u].page = load[u].page
      /\ \A u \in Stages : u # s => load'[u].phase = load[u].phase
      /\ load'[s].phase = phase
  BY DEF ScanInv, TypeOK, SetPhase
<1>2. LoadsOfScan'
  BY <1>1 DEF RecencyInv, LoadsOfScan
<1>3. MissesAbsent'
  BY <1>1 DEF RecencyInv, MissesAbsent, Find, cacheVars
<1>4. \A t \in Scans : \A p \in Scanned(t) : Loaded(p, t)' => Loaded(p, t)
  BY <1>1 DEF Loaded, PageAt
<1> QED
  BY <1>2, <1>3, <1>4, CacheAlone

LEMMA SubmitRecency == ScanInv /\ RecencyInv /\ Submit => RecencyInv'
<1> SUFFICES ASSUME ScanInv, RecencyInv, Submit PROVE RecencyInv'
  OBVIOUS
<1> DEFINE s == SlotAt(submitted)
           p == PageAt(submitted)
<1>1. /\ InScan /\ submitted < WindowEnd
      /\ load' = [load EXCEPT ![s] = [page |-> p, phase |-> "queued"]]
      /\ UNCHANGED <<cacheVars, mode, scan, consumed, stage, h2d>>
  BY DEF Submit
<1>2. submitted < PageTotal /\ s \in Stages
  BY <1>1, NextSlotIdle
<1>3. /\ submitted \in Nat /\ consumed \in Nat /\ PageTotal \in Nat
      /\ mode = "scanning" /\ scan \in Scans /\ submitted <= PageTotal
  BY <1>1, <1>2, PagesOfScans DEF ScanInv, TypeOK, InScan
<1>4. p \in Scanned(scan)
  BY <1>2, <1>3, PageScanned
<1>5. ASSUME NEW u \in Stages, load[u].phase # "none"
      PROVE  load[u].page # p
  <2>1. PICK i \in consumed .. submitted - 1 : load[u].page = PageAt(i)
    BY <1>3, <1>5 DEF ScanInv, WindowExact
  <2>2. i \in 0 .. PageTotal - 1 /\ submitted \in 0 .. PageTotal - 1 /\ i # submitted
    BY <1>2, <1>3
  <2> QED BY <1>3, <2>1, <2>2, PagesDistinct
<1> HIDE DEF s, p
<1>6. /\ load'[s].page = p /\ load'[s].phase = "queued"
      /\ \A u \in Stages : u # s => load'[u] = load[u]
  BY <1>1, <1>2 DEF ScanInv, TypeOK
<1>7. LoadsOfScan'
  <2>1. \A u \in Stages : load'[u].phase # "none" => load'[u].page \in Scanned(scan)
    BY <1>4, <1>6 DEF RecencyInv, LoadsOfScan
  <2>2. \A u, v \in Stages :
          load'[u].phase # "none" /\ load'[v].phase # "none" /\ load'[u].page = load'[v].page => u = v
    BY <1>5, <1>6 DEF RecencyInv, LoadsOfScan
  <2> QED BY <1>1, <1>3, <2>1, <2>2 DEF LoadsOfScan
<1>8. MissesAbsent'
  <2>1. ASSUME NEW u \in Stages, load'[u].phase \in {"reading", "read"}
        PROVE  u # s /\ load'[u] = load[u]
    BY <1>6, <2>1
  <2> QED BY <1>1, <2>1 DEF RecencyInv, MissesAbsent, Find, cacheVars
<1>9. \A t \in Scans : \A q \in Scanned(t) : Loaded(q, t)' => Loaded(q, t)
  BY <1>1, <1>6 DEF Loaded, PageAt
<1> QED
  BY <1>1, <1>7, <1>8, <1>9, CacheAlone

LEMMA ConsumeRecency == ScanInv /\ RecencyInv /\ Consume => RecencyInv'
<1> SUFFICES ASSUME ScanInv, RecencyInv, Consume PROVE RecencyInv'
  OBVIOUS
<1> DEFINE s == SlotAt(consumed)
           p == PageAt(consumed)
<1>1. /\ InScan /\ submitted = WindowEnd /\ consumed < PageTotal /\ load[s].phase = "done"
      /\ load' = [load EXCEPT ![s].phase = "none"]
      /\ consumed' = consumed + 1
      /\ UNCHANGED <<cacheVars, mode, scan, submitted, queue, stage>>
  BY DEF Consume, SetPhase
<1>2. /\ submitted \in Nat /\ consumed \in Nat /\ NumStages \in Nat \ {0}
      /\ mode = "scanning" /\ submitted <= consumed + NumStages
  BY <1>1, ScanAssumption DEF ScanInv, TypeOK, InScan, WindowExact
<1>3. s \in Stages
  BY <1>2, SlotInRing
<1>4. load[s].page = p
  <2>1. PICK i \in consumed .. submitted - 1 : s = SlotAt(i) /\ load[s].page = PageAt(i)
    BY <1>1, <1>2, <1>3 DEF ScanInv, WindowExact
  <2>2. i \in Nat /\ consumed <= i /\ i < consumed + NumStages
    BY <1>2
  <2>3. i = consumed
    BY <1>2, <2>1, <2>2, SlotsDistinct
  <2> QED BY <2>1, <2>3
<1>5. Loaded(p, scan)
  BY <1>1, <1>3, <1>4 DEF Loaded
<1>6. /\ load'[s].phase = "none"
      /\ \A u \in Stages : u # s => load'[u] = load[u]
  BY <1>1, <1>3 DEF ScanInv, TypeOK
<1>7. LoadsOfScan'
  BY <1>1, <1>6 DEF RecencyInv, LoadsOfScan
<1>8. MissesAbsent'
  <2>1. ASSUME NEW u \in Stages, load'[u].phase \in {"reading", "read"}
        PROVE  u # s /\ load'[u] = load[u]
    BY <1>6, <2>1
  <2> QED BY <1>1, <2>1 DEF RecencyInv, MissesAbsent, Find, cacheVars
<1>9. ASSUME NEW t \in Scans, NEW q, Loaded(q, t)'
      PROVE  Loaded(q, t)
  <2>1. CASE t < scan
    BY <2>1 DEF Loaded
  <2>2. CASE t = scan /\ \E i \in 0 .. consumed : PageAt(i) = q
    <3>1. PICK i \in 0 .. consumed : PageAt(i) = q
      BY <2>2
    <3>2. CASE i = consumed
      BY <1>5, <2>2, <3>1, <3>2
    <3>3. CASE i # consumed
      <4>1. i \in 0 .. consumed - 1
        BY <1>2, <3>3
      <4> QED BY <2>2, <3>1, <4>1 DEF Loaded
    <3> QED BY <3>2, <3>3
  <2>3. CASE t = scan /\ \E u \in Stages : load'[u].phase = "done" /\ load'[u].page = q
    <3>1. PICK u \in Stages : load'[u].phase = "done" /\ load'[u].page = q
      BY <2>3
    <3>2. load[u].phase = "done" /\ load[u].page = q
      BY <1>6, <3>1
    <3> QED BY <2>3, <3>2 DEF Loaded
  <2>4. consumed' - 1 = consumed /\ scan' = scan
    BY <1>1, <1>2
  <2> QED BY <1>9, <2>1, <2>2, <2>3, <2>4 DEF Loaded, PageAt
<1> QED
  BY <1>1, <1>7, <1>8, <1>9, CacheAlone

\* Every page of a scan that ends has been through the cache.
LEMMA EndScanRecency == ScanInv /\ RecencyInv /\ EndScan => RecencyInv'
<1> SUFFICES ASSUME ScanInv, RecencyInv, EndScan PROVE RecencyInv'
  OBVIOUS
<1>1. /\ mode = "scanning" /\ scan \in Scans /\ consumed = PageTotal
      /\ scan' = scan + 1 /\ consumed' = 0
      /\ UNCHANGED <<cacheVars, load>> /\ scan \in Nat
  BY DEF EndScan, InScan, Scans
<1>2. \A s \in Stages : load[s].phase = "none"
  <2>1. submitted \in Nat /\ consumed \in Nat /\ consumed <= submitted /\ submitted <= PageTotal
    BY <1>1 DEF ScanInv, TypeOK, WindowExact
  <2>2. submitted = consumed
    BY <1>1, <2>1
  <2> QED BY <1>1, <2>2, EmptyWindowIdle
<1>3. LoadsOfScan' /\ MissesAbsent'
  BY <1>1, <1>2 DEF LoadsOfScan, MissesAbsent
<1>4. ASSUME NEW t \in Scans, NEW p \in Scanned(t), Loaded(p, t)'
      PROVE  Loaded(p, t)
  <2>1. t \in Nat /\ t <= scan
    BY <1>1, <1>2, <1>4 DEF Loaded, Scans
  <2>2. CASE t = scan
    <3>1. PICK i \in 1 .. Len(ScanPages[scan]) : ScanPages[scan][i] = p
      BY <2>2 DEF Scanned
    <3>2. PageTotal \in Nat
      BY <1>1, PagesOfScans
    <3>3. i - 1 \in 0 .. consumed - 1 /\ (i - 1) + 1 = i
      BY <1>1, <3>2 DEF PageTotal
    <3>4. PageAt(i - 1) = p
      BY <3>1, <3>3 DEF PageAt
    <3> QED BY <2>2, <3>3, <3>4 DEF Loaded
  <2>3. CASE t # scan
    BY <1>1, <2>1, <2>3 DEF Loaded
  <2> QED BY <2>2, <2>3
<1>5. hotPresent' = hotPresent /\ slotOf' = slotOf /\ lru' = lru
  BY <1>1 DEF cacheVars
<1>6. HotKept'
  BY <1>4, <1>5 DEF RecencyInv, HotKept
<1>7. RecencyKept'
  <2>1. ASSUME NEW t \in Scans, NEW p \in Scanned(t) \ HotPages, Loaded(p, t)',
               Cardinality(Since(t))' <= RollingSlotCount
        PROVE  Kept(p, t)'
    <3> DEFINE before == Since(t)
               after == Since(t)'
    <3>1. before \subseteq after
      BY <1>1 DEF Since, Scans
    <3>2. IsFiniteSet(after) /\ Cardinality(after) \in Nat
      <4>1. after \subseteq RollingPages
        BY ScannedPages DEF Since, RollingPages
      <4>2. IsFiniteSet(RollingPages)
        <5>1. 0 \in Int /\ NumPages - 1 \in Int
          BY CacheAssumption
        <5>2. IsFiniteSet(Pages)
          BY <5>1, FS_Interval DEF Pages
        <5> QED BY <5>2, SlotSets, FS_Subset
      <4> HIDE DEF after
      <4> QED BY <4>1, <4>2, FS_Subset, FS_CardinalityType
    <3>3. Cardinality(before) \in Nat
      BY SinceFinite
    <3>4. Cardinality(before) <= RollingSlotCount
      <4>1. Cardinality(after) <= RollingSlotCount
        BY <2>1
      <4> HIDE DEF before, after
      <4>2. Cardinality(before) <= Cardinality(after)
        BY <3>1, <3>2, FS_Subset
      <4> QED BY <3>2, <3>3, <4>1, <4>2, SlotFacts
    <3>5. Kept(p, t)
      BY <1>4, <2>1, <3>4 DEF RecencyInv, RecencyKept
    <3>6. Behind(lru, p, after)
      <4>1. Behind(lru, p, before)
        BY <3>5 DEF Kept
      <4> HIDE DEF before, after
      <4> QED BY <3>1, <4>1 DEF Behind
    <3> QED BY <1>5, <3>5, <3>6 DEF Kept
  <2> QED BY <2>1 DEF RecencyKept
<1> QED
  BY <1>3, <1>6, <1>7 DEF RecencyInv

LEMMA RaiseRecency == ScanInv /\ RecencyInv /\ Raise => RecencyInv'
<1> SUFFICES ASSUME ScanInv, RecencyInv, Raise PROVE RecencyInv'
  OBVIOUS
<1>1. load' = DropQueued /\ UNCHANGED <<cacheVars, scan, consumed>>
  BY DEF Raise
<1>2. \A s \in Stages : load'[s].phase = "none" \/ load'[s] = load[s]
  BY <1>1 DEF ScanInv, TypeOK, DropQueued
<1>3. LoadsOfScan'
  BY <1>1, <1>2 DEF RecencyInv, LoadsOfScan
<1>4. MissesAbsent'
  <2>1. ASSUME NEW u \in Stages, load'[u].phase \in {"reading", "read"}
        PROVE  load'[u] = load[u]
    BY <1>2, <2>1
  <2> QED BY <1>1, <2>1 DEF RecencyInv, MissesAbsent, Find, cacheVars
<1>5. \A t \in Scans : \A p \in Scanned(t) : Loaded(p, t)' => Loaded(p, t)
  <2>1. ASSUME NEW u \in Stages, load'[u].phase = "done"
        PROVE  load'[u] = load[u]
    BY <1>2, <2>1
  <2> QED BY <1>1, <2>1 DEF Loaded, PageAt
<1> QED
  BY <1>1, <1>3, <1>4, <1>5, CacheAlone

\* A hit refreshes its page, a miss starts to read it.
LEMMA LookUpRecency == ASSUME ScanInv, RecencyInv, NEW s \in Stages, LookUp(s) PROVE RecencyInv'
<1> DEFINE q == load[s].page
<1>1. /\ load[s].phase = "started" /\ Get(q)
      /\ SetPhase(s, IF Find(q) = NoSlot THEN "reading" ELSE "done")
      /\ UNCHANGED <<mode, scan, consumed>>
  BY DEF LookUp
<1>2. /\ Touch(q) /\ hotPresent' = hotPresent /\ slotOf' = slotOf
      /\ \A p : Find(p)' = Find(p)
  BY <1>1 DEF Get, Find
<1>3. /\ scan \in Scans /\ scan \in Nat /\ q \in Scanned(scan) /\ q \in Pages
  BY <1>1, ScannedPages DEF RecencyInv, LoadsOfScan, Scans
<1>4. /\ \A u \in Stages : load'[u].page = load[u].page
      /\ \A u \in Stages : u # s => load'[u].phase = load[u].phase
      /\ load'[s].phase = IF Find(q) = NoSlot THEN "reading" ELSE "done"
  BY <1>1 DEF ScanInv, TypeOK, SetPhase
<1>5. LoadsOfScan'
  <2>1. \A u \in Stages : load'[u].phase # "none" => load[u].phase # "none"
    BY <1>1, <1>4
  <2> QED BY <1>1, <1>4, <2>1 DEF RecencyInv, LoadsOfScan
<1> HIDE DEF q
<1>6. MissesAbsent'
  <2>1. ASSUME NEW u \in Stages, load'[u].phase \in {"reading", "read"}
        PROVE  Find(load[u].page) = NoSlot
    <3>1. CASE u = s
      BY <1>4, <2>1, <3>1 DEF q
    <3>2. CASE u # s
      BY <1>4, <2>1, <3>2 DEF RecencyInv, MissesAbsent
    <3> QED BY <3>1, <3>2
  <2>2. ASSUME NEW u \in Stages, load'[u].phase \in {"reading", "read"}
        PROVE  Find(load[u].page)' = NoSlot
    <3>1. load'[u].page = load[u].page /\ Find(load[u].page) = NoSlot
      BY <1>4, <2>1, <2>2
    <3> QED BY <1>2, <3>1 DEF Find
  <2> QED BY <2>2 DEF MissesAbsent
<1>7. ASSUME NEW t \in Scans, NEW p, Loaded(p, t)'
      PROVE  Loaded(p, t) \/ (p = q /\ t = scan /\ Find(q) # NoSlot)
  <2>1. ASSUME NEW u \in Stages, load'[u].phase = "done"
        PROVE  load[u].phase = "done" \/ (u = s /\ Find(q) # NoSlot)
    BY <1>4, <2>1
  <2> QED BY <1>1, <1>4, <1>7, <2>1 DEF Loaded, PageAt, q
<1>8. HotKept'
  <2>1. ASSUME NEW t \in Scans, NEW p \in Scanned(t) \cap HotPages, Loaded(p, t)'
        PROVE  p \in hotPresent
    <3>1. CASE Loaded(p, t)
      BY <3>1 DEF RecencyInv, HotKept
    <3>2. CASE p = q /\ Find(q) # NoSlot
      BY <3>2 DEF Find
    <3> QED BY <1>7, <2>1, <3>1, <3>2
  <2> QED BY <1>2, <2>1 DEF HotKept
<1>9. RecencyKept'
  <2>1. ASSUME NEW t \in Scans, NEW p \in Scanned(t) \ HotPages, Loaded(p, t)',
               Cardinality(Since(t))' <= RollingSlotCount
        PROVE  Kept(p, t)'
    <3>1. Since(t)' = Since(t)
      BY <1>1 DEF Since
    <3>2. t <= scan /\ (q \in RollingPages => q \in Since(t))
      <4>1. t <= scan
        <5>1. t \in Nat /\ (Loaded(p, t) => t <= scan)
          BY <1>3 DEF Loaded, Scans
        <5> QED BY <1>3, <1>7, <2>1, <5>1
      <4>2. q \notin HotPages => q \in Since(t)
        BY <1>3, <4>1, ScanCounts
      <4> QED BY <4>1, <4>2 DEF RollingPages
    <3>3. CASE Loaded(p, t)
      <4>1. slotOf[p] # NoSlot /\ Behind(lru, p, Since(t))
        BY <2>1, <3>1, <3>3 DEF RecencyInv, RecencyKept, Kept
      <4>2. Behind(lru', p, Since(t))
        BY <1>2, <1>3, <3>2, <4>1, TouchedBehind DEF ScanInv
      <4> QED BY <1>2, <3>1, <4>1, <4>2 DEF Kept
    <3>4. CASE p = q /\ Find(q) # NoSlot
      <4>1. slotOf[q] # NoSlot /\ q \in RollingPages
        BY <1>3, <2>1, <3>4 DEF Find, RollingPages
      <4>2. Behind(lru', p, Since(t))
        BY <1>2, <1>3, <3>2, <3>4, <4>1, TouchedBehind DEF ScanInv
      <4> QED BY <1>2, <3>1, <3>4, <4>1, <4>2 DEF Kept
    <3> QED BY <1>7, <2>1, <3>3, <3>4
  <2> QED BY <2>1 DEF RecencyKept
<1> QED
  BY <1>5, <1>6, <1>8, <1>9 DEF RecencyInv

\* The page of a miss is inserted, and evicts no page that must be kept.
LEMMA InsertRecency == ASSUME ScanInv, RecencyInv, NEW s \in Stages, Insert(s) PROVE RecencyInv'
<1> DEFINE q == load[s].page
<1>1. /\ load[s].phase = "read" /\ Put(q) /\ SetPhase(s, "done")
      /\ UNCHANGED <<mode, scan, consumed>>
  BY DEF Insert
<1>2. /\ scan \in Scans /\ scan \in Nat /\ q \in Scanned(scan) /\ q \in Pages /\ Find(q) = NoSlot
  BY <1>1, ScannedPages DEF RecencyInv, LoadsOfScan, MissesAbsent, Scans
<1>3. /\ \A u \in Stages : load'[u].page = load[u].page
      /\ \A u \in Stages : u # s => load'[u].phase = load[u].phase
      /\ load'[s].phase = "done"
  BY <1>1 DEF ScanInv, TypeOK, SetPhase
<1>4. LoadsOfScan'
  <2>1. \A u \in Stages : load'[u].phase # "none" => load[u].phase # "none"
    BY <1>1, <1>3
  <2> QED BY <1>1, <1>3, <2>1 DEF RecencyInv, LoadsOfScan
<1>5. CacheInv
  BY DEF ScanInv
<1>6. MissesAbsent'
  <2>1. ASSUME NEW u \in Stages, load'[u].phase \in {"reading", "read"}
        PROVE  Find(load[u].page)' = NoSlot
    <3> DEFINE r == load[u].page
    <3>1. u # s /\ load[u].phase \in {"reading", "read"}
      BY <1>3, <2>1
    <3>2. r # q /\ r \in Pages /\ Find(r) = NoSlot
      BY <1>1, <3>1, ScannedPages DEF RecencyInv, LoadsOfScan, MissesAbsent
    <3>3. load'[u].page = r
      BY <1>3
    <3> HIDE DEF r, q
    <3>4. \A x \in Pages : x # q /\ Find(x) = NoSlot => Find(x)' = NoSlot
      BY <1>1, <1>2, <1>5, PutLeavesOthersOut
    <3>5. \A x \in Pages : x = load'[u].page /\ x # q /\ Find(x) = NoSlot => Find(load[u].page)' = NoSlot
      BY <3>4 DEF Find
    <3> QED BY <3>2, <3>3, <3>5
  <2> QED BY <2>1 DEF MissesAbsent
<1> HIDE DEF q
<1>7. ASSUME NEW t \in Scans, NEW p, Loaded(p, t)'
      PROVE  Loaded(p, t) \/ (p = q /\ t = scan)
  <2>1. ASSUME NEW u \in Stages, load'[u].phase = "done"
        PROVE  load[u].phase = "done" \/ u = s
    BY <1>3, <2>1
  <2> QED BY <1>1, <1>3, <1>7, <2>1 DEF Loaded, PageAt, q
<1>8. HotKept'
  <2>1. hotPresent \subseteq hotPresent' /\ (q \in HotPages => q \in hotPresent')
    BY <1>1, <1>2, <1>5, PutKeepsHot
  <2>2. ASSUME NEW t \in Scans, NEW p \in Scanned(t) \cap HotPages, Loaded(p, t)'
        PROVE  p \in hotPresent'
    <3>1. CASE Loaded(p, t)
      BY <2>1, <3>1 DEF RecencyInv, HotKept
    <3>2. CASE p = q
      BY <2>1, <2>2, <3>2
    <3> QED BY <1>7, <2>2, <3>1, <3>2
  <2> QED BY <2>2 DEF HotKept
<1>9. RecencyKept'
  <2>1. ASSUME NEW t \in Scans, NEW p \in Scanned(t) \ HotPages, Loaded(p, t)',
               Cardinality(Since(t))' <= RollingSlotCount
        PROVE  Kept(p, t)'
    <3>1. Since(t)' = Since(t)
      BY <1>1 DEF Since
    <3>2. Cardinality(Since(t)) <= RollingSlotCount
      BY <2>1, <3>1
    <3>3. t \in Nat /\ t <= scan /\ p \in Pages
      BY <1>2, <1>7, <2>1, ScannedPages DEF Loaded, Scans
    <3>4. q \in RollingPages => q \in Since(t)
      BY <1>2, <3>3, ScanCounts DEF RollingPages
    <3>5. p \in RollingPages /\ p \in Since(t)
      <4>1. t \in {v \in Scans : t <= v /\ v <= scan}
        BY <3>3
      <4> QED BY <2>1, <3>3, <4>1 DEF Since, RollingPages
    <3>6. p = q \/ (slotOf[p] # NoSlot /\ Behind(lru, p, Since(t)))
      BY <1>7, <2>1, <3>2 DEF RecencyInv, RecencyKept, Kept
    <3>7. slotOf'[p] # NoSlot /\ Behind(lru', p, Since(t))
      <4> DEFINE pages == Since(t)
      <4>1. IsFiniteSet(pages)
        BY SinceFinite
      <4> HIDE DEF pages
      <4>2. /\ Cardinality(pages) <= RollingSlotCount /\ p \in pages
            /\ q \in RollingPages => q \in pages
            /\ p = q \/ (slotOf[p] # NoSlot /\ Behind(lru, p, pages))
        BY <3>2, <3>4, <3>5, <3>6 DEF pages
      <4>3. slotOf'[p] # NoSlot /\ Behind(lru', p, pages)
        BY <1>1, <1>2, <1>5, <3>5, <4>1, <4>2, PutKeeps
      <4> QED BY <4>3 DEF pages
    <3> QED BY <3>1, <3>7 DEF Kept
  <2> QED BY <2>1 DEF RecencyKept
<1> QED
  BY <1>4, <1>6, <1>8, <1>9 DEF RecencyInv

\* Steps of the device, of a closing run, and none at all.
LEMMA RestRecency ==
  ASSUME RecencyInv, UNCHANGED <<cacheVars, scan, consumed, load>>
  PROVE  RecencyInv'
<1>1. LoadsOfScan' /\ MissesAbsent'
  BY DEF RecencyInv, LoadsOfScan, MissesAbsent, Find, cacheVars
<1>2. \A t \in Scans : \A p \in Scanned(t) : Loaded(p, t)' => Loaded(p, t)
  BY DEF Loaded, PageAt
<1> QED
  BY <1>1, <1>2, CacheAlone

LEMMA StepRecency == ScanInv /\ RecencyInv /\ [Next]_vars => RecencyInv'
<1> SUFFICES ASSUME ScanInv, RecencyInv, [Next]_vars PROVE RecencyInv'
  OBVIOUS
<1>1. CASE Submit
  BY <1>1, SubmitRecency
<1>2. CASE Consume
  BY <1>2, ConsumeRecency
<1>3. CASE EndScan
  BY <1>3, EndScanRecency
<1>4. CASE Raise
  BY <1>4, RaiseRecency
<1>5. CASE Close \/ CopyOut \/ UNCHANGED vars
  <2>1. UNCHANGED <<cacheVars, scan, consumed, load>>
    BY <1>5 DEF Close, CopyOut, vars, scanVars
  <2> QED BY <2>1, RestRecency
<1>6. CASE Start
  <2>1. /\ Head(queue) \in Stages /\ load[Head(queue)].phase = "queued"
        /\ SetPhase(Head(queue), "started") /\ UNCHANGED <<cacheVars, scan, consumed>>
    <3>1. queue \in Seq(Stages) /\ queue # <<>> /\ Head(queue) = queue[1] /\ 1 \in 1 .. Len(queue)
      BY <1>6 DEF ScanInv, TypeOK, Start
    <3> QED BY <1>6, <3>1 DEF ScanInv, QueueExact, Start
  <2> QED BY <2>1, LoadMoves DEF Phases, Running
<1>7. ASSUME NEW s \in Stages, ReadPage(s) \/ ReadFails(s)
      PROVE  RecencyInv'
  <2>1. CASE ReadPage(s)
    <3>1. load[s].phase = "reading" /\ SetPhase(s, "read") /\ UNCHANGED <<cacheVars, scan, consumed>>
      BY <2>1 DEF ReadPage
    <3> QED BY <3>1, LoadMoves DEF Phases, Running
  <2>2. CASE ReadFails(s)
    <3>1. load[s].phase = "reading" /\ SetPhase(s, "failed") /\ UNCHANGED <<cacheVars, scan, consumed>>
      BY <2>2 DEF ReadFails
    <3> QED BY <3>1, LoadMoves DEF Phases, Running
  <2> QED BY <1>7, <2>1, <2>2
<1>8. ASSUME NEW s \in Stages, LookUp(s) \/ Insert(s)
      PROVE  RecencyInv'
  BY <1>8, LookUpRecency, InsertRecency
<1> QED
  BY <1>1, <1>2, <1>3, <1>4, <1>5, <1>6, <1>7, <1>8
  DEF Next, Main, Worker, LoadFailed, Finished

\* What a load reads is neither hot nor among the pages the rolling region
\* still holds.
LEMMA RecencyMeans == ScanInv /\ RecencyInv => KeptPagesReadOnce
<1> SUFFICES ASSUME ScanInv, RecencyInv,
                    NEW s \in Stages, NEW t \in 1 .. scan - 1,
                    load[s].phase \in {"reading", "read"}, load[s].page \in Scanned(t)
             PROVE  /\ load[s].page \notin HotPages
                    /\ Cardinality((UNION {Scanned(u) : u \in t .. scan}) \ HotPages) > RollingSlotCount
  BY DEF KeptPagesReadOnce
<1> DEFINE p == load[s].page
<1>1. /\ scan \in Scans /\ scan \in Nat /\ t \in Scans /\ t < scan
  BY DEF RecencyInv, LoadsOfScan, Scans
<1>2. p \in Pages /\ Find(p) = NoSlot /\ Loaded(p, t)
  BY <1>1, ScannedPages DEF RecencyInv, MissesAbsent, Loaded
<1>3. p \notin HotPages
  <2>1. ASSUME p \in HotPages PROVE FALSE
    <3>1. p \in hotPresent
      BY <1>1, <1>2, <2>1 DEF RecencyInv, HotKept
    <3> QED BY <1>2, <2>1, <3>1, SlotSets DEF Find
  <2> QED BY <2>1
<1>4. ~(Cardinality(Since(t)) <= RollingSlotCount)
  <2>1. ASSUME Cardinality(Since(t)) <= RollingSlotCount PROVE FALSE
    <3>1. Kept(p, t)
      BY <1>1, <1>2, <1>3, <2>1 DEF RecencyInv, RecencyKept
    <3> QED BY <1>2, <1>3, <3>1 DEF Kept, Find
  <2> QED BY <2>1
<1>5. Since(t) = (UNION {Scanned(u) : u \in t .. scan}) \ HotPages
  <2>1. {v \in Scans : t <= v /\ v <= scan} = t .. scan
    BY <1>1 DEF Scans
  <2> QED BY <2>1 DEF Since
<1>6. Cardinality(Since(t)) > RollingSlotCount
  BY <1>4, SinceFinite, SlotFacts
<1> QED
  BY <1>3, <1>5, <1>6

\* A hot page is read from the source once in a run, and a rolling page once
\* while the pages scanned since fit the rolling region (cache.py get and put,
\* whatever order the loads of io.py _scan_kv_pages finish in).
THEOREM KeptPagesAreReadOnce == Spec => []KeptPagesReadOnce
<1>1. Init => ScanInv /\ RecencyInv
  BY InitScan, InitRecency
<1>2. ScanInv /\ RecencyInv /\ [Next]_vars => ScanInv' /\ RecencyInv'
  BY StepInv, StepRecency
<1> QED
  BY <1>1, <1>2, RecencyMeans, PTL DEF Spec
=============================================================================
