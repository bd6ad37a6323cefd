---------------------------- MODULE KVPageCache ----------------------------
(***************************************************************************)
(* The two-region host cache of K/V pages (paged/cache.py, KVPageCache).   *)
(*                                                                         *)
(* A prefix of the page table, the hot pages, owns one fixed slot each.    *)
(* The other pages share the rolling slots, which an OrderedDict hands out *)
(* in least-recently-used order.  Every operation below runs under the     *)
(* cache's lock, so it is one atomic step; what is not atomic is the       *)
(* get / read / put sequence of a loader (module KVScan).                  *)
(*                                                                         *)
(* A page's bytes are represented by its page id.  Byte sizes are counted  *)
(* in slots: Capacity stands for capacity_bytes // slot_bytes.             *)
(***************************************************************************)
EXTENDS Arithmetic, Sequences, FiniteSets

CONSTANTS
  NumPages,    \* len(pages): the pages of the K/V source, in page-id order
  Capacity,    \* capacity_bytes // slot_bytes
  HotPercent   \* hot_fraction, in percent

ASSUME CacheAssumption ==
  /\ NumPages \in Nat
  /\ Capacity \in Nat
  /\ HotPercent \in 0 .. 100

VARIABLES
  hotPresent,    \* _hot_present
  slotOf,        \* _rolling: the slot of a page, NoSlot when it is absent
  lru,           \* _rolling: its key order, least recently used first
  freeSlots,     \* _rolling_free
  slotData,      \* the page whose bytes each slot holds
  presentCount,  \* _present_count
  peakSlots,     \* peak_bytes // slot_bytes
  hits, misses

cacheVars == <<hotPresent, slotOf, lru, freeSlots, slotData, presentCount,
               peakSlots, hits, misses>>

-----------------------------------------------------------------------------
Pages == 0 .. NumPages - 1

\* KVPageCache.__init__: how the slots are split into the two regions.
SlotCount == AtMost(NumPages, Capacity)

HotSlotCount ==
  LET share == (SlotCount * HotPercent) \div 100
      atLeastOne == IF HotPercent > 0 /\ SlotCount > 0 THEN AtLeast(1, share) ELSE share
  IN  AtMost(SlotCount, atLeastOne)

RollingSlotCount == SlotCount - HotSlotCount

Slots == 0 .. SlotCount - 1
HotPages == 0 .. HotSlotCount - 1
RollingPages == Pages \ HotPages
RollingSlots == HotSlotCount .. SlotCount - 1

NoSlot == -1
NoPage == -1

CacheInit ==
  /\ hotPresent = {}
  /\ slotOf = [p \in RollingPages |-> NoSlot]
  /\ lru = <<>>
  /\ freeSlots = [i \in 1 .. RollingSlotCount |-> HotSlotCount + i - 1]
  /\ slotData = [s \in Slots |-> NoPage]
  /\ presentCount = 0
  /\ peakSlots = 0
  /\ hits = 0
  /\ misses = 0

-----------------------------------------------------------------------------
\* OrderedDict.move_to_end: p becomes the most recently used key.
MoveToEnd(p) ==
  LET at == CHOOSE i \in 1 .. Len(lru) : lru[i] = p
  IN  [i \in 1 .. Len(lru) |->
         IF i < at THEN lru[i] ELSE IF i < Len(lru) THEN lru[i + 1] ELSE p]

\* A hot page's slot is its index; whether it was filled is in _hot_present.
Find(p) ==
  IF p \in HotPages
  THEN IF p \in hotPresent THEN p ELSE NoSlot
  ELSE slotOf[p]

\* _find_slot refreshes the recency of a rolling page it finds.
Touch(p) ==
  lru' = IF p \in RollingPages /\ slotOf[p] # NoSlot THEN MoveToEnd(p) ELSE lru

\* get: on a hit the caller copies slotData[Find(p)] into its stage.
Get(p) ==
  /\ Touch(p)
  /\ IF Find(p) = NoSlot
     THEN misses' = misses + 1 /\ hits' = hits
     ELSE hits' = hits + 1 /\ misses' = misses
  /\ UNCHANGED <<hotPresent, slotOf, freeSlots, slotData, presentCount, peakSlots>>

\* The tail of put: p's bytes go to slot s and the peak is updated.
Fill(p, s, count) ==
  /\ slotData' = [slotData EXCEPT ![s] = p]
  /\ presentCount' = count
  /\ peakSlots' = AtLeast(peakSlots, AtMost(count, SlotCount))

PutHot(p) ==
  /\ hotPresent' = hotPresent \cup {p}
  /\ Fill(p, p, presentCount + 1)
  /\ UNCHANGED <<slotOf, lru, freeSlots>>

PutInFreeSlot(p) ==
  /\ freeSlots' = Tail(freeSlots)
  /\ slotOf' = [slotOf EXCEPT ![p] = Head(freeSlots)]
  /\ lru' = Append(lru, p)
  /\ Fill(p, Head(freeSlots), presentCount + 1)
  /\ UNCHANGED hotPresent

\* Mutant: the evicted key keeps its slot.
PutByEvictionKeepingKey(p) ==
  /\ slotOf' = [slotOf EXCEPT ![p] = slotOf[Head(lru)]]
  /\ lru' = Append(Tail(lru), p)
  /\ Fill(p, slotOf[Head(lru)], presentCount)
  /\ UNCHANGED <<hotPresent, freeSlots>>

\* Mutant: popitem(last=True).
PutByEvictingNewest(p) ==
  LET victim == lru[Len(lru)] IN
  /\ slotOf' = [slotOf EXCEPT ![victim] = NoSlot, ![p] = slotOf[victim]]
  /\ lru' = [lru EXCEPT ![Len(lru)] = p]
  /\ Fill(p, slotOf[victim], presentCount)
  /\ UNCHANGED <<hotPresent, freeSlots>>

\* popitem(last=False): the oldest rolling page loses its slot to p.
PutByEviction(p) ==
  LET victim == Head(lru) IN
  /\ slotOf' = [slotOf EXCEPT ![victim] = NoSlot, ![p] = slotOf[victim]]
  /\ lru' = Append(Tail(lru), p)
  /\ Fill(p, slotOf[victim], presentCount)
  /\ UNCHANGED <<hotPresent, freeSlots>>

PutNothing(p) ==
  /\ Touch(p)
  /\ UNCHANGED <<hotPresent, slotOf, freeSlots, slotData, presentCount, peakSlots>>

\* put(page, data of page p).
Put(p) ==
  /\ IF Find(p) # NoSlot \/ SlotCount = 0 THEN PutNothing(p)
     ELSE IF p \in HotPages THEN PutHot(p)
     ELSE IF RollingSlotCount = 0 THEN PutNothing(p)
     ELSE IF freeSlots # <<>> THEN PutInFreeSlot(p)
     ELSE PutByEviction(p)
  /\ UNCHANGED <<hits, misses>>

-----------------------------------------------------------------------------
\* Every variable of the cache has its type.
CacheTypeOK ==
  /\ hotPresent \subseteq HotPages
  /\ slotOf \in [RollingPages -> RollingSlots \cup {NoSlot}]
  /\ lru \in Seq(RollingPages)
  /\ freeSlots \in Seq(RollingSlots)
  /\ slotData \in [Slots -> Pages \cup {NoPage}]
  /\ presentCount \in Nat
  /\ peakSlots \in Nat
  /\ hits \in Nat
  /\ misses \in Nat

\* The recency list names exactly the rolling pages that own a slot, once.
RecencyListExact ==
  /\ \A p \in RollingPages : slotOf[p] # NoSlot <=> \E i \in 1 .. Len(lru) : lru[i] = p
  /\ \A i, j \in 1 .. Len(lru) : lru[i] = lru[j] => i = j

\* No rolling slot belongs to two pages, or to a page and the free list.
SlotsNotShared ==
  /\ \A p, q \in RollingPages : slotOf[p] = slotOf[q] /\ slotOf[p] # NoSlot => p = q
  /\ \A i \in 1 .. Len(freeSlots) : \A p \in RollingPages : slotOf[p] # freeSlots[i]
  /\ \A i, j \in 1 .. Len(freeSlots) : freeSlots[i] = freeSlots[j] => i = j

\* Every slot a lookup can return holds the bytes of the page looked up.
LookupsReturnTheirPage ==
  \A p \in Pages : Find(p) # NoSlot => slotData[Find(p)] = p

\* No rolling slot is lost: each is free or owned by a listed page.
NoSlotLost == Len(freeSlots) + Len(lru) = RollingSlotCount

\* The occupancy counter behind peak_bytes is the number of cached pages.
PresentCountExact == presentCount = Cardinality(hotPresent) + Len(lru)
=============================================================================
