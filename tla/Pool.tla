-------------------------------- MODULE Pool ---------------------------------
(***************************************************************************)
(* gmk::Pool (include/gmk/pool.hpp): a growing array of slots, each with a *)
(* generation number, and a free list threaded through next_free_.  A      *)
(* client holds <<index, generation>> handles; the pool tells a stale one  *)
(* by comparing generations.                                               *)
(*                                                                         *)
(* The sentinel slot 0 is left out of gen and data (nothing ever changes   *)
(* it), so slot s of the code is gen[s], data[s] here.                     *)
(***************************************************************************)
EXTENDS Integers, Sequences, FiniteSets

CONSTANTS
  HalfGens,    \* half the number of generation values: 2^15 for uint16_t
  MaxSlots,    \* bound: slots the vectors grow to
  MaxObjects,  \* bound: allocations in a behaviour
  MaxBirths,   \* bound: allocations of one slot between two clear()s
  MaxClears    \* bound: calls of clear()

ASSUME HalfGensAssumption == HalfGens \in Nat /\ HalfGens > 1
ASSUME BoundsAssumption ==
  /\ MaxSlots \in Nat
  /\ MaxObjects \in Nat
  /\ MaxBirths \in Nat
  /\ MaxClears \in Nat

VARIABLES
  gen,       \* gen_: the generation of each slot
  data,      \* data_: the object stored in each slot, 0 for T{}
  link,      \* next_free_[0..n-1] and, at n, the word past its end
  head,      \* free_head_
  live,      \* live_count_
  issued,    \* history: issued[o] is the handle alloc() returned for object o
  births,    \* history: allocations of each slot since the last clear()
  dropped,   \* history: objects 1..dropped were allocated before the last clear()
  clears,    \* history: calls of clear() so far
  torn,      \* history: has alloc() read a link past the end of next_free_
             \* that is not the one stored there, since the last clear()?
  last       \* history: the last operation, its object and its result

pool == <<gen, data, link, head, live>>
history == <<issued, births, dropped, clears, torn, last>>
vars == <<gen, data, link, head, live, issued, births, dropped, clears, torn, last>>

Gens == 0 .. 2 * HalfGens - 1
Slots == 1 .. Len(gen)
Handle == [index : Nat, gen : Nat]

\* What a word of next_free_ may hold: the list's end, a slot there is or may
\* be, or (MaxSlots + 1) any number that never names one.
Word == 0 .. MaxSlots + 1

\* static_cast<std::uint16_t> of a generation that was just incremented
Truncate(g) == IF g >= 2 * HalfGens THEN g - 2 * HalfGens ELSE g

\* The generation alloc() moves a slot to: the next odd one, never 0.
NextOdd(g) ==
  LET g1 == Truncate(g + 1)
      g2 == IF g1 % 2 = 0 THEN Truncate(g1 + 1) ELSE g1
  IN  IF g2 = 0 THEN 1 ELSE g2

\* The generation free() moves a slot to: the next even one.
NextEven(g) ==
  LET g1 == Truncate(g + 1)
  IN  IF g1 % 2 = 1 THEN Truncate(g1 + 1) ELSE g1

IsLiveSlot(s) == gen[s] % 2 = 1

\* Mutant of Alive: tests that the slot is in use, not the handle's generation.
AliveByParity(h) ==
  /\ h.gen # 0
  /\ h.index \in Slots
  /\ IsLiveSlot(h.index)

\* alive(h): the single comparison that tells a stale handle.
Alive(h) ==
  /\ h.gen # 0
  /\ h.index \in Slots
  /\ gen[h.index] = h.gen

\* Objects whose handles clients still hold: clear() ends all earlier ones.
Held == dropped + 1 .. Len(issued)

\* Handles no alloc() returned: the null handle, the sentinel, a slot that
\* does not exist yet.
Forged == {[index |-> 0, gen |-> 0], [index |-> 0, gen |-> 1],
           [index |-> Len(gen) + 1, gen |-> 1]}

Did(op, o, st) == last' = [op |-> op, obj |-> o, status |-> st]

Init ==
  /\ gen = <<>>
  /\ data = <<>>
  /\ link = [w \in 0..0 |-> 0]
  /\ head = 0
  /\ live = 0
  /\ issued = <<>>
  /\ births = <<>>
  /\ dropped = 0
  /\ clears = 0
  /\ torn = FALSE
  /\ last = [op |-> "new", obj |-> 0, status |-> "Ok"]

\* The object a client stores through the new handle is its own number.
Issue(s, g) ==
  /\ live' = live + 1
  /\ issued' = Append(issued, [index |-> s, gen |-> g])
  /\ Did("alloc", Len(issued) + 1, "Ok")
  /\ UNCHANGED <<dropped, clears>>

\* The load free_head_ = next_free_[s].  next_free_ has no entry for the
\* sentinel and is one shorter than the slots, so the last slot's word lies past
\* its end: free() stores there and alloc() loads from there, and C++ promises
\* nothing of what is read.
LoadLink(s) ==
  \E w \in Word :
    /\ s < Len(gen) => w = link[s]
    /\ head' = w
    /\ torn' = (torn \/ w # link[s])

\* alloc() with a slot on the free list.  Where free_head_ names no slot,
\* alloc() writes outside its vectors and nothing is said of what follows.
AllocReuse ==
  LET s == head
      g == NextOdd(gen[s])
  IN  /\ head \in Slots
      /\ Len(issued) < MaxObjects
      /\ births[s] < MaxBirths
      /\ LoadLink(s)
      /\ gen' = [gen EXCEPT ![s] = g]
      /\ data' = [data EXCEPT ![s] = Len(issued) + 1]
      /\ births' = [births EXCEPT ![s] = @ + 1]
      /\ Issue(s, g)
      /\ UNCHANGED link

\* alloc() with an empty free list.  next_free_.push_back(0) fills the word of
\* the slot before the new one, and the new slot's word lies past the end.
AllocGrow ==
  LET n == Len(gen)
      g == NextOdd(0)
  IN  /\ head = 0
      /\ n < MaxSlots
      /\ Len(issued) < MaxObjects
      /\ 0 < MaxBirths
      /\ gen' = Append(gen, g)
      /\ data' = Append(data, Len(issued) + 1)
      /\ births' = Append(births, 1)
      /\ link' = [w \in 0 .. n + 1 |-> IF w < n THEN link[w] ELSE 0]
      /\ Issue(n + 1, g)
      /\ UNCHANGED <<head, torn>>

\* Mutant of StoreLink: free() does not thread the slot onto the list.
StoreLinkDropped(s) == UNCHANGED link

\* The store next_free_[s] = free_head_, past the vector's end for the last slot.
StoreLink(s) == link' = [link EXCEPT ![s] = head]

\* Mutant of Release: the slot keeps its odd generation.
ReleaseKeepsGeneration(h) ==
  /\ data' = [data EXCEPT ![h.index] = 0]
  /\ UNCHANGED gen
  /\ StoreLink(h.index)
  /\ head' = h.index
  /\ live' = live - 1

\* free(h) once the handle passed the checks
Release(h) ==
  /\ data' = [data EXCEPT ![h.index] = 0]
  /\ gen' = [gen EXCEPT ![h.index] = NextEven(@)]
  /\ StoreLink(h.index)
  /\ head' = h.index
  /\ live' = live - 1

\* free(h) of object o's handle (o = 0 for a forged one)
FreeHandle(h, o) ==
  /\ \/ /\ h.gen = 0
        /\ Did("free", o, "InvalidArgument")
        /\ UNCHANGED pool
     \/ /\ h.gen # 0
        /\ ~Alive(h)
        /\ Did("free", o, "NotFound")
        /\ UNCHANGED pool
     \/ /\ Alive(h)
        /\ Release(h)
        /\ Did("free", o, "Ok")
  /\ UNCHANGED <<issued, births, dropped, clears, torn>>

Free == \E o \in Held : FreeHandle(issued[o], o)

FreeForged == \E h \in Forged : FreeHandle(h, 0)

\* Mutant of Clear: next_free_ survives clear().
ClearKeepsLinks ==
  /\ clears < MaxClears
  /\ gen' = <<>>
  /\ data' = <<>>
  /\ head' = 0
  /\ live' = 0
  /\ births' = <<>>
  /\ dropped' = Len(issued)
  /\ clears' = clears + 1
  /\ torn' = FALSE
  /\ Did("clear", 0, "Ok")
  /\ UNCHANGED <<link, issued>>

Clear ==
  /\ clears < MaxClears
  /\ gen' = <<>>
  /\ data' = <<>>
  /\ link' = [w \in 0..0 |-> 0]
  /\ head' = 0
  /\ live' = 0
  /\ births' = <<>>
  /\ dropped' = Len(issued)
  /\ clears' = clears + 1
  /\ torn' = FALSE
  /\ Did("clear", 0, "Ok")
  /\ UNCHANGED issued

Next == AllocReuse \/ AllocGrow \/ Free \/ FreeForged \/ Clear

Spec == Init /\ [][Next]_vars

------------------------------------------------------------------------------
(* Properties *)

\* Every variable ranges over the values the code's types allow and each parallel
\* vector has as many entries as the others.
TypeOK ==
  /\ gen \in Seq(Gens) /\ Len(gen) <= MaxSlots
  /\ data \in Seq(0..Len(issued)) /\ Len(data) = Len(gen)
  /\ link \in [0 .. Len(gen) -> Word]
  /\ head \in Word
  /\ live \in Nat
  /\ issued \in Seq(Handle)
  /\ births \in Seq(Nat) /\ Len(births) = Len(gen)
  /\ dropped \in 0..Len(issued)
  /\ clears \in Nat
  /\ torn \in BOOLEAN

\* pool.hpp's state convention, kept across truncation to the generation's
\* width: a slot's generation counts its allocations and frees, odd exactly
\* while an object is stored there.
GenerationCounts ==
  \A s \in Slots :
    /\ births[s] >= 1
    /\ gen[s] = IF data[s] = 0 THEN Truncate(2 * births[s])
                               ELSE 2 * births[s] - 1

\* f lists the k free slots from the bottom of the free list to its top.
FreeListIs(k, f) ==
  /\ \A i, j \in 1..k : f[i] = f[j] => i = j
  /\ \A s \in Slots : data[s] = 0 <=> \E i \in 1..k : f[i] = s
  /\ head = IF k = 0 THEN 0 ELSE f[k]
  /\ \A i \in 1..k : link[f[i]] = IF i = 1 THEN 0 ELSE f[i - 1]

\* Unless alloc() read back something else past the end of next_free_, the free
\* list reached from free_head_ visits every free slot once, in LIFO order, and
\* ends; live_count_ is what it leaves over.  A double free, a lost link or a
\* stale head breaks it only several calls later.
FreeListExact ==
  \/ torn
  \/ /\ live \in 0 .. Len(gen)
     /\ LET k == Len(gen) - live
        IN  \E f \in [1..k -> Slots] : FreeListIs(k, f)

\* get(h) with a handle a client still holds finds that client's object or
\* nothing, never the object that took over the slot.
LookupExact ==
  \A o \in Held : Alive(issued[o]) <=> data[issued[o].index] = o

\* README.md:110-114: a stale handle is always detected.  Every handle ever
\* returned counts, however often its slot was recycled; only behaviours in which
\* the word past the end of next_free_ kept its store are blamed for it.
StaleHandleDetected ==
  torn \/ \A o \in 1..Len(issued) :
            Alive(issued[o]) => data[issued[o].index] = o

\* README.md:111-113: odd generations are live and allocating an entity flips
\* the generation up to the next odd value, so alloc() takes a slot that is free.
AllocTakesFree ==
  [][last'.op = "alloc" =>
       \A s \in Slots : gen'[s] # gen[s] => ~IsLiveSlot(s)]_vars

\* The slots implement the store of numbered objects: what is live there is
\* what the pool's own generation test lets through, and the store has lost
\* track of its room once a link was read back wrong.
Store == INSTANCE HandleStore WITH
  total <- Len(issued),
  live <- {o \in Held : Alive(issued[o])},
  torn <- torn,
  last <- last

\* Every step of the pool, failed frees included, is a step of HandleStore:
\* free() returns Ok once per object and removes that object only, alloc() adds
\* an object and, only after a link was read back wrong, may replace one other.
RefinesStore == Store!Spec
==============================================================================
