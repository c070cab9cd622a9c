----------------------------- MODULE PoolProofs ------------------------------
(***************************************************************************)
(* Proofs about Pool for every width of the generation, every number of    *)
(* slots and every interleaving of allocations, frees and clears: a handle  *)
(* is never taken for another object's, as long as no slot is born more    *)
(* often than half the generation values.  Nothing is assumed of the word  *)
(* past the end of next_free_.                                             *)
(***************************************************************************)
EXTENDS Pool, FiniteSetTheorems, SequenceTheorems, TLAPS

\* The hypothesis under which generations tell handles apart.
RecyclesBounded == MaxBirths <= HalfGens

BirthsBounded == \A s \in Slots : births[s] <= MaxBirths

\* The object in a slot is held and its handle carries the slot's generation.
StoredHandles ==
  \A s \in Slots : data[s] # 0 =>
    /\ data[s] \in Held
    /\ issued[data[s]] = [index |-> s, gen |-> gen[s]]

\* A held handle carries an odd generation its slot has already had, and an
\* older one than the present once another object lives there.
HeldHandles ==
  \A o \in Held :
    /\ issued[o].index \in Slots
    /\ issued[o].gen % 2 = 1
    /\ issued[o].gen <= 2 * births[issued[o].index] - 1
    /\ data[issued[o].index] \notin {0, o} =>
         issued[o].gen < 2 * births[issued[o].index] - 1

\* The slots that store an object.
Occupied == {s \in Slots : data[s] # 0}

\* live_count_ never falls behind the slots that store an object.
LiveBound == Cardinality(Occupied) <= live

\* What holds whatever links alloc() reads.
HandleInv ==
  /\ TypeOK
  /\ GenerationCounts
  /\ BirthsBounded
  /\ StoredHandles
  /\ HeldHandles
  /\ LiveBound

------------------------------------------------------------------------------
(* Arithmetic of generations *)

\* alloc()'s odd generation: the three lines after "next odd" in the code.
LEMMA NextOddValue ==
  ASSUME NEW g \in Gens, g % 2 = 0
  PROVE  NextOdd(g) = g + 1 /\ g + 1 \in Gens
BY HalfGensAssumption DEF Gens, NextOdd, Truncate

\* free()'s even generation: the increment, cut to the generation's width.
LEMMA NextEvenValue ==
  ASSUME NEW g \in Gens, g % 2 = 1
  PROVE  NextEven(g) = Truncate(g + 1) /\ NextEven(g) \in Gens
                                       /\ NextEven(g) % 2 = 0
BY HalfGensAssumption DEF Gens, NextEven, Truncate

\* The lengths and indices that TypeOK ties together.
LEMMA Sizes ==
  ASSUME TypeOK
  PROVE  /\ Len(gen) \in Nat /\ Slots = 1..Len(gen)
         /\ Len(data) = Len(gen) /\ Len(births) = Len(gen)
         /\ live \in Nat /\ head \in Word
         /\ Len(issued) \in Nat /\ dropped \in 0..Len(issued)
BY LenProperties DEF TypeOK, Slots

\* What one slot holds.
LEMMA SlotTypes ==
  ASSUME TypeOK, NEW s \in Slots
  PROVE  /\ gen[s] \in Gens /\ gen[s] \in Nat
         /\ births[s] \in Nat
         /\ data[s] \in 0..Len(issued)
<1>1. s \in 1..Len(gen) /\ s \in 1..Len(births) /\ s \in 1..Len(data)
  BY Sizes
<1>2. gen[s] \in Gens
  BY <1>1, ElementOfSeq DEF TypeOK
<1>3. births[s] \in Nat
  BY <1>1, ElementOfSeq DEF TypeOK
<1>4. data[s] \in 0..Len(issued)
  BY <1>1, ElementOfSeq DEF TypeOK
<1>5. QED BY <1>2, <1>3, <1>4 DEF Gens

\* Counting the occupied slots: one more, one less, or the same.
LEMMA OccupiedFinite ==
  ASSUME TypeOK
  PROVE  /\ IsFiniteSet(Occupied) /\ Cardinality(Occupied) \in Nat
         /\ \A s : Cardinality(Occupied \cup {s}) <= Cardinality(Occupied) + 1
         /\ \A s \in Occupied :
              Cardinality(Occupied \ {s}) = Cardinality(Occupied) - 1
<1>1. IsFiniteSet(Slots)
  BY Sizes, FS_Interval
<1>2. IsFiniteSet(Occupied)
  BY <1>1, FS_Subset DEF Occupied
<1>3. Cardinality(Occupied) \in Nat
  BY <1>2, FS_CardinalityType
<1>4. ASSUME NEW s
      PROVE  Cardinality(Occupied \cup {s}) <= Cardinality(Occupied) + 1
  <2>1. Cardinality(Occupied \cup {s}) = IF s \in Occupied THEN Cardinality(Occupied)
                                         ELSE Cardinality(Occupied) + 1
    BY <1>2, FS_AddElement
  <2>2. QED BY ONLY <1>3, <2>1
<1>5. ASSUME NEW s \in Occupied
      PROVE  Cardinality(Occupied \ {s}) = Cardinality(Occupied) - 1
  BY <1>2, FS_RemoveElement
<1>6. QED BY <1>2, <1>3, <1>4, <1>5

\* GenerationCounts makes the parity of a slot tell whether it is live.
LEMMA ParityIsLiveness ==
  ASSUME TypeOK, GenerationCounts, BirthsBounded, RecyclesBounded, NEW s \in Slots
  PROVE  /\ data[s] = 0 => gen[s] % 2 = 0
         /\ data[s] # 0 => gen[s] % 2 = 1
<1>1. births[s] \in Nat /\ births[s] >= 1 /\ births[s] <= HalfGens
  <2>1. births[s] \in Nat
    BY SlotTypes
  <2>2. births[s] >= 1
    BY DEF GenerationCounts
  <2>3. births[s] <= MaxBirths
    BY DEF BirthsBounded
  <2>4. QED BY <2>1, <2>2, <2>3, HalfGensAssumption, BoundsAssumption DEF RecyclesBounded
<1>2. CASE data[s] = 0
  BY <1>1, <1>2, HalfGensAssumption DEF GenerationCounts, Truncate
<1>3. CASE data[s] # 0
  BY <1>1, <1>3 DEF GenerationCounts
<1>4. QED BY <1>2, <1>3

------------------------------------------------------------------------------
(* The inductive invariant *)

IInv == HandleInv /\ FreeListExact

USE HalfGensAssumption, BoundsAssumption

\* The initial pool: only the sentinel.
LEMMA InitIInv == Init => IInv
<1> SUFFICES ASSUME Init PROVE IInv
  OBVIOUS
<1>1. HandleInv
  <2>1. Slots = {} /\ Held = {} /\ Occupied = {}
    BY DEF Init, Slots, Held, Occupied
  <2>2. LiveBound
    BY <2>1, FS_EmptySet DEF Init, LiveBound
  <2>3. TypeOK
    <3>1. link \in [0..Len(gen) -> Word] /\ head \in Word /\ live \in Nat /\ clears \in Nat
      BY DEF Init, Word
    <3>2. /\ gen \in Seq(Gens) /\ Len(gen) <= MaxSlots
          /\ data \in Seq(0..Len(issued)) /\ Len(data) = Len(gen)
      BY DEF Init
    <3>3. /\ issued \in Seq(Handle) /\ births \in Seq(Nat) /\ Len(births) = Len(gen)
      BY DEF Init
    <3>4. dropped \in 0..Len(issued)
      BY DEF Init
    <3>5. torn \in BOOLEAN
      BY DEF Init
    <3>6. QED BY <3>1, <3>2, <3>3, <3>4, <3>5 DEF TypeOK
  <2>4. QED BY <2>1, <2>2, <2>3 DEF HandleInv, GenerationCounts, BirthsBounded,
                                    StoredHandles, HeldHandles
<1>2. FreeListExact
  <2> DEFINE f == [i \in 1..0 |-> i]
  <2>1. f \in [1..0 -> Slots]
    OBVIOUS
  <2>2. FreeListIs(0, f) /\ Len(gen) - live = 0 /\ live \in 0..Len(gen)
    BY DEF Init, FreeListIs, Slots
  <2>3. QED BY <2>1, <2>2 DEF FreeListExact
<1>3. QED BY <1>1, <1>2 DEF IInv

\* The slot alloc() pops is free as long as no link was read back wrong.
LEMMA HeadIsFree ==
  ASSUME IInv, ~torn, head # 0
  PROVE  head \in Slots /\ data[head] = 0 /\ live < Len(gen)
<1> USE DEF IInv, HandleInv
<1> DEFINE k == Len(gen) - live
<1>1. k \in Nat
  BY Sizes DEF FreeListExact
<1>2. PICK f \in [1..k -> Slots] : FreeListIs(k, f)
  BY DEF FreeListExact
<1>3. k # 0 /\ head = f[k]
  BY <1>2 DEF FreeListIs
<1>4. k \in 1..k /\ f[k] \in Slots
  BY <1>1, <1>3
<1>5. data[f[k]] = 0
  BY <1>2, <1>4 DEF FreeListIs
<1>6. live < Len(gen)
  BY <1>1, <1>3, Sizes
<1>7. QED BY <1>3, <1>4, <1>5, <1>6

\* A slot with room for one more birth: alloc() gives it the generation of that
\* birth, whether the slot is free or, after a wrong link, still occupied.
LEMMA NextBirth ==
  ASSUME HandleInv, RecyclesBounded, NEW s \in Slots, births[s] < MaxBirths
  PROVE  /\ NextOdd(gen[s]) = 2 * births[s] + 1
         /\ NextOdd(gen[s]) \in Gens
         /\ births[s] \in Nat
<1> USE DEF HandleInv
<1>1. births[s] \in Nat /\ births[s] >= 1 /\ births[s] < HalfGens
  <2>1. births[s] \in Nat
    BY SlotTypes
  <2>2. births[s] >= 1
    BY DEF GenerationCounts
  <2>3. QED BY <2>1, <2>2 DEF RecyclesBounded
<1>2. CASE data[s] = 0
  <2>1. gen[s] = 2 * births[s]
    BY <1>1, <1>2 DEF GenerationCounts, Truncate
  <2>2. gen[s] \in Gens /\ gen[s] % 2 = 0
    BY <1>1, <2>1 DEF Gens
  <2>3. QED BY <1>1, <2>1, <2>2, NextOddValue
<1>3. CASE data[s] # 0
  <2>1. gen[s] = 2 * births[s] - 1
    BY <1>3 DEF GenerationCounts
  <2>2. gen[s] + 1 = 2 * births[s] /\ gen[s] + 2 = 2 * births[s] + 1
    BY <1>1, <2>1
  <2>3. Truncate(gen[s] + 1) = gen[s] + 1
    BY <1>1, <2>2 DEF Truncate
  <2>4. (gen[s] + 1) % 2 = 0 /\ Truncate(gen[s] + 2) = gen[s] + 2
    BY <1>1, <2>2 DEF Truncate
  <2>5. gen[s] + 1 + 1 = gen[s] + 2 /\ gen[s] + 2 # 0
    BY <1>1, <2>1
  <2>6. NextOdd(gen[s]) = gen[s] + 2
    BY <2>3, <2>4, <2>5 DEF NextOdd
  <2>7. QED BY <1>1, <2>2, <2>6 DEF Gens
<1>4. QED BY <1>2, <1>3

------------------------------------------------------------------------------
(* One lemma per operation *)

\* Overwriting the entry of slot s in one of the parallel vectors.
LEMMA Overwrite ==
  ASSUME NEW S, NEW q \in Seq(S), NEW s \in 1..Len(q), NEW e \in S, NEW r,
         r = [q EXCEPT ![s] = e]
  PROVE  /\ r \in Seq(S) /\ Len(r) = Len(q) /\ r[s] = e
         /\ \A t \in 1..Len(q) : t # s => r[t] = q[t]
BY ExceptSeq

\* push_back on one of them.
LEMMA PushBack ==
  ASSUME NEW S, NEW q \in Seq(S), NEW e \in S, NEW r, r = Append(q, e)
  PROVE  /\ r \in Seq(S) /\ Len(r) = Len(q) + 1 /\ r[Len(q) + 1] = e
         /\ \A t \in 1..Len(q) : r[t] = q[t]
BY AppendProperties, LenProperties

\* What every alloc() does to the history of handles.
LEMMA IssueStep ==
  ASSUME TypeOK, NEW s \in Nat, NEW g \in Nat, Issue(s, g)
  PROVE  /\ issued' \in Seq(Handle) /\ Len(issued') = Len(issued) + 1
         /\ Held' = Held \cup {Len(issued) + 1}
         /\ Len(issued) + 1 \notin Held
         /\ \A p \in Held : issued'[p] = issued[p]
         /\ issued'[Len(issued) + 1] = [index |-> s, gen |-> g]
<1>1. [index |-> s, gen |-> g] \in Handle
  BY DEF Handle
<1>2. issued \in Seq(Handle) /\ issued' = Append(issued, [index |-> s, gen |-> g])
  BY DEF TypeOK, Issue
<1>3. QED BY <1>1, <1>2, PushBack, LenProperties DEF Held, TypeOK, Issue

\* alloc() with a slot to reuse.
LEMMA AllocReuseStep ==
  ASSUME IInv, RecyclesBounded, AllocReuse
  PROVE  IInv'
<1> SUFFICES ASSUME NEW s, s = head,
                    NEW o, o = Len(issued) + 1,
                    NEW g, g = NextOdd(gen[s])
             PROVE  IInv'
  OBVIOUS
<1> USE DEF IInv, HandleInv
<1>1. /\ s \in Slots
      /\ g = 2 * births[s] + 1 /\ g \in Gens /\ g \in Nat
      /\ births[s] \in Nat /\ births[s] < MaxBirths
  <2>1. s \in Slots /\ births[s] < MaxBirths
    BY DEF AllocReuse
  <2>2. g = 2 * births[s] + 1 /\ g \in Gens /\ births[s] \in Nat
    BY <2>1, NextBirth
  <2>3. QED BY <2>1, <2>2 DEF Gens
<1>2. /\ Slots' = Slots /\ Len(gen) \in Nat
      /\ gen' \in Seq(Gens) /\ Len(gen') = Len(gen) /\ gen'[s] = g
      /\ \A t \in Slots : t # s => gen'[t] = gen[t]
  BY <1>1, Overwrite, LenProperties DEF TypeOK, Slots, AllocReuse
<1>3. /\ data' \in Seq(0..o) /\ Len(data') = Len(gen) /\ data'[s] = o
      /\ \A t \in Slots : t # s => data'[t] = data[t]
  <2>1. data \in Seq(0..o)
    BY SeqMonotonic, LenProperties DEF TypeOK
  <2>2. o \in 0..o /\ data' = [data EXCEPT ![s] = o]
    BY LenProperties DEF TypeOK, AllocReuse
  <2>3. QED BY <1>1, <2>1, <2>2, Overwrite DEF TypeOK, Slots
<1>4. /\ births' \in Seq(Nat) /\ Len(births') = Len(gen)
      /\ births'[s] = births[s] + 1
      /\ \A t \in Slots : t # s => births'[t] = births[t]
  <2>1. births' = [births EXCEPT ![s] = births[s] + 1] /\ births[s] + 1 \in Nat
    BY <1>1 DEF AllocReuse
  <2>2. births \in Seq(Nat) /\ Len(births) = Len(gen) /\ s \in 1..Len(births)
    BY <1>1 DEF TypeOK, Slots
  <2>3. QED BY <2>1, <2>2, Overwrite DEF Slots
<1>5. /\ issued' \in Seq(Handle) /\ Len(issued') = o
      /\ Held' = Held \cup {o} /\ o \notin Held
      /\ \A p \in Held : issued'[p] = issued[p]
      /\ issued'[o] = [index |-> s, gen |-> g]
  <2>1. s \in Nat
    BY <1>1, Sizes
  <2>2. Issue(s, g)
    BY DEF AllocReuse
  <2>3. QED BY <1>1, <2>1, <2>2, IssueStep
<1>6. /\ live' = live + 1 /\ head' \in Word /\ torn' \in BOOLEAN
      /\ ~torn' => ~torn /\ head' = link[s]
      /\ UNCHANGED <<link, dropped, clears>>
  BY DEF AllocReuse, Issue, LoadLink, TypeOK
<1>7. o \in Nat /\ o # 0
  BY LenProperties DEF TypeOK
<1>8. TypeOK'
  <2>1. link' \in [0..Len(gen') -> Word] /\ Len(gen') <= MaxSlots
    BY <1>2, <1>6 DEF TypeOK
  <2>2. live' \in Nat
    BY <1>6, Sizes
  <2>3. dropped' \in 0..Len(issued')
    BY <1>5, <1>6, Sizes
  <2>4. data' \in Seq(0..Len(issued')) /\ Len(data') = Len(gen')
        /\ births' \in Seq(Nat) /\ Len(births') = Len(gen')
    BY <1>2, <1>3, <1>4, <1>5
  <2>5. clears' \in Nat
    BY <1>6 DEF TypeOK
  <2>6. QED BY <1>2, <1>5, <1>6, <2>1, <2>2, <2>3, <2>4, <2>5, Zenon DEF TypeOK
<1>9. GenerationCounts'
  <2>1. births'[s] >= 1 /\ gen'[s] = 2 * births'[s] - 1 /\ data'[s] # 0
    <3>1. births'[s] = births[s] + 1 /\ gen'[s] = 2 * births[s] + 1 /\ births[s] \in Nat
      BY <1>1, <1>2, <1>4
    <3>2. data'[s] # 0
      BY <1>3, <1>7
    <3>3. QED BY <3>1, <3>2
  <2>2. \A t \in Slots : t # s => births'[t] = births[t] /\ gen'[t] = gen[t]
                                                      /\ data'[t] = data[t]
    BY <1>2, <1>3, <1>4
  <2>3. \A t \in Slots : t # s =>
          /\ births'[t] >= 1
          /\ gen'[t] = IF data'[t] = 0 THEN Truncate(2 * births'[t])
                                      ELSE 2 * births'[t] - 1
    BY <2>2 DEF GenerationCounts
  <2>4. \A t \in Slots :
          /\ births'[t] >= 1
          /\ gen'[t] = IF data'[t] = 0 THEN Truncate(2 * births'[t])
                                      ELSE 2 * births'[t] - 1
    BY <2>1, <2>3
  <2>5. QED BY ONLY <1>2, <2>4 DEF GenerationCounts, Truncate
<1>10. BirthsBounded'
  <2>1. births'[s] <= MaxBirths
    BY <1>1, <1>4
  <2>2. \A t \in Slots : births'[t] <= MaxBirths
    BY <1>4, <2>1 DEF BirthsBounded
  <2>3. QED BY <1>2, <2>2 DEF BirthsBounded
<1>11. StoredHandles'
  <2> SUFFICES ASSUME NEW t \in Slots, data'[t] # 0
               PROVE  /\ data'[t] \in Held'
                      /\ issued'[data'[t]] = [index |-> t, gen |-> gen'[t]]
    BY <1>2 DEF StoredHandles
  <2>1. CASE t = s
    BY <1>2, <1>3, <1>5, <2>1
  <2>2. CASE t # s
    BY <1>2, <1>3, <1>5, <2>2 DEF StoredHandles
  <2>3. QED BY <2>1, <2>2
<1>12. HeldHandles'
  <2> SUFFICES ASSUME NEW p \in Held'
               PROVE  /\ issued'[p].index \in Slots
                      /\ issued'[p].gen % 2 = 1
                      /\ issued'[p].gen <= 2 * births'[issued'[p].index] - 1
                      /\ data'[issued'[p].index] \notin {0, p} =>
                           issued'[p].gen < 2 * births'[issued'[p].index] - 1
    BY <1>2 DEF HeldHandles
  <2>1. CASE p = o
    <3>1. issued'[p].index = s /\ issued'[p].gen = 2 * births[s] + 1
      BY <1>1, <1>5, <2>1
    <3>2. data'[s] = p /\ births'[s] = births[s] + 1
      BY <1>3, <1>4, <2>1
    <3>3. QED BY <1>1, <3>1, <3>2
  <2>2. CASE p \in Held
    <3>1. PICK h : h = issued[p] /\ h = issued'[p]
      BY <1>5, <2>2
    <3>2. /\ h.index \in Slots /\ h.gen % 2 = 1
          /\ h.gen <= 2 * births[h.index] - 1
          /\ data[h.index] \notin {0, p} => h.gen < 2 * births[h.index] - 1
      BY <2>2, <3>1 DEF HeldHandles
    <3>3. h.gen \in Nat
      <4>1. p \in 1..Len(issued)
        BY <2>2, LenProperties DEF TypeOK, Held
      <4>2. h \in Handle
        BY <3>1, <4>1, ElementOfSeq DEF TypeOK
      <4>3. QED BY <4>2 DEF Handle
    <3>4. CASE h.index = s
      <4>1. h.gen < 2 * (births[s] + 1) - 1
        <5>1. h.gen <= 2 * births[s] - 1
          BY <3>2, <3>4
        <5>2. QED BY ONLY <1>1, <3>3, <5>1
      <4>2. h.gen < 2 * births'[h.index] - 1
        BY <1>4, <3>4, <4>1
      <4>3. h.gen <= 2 * births'[h.index] - 1
        BY <1>1, <1>4, <3>3, <3>4, <4>1
      <4>4. QED BY <3>1, <3>2, <4>2, <4>3
    <3>5. CASE h.index # s
      BY <1>3, <1>4, <3>1, <3>2, <3>5
    <3>6. QED BY <3>4, <3>5
  <2>3. QED BY <1>5, <2>1, <2>2
<1>13. LiveBound'
  <2>1. Occupied' = Occupied \cup {s}
    BY <1>1, <1>2, <1>3, <1>7 DEF Occupied
  <2>2. Cardinality(Occupied') <= Cardinality(Occupied) + 1 /\ Cardinality(Occupied) \in Nat
    BY <2>1, OccupiedFinite
  <2>3. Cardinality(Occupied') <= live + 1
    <3>1. Cardinality(Occupied') \in Int
      <4>1. IsFiniteSet(Occupied')
        BY <2>1, OccupiedFinite, FS_AddElement
      <4>2. QED BY <4>1, FS_CardinalityType
    <3>2. Cardinality(Occupied) <= live /\ live \in Nat
      BY Sizes DEF LiveBound
    <3>3. QED BY ONLY <2>2, <3>1, <3>2
  <2>4. QED BY <1>6, <2>3 DEF LiveBound
<1>14. FreeListExact'
  <2> SUFFICES ASSUME ~torn'
               PROVE  FreeListExact'
    BY DEF FreeListExact
  <2>a. ~torn /\ head' = link[s] /\ data[s] = 0 /\ live < Len(gen)
    <3>1. s # 0
      BY <1>1, Sizes
    <3>2. QED BY <1>6, <3>1, HeadIsFree
  <2>1. PICK k \in Nat : k = Len(gen) - live
    BY <2>a, Sizes
  <2>0. k > 0 /\ k - 1 = (Len(gen) - live)' /\ (live \in 0..Len(gen))'
    <3>1. live \in Nat /\ Len(gen) \in Nat /\ live < Len(gen)
      BY <2>a, Sizes
    <3>2. Len(gen') = Len(gen) /\ live' = live + 1
      BY <1>2, <1>6
    <3>3. QED BY ONLY <2>1, <3>1, <3>2
  <2>2. PICK f \in [1..k -> Slots] : FreeListIs(k, f)
    BY <2>a, <2>1, <2>0 DEF FreeListExact
  <2>3. s = f[k]
    BY <2>1, <2>0, <2>2 DEF FreeListIs
  <2> SUFFICES ASSUME NEW r, r = [i \in 1..k-1 |-> f[i]]
               PROVE  FreeListExact'
    OBVIOUS
  <2>4. r \in [1..k-1 -> Slots'] /\ \A i \in 1..k-1 : r[i] = f[i] /\ f[i] # s
    BY <1>2, <2>1, <2>0, <2>2, <2>3 DEF FreeListIs
  <2>5. \A t \in Slots : data'[t] = 0 <=> \E i \in 1..k-1 : r[i] = t
    <3>1. \A t \in Slots : data'[t] = 0 <=> data[t] = 0 /\ t # s
      BY <1>1, <1>3, <1>7, <2>a
    <3>2. \A t \in Slots : data[t] = 0 /\ t # s <=> \E i \in 1..k-1 : f[i] = t
      BY <2>1, <2>0, <2>2, <2>3, <2>4 DEF FreeListIs
    <3>3. QED BY <3>1, <3>2, <2>4
  <2>6. FreeListIs(k - 1, r)'
    <3>1. \A i, j \in 1..k-1 : r[i] = r[j] => i = j
      BY <2>1, <2>0, <2>2, <2>4 DEF FreeListIs
    <3>2. head' = IF k - 1 = 0 THEN 0 ELSE r[k-1]
      BY <2>a, <2>1, <2>0, <2>2, <2>3, <2>4 DEF FreeListIs
    <3>3. \A i \in 1..k-1 : link'[r[i]] = IF i = 1 THEN 0 ELSE r[i - 1]
      BY <1>6, <2>1, <2>0, <2>2, <2>4 DEF FreeListIs
    <3>4. QED BY <1>2, <2>5, <3>1, <3>2, <3>3 DEF FreeListIs
  <2>7. QED BY <2>1, <2>0, <2>4, <2>6 DEF FreeListExact
<1>15. QED BY <1>8, <1>9, <1>10, <1>11, <1>12, <1>13, <1>14

\* alloc() that appends a slot.
LEMMA AllocGrowStep ==
  ASSUME IInv, AllocGrow
  PROVE  IInv'
<1> SUFFICES ASSUME NEW n, n = Len(gen),
                    NEW o, o = Len(issued) + 1
             PROVE  IInv'
  OBVIOUS
<1> USE DEF IInv, HandleInv
<1>1. NextOdd(0) = 1 /\ 1 \in Gens /\ n \in Nat /\ o \in Nat /\ o # 0
  BY NextOddValue, LenProperties DEF Gens, TypeOK
<1>2. /\ gen' \in Seq(Gens) /\ Len(gen') = n + 1 /\ gen'[n+1] = 1
      /\ \A t \in 1..n : gen'[t] = gen[t]
  BY <1>1, PushBack DEF TypeOK, AllocGrow
<1>3. Slots = 1..n /\ Slots' = 1..n+1
  BY <1>2 DEF Slots
<1>4. /\ data' \in Seq(0..o) /\ Len(data') = n + 1 /\ data'[n+1] = o
      /\ \A t \in 1..n : data'[t] = data[t]
  <2>1. data \in Seq(0..Len(issued)) /\ Len(data) = n /\ Len(issued) \in Nat
    BY Sizes DEF TypeOK
  <2>2. data \in Seq(0..o) /\ o \in 0..o /\ data' = Append(data, o)
    BY <2>1, SeqMonotonic DEF AllocGrow
  <2>3. QED BY ONLY <2>1, <2>2, PushBack
<1>5. /\ births' \in Seq(Nat) /\ Len(births') = n + 1 /\ births'[n+1] = 1
      /\ \A t \in 1..n : births'[t] = births[t]
  BY <1>1, PushBack DEF TypeOK, AllocGrow
<1>6. /\ issued' \in Seq(Handle) /\ Len(issued') = o
      /\ Held' = Held \cup {o} /\ o \notin Held
      /\ \A p \in Held : issued'[p] = issued[p]
      /\ issued'[o] = [index |-> n + 1, gen |-> 1]
  BY <1>1, IssueStep DEF AllocGrow
<1>7. /\ live' = live + 1 /\ head = 0 /\ head' = 0 /\ 0 < MaxBirths
      /\ UNCHANGED <<dropped, clears, torn>> /\ n < MaxSlots
      /\ link' = [w \in 0 .. n + 1 |-> IF w < n THEN link[w] ELSE 0]
  BY DEF AllocGrow, Issue
<1>8. TypeOK'
  <2>1. /\ link' \in [0..Len(gen') -> Word] /\ head' \in Word
        /\ Len(gen') <= MaxSlots /\ torn' \in BOOLEAN
    BY <1>1, <1>2, <1>7 DEF TypeOK, Word
  <2>2. live' \in Nat /\ dropped' \in 0..Len(issued') /\ clears' \in Nat
    BY <1>1, <1>2, <1>6, <1>7, LenProperties DEF TypeOK
  <2>3. data' \in Seq(0..Len(issued')) /\ Len(data') = Len(gen')
        /\ births' \in Seq(Nat) /\ Len(births') = Len(gen')
    BY <1>2, <1>4, <1>5, <1>6
  <2>4. QED BY <1>2, <1>6, <2>1, <2>2, <2>3 DEF TypeOK
<1>9. GenerationCounts'
  <2>1. births'[n+1] >= 1 /\ gen'[n+1] = 2 * births'[n+1] - 1 /\ data'[n+1] # 0
    BY <1>1, <1>2, <1>4, <1>5
  <2>2. \A t \in 1..n : births'[t] = births[t] /\ gen'[t] = gen[t]
                                            /\ data'[t] = data[t]
    BY <1>2, <1>4, <1>5
  <2>3. \A t \in 1..n :
          /\ births'[t] >= 1
          /\ gen'[t] = IF data'[t] = 0 THEN Truncate(2 * births'[t])
                                      ELSE 2 * births'[t] - 1
    BY <1>3, <2>2 DEF GenerationCounts
  <2>4. \A t \in 1..n+1 : t \in 1..n \/ t = n + 1
    BY <1>1
  <2>5. \A t \in 1..n+1 :
          /\ births'[t] >= 1
          /\ gen'[t] = IF data'[t] = 0 THEN Truncate(2 * births'[t])
                                      ELSE 2 * births'[t] - 1
    BY <2>1, <2>3, <2>4
  <2>6. QED BY ONLY <1>3, <2>5 DEF GenerationCounts, Truncate
<1>10. BirthsBounded'
  <2>1. \A t \in 1..n : births'[t] <= MaxBirths
    BY <1>3, <1>5 DEF BirthsBounded
  <2>2. births'[n+1] <= MaxBirths
    BY <1>5, <1>7
  <2>3. \A t \in 1..n+1 : t \in 1..n \/ t = n + 1
    BY <1>1
  <2>4. QED BY <1>3, <2>1, <2>2, <2>3 DEF BirthsBounded
<1>11. StoredHandles'
  <2> SUFFICES ASSUME NEW t \in 1..n+1, data'[t] # 0
               PROVE  /\ data'[t] \in Held'
                      /\ issued'[data'[t]] = [index |-> t, gen |-> gen'[t]]
    BY <1>3 DEF StoredHandles
  <2>1. CASE t = n + 1
    BY <1>2, <1>4, <1>6, <2>1
  <2>2. CASE t \in 1..n
    BY <1>2, <1>3, <1>4, <1>6, <2>2 DEF StoredHandles
  <2>3. QED BY <1>1, <2>1, <2>2
<1>12. HeldHandles'
  <2> SUFFICES ASSUME NEW p \in Held'
               PROVE  /\ issued'[p].index \in 1..n+1
                      /\ issued'[p].gen % 2 = 1
                      /\ issued'[p].gen <= 2 * births'[issued'[p].index] - 1
                      /\ data'[issued'[p].index] \notin {0, p} =>
                           issued'[p].gen < 2 * births'[issued'[p].index] - 1
    BY <1>3 DEF HeldHandles
  <2>1. CASE p = o
    BY <1>1, <1>4, <1>5, <1>6, <2>1
  <2>2. CASE p \in Held
    <3>1. PICK h : h = issued[p] /\ h = issued'[p]
      BY <1>6, <2>2
    <3>2. /\ h.index \in 1..n /\ h.gen % 2 = 1
          /\ h.gen <= 2 * births[h.index] - 1
          /\ data[h.index] \notin {0, p} => h.gen < 2 * births[h.index] - 1
      BY <1>3, <2>2, <3>1 DEF HeldHandles
    <3>3. h.index \in 1..n+1
      BY <1>1, <3>2
    <3>4. QED BY <1>4, <1>5, <3>1, <3>2, <3>3
  <2>3. QED BY <1>6, <2>1, <2>2
<1>13. LiveBound'
  <2>1. Occupied' = Occupied \cup {n + 1}
    BY <1>1, <1>3, <1>4 DEF Occupied
  <2>2. Cardinality(Occupied') <= live + 1
    <3>1. Cardinality(Occupied') <= Cardinality(Occupied) + 1 /\ Cardinality(Occupied) \in Nat
      BY <2>1, OccupiedFinite
    <3>2. Cardinality(Occupied') \in Int
      <4>1. IsFiniteSet(Occupied')
        BY <2>1, OccupiedFinite, FS_AddElement
      <4>2. QED BY <4>1, FS_CardinalityType
    <3>3. Cardinality(Occupied) <= live /\ live \in Nat
      BY Sizes DEF LiveBound
    <3>4. QED BY ONLY <3>1, <3>2, <3>3
  <2>3. QED BY <1>7, <2>2 DEF LiveBound
<1>14. FreeListExact'
  <2> SUFFICES ASSUME ~torn
               PROVE  FreeListExact'
    BY <1>7 DEF FreeListExact
  <2>0. live \in 0..Len(gen)
    BY DEF FreeListExact
  <2>1. PICK k \in Nat : k = Len(gen) - live
    <3>1. Len(gen) - live \in Nat
      BY <2>0, Sizes
    <3>2. QED BY ONLY <3>1
  <2>2. PICK f \in [1..k -> Slots] : FreeListIs(k, f)
    BY <2>1 DEF FreeListExact
  <2>3. k = 0
    <3>1. CASE k # 0
      <4>1. head = f[k] /\ k \in 1..k
        BY <2>2, <3>1 DEF FreeListIs
      <4>2. head \in 1..n
        BY <1>3, <4>1
      <4>3. QED BY <1>1, <1>7, <4>2
    <3>2. QED BY <3>1
  <2>4. (Len(gen) - live)' = 0 /\ (live \in 0..Len(gen))'
    <3>1. live = Len(gen) /\ Len(gen) \in Nat
      BY <2>0, <2>1, <2>3, Sizes
    <3>2. Len(gen') = Len(gen) + 1 /\ live' = live + 1
      BY <1>2, <1>7
    <3>3. QED BY ONLY <3>1, <3>2
  <2>5. \A t \in 1..n+1 : data'[t] # 0
    BY <1>1, <1>3, <1>4, <2>2, <2>3 DEF FreeListIs
  <2>6. f \in [1..0 -> Slots']
    BY <2>3
  <2>7. FreeListIs(0, f)'
    BY <1>3, <1>7, <2>5 DEF FreeListIs
  <2>8. QED BY <2>4, <2>6, <2>7 DEF FreeListExact
<1>15. QED BY <1>8, <1>9, <1>10, <1>11, <1>12, <1>13, <1>14

\* clear() returns to a pool with no slot.
LEMMA ClearStep ==
  ASSUME IInv, Clear
  PROVE  IInv'
<1> USE DEF IInv, HandleInv
<1>1. /\ gen' = <<>> /\ data' = <<>> /\ births' = <<>> /\ link' = [w \in 0..0 |-> 0]
      /\ head' = 0 /\ live' = 0 /\ issued' = issued /\ dropped' = Len(issued)
      /\ clears' = clears + 1 /\ torn' = FALSE
  BY DEF Clear
<1>2. Slots' = {} /\ Held' = {} /\ Len(issued) \in Nat
  BY <1>1, LenProperties DEF Slots, Held, TypeOK
<1>3. TypeOK'
  BY <1>1, <1>2 DEF TypeOK, Word
<1>4. GenerationCounts' /\ BirthsBounded' /\ StoredHandles' /\ HeldHandles' /\ LiveBound'
  <2>1. Occupied' = {}
    BY <1>2 DEF Occupied
  <2>2. LiveBound'
    BY <1>1, <2>1, FS_EmptySet DEF LiveBound
  <2>3. QED BY <1>2, <2>2 DEF GenerationCounts, BirthsBounded, StoredHandles, HeldHandles
<1>5. FreeListExact'
  <2>1. (Len(gen) - live)' = 0 /\ (live \in 0..Len(gen))'
    BY <1>1
  <2>2. PICK f : f \in [1..0 -> {}]
    <3>1. [i \in 1..0 |-> i] \in [1..0 -> {}]
      OBVIOUS
    <3>2. QED BY <3>1
  <2>3. FreeListIs(0, f)'
    BY <1>1, <1>2 DEF FreeListIs
  <2>4. QED BY <1>2, <2>1, <2>2, <2>3 DEF FreeListExact
<1>6. QED BY <1>3, <1>4, <1>5

\* get() with a held handle: the invariant read off for one object.
LEMMA LookupFromInv ==
  ASSUME HandleInv, RecyclesBounded, NEW o \in Held
  PROVE  Alive(issued[o]) <=> data[issued[o].index] = o
<1> USE DEF HandleInv
<1>1. PICK h : h = issued[o]
  OBVIOUS
<1>2. /\ h.index \in Slots /\ h.gen % 2 = 1
      /\ h.gen <= 2 * births[h.index] - 1
      /\ data[h.index] \notin {0, o} => h.gen < 2 * births[h.index] - 1
  BY <1>1 DEF HeldHandles
<1>3. o # 0
  BY LenProperties DEF Held, TypeOK
<1>4. ASSUME data[h.index] = o
      PROVE  Alive(h)
  <2>1. h.gen = gen[h.index]
    <3>1. issued[data[h.index]] = [index |-> h.index, gen |-> gen[h.index]]
      BY <1>2, <1>3, <1>4 DEF StoredHandles
    <3>2. h = [index |-> h.index, gen |-> gen[h.index]]
      BY <1>1, <1>4, <3>1
    <3>3. QED BY <3>2
  <2>2. h.gen # 0
    BY <1>2
  <2>3. QED BY <1>2, <2>1, <2>2 DEF Alive
<1>5. ASSUME Alive(h)
      PROVE  data[h.index] = o
  <2>1. gen[h.index] = h.gen
    BY <1>5 DEF Alive
  <2>2. data[h.index] # 0
    BY <1>2, <2>1, ParityIsLiveness
  <2>3. gen[h.index] = 2 * births[h.index] - 1 /\ births[h.index] \in Nat
    BY <1>2, <2>2, SlotTypes DEF GenerationCounts
  <2>4. ~(h.gen < 2 * births[h.index] - 1)
    BY <2>1, <2>3
  <2>5. QED BY <1>2, <2>2, <2>4
<1>6. QED BY <1>1, <1>4, <1>5

\* free() with a handle that passes its checks.
LEMMA ReleaseStep ==
  ASSUME IInv, RecyclesBounded, NEW o \in Held,
         Alive(issued[o]), Release(issued[o]),
         UNCHANGED <<issued, births, dropped, clears, torn>>
  PROVE  IInv'
<1> SUFFICES ASSUME NEW s, s = issued[o].index
             PROVE  IInv'
  OBVIOUS
<1> USE DEF IInv, HandleInv
<1>1. s \in Slots /\ data[s] = o /\ o # 0
  <2>1. s \in Slots
    BY DEF HeldHandles
  <2>2. data[s] = o
    BY LookupFromInv
  <2>3. o # 0
    BY Sizes DEF Held
  <2>4. QED BY <2>1, <2>2, <2>3
<1>2. /\ gen[s] = 2 * births[s] - 1 /\ gen[s] % 2 = 1 /\ gen[s] \in Gens
      /\ births[s] \in Nat
  <2>1. gen[s] = 2 * births[s] - 1
    BY <1>1 DEF GenerationCounts
  <2>2. gen[s] % 2 = 1
    BY <1>1, ParityIsLiveness
  <2>3. gen[s] \in Gens
    BY <1>1, ElementOfSeq DEF TypeOK, Slots
  <2>4. births[s] \in Nat
    BY <1>1, ElementOfSeq DEF TypeOK, Slots
  <2>5. QED BY <2>1, <2>2, <2>3, <2>4
<1>3. live > 0
  <2>1. s \in Occupied
    BY <1>1 DEF Occupied
  <2>2. Cardinality(Occupied) # 0
    BY <2>1, OccupiedFinite, FS_EmptySet
  <2>3. QED BY <2>2, OccupiedFinite, Sizes DEF LiveBound
<1>4. /\ gen' \in Seq(Gens) /\ Len(gen') = Len(gen)
      /\ gen'[s] = Truncate(2 * births[s])
      /\ \A t \in Slots : t # s => gen'[t] = gen[t]
      /\ Slots' = Slots /\ Len(gen) \in Nat
  <2>1. gen' = [gen EXCEPT ![s] = NextEven(gen[s])]
    BY DEF Release
  <2>2. NextEven(gen[s]) = Truncate(2 * births[s]) /\ NextEven(gen[s]) \in Gens
    <3>1. gen[s] + 1 = 2 * births[s]
      BY <1>2
    <3>2. QED BY <1>2, <3>1, NextEvenValue
  <2>3. gen \in Seq(Gens) /\ s \in 1..Len(gen)
    BY <1>1 DEF TypeOK, Slots
  <2>4. QED BY <2>1, <2>2, <2>3, Overwrite, LenProperties DEF Slots
<1>5. /\ data' \in Seq(0..Len(issued)) /\ Len(data') = Len(gen) /\ data'[s] = 0
      /\ \A t \in Slots : t # s => data'[t] = data[t]
  <2>1. data' = [data EXCEPT ![s] = 0] /\ 0 \in 0..Len(issued)
    BY LenProperties DEF Release, TypeOK
  <2>2. QED BY <1>1, <2>1, Overwrite DEF TypeOK, Slots
<1>6. /\ link' = [link EXCEPT ![s] = head] /\ head' = s /\ live' = live - 1
      /\ UNCHANGED <<issued, births, dropped, clears, torn>> /\ Held' = Held
  BY DEF Release, StoreLink, Held
<1>7. TypeOK'
  <2>1. link' \in [0..Len(gen') -> Word] /\ head' \in Word /\ Len(gen') <= MaxSlots
    <3>1. link \in [0..Len(gen) -> Word] /\ head \in Word /\ Len(gen) <= MaxSlots
      BY DEF TypeOK
    <3>2. s \in 0..Len(gen) /\ s \in Word
      BY <1>1, <3>1, Sizes DEF Word
    <3>3. QED BY ONLY <1>4, <1>6, <3>1, <3>2
  <2>2. live' \in Nat
    BY <1>3, <1>6, Sizes
  <2>3. /\ data' \in Seq(0..Len(issued')) /\ Len(data') = Len(gen')
        /\ Len(births') = Len(gen')
    BY <1>4, <1>5, <1>6, Sizes
  <2>4. /\ issued' \in Seq(Handle) /\ births' \in Seq(Nat)
        /\ dropped' \in 0..Len(issued') /\ clears' \in Nat /\ torn' \in BOOLEAN
    BY <1>6 DEF TypeOK
  <2>5. QED BY <1>4, <2>1, <2>2, <2>3, <2>4, Zenon DEF TypeOK
<1>8. GenerationCounts'
  <2>1. births'[s] >= 1 /\ gen'[s] = Truncate(2 * births'[s]) /\ data'[s] = 0
    BY <1>1, <1>4, <1>5, <1>6 DEF GenerationCounts
  <2>2. \A t \in Slots : t # s => births'[t] = births[t] /\ gen'[t] = gen[t]
                                                      /\ data'[t] = data[t]
    BY <1>4, <1>5, <1>6
  <2>3. QED BY <1>4, <2>1, <2>2 DEF GenerationCounts, Truncate
<1>9. BirthsBounded'
  BY <1>4, <1>6 DEF BirthsBounded
<1>10. StoredHandles'
  BY <1>4, <1>5, <1>6 DEF StoredHandles
<1>11. HeldHandles'
  <2> SUFFICES ASSUME NEW p \in Held, NEW h, h = issued[p]
               PROVE  /\ h.index \in Slots
                      /\ h.gen % 2 = 1
                      /\ h.gen <= 2 * births[h.index] - 1
                      /\ data'[h.index] \notin {0, p} =>
                           h.gen < 2 * births[h.index] - 1
    BY <1>4, <1>6 DEF HeldHandles
  <2>1. QED BY <1>5 DEF HeldHandles
<1>12. LiveBound'
  <2>1. Occupied' = Occupied \ {s} /\ s \in Occupied
    BY <1>1, <1>4, <1>5 DEF Occupied
  <2>2. QED BY <1>6, <2>1, OccupiedFinite, Sizes DEF LiveBound
<1>13. FreeListExact'
  <2> SUFFICES ASSUME ~torn
               PROVE  FreeListExact'
    BY <1>6 DEF FreeListExact
  <2>0. live \in 0..Len(gen)
    BY DEF FreeListExact
  <2>1. PICK k \in Nat : k = Len(gen) - live
    BY <1>4, <2>0
  <2>2. k + 1 = (Len(gen) - live)' /\ (live \in 0..Len(gen))'
    BY <1>3, <1>4, <1>6, <2>0, <2>1, Sizes
  <2>3. PICK f \in [1..k -> Slots] : FreeListIs(k, f)
    BY <2>1 DEF FreeListExact
  <2> SUFFICES ASSUME NEW r, r = [i \in 1..k+1 |-> IF i <= k THEN f[i] ELSE s]
               PROVE  FreeListExact'
    OBVIOUS
  <2>4. /\ r \in [1..k+1 -> Slots'] /\ r[k+1] = s
        /\ \A i \in 1..k : r[i] = f[i] /\ f[i] # s
    <3>1. \A i \in 1..k : f[i] # s
      BY <1>1, <2>3 DEF FreeListIs
    <3>2. r \in [1..k+1 -> Slots] /\ r[k+1] = s /\ \A i \in 1..k : r[i] = f[i]
      BY ONLY <1>1, <2>1, <2>3, r = [i \in 1..k+1 |-> IF i <= k THEN f[i] ELSE s]
    <3>3. QED BY <1>4, <3>1, <3>2
  <2>5. \A i, j \in 1..k+1 : r[i] = r[j] => i = j
    <3> SUFFICES ASSUME NEW i \in 1..k+1, NEW j \in 1..k+1, r[i] = r[j]
                 PROVE  i = j
      OBVIOUS
    <3>1. i \in 1..k \/ i = k + 1
      BY <2>1
    <3>2. j \in 1..k \/ j = k + 1
      BY <2>1
    <3>3. CASE i \in 1..k /\ j \in 1..k
      BY <2>3, <2>4, <3>3 DEF FreeListIs
    <3>4. QED BY <2>4, <3>1, <3>2, <3>3
  <2>6. \A t \in Slots : data'[t] = 0 <=> \E i \in 1..k+1 : r[i] = t
    <3> SUFFICES ASSUME NEW t \in Slots
                 PROVE  data'[t] = 0 <=> \E i \in 1..k+1 : r[i] = t
      OBVIOUS
    <3>1. CASE t = s
      BY <1>5, <2>1, <2>4, <3>1
    <3>2. CASE t # s
      <4>1. data'[t] = 0 <=> \E i \in 1..k : f[i] = t
        <5>1. data'[t] = data[t]
          BY <1>5, <3>2
        <5>2. data[t] = 0 <=> \E i \in 1..k : f[i] = t
          BY <2>3 DEF FreeListIs
        <5>3. QED BY <5>1, <5>2
      <4>2. (\E i \in 1..k : f[i] = t) <=> \E i \in 1..k+1 : r[i] = t
        <5>1. 1..k+1 = 1..k \cup {k + 1}
          BY ONLY k \in Nat
        <5>2. QED BY ONLY <2>4, <3>2, <5>1
      <4>3. QED BY <4>1, <4>2
    <3>3. QED BY <3>1, <3>2
  <2>7. head' = IF k + 1 = 0 THEN 0 ELSE r[k+1]
    BY <1>6, <2>1, <2>4
  <2>8. \A i \in 1..k+1 : link'[r[i]] = IF i = 1 THEN 0 ELSE r[i - 1]
    <3>1. link'[s] = head /\ \A t \in Slots : t # s => link'[t] = link[t]
      BY <1>1, <1>6 DEF TypeOK, Slots
    <3>2. ASSUME NEW i \in 1..k
          PROVE  link'[r[i]] = IF i = 1 THEN 0 ELSE r[i - 1]
      <4>1. link'[r[i]] = link[f[i]]
        BY <2>4, <3>1
      <4>2. link[f[i]] = IF i = 1 THEN 0 ELSE f[i - 1]
        BY <2>3 DEF FreeListIs
      <4>3. i # 1 => i - 1 \in 1..k
        BY <2>1
      <4>4. QED BY <2>4, <4>1, <4>2, <4>3
    <3>3. link'[r[k+1]] = IF k + 1 = 1 THEN 0 ELSE r[k]
      BY <2>1, <2>3, <2>4, <3>1 DEF FreeListIs
    <3> SUFFICES ASSUME NEW i \in 1..k+1
                 PROVE  link'[r[i]] = IF i = 1 THEN 0 ELSE r[i - 1]
      OBVIOUS
    <3>4. CASE i \in 1..k
      BY <3>2, <3>4
    <3>5. CASE i = k + 1
      <4>1. i - 1 = k /\ r[i - 1] = r[k] /\ r[i] = r[k + 1]
        BY <2>1, <3>5
      <4>2. QED BY <3>3, <3>5, <4>1
    <3>6. QED BY <2>1, <3>4, <3>5
  <2>9. FreeListIs(k + 1, r)'
    BY <1>4, <2>5, <2>6, <2>7, <2>8 DEF FreeListIs
  <2>10. QED BY <2>2, <2>4, <2>9 DEF FreeListExact
<1>14. QED BY <1>7, <1>8, <1>9, <1>10, <1>11, <1>12, <1>13

------------------------------------------------------------------------------
(* The invariant of the specification *)

\* Only the last result changed.
LEMMA FrameStep ==
  ASSUME IInv,
         UNCHANGED <<gen, data, link, head, live, issued, births, dropped, clears, torn>>
  PROVE  IInv'
<1> USE DEF IInv, HandleInv
<1>1. Slots' = Slots /\ Held' = Held
  BY DEF Slots, Held
<1>2. TypeOK'
  BY <1>1 DEF TypeOK
<1>3. GenerationCounts' /\ BirthsBounded'
  BY <1>1 DEF GenerationCounts, BirthsBounded
<1>4. StoredHandles' /\ HeldHandles' /\ LiveBound'
  <2>1. Occupied' = Occupied
    BY <1>1 DEF Occupied
  <2>2. QED BY <1>1, <2>1 DEF StoredHandles, HeldHandles, LiveBound
<1>5. FreeListExact'
  <2> SUFFICES ASSUME ~torn
               PROVE  FreeListExact'
    BY DEF FreeListExact
  <2>1. PICK k : k = Len(gen) - live /\ k = (Len(gen) - live)'
    OBVIOUS
  <2>2. PICK f \in [1..k -> Slots] : FreeListIs(k, f)
    BY <2>1 DEF FreeListExact
  <2>3. FreeListIs(k, f)'
    BY <1>1, <2>2 DEF FreeListIs
  <2>4. QED BY <1>1, <2>1, <2>3 DEF FreeListExact
<1>6. QED BY <1>2, <1>3, <1>4, <1>5

\* No step of the pool, taken by a client that uses only handles it was given
\* or ones nobody was given, breaks the invariant.
LEMMA NextIInv ==
  ASSUME IInv, RecyclesBounded, [Next]_vars
  PROVE  IInv'
<1> USE DEF IInv, HandleInv
<1>1. CASE AllocReuse
  BY <1>1, AllocReuseStep
<1>2. CASE AllocGrow
  BY <1>2, AllocGrowStep
<1>3. CASE Free
  <2>1. PICK o \in Held : FreeHandle(issued[o], o)
    BY <1>3 DEF Free
  <2>2. CASE UNCHANGED pool
    BY <2>1, <2>2, FrameStep DEF FreeHandle, pool
  <2>3. CASE Alive(issued[o]) /\ Release(issued[o])
    BY <2>1, <2>3, ReleaseStep DEF FreeHandle
  <2>4. QED BY <2>1, <2>2, <2>3 DEF FreeHandle
<1>4. CASE FreeForged
  <2>1. PICK h \in Forged : FreeHandle(h, 0)
    BY <1>4 DEF FreeForged
  <2>2. ~Alive(h)
    BY <2>1, LenProperties DEF Forged, Alive, Slots, TypeOK
  <2>3. QED
    BY <2>1, <2>2, FrameStep DEF FreeHandle, pool
<1>5. CASE Clear
  BY <1>5, ClearStep
<1>6. CASE UNCHANGED vars
  BY <1>6, FrameStep DEF vars
<1>7. QED BY <1>1, <1>2, <1>3, <1>4, <1>5, <1>6 DEF Next

\* The invariant holds throughout.
LEMMA Invariance ==
  ASSUME RecyclesBounded
  PROVE  Spec => []IInv
<1>1. Init => IInv
  BY InitIInv
<1>2. IInv /\ [Next]_vars => IInv'
  BY NextIInv
<1>3. QED BY <1>1, <1>2, PTL DEF Spec

\* The slots, the free list and the counts of pool.hpp keep their types: for any
\* number of slots, any width of the generation and any sequence of alloc(),
\* free() and clear() that recycles no slot past that width.
THEOREM PoolTypes ==
  ASSUME RecyclesBounded
  PROVE  Spec => []TypeOK
<1>1. IInv => TypeOK
  BY DEF IInv, HandleInv
<1>2. QED BY <1>1, Invariance, PTL

\* pool.hpp's state convention: a slot's generation counts its allocations and
\* frees, truncated to its width, and is odd exactly while an object is stored.
THEOREM GenerationsCount ==
  ASSUME RecyclesBounded
  PROVE  Spec => []GenerationCounts
<1>1. IInv => GenerationCounts
  BY DEF IInv, HandleInv
<1>2. QED BY <1>1, Invariance, PTL

\* free_head_ and next_free_: the free list visits every free slot once and ends,
\* and live_count_ is what it leaves over.
THEOREM FreeListIsExact ==
  ASSUME RecyclesBounded
  PROVE  Spec => []FreeListExact
<1>1. IInv => FreeListExact
  BY DEF IInv
<1>2. QED BY <1>1, Invariance, PTL

\* Pool::get() and Pool::alive(): a held handle never reaches an object other
\* than the one it was returned for.
THEOREM LookupIsExact ==
  ASSUME RecyclesBounded
  PROVE  Spec => []LookupExact
<1>1. IInv => LookupExact
  BY LookupFromInv DEF IInv, LookupExact
<1>2. QED BY <1>1, Invariance, PTL

------------------------------------------------------------------------------
(* Pool implements HandleStore *)

Reachable == {o \in Held : Alive(issued[o])}

\* Under the invariant, what the pool's test lets through is what is stored.
LEMMA ReachableIsStored ==
  ASSUME HandleInv, RecyclesBounded
  PROVE  Reachable = {o \in Held : data[issued[o].index] = o}
BY LookupFromInv DEF Reachable

\* alloc() adds one object and leaves every other as it was, but for the one
\* whose slot a link read back wrong made it take.
LEMMA AllocRefines ==
  ASSUME IInv, RecyclesBounded, LookupExact', AllocReuse \/ AllocGrow
  PROVE  Store!Alloc \/ \E p \in 1..Len(issued) : Store!AllocOver(p)
<1> USE DEF IInv, HandleInv
<1>1. PICK o : o = Len(issued) + 1
  OBVIOUS
<1>2. PICK s \in Nat, g \in Nat :
        /\ Issue(s, g)
        /\ data'[s] = o
        /\ \A t \in Slots : t # s => data'[t] = data[t]
        /\ s \in Slots => data[s] = 0 \/ (torn /\ torn' = torn)
        /\ torn' \in {torn, TRUE}
  <2>1. CASE AllocReuse
    <3>1. head \in Slots /\ head \in Nat /\ births[head] < MaxBirths
      BY <2>1, Sizes DEF AllocReuse
    <3>2. data' = [data EXCEPT ![head] = o] /\ Issue(head, NextOdd(gen[head]))
      BY <1>1, <2>1 DEF AllocReuse
    <3>3. NextOdd(gen[head]) \in Nat
      BY <3>1, NextBirth DEF Gens
    <3>4. data \in Seq(0..Len(issued)) /\ Slots = DOMAIN data
      BY LenProperties DEF TypeOK, Slots
    <3>5. data[head] = 0 \/ torn
      BY <3>1, HeadIsFree, Sizes
    <3>6. torn' \in {torn, TRUE} /\ (torn => torn' = torn)
      BY <2>1 DEF AllocReuse, LoadLink, TypeOK
    <3>7. QED BY <3>1, <3>2, <3>3, <3>4, <3>5, <3>6
  <2>2. CASE AllocGrow
    <3>1. data' = Append(data, o) /\ Issue(Len(gen) + 1, NextOdd(0)) /\ torn' = torn
      BY <1>1, <2>2 DEF AllocGrow
    <3>2. NextOdd(0) = 1 /\ Len(gen) + 1 \in Nat /\ Len(gen) + 1 \notin Slots
      BY NextOddValue, Sizes DEF Gens
    <3>3. data \in Seq(0..o) /\ o \in 0..o /\ Len(data) = Len(gen)
      BY <1>1, SeqMonotonic, LenProperties DEF TypeOK
    <3>4. data'[Len(gen) + 1] = o /\ \A t \in Slots : data'[t] = data[t]
      BY <3>1, <3>3, PushBack DEF Slots
    <3>5. QED BY <3>1, <3>2, <3>4
  <2>3. QED BY <2>1, <2>2
<1>3. /\ Held' = Held \cup {o} /\ o \notin Held /\ Len(issued') = o
      /\ \A p \in Held : issued'[p] = issued[p]
      /\ issued'[o] = [index |-> s, gen |-> g]
      /\ \A p \in Held : p # 0 /\ p # o /\ issued[p].index \in Slots
  <2>1. \A p \in Held : p # 0 /\ issued[p].index \in Slots
    BY LenProperties DEF HeldHandles, Held, TypeOK
  <2>2. QED BY <1>1, <1>2, <2>1, IssueStep
<1>4. Reachable' = {p \in Held' : data'[issued'[p].index] = p}
  <2>1. \A p \in Held' : (Alive(issued[p]))' <=> data'[issued'[p].index] = p
    BY DEF LookupExact
  <2>2. QED BY <2>1 DEF Reachable
<1>5. Reachable' = {p \in Reachable : issued[p].index # s} \cup {o}
  <2>1. \A p \in Held : data'[issued[p].index] = p
                       <=> data[issued[p].index] = p /\ issued[p].index # s
    BY <1>2, <1>3
  <2>2. QED BY <1>2, <1>3, <1>4, <2>1, ReachableIsStored
<1>6. /\ Len(issued)' = Len(issued) + 1
      /\ last' = [op |-> "alloc", obj |-> o, status |-> "Ok"]
  BY <1>1, <1>2, <1>3 DEF Issue, Did
<1>7. CASE \E p \in Reachable : issued[p].index = s
  <2>1. PICK p \in Reachable : issued[p].index = s
    BY <1>7
  <2>2. p \in Held /\ data[s] = p /\ s \in Slots /\ data[s] # 0
    BY <1>3, <2>1, ReachableIsStored
  <2>3. \A q \in Reachable : issued[q].index = s <=> q = p
    BY <2>1, <2>2, ReachableIsStored
  <2>4. Reachable' = (Reachable \ {p}) \cup {o}
    BY <1>5, <2>3
  <2>5. p \in 1..Len(issued)
    BY <2>2, Sizes DEF Held
  <2>6. torn /\ torn' = torn
    BY <1>2, <2>2
  <2>7. Store!AllocOver(p)
    BY <1>1, <1>6, <2>1, <2>4, <2>6 DEF Store!AllocOver, Store!Did, Reachable
  <2>8. QED BY <2>5, <2>7
<1>8. CASE ~\E p \in Reachable : issued[p].index = s
  <2>1. Reachable' = Reachable \cup {o}
    BY <1>5, <1>8
  <2>2. QED BY <1>1, <1>2, <1>6, <2>1 DEF Store!Alloc, Store!Did, Reachable
<1>9. QED BY <1>7, <1>8

\* A free() that succeeds removes the object named, and no other.
LEMMA ReleaseRefines ==
  ASSUME IInv, RecyclesBounded, LookupExact', NEW o \in Held, Alive(issued[o]),
         Release(issued[o]), Did("free", o, "Ok"), UNCHANGED <<issued, dropped, torn>>
  PROVE  Store!Free(o)
<1> USE DEF IInv, HandleInv
<1>1. PICK s \in Slots : s = issued[o].index /\ data[s] = o /\ o # 0
  <2>1. issued[o].index \in Slots
    BY DEF HeldHandles
  <2>2. data[issued[o].index] = o
    BY LookupFromInv
  <2>3. o # 0
    BY Sizes DEF Held
  <2>4. QED BY <2>1, <2>2, <2>3
<1>2. data' = [data EXCEPT ![s] = 0] /\ DOMAIN data = Slots
  BY <1>1, LenProperties DEF Release, TypeOK, Slots
<1>3. Held' = Held /\ Reachable' = {p \in Held : data'[issued[p].index] = p}
  BY DEF Held, Reachable, LookupExact
<1>4. \A p \in Held : data'[issued[p].index] = p <=> data[issued[p].index] = p /\ p # o
  <2> SUFFICES ASSUME NEW p \in Held, NEW t, t = issued[p].index
               PROVE  data'[t] = p <=> data[t] = p /\ p # o
    OBVIOUS
  <2>1. t \in Slots /\ p # 0
    BY Sizes DEF HeldHandles, Held
  <2>2. CASE t = s
    BY <1>1, <1>2, <2>1, <2>2
  <2>3. CASE t # s
    BY <1>1, <1>2, <2>1, <2>3
  <2>4. QED BY <2>2, <2>3
<1>5. Reachable' = Reachable \ {o} /\ o \in Reachable
  BY <1>1, <1>3, <1>4, ReachableIsStored
<1>6. QED BY <1>5 DEF Store!Free, Store!Did, Did, Reachable

\* Every step maps to a step of the store or to a stutter.
LEMMA NextRefines ==
  ASSUME IInv, RecyclesBounded, LookupExact', [Next]_vars
  PROVE  [Store!Next]_(Store!vars)
<1> USE DEF IInv, HandleInv
<1>1. CASE AllocReuse \/ AllocGrow
  BY <1>1, AllocRefines DEF Store!Next
<1>2. CASE Free
  <2>1. PICK o \in Held : FreeHandle(issued[o], o)
    BY <1>2 DEF Free
  <2>2. o \in 1..Len(issued)
    BY <2>1, LenProperties DEF Held, TypeOK
  <2>3. issued[o].gen # 0
    BY <2>1 DEF HeldHandles
  <2>4. CASE Alive(issued[o]) /\ Release(issued[o]) /\ Did("free", o, "Ok")
    <3>1. Store!Free(o)
      BY <2>1, <2>4, ReleaseRefines DEF FreeHandle
    <3>2. QED BY <2>2, <3>1 DEF Store!Next
  <2>5. CASE ~Alive(issued[o]) /\ Did("free", o, "NotFound") /\ UNCHANGED pool
    <3>1. /\ Reachable' = Reachable /\ o \notin Reachable
          /\ issued' = issued /\ torn' = torn
      BY <2>1, <2>5 DEF FreeHandle, pool, Reachable, Held, Alive, Slots
    <3>2. Store!FreeStale(o)
      BY <2>2, <2>5, <3>1 DEF Store!FreeStale, Store!Did, Did, Reachable
    <3>3. QED BY <2>2, <3>2 DEF Store!Next
  <2>6. QED BY <2>1, <2>3, <2>4, <2>5 DEF FreeHandle
<1>3. CASE FreeForged
  <2>1. PICK h \in Forged : FreeHandle(h, 0)
    BY <1>3 DEF FreeForged
  <2>2. ~Alive(h)
    BY <2>1, LenProperties DEF Forged, Alive, Slots, TypeOK
  <2>3. /\ UNCHANGED <<pool, issued, dropped, torn>>
        /\ Did("free", 0, "InvalidArgument") \/ Did("free", 0, "NotFound")
    BY <2>1, <2>2 DEF FreeHandle
  <2>4. Reachable' = Reachable /\ issued' = issued
    BY <2>3 DEF pool, Reachable, Held, Alive, Slots
  <2>5. Store!FreeForged
    BY <2>3, <2>4 DEF Store!FreeForged, Store!Did, Did, Reachable
  <2>6. QED BY <2>5 DEF Store!Next
<1>4. CASE Clear
  <2>1. Reachable' = {}
    BY <1>4, LenProperties DEF Clear, Reachable, Held, TypeOK
  <2>2. Store!Clear
    BY <1>4, <2>1 DEF Clear, Store!Clear, Store!Did, Did, Reachable
  <2>3. QED BY <2>2 DEF Store!Next
<1>5. CASE UNCHANGED vars
  <2>1. Reachable' = Reachable
    BY <1>5 DEF vars, Reachable, Held, Alive, Slots
  <2>2. QED BY <1>5, <2>1 DEF vars, Store!vars, Reachable
<1>6. QED BY <1>1, <1>2, <1>3, <1>4, <1>5 DEF Next

\* Every alloc(), free() and clear() of pool.hpp is a step of the store of
\* numbered objects: free() returns Ok exactly once per object.
THEOREM PoolImplementsStore ==
  ASSUME RecyclesBounded
  PROVE  Spec => RefinesStore
<1>1. Init => Store!Init
  BY DEF Init, Store!Init, Held
<1>2. IInv /\ LookupExact' /\ [Next]_vars => [Store!Next]_(Store!vars)
  BY NextRefines
<1>3. QED BY <1>1, <1>2, Invariance, LookupIsExact, PTL DEF Spec, Store!Spec, RefinesStore
==============================================================================
