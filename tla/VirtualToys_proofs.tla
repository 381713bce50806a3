-------------------------- MODULE VirtualToys_proofs --------------------------
(***************************************************************************)
(* What VirtualToys' placing, removing and polling do, for zones of any    *)
(* size and any catalogue.  The theorems are about a state of the right    *)
(* type, which every state of Bridge is (Bridge_proofs, TypeCorrect).      *)
(***************************************************************************)
EXTENDS VirtualToys, FiniteSetTheorems, WellFoundedInduction, TLAPS

-----------------------------------------------------------------------------
(* Numbers.                                                                *)

LEMMA Divide ==
  ASSUME NEW a \in Nat, NEW k \in Nat, k > 0
  PROVE  a % k \in 0 .. k - 1 /\ \E q \in Nat : a = q * k + (a % k)
<1> DEFINE q == a \div k
           r == a % k
<1>1. q \in Int /\ r \in 0 .. k - 1
  OBVIOUS
<1>2. a = k * q + r
  OBVIOUS
<1> HIDE DEF q
<1>3. q \in Nat /\ a = q * k + r
  <2> HIDE DEF r
  <2>1. q >= 0
    BY <1>1, <1>2
  <2>2. QED  BY <1>1, <1>2, <2>1
<1>4. QED  BY <1>1, <1>3

LEMMA Remainder ==
  ASSUME NEW k \in Nat, k > 0, NEW q \in Nat, NEW r \in 0 .. k - 1
  PROVE  (q * k + r) % k = r
OBVIOUS

(* Counting on by less than k passes every remainder.                      *)
LEMMA Reaches ==
  ASSUME NEW k \in Nat, k > 0, NEW a \in Nat, NEW r \in 0 .. k - 1
  PROVE  \E i \in 0 .. k - 1 : (a + i) % k = r
<1> DEFINE m == a % k
<1>1. PICK q \in Nat : a = q * k + m
  BY Divide
<1>2. m \in 0 .. k - 1
  BY Divide
<1> HIDE DEF m
<1>3. CASE r >= m
  <2>1. (r - m) \in 0 .. k - 1 /\ a + (r - m) = q * k + r
    BY <1>1, <1>2, <1>3
  <2>2. QED  BY <2>1, Remainder
<1>4. CASE r < m
  <2>1. (r - m) + k \in 0 .. k - 1 /\ a + ((r - m) + k) = (q + 1) * k + r /\ q + 1 \in Nat
    BY <1>1, <1>2, <1>4
  <2>2. (a + ((r - m) + k)) % k = r
    BY <2>1, Remainder
  <2>3. QED  BY <2>1, <2>2
<1>5. QED  BY <1>2, <1>3, <1>4

(* ... and none of them twice.                                             *)
LEMMA ReachesOnce ==
  ASSUME NEW k \in Nat, k > 0, NEW a \in Nat, NEW i \in 0 .. k - 1, NEW j \in 0 .. k - 1,
         (a + i) % k = (a + j) % k
  PROVE  i = j
<1> DEFINE r == (a + i) % k
<1>1. PICK q \in Nat : a + i = q * k + r
  BY Divide
<1>2. PICK p \in Nat : a + j = p * k + r
  BY Divide
<1>3. r \in 0 .. k - 1
  BY Divide
<1> HIDE DEF r
<1>4. j - i = (p - q) * k
  BY <1>1, <1>2, <1>3
<1>5. p - q >= 1 => (p - q) * k >= k
  OBVIOUS
<1>6. p - q <= -1 => (p - q) * k <= -k
  OBVIOUS
<1>7. p - q = 0
  BY <1>4, <1>5, <1>6
<1>8. QED  BY <1>4, <1>7

(* The remainder after the next one.                                       *)
LEMMA NextRemainder ==
  ASSUME NEW k \in Nat, k > 0, NEW a \in Nat
  PROVE  (a + 1) % k = IF a % k = k - 1 THEN 0 ELSE (a % k) + 1
<1> DEFINE m == a % k
<1>1. PICK q \in Nat : a = q * k + m
  BY Divide
<1>2. m \in 0 .. k - 1
  BY Divide
<1> HIDE DEF m
<1>3. CASE m = k - 1
  <2>1. a + 1 = (q + 1) * k + 0 /\ q + 1 \in Nat /\ 0 \in 0 .. k - 1
    BY <1>1, <1>2, <1>3
  <2>2. (a + 1) % k = 0
    BY <2>1, Remainder
  <2>3. QED  BY <1>3, <2>2 DEF m
<1>4. CASE m # k - 1
  <2>1. a + 1 = q * k + (m + 1) /\ m + 1 \in 0 .. k - 1
    BY <1>1, <1>2, <1>4
  <2>2. (a + 1) % k = m + 1
    BY <2>1, Remainder
  <2>3. QED  BY <1>4, <2>2 DEF m
<1>5. QED  BY <1>3, <1>4

LEMMA Least ==
  ASSUME NEW S, S \subseteq Nat, S # {}
  PROVE  \E m \in S : \A k \in S : m <= k
<1>1. PICK m \in S : \A k \in S : ~ (<<k, m>> \in OpToRel(<, Nat))
  BY NatLessThanWellFounded, WFMin
<1>2. ASSUME NEW k \in S PROVE m <= k
  <2>1. ~ (k < m)
    BY <1>1 DEF OpToRel
  <2>2. QED  BY <2>1
<1>3. QED  BY <1>2

LEMMA Greatest ==
  ASSUME NEW c \in Nat, NEW S, S \subseteq 0 .. c - 1, S # {}
  PROVE  \E m \in S : \A k \in S : k <= m
<1> DEFINE R == {c - k : k \in S}
<1>1. R \subseteq Nat /\ R # {}
  OBVIOUS
<1>2. PICK j \in R : \A k \in R : j <= k
  BY <1>1, Least
<1>3. PICK m \in S : j = c - m
  OBVIOUS
<1>4. ASSUME NEW k \in S PROVE k <= m
  <2>1. j <= c - k
    BY <1>2
  <2>2. QED  BY <1>3, <2>1
<1>5. QED  BY <1>4

-----------------------------------------------------------------------------
(* Ranks.                                                                  *)

LEMMA Zones ==
  ASSUME ZonesType, NEW z \in Zone
  PROVE  /\ Capacity[z] \in Nat /\ Slots(z) = 0 .. Capacity[z] - 1 /\ Slots(z) \subseteq Nat
         /\ Occupied(z) \subseteq Slots(z) /\ IsFiniteSet(Occupied(z))
         /\ Cardinality(Occupied(z)) \in Nat
         /\ Occupied(z) # {} => Cardinality(Occupied(z)) > 0
<1>1. Capacity[z] \in Nat /\ Slots(z) = 0 .. Capacity[z] - 1 /\ Slots(z) \subseteq Nat
  BY CapacityAssumption DEF Slots
<1>2. Occupied(z) \subseteq Slots(z)
  BY DEF Occupied
<1>3. IsFiniteSet(Slots(z))
  BY <1>1, FS_Interval
<1>4. IsFiniteSet(Occupied(z))
  BY <1>2, <1>3, FS_Subset
<1>5. Cardinality(Occupied(z)) \in Nat
  BY <1>4, FS_CardinalityType
<1>6. Occupied(z) # {} => Cardinality(Occupied(z)) # 0
  BY <1>4, FS_EmptySet
<1>7. QED  BY <1>1, <1>2, <1>4, <1>5, <1>6

Below(z, s) == {t \in Occupied(z) : t < s}

LEMMA RankInRange ==
  ASSUME ZonesType, NEW z \in Zone, NEW s \in Occupied(z)
  PROVE  Rank(z, s) \in 0 .. Cardinality(Occupied(z)) - 1
<1>1. IsFiniteSet(Occupied(z)) /\ Cardinality(Occupied(z)) \in Nat /\ s \in Nat
  BY Zones
<1>2. Below(z, s) \subseteq Occupied(z) \ {s}
  BY <1>1 DEF Below
<1>3. /\ IsFiniteSet(Occupied(z) \ {s})
      /\ Cardinality(Occupied(z) \ {s}) = Cardinality(Occupied(z)) - 1
  BY <1>1, FS_RemoveElement
<1>4. /\ IsFiniteSet(Below(z, s))
      /\ Cardinality(Below(z, s)) <= Cardinality(Occupied(z) \ {s})
  BY <1>2, <1>3, FS_Subset
<1>5. Cardinality(Below(z, s)) \in Nat
  BY <1>4, FS_CardinalityType
<1>6. QED  BY <1>1, <1>3, <1>4, <1>5 DEF Rank, Below

LEMMA RankGrows ==
  ASSUME ZonesType, NEW z \in Zone, NEW s \in Occupied(z), NEW t \in Occupied(z), s < t
  PROVE  /\ Rank(z, s) < Rank(z, t)
         /\ (\A u \in Occupied(z) : u < t => u <= s) => Rank(z, t) = Rank(z, s) + 1
<1>1. Occupied(z) \subseteq Nat /\ IsFiniteSet(Occupied(z))
  BY Zones
<1>2. /\ Below(z, s) \subseteq Occupied(z) /\ Below(z, t) \subseteq Occupied(z)
      /\ s \notin Below(z, s) /\ Below(z, s) \union {s} \subseteq Below(z, t)
  BY <1>1 DEF Below
<1>3. IsFiniteSet(Below(z, s)) /\ IsFiniteSet(Below(z, t))
  BY <1>1, <1>2, FS_Subset
<1>4. Cardinality(Below(z, s) \union {s}) = Cardinality(Below(z, s)) + 1
  BY <1>2, <1>3, FS_AddElement
<1>5. Cardinality(Below(z, s) \union {s}) <= Cardinality(Below(z, t))
  BY <1>2, <1>3, FS_Subset
<1>6. Cardinality(Below(z, s)) \in Nat /\ Cardinality(Below(z, t)) \in Nat
  BY <1>3, FS_CardinalityType
<1>7. ASSUME \A u \in Occupied(z) : u < t => u <= s
      PROVE  Below(z, t) = Below(z, s) \union {s}
  BY <1>1, <1>2, <1>7 DEF Below
<1>8. QED  BY <1>4, <1>5, <1>6, <1>7 DEF Rank, Below

(* Two slots have two ranks.                                               *)
LEMMA RankIsOneToOne ==
  ASSUME ZonesType, NEW z \in Zone, NEW s \in Occupied(z), NEW t \in Occupied(z),
         Rank(z, s) = Rank(z, t)
  PROVE  s = t
<1>1. s \in Nat /\ t \in Nat /\ Rank(z, s) \in Int /\ Rank(z, t) \in Int
  BY Zones, RankInRange
<1>2. ~ (s < t) /\ ~ (t < s)
  BY <1>1, RankGrows
<1>3. QED  BY <1>1, <1>2

(* Every number below that of the toys is the rank of a slot.              *)
LEMMA RankIsOnto ==
  ASSUME ZonesType, NEW z \in Zone, NEW r \in 0 .. Cardinality(Occupied(z)) - 1
  PROVE  \E s \in Occupied(z) : Rank(z, s) = r
<1> DEFINE k == Cardinality(Occupied(z))
           T == (0 .. k - 1) \ {r}
           f == [s \in Occupied(z) |-> Rank(z, s)]
<1>1. k \in Nat /\ IsFiniteSet(Occupied(z))
  BY Zones
<1>2. IsFiniteSet(0 .. k - 1) /\ Cardinality(0 .. k - 1) = k
  BY <1>1, FS_Interval
<1>3. IsFiniteSet(T) /\ Cardinality(T) = k - 1
  <2>1. r \in 0 .. k - 1
    OBVIOUS
  <2> HIDE DEF k
  <2>2. QED  BY <1>2, <2>1, FS_RemoveElement
<1>4. SUFFICES ASSUME \A s \in Occupied(z) : Rank(z, s) # r
               PROVE  FALSE
  OBVIOUS
<1>5. f \in [Occupied(z) -> T]
  BY <1>4, RankInRange
<1>6. Cardinality(T) < Cardinality(Occupied(z))
  BY <1>1, <1>3
<1> DEFINE D == Occupied(z)
<1>7. \E s, t \in D : s # t /\ f[s] = f[t]
  <2>1. IsFiniteSet(D) /\ IsFiniteSet(T) /\ Cardinality(T) < Cardinality(D) /\ f \in [D -> T]
    BY <1>1, <1>3, <1>5, <1>6
  <2> HIDE DEF D, T, f
  <2>2. QED  BY <2>1, FS_PigeonHole
<1>8. QED  BY <1>7, RankIsOneToOne

(* A poll reads the slot whose rank is its number's remainder.             *)
LEMMA SlotRead ==
  ASSUME ZonesType, NEW z \in Zone, Occupied(z) # {}, NEW hint \in Nat
  PROVE  /\ SlotFor(z, hint) \in Occupied(z)
         /\ Rank(z, SlotFor(z, hint)) = hint % Cardinality(Occupied(z))
         /\ \A s \in Occupied(z) :
              Rank(z, s) = hint % Cardinality(Occupied(z)) => SlotFor(z, hint) = s
<1> DEFINE k == Cardinality(Occupied(z))
<1>1. k \in Nat /\ k > 0
  BY Zones
<1>2. hint % k \in 0 .. k - 1
  BY <1>1, Divide
<1>3. \E s \in Occupied(z) : Rank(z, s) = hint % k
  BY <1>2, RankIsOnto
<1>4. SlotFor(z, hint) \in Occupied(z) /\ Rank(z, SlotFor(z, hint)) = hint % k
  BY <1>3 DEF SlotFor
<1>5. QED  BY <1>4, RankIsOneToOne

-----------------------------------------------------------------------------
(* Polls.                                                                  *)

(* Polls show the toys of the zone and no other: an empty zone shows none, *)
(* and in a zone with toys every slot that holds one is read by some poll, *)
(* no other slot by any (getZoneState).                                    *)
THEOREM PollsShowTheZone ==
  ASSUME ZonesType, NEW z \in Zone
  PROVE  /\ \A hint \in Nat : GetZoneState(z, hint) = NoToy <=> Occupied(z) = {}
         /\ Occupied(z) # {} =>
              {GetZoneState(z, hint) : hint \in Nat} = {zones[z][s] : s \in Occupied(z)}
<1>1. ASSUME Occupied(z) = {}, NEW hint \in Nat PROVE GetZoneState(z, hint) = NoToy
  BY <1>1 DEF GetZoneState
<1>2. ASSUME Occupied(z) # {}, NEW hint \in Nat
      PROVE  /\ SlotFor(z, hint) \in Occupied(z)
             /\ GetZoneState(z, hint) = zones[z][SlotFor(z, hint)]
  BY <1>2, SlotRead DEF GetZoneState
<1>3. \A s \in Occupied(z) : zones[z][s] # NoToy
  BY DEF Occupied
<1>4. ASSUME Occupied(z) # {}, NEW s \in Occupied(z)
      PROVE  \E hint \in Nat : GetZoneState(z, hint) = zones[z][s]
  <2> DEFINE k == Cardinality(Occupied(z))
             r == Rank(z, s)
  <2>1. k \in Nat /\ k > 0 /\ r \in 0 .. k - 1 /\ 0 \in Nat
    BY <1>4, Zones, RankInRange
  <2>2. PICK i \in 0 .. k - 1 : (0 + i) % k = r
    BY <2>1, Reaches
  <2>3. i \in Nat /\ i % k = r
    BY <2>1, <2>2
  <2>4. SlotFor(z, i) = s
    BY <1>4, <2>3, SlotRead
  <2>5. QED  BY <1>2, <1>4, <2>3, <2>4
<1>5. QED  BY <1>1, <1>2, <1>3, <1>4

(* Consecutive polls go round: the next one reads the next slot with a toy *)
(* or, after the last, the first.                                          *)
THEOREM PollsGoRound ==
  ASSUME ZonesType, NEW z \in Zone, Occupied(z) # {}, NEW hint \in Nat
  PROVE  LET s     == SlotFor(z, hint)
             later == {t \in Occupied(z) : t > s}
             rest  == IF later = {} THEN Occupied(z) ELSE later
         IN  SlotFor(z, hint + 1) \in rest /\ \A t \in rest : SlotFor(z, hint + 1) <= t
<1> DEFINE s     == SlotFor(z, hint)
           later == {t \in Occupied(z) : t > s}
           rest  == IF later = {} THEN Occupied(z) ELSE later
           k     == Cardinality(Occupied(z))
<1>1. k \in Nat /\ k > 0 /\ Occupied(z) \subseteq Nat /\ IsFiniteSet(Occupied(z))
  BY Zones
<1>2. s \in Occupied(z) /\ Rank(z, s) = hint % k
  BY SlotRead
<1>3. rest \subseteq Nat /\ rest # {} /\ rest \subseteq Occupied(z)
  BY <1>1
<1>4. PICK m \in rest : \A t \in rest : m <= t
  BY <1>3, Least
<1>5. SUFFICES Rank(z, m) = (hint + 1) % k
  <2>1. m \in Occupied(z) /\ hint + 1 \in Nat
    BY <1>3
  <2>2. SlotFor(z, hint + 1) = m
    BY <1>5, <2>1, SlotRead
  <2>3. QED  BY <1>4, <2>2
<1>6. (hint + 1) % k = IF Rank(z, s) = k - 1 THEN 0 ELSE Rank(z, s) + 1
  BY <1>1, <1>2, NextRemainder
<1>7. CASE later # {}
  <2>1. /\ m \in Occupied(z) /\ s < m
        /\ \A t \in Occupied(z) : t < m => t <= s
    BY <1>1, <1>2, <1>4, <1>7
  <2>2. Rank(z, m) = Rank(z, s) + 1
    BY <1>2, <2>1, RankGrows
  <2>3. Rank(z, s) \in 0 .. k - 1 /\ Rank(z, m) \in 0 .. k - 1
    BY <1>2, <2>1, RankInRange
  <2>4. QED  BY <1>1, <1>6, <2>2, <2>3
<1>8. CASE later = {}
  <2>1. Below(z, s) = Occupied(z) \ {s}
    BY <1>1, <1>2, <1>8 DEF Below
  <2>2. Cardinality(Occupied(z) \ {s}) = k - 1
    BY <1>1, <1>2, FS_RemoveElement
  <2>3. Rank(z, s) = k - 1
    BY <2>1, <2>2 DEF Rank, Below
  <2>4. m \in Occupied(z) /\ Below(z, m) = {}
    BY <1>1, <1>4, <1>8 DEF Below
  <2>5. Rank(z, m) = 0
    BY <2>4, FS_EmptySet DEF Rank, Below
  <2>6. QED  BY <1>6, <2>3, <2>5
<1>9. QED  BY <1>7, <1>8

(* As many consecutive polls as there are toys show every toy, each once.  *)
THEOREM ARoundShowsEachOnce ==
  ASSUME ZonesType, NEW z \in Zone, NEW hint \in Nat, NEW s \in Occupied(z)
  PROVE  \E i \in 0 .. Cardinality(Occupied(z)) - 1 :
           \A j \in 0 .. Cardinality(Occupied(z)) - 1 :
             SlotFor(z, hint + j) = s <=> j = i
<1> DEFINE k == Cardinality(Occupied(z))
           r == Rank(z, s)
<1>1. k \in Nat /\ k > 0 /\ r \in 0 .. k - 1
  BY Zones, RankInRange
<1>2. PICK i \in 0 .. k - 1 : (hint + i) % k = r
  BY <1>1, Reaches
<1>3. ASSUME NEW j \in 0 .. k - 1
      PROVE  SlotFor(z, hint + j) = s <=> (hint + j) % k = r
  <2>1. hint + j \in Nat
    BY <1>1
  <2>2. QED  BY <2>1, SlotRead
<1>4. ASSUME NEW j \in 0 .. k - 1, (hint + j) % k = r
      PROVE  j = i
  BY <1>1, <1>2, <1>4, ReachesOnce
<1>5. QED  BY <1>2, <1>3, <1>4

-----------------------------------------------------------------------------
(* Edits.                                                                  *)

(* Writing a slot of a zone.                                               *)
LEMMA WriteSlot ==
  ASSUME ZonesType, NEW z \in Zone, NEW s \in Slots(z), NEW v,
         zones' = [zones EXCEPT ![z][s] = v]
  PROVE  /\ \A t \in Slots(z) : zones'[z][t] = IF t = s THEN v ELSE zones[z][t]
         /\ \A y \in Zone : y # z => zones'[y] = zones[y]
         /\ Occupied(z)' = IF v = NoToy THEN Occupied(z) \ {s} ELSE Occupied(z) \union {s}
<1>1. zones = [y \in Zone |-> zones[y]] /\ zones[z] = [t \in Slots(z) |-> zones[z][t]]
  BY DEF ZonesType
<1>2. zones'[z] = [zones[z] EXCEPT ![s] = v]
  BY <1>1
<1>3. \A t \in Slots(z) : zones'[z][t] = IF t = s THEN v ELSE zones[z][t]
  BY <1>1, <1>2
<1>4. \A y \in Zone : y # z => zones'[y] = zones[y]
  BY <1>1
<1>5. Occupied(z)' = {t \in Slots(z) : zones'[z][t] # NoToy}
  BY DEF Occupied, Slots
<1>6. QED  BY <1>3, <1>4, <1>5 DEF Occupied

(* A placement that names no slot is refused only when the zone is full; it*)
(* takes the first free slot and replaces no toy.                          *)
THEOREM PlacingReplacesNothing ==
  ASSUME ZonesType, NEW z \in Zone
  PROVE  /\ PlaceSlot(z, NoSlot) = {} <=> Free(z) = {}
         /\ \A name : PlaceToy(z, name, NoSlot) =>
              \E s \in Free(z) :
                /\ zones'[z][s] = Catalog[name] /\ Occupied(z)' = Occupied(z) \union {s}
                /\ \A t \in Slots(z) : t < s => t \in Occupied(z)
                /\ \A t \in Occupied(z) : zones'[z][t] = zones[z][t]
                /\ \A y \in Zone : y # z => zones'[y] = zones[y]
<1>1. Slots(z) \subseteq Nat /\ Free(z) \subseteq Slots(z) /\ Occupied(z) \subseteq Slots(z)
  BY Zones DEF Free
<1>2. PlaceSlot(z, NoSlot) = {s \in Free(z) : \A t \in Free(z) : s <= t}
  BY DEF PlaceSlot
<1>3. Free(z) # {} => \E s \in Free(z) : \A t \in Free(z) : s <= t
  BY <1>1, Least
<1>4. ASSUME NEW name, PlaceToy(z, name, NoSlot)
      PROVE  \E s \in Free(z) :
               /\ zones'[z][s] = Catalog[name] /\ Occupied(z)' = Occupied(z) \union {s}
               /\ \A t \in Slots(z) : t < s => t \in Occupied(z)
               /\ \A t \in Occupied(z) : zones'[z][t] = zones[z][t]
               /\ \A y \in Zone : y # z => zones'[y] = zones[y]
  <2> DEFINE v == Catalog[name]
  <2>1. PICK s \in PlaceSlot(z, NoSlot) : zones' = [zones EXCEPT ![z][s] = v]
    BY <1>4 DEF PlaceToy
  <2>2. s \in Free(z) /\ s \in Slots(z) /\ \A t \in Free(z) : s <= t
    BY <1>1, <1>2
  <2>3. v # NoToy
    BY <1>4, CatalogAssumption, NoToyAssumption DEF PlaceToy
  <2> HIDE DEF v
  <2>4. /\ \A t \in Slots(z) : zones'[z][t] = IF t = s THEN v ELSE zones[z][t]
        /\ \A y \in Zone : y # z => zones'[y] = zones[y]
        /\ Occupied(z)' = Occupied(z) \union {s}
    <3>1. s \in Slots(z)
      BY <2>2
    <3>2. /\ \A t \in Slots(z) : zones'[z][t] = IF t = s THEN v ELSE zones[z][t]
          /\ \A y \in Zone : y # z => zones'[y] = zones[y]
          /\ Occupied(z)' = IF v = NoToy THEN Occupied(z) \ {s} ELSE Occupied(z) \union {s}
      BY <2>1, <3>1, WriteSlot
    <3>3. QED  BY <2>3, <3>2
  <2>5. \A t \in Slots(z) : t < s => t \in Occupied(z)
    BY <1>1, <2>2 DEF Free
  <2>6. \A t \in Occupied(z) : zones'[z][t] = zones[z][t]
    BY <1>1, <2>2, <2>4 DEF Free
  <2>7. QED  BY <2>2, <2>4, <2>5, <2>6 DEF v
<1>5. QED  BY <1>2, <1>3, <1>4

(* A removal takes one toy off, and no poll reads its slot then; one that  *)
(* names no slot is refused only when the zone is empty.                   *)
THEOREM RemovingTakesOne ==
  ASSUME ZonesType, NEW z \in Zone
  PROVE  /\ RemoveSlot(z, NoSlot) = {} <=> Occupied(z) = {}
         /\ \A slot : RemoveToy(z, slot) =>
              \E s \in Occupied(z) :
                /\ slot # NoSlot => s = slot
                /\ slot = NoSlot => \A t \in Occupied(z) : t <= s
                /\ Occupied(z)' = Occupied(z) \ {s}
                /\ \A t \in Occupied(z) \ {s} : zones'[z][t] = zones[z][t]
                /\ \A y \in Zone : y # z => zones'[y] = zones[y]
<1>1. /\ Occupied(z) \subseteq Slots(z) /\ Slots(z) = 0 .. Capacity[z] - 1
      /\ Capacity[z] \in Nat
  BY Zones
<1>2. RemoveSlot(z, NoSlot) = {s \in Occupied(z) : \A t \in Occupied(z) : t <= s}
  BY DEF RemoveSlot
<1>3. Occupied(z) # {} => \E s \in Occupied(z) : \A t \in Occupied(z) : t <= s
  BY <1>1, Greatest
<1>4. ASSUME NEW slot, RemoveToy(z, slot)
      PROVE  \E s \in Occupied(z) :
               /\ slot # NoSlot => s = slot
               /\ slot = NoSlot => \A t \in Occupied(z) : t <= s
               /\ Occupied(z)' = Occupied(z) \ {s}
               /\ \A t \in Occupied(z) \ {s} : zones'[z][t] = zones[z][t]
               /\ \A y \in Zone : y # z => zones'[y] = zones[y]
  <2>1. PICK s \in RemoveSlot(z, slot) : zones' = [zones EXCEPT ![z][s] = NoToy]
    BY <1>4 DEF RemoveToy
  <2>2. /\ s \in Occupied(z) /\ s \in Slots(z) /\ (slot # NoSlot => s = slot)
        /\ slot = NoSlot => \A t \in Occupied(z) : t <= s
    BY <1>1, <1>2 DEF RemoveSlot
  <2>3. /\ \A t \in Slots(z) : zones'[z][t] = IF t = s THEN NoToy ELSE zones[z][t]
        /\ \A y \in Zone : y # z => zones'[y] = zones[y]
        /\ Occupied(z)' = Occupied(z) \ {s}
    BY <2>1, <2>2, WriteSlot
  <2>4. QED  BY <1>1, <2>2, <2>3
<1>5. QED  BY <1>2, <1>3, <1>4

=============================================================================
