----------------------------- MODULE VirtualToys -----------------------------
(***************************************************************************)
(* The virtual pad of ld-toypad-server/virtual-toys.js: three zones, each  *)
(* with a fixed number of slots, that the web UI and the CLI fill and      *)
(* empty and that the UDP server reads when the console polls a zone.      *)
(*                                                                         *)
(* Names, tag bytes and character data are abstracted to a toy; the        *)
(* catalogue with its aliases is a function from the names a client may    *)
(* send to toys.                                                           *)
(***************************************************************************)
EXTENDS Integers, FiniteSets

CONSTANTS
  Toy,       \* the toys of the catalogue
  NoToy,     \* an empty slot (null)
  Name,      \* the identifiers a client may send
  Catalog,   \* identifier -> toy, for the identifiers that resolve
  Capacity,  \* slots of each zone
  NoSlot     \* a request that names no slot

LEFT   == 0
CENTER == 1
RIGHT  == 2
Zone   == {LEFT, CENTER, RIGHT}

Slots(z) == 0 .. Capacity[z] - 1

ASSUME NoToyAssumption == NoToy \notin Toy
ASSUME CatalogAssumption ==
  /\ DOMAIN Catalog \subseteq Name
  /\ \A n \in DOMAIN Catalog : Catalog[n] \in Toy
ASSUME CapacityAssumption ==
  /\ Capacity \in [Zone -> Nat \ {0}]
  /\ Capacity[CENTER] = 1

VARIABLE zones    \* zones[z][s]: the toy in slot s of zone z, or NoToy

ZonesType ==
  /\ zones = [z \in Zone |-> zones[z]]
  /\ \A z \in Zone : zones[z] \in [Slots(z) -> Toy \union {NoToy}]

EmptyZones == [z \in Zone |-> [s \in Slots(z) |-> NoToy]]

Occupied(z) == {s \in Slots(z) : zones[z][s] # NoToy}
Free(z)     == Slots(z) \ Occupied(z)

-----------------------------------------------------------------------------
(* Placing and removing.  A request that the code refuses (unknown toy, no *)
(* free slot, slot out of range, nothing to remove) leaves the zones alone,*)
(* so it is a request whose action is not enabled.                         *)

(* The slot a placement goes to: the one asked for, even when it is taken, *)
(* or the first free one.  Empty when there is none.                       *)
PlaceSlot(z, slot) ==
  IF slot # NoSlot THEN {slot} \intersect Slots(z)
                   ELSE {s \in Free(z) : \A t \in Free(z) : s <= t}

PlaceToy(z, name, slot) ==
  /\ name \in DOMAIN Catalog
  /\ \E s \in PlaceSlot(z, slot) :
       zones' = [zones EXCEPT ![z][s] = Catalog[name]]

(* The slot a removal empties: the one asked for if it holds a toy, or the *)
(* last occupied one.                                                      *)
RemoveSlot(z, slot) ==
  IF slot # NoSlot THEN {slot} \intersect Occupied(z)
                   ELSE {s \in Occupied(z) : \A t \in Occupied(z) : t <= s}

RemoveToy(z, slot) ==
  \E s \in RemoveSlot(z, slot) : zones' = [zones EXCEPT ![z][s] = NoToy]

-----------------------------------------------------------------------------
(* What a poll of zone z with sequence number hint reads: the occupied     *)
(* slots in order, indexed by the hint modulo their number.                *)

Rank(z, s) == Cardinality({t \in Occupied(z) : t < s})

SlotFor(z, hint) ==
  CHOOSE s \in Occupied(z) : Rank(z, s) = hint % Cardinality(Occupied(z))

GetZoneState(z, hint) ==
  IF Occupied(z) = {} THEN NoToy ELSE zones[z][SlotFor(z, hint)]

=============================================================================
