-------------------------------- MODULE Army --------------------------------
(* Armies and the outcome of a war: the pure part of internal/gamelogic.     *)
(* A Player of the code is a username and a map from unit id to unit; here   *)
(* the name is a member of Player and the map a function from ids to units.  *)
EXTENDS Integers, FiniteSets, Functions

CONSTANTS
    Player,     \* usernames
    Location,   \* the continents in play, a subset of getAllLocations()
    Rank,       \* the ranks in play
    MaxUnits    \* bound: unit ids are 1..MaxUnits

ASSUME RankAssumption == Rank \subseteq {"infantry", "cavalry", "artillery"}
ASSUME MaxUnitsAssumption == MaxUnits \in Nat

UnitId == 1..MaxUnits
Unit == [rank : Rank, location : Location]
Armies == UNION {[ids -> Unit] : ids \in SUBSET UnitId}
NoUnits == [id \in {} |-> {}]

(* GameState.addUnit and UpdateUnit: both assign the map entry.              *)
PutUnit(units, id, unit) ==
    [i \in DOMAIN units \cup {id} |-> IF i = id THEN unit ELSE units[i]]

Locations(units) == {units[i].location : i \in DOMAIN units}

InLocation(units, loc) == {i \in DOMAIN units : units[i].location = loc}

RemoveUnits(units, loc) == Restrict(units, DOMAIN units \ InLocation(units, loc))

OfRank(units, loc, rank) ==
    Cardinality({i \in InLocation(units, loc) : units[i].rank = rank})

(* PowerLevel(unitsInLocation(p, loc)).                                      *)
PowerLevel(units, loc) == 10 * OfRank(units, loc, "artillery")
                        + 5 * OfRank(units, loc, "cavalry")
                        + OfRank(units, loc, "infantry")

-----------------------------------------------------------------------------
(* A RecognitionOfWar carries the two snapshots the war is decided from.     *)
Recognition == [attacker : Player, attackerUnits : Armies,
                defender : Player, defenderUnits : Armies]

WarResult == [location : Location, winner : Player, loser : Player,
              draw : BOOLEAN]

Parties(war) == {war.attacker, war.defender}

(* getOverlappingLocation ranges over two Go maps and returns the first      *)
(* common location it meets: any member of this set, none if it is empty.    *)
Contested(war) == Locations(war.attackerUnits) \cap Locations(war.defenderUnits)

(* ResolveWar, once the location has been picked.                            *)
ResolveWar(war, loc) ==
    LET attackerPower == PowerLevel(war.attackerUnits, loc)
        defenderPower == PowerLevel(war.defenderUnits, loc)
        defenderWins  == defenderPower > attackerPower
    IN  [location |-> loc,
         winner   |-> IF defenderWins THEN war.defender ELSE war.attacker,
         loser    |-> IF defenderWins THEN war.attacker ELSE war.defender,
         draw     |-> attackerPower = defenderPower]

(* Mutant of Removed: a draw costs the nominal loser only.                   *)
RemovedLoserOnly(war, result) == {result.loser}

(* The parties HandleWar removes the units of: the loser, or both.           *)
Removed(war, result) ==
    IF result.draw THEN Parties(war) ELSE {result.loser}
=============================================================================
