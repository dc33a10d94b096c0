-------------------------------- MODULE Tenancy --------------------------------
(***************************************************************************)
(* Which vessels a caller reaches (lib/tenant.ts): the fleet claim of the  *)
(* token against the fixture catalogue.  A lookup either finds a vessel or *)
(* answers the request itself.                                             *)
(***************************************************************************)
EXTENDS Naturals, Sequences, SequencesExt

CONSTANTS
    Vessels,    \* MOCK_VESSELS, in order
    FleetOf,    \* the fleet of each
    NoFleet,    \* the claim of a user without a fleet
    Omitted     \* an id the request does not supply

ASSUME TenancyAssumption ==
    /\ Vessels \in Seq(ToSet(Vessels)) /\ IsInjective(Vessels)
    /\ Omitted \notin ToSet(Vessels)
    /\ \A v \in ToSet(Vessels) : FleetOf[v] # NoFleet

Found(v) == [status |-> 200, vessel |-> v]

Refused(status) == [status |-> status, vessel |-> Omitted]

\* find, or the head of what filter leaves: the first of a list that is in S.
FirstOf(list, S) ==
    list[CHOOSE i \in DOMAIN list : list[i] \in S /\ \A j \in DOMAIN list : list[j] \in S => i <= j]

FleetVessels(user) == {v \in ToSet(Vessels) : FleetOf[v] = user.fleet}

CanAccess(user, v) == v \in ToSet(Vessels) /\ FleetOf[v] = user.fleet

RequireVessel(user, v) ==
    IF v \notin ToSet(Vessels) THEN Refused(404) ELSE IF CanAccess(user, v) THEN Found(v) ELSE Refused(403)

\* The vessel named, or the first of the fleet when none is named.
ResolveFleetVessel(user, v) ==
    LET own == FleetVessels(user)
    IN  IF v # Omitted THEN IF v \in own THEN Found(v) ELSE Refused(404)
                       ELSE IF own # {} THEN Found(FirstOf(Vessels, own)) ELSE Refused(403)

RequireFleetAccess(user, fleet) == user.fleet # NoFleet /\ user.fleet = fleet

RequireFleetMembership(user) == user.fleet # NoFleet
===============================================================================
