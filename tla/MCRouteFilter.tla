---------------------------- MODULE MCRouteFilter ----------------------------
(***************************************************************************)
(* Prefixes for TLC: eight addresses of each family, two services and two  *)
(* users.                                                                  *)
(***************************************************************************)
EXTENDS RouteFilter

CONSTANTS s, t, u1, u2

P(addr, bits) == [fam |-> 4, addr |-> addr, bits |-> bits]
Q(addr, bits) == [fam |-> 6, addr |-> addr, bits |-> bits]

MCInitialContent ==
    [svc \in {s, t} |-> IF svc = s THEN {P(0, 1), Q(2, 2)}
                        ELSE {P(0, 2), P(6, 3)}]
MCContents ==
    {{P(0, 0), P(4, 3)}, {P(0, 1), P(3, 3), P(4, 1)}, {P(2, 2), Q(0, 1)},
     {P(1, 3), P(2, 2), P(5, 3), P(6, 2)}}
MCExclusions == {{P(2, 3)}, {P(1, 3), P(4, 2), P(5, 3)}, {P(0, 1), Q(3, 3)}}
Lists(allow, deny) == [allow |-> allow, deny |-> deny]
MCInitialFilters == Lists({}, {P(6, 2)})
MCFilters ==
    {Lists({}, {P(2, 3)}), Lists({P(0, 1)}, {}), Lists({P(1, 3), P(4, 1)}, {}),
     Lists({P(0, 0)}, {P(0, 3), P(2, 2), P(3, 3)}), Lists({}, {Q(0, 0)})}
MCNetworks ==
    {{P(0, 2), P(2, 2), P(4, 3)}, {P(0, 1), P(2, 3), P(6, 2)},
     {P(1, 3), P(2, 2), P(4, 1)}, {P(0, 3), P(2, 3), Q(0, 1), Q(4, 1)},
     {P(3, 3), P(4, 3), P(5, 3)}}
MCUsers == Permutations({u1, u2})
=============================================================================
