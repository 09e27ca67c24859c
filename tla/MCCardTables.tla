---------------------------- MODULE MCCardTables ----------------------------
(* A large program, a small one that shares no entry with it, a program    *)
(* without hash entries, and two that are refused: more rows than the card *)
(* implements, and a flow id outside the map.                              *)
EXTENDS CardTables

Big == [rows |-> <<"A", "B">>,
        map  |-> <<[flow_id |-> 0, lfid |-> "a"], [flow_id |-> 1, lfid |-> "b"]>>,
        cmps |-> <<[src |-> "s1", value |-> "v1"], [src |-> "s2", value |-> "v2"]>>,
        rules |-> <<[care |-> "c1", lfid |-> "l1", lif |-> "i1"],
                    [care |-> "c2", lfid |-> "l2", lif |-> "i2"]>>,
        hash |-> <<[index |-> 0, key |-> "k1", lfid |-> "a"]>>,
        mask |-> "m1"]
Small == [rows |-> <<"C">>,
          map  |-> <<[flow_id |-> 1, lfid |-> "a"]>>,
          cmps |-> <<[src |-> "s3", value |-> "v3"]>>,
          rules |-> <<[care |-> "c3", lfid |-> "l3", lif |-> "i3"]>>,
          hash |-> <<[index |-> 1, key |-> "k2", lfid |-> "b"]>>,
          mask |-> "m2"]
Plain == [Small EXCEPT !.rows = <<>>, !.hash = <<>>, !.mask = Off]
TooMany == [Big EXCEPT !.rows = <<"A", "B", "C">>]

Outside == [Big EXCEPT !.map = <<[flow_id |-> 2, lfid |-> "a"]>>]

MCPrograms == {Big, Small, Plain, TooMany, Outside}
=============================================================================
