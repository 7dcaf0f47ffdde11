----------------------------- MODULE MCCustomers -----------------------------
(* Small instances of the customers for TLC.                                 *)
EXTENDS Customers

Xs(n) == [i \in 1 .. n |-> "x"]
Chinese == {"P", "Q", "W"}

(* A regular plate, one that ends in a Chinese character, one a character  *)
(* short, and what the camera sends when it could not read the plate.      *)
AllPlates == {<<"P">> \o Xs(6), <<"P">> \o Xs(5) \o <<"W">>, <<"P">> \o Xs(5), <<"Q", "W">>}

(* The regular plate, another province, another last character, both, and  *)
(* the last character a Chinese one.                                       *)
RowPlates == {<<c>> \o Xs(5) \o <<d>> : c \in {"P", "Q"}, d \in {"x", "y"}}
             \cup {<<"P">> \o Xs(5) \o <<"W">>}

(* A customer without a period, one with a period, one who left: of the    *)
(* three types with a period, which the code treats alike, one.            *)
VipRows == {[plate |-> p, type |-> t, deleted |-> v[1], begin |-> v[2], expiry |-> v[3]] :
           p \in RowPlates, t \in {"WhiteListVIP", "StoredValueVIP"},
           v \in {<<FALSE, 0, 0>>, <<FALSE, 2, 4>>, <<TRUE, 2, 4>>}}

AllVipTables == {<<>>} \cup {<<r>> : r \in VipRows} \cup {<<r, s>> : r \in VipRows, s \in VipRows}
==============================================================================
