---------------------------- MODULE MCKeepAlive -----------------------------
(* Instances of KeepAlive for TLC. *)
EXTENDS KeepAlive

TwoSpellings == {"Id", "id", "ID"}
OneField == [n \in TwoSpellings |-> "Id"]

Req(start, fields, body) ==
  [start |-> start, fields |-> fields, body |-> body, closing |-> FALSE]

Bodies == {<<>>, <<"text">>, <<"line", "text">>, <<"colon", "Id">>,
           <<"line", "empty">>, <<"ID", "text">>}

AllShapes ==
  {Req(s, <<"id">>, b) : s \in {"origin", "absolute"}, b \in Bodies}
  \cup {Req("origin", <<"ID">>, <<>>), Req("origin", <<"id", "Id", "ID">>, <<"text">>),
        [Req("origin", <<"id">>, <<"line", "text">>) EXCEPT !.closing = TRUE]}

Pairs == {<<r, q>> : r, q \in AllShapes}
=============================================================================
