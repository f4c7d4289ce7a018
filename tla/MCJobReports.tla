----------------------------- MODULE MCJobReports -----------------------------
(* A small instance of JobReports for TLC: two users and five jobs, one of *)
(* which is older than the list shows.                                       *)
EXTENDS JobReports

OwnerTable  == <<"u1", "u2", "u1", "u2", "u1">>
BornTable   == <<1, 2, 2, 3, 3>>
SourceTable == <<"ad", Null, "direct", Null, "ad">>
OldTables   == {<<"queued", "sent", "queued", "sent", "none">>,
                <<"sent", "none", "queued", "queued", "queued">>}
TypedCities == {Null, "unknown"}
Filters     == {[statuses |-> {"queued", "sent"}, days |-> 1 .. 3],
                [statuses |-> {"queued", "sent", "failed"}, days |-> {2}]}
Days        == {{1, 2, 3}, {2, 3}}
==============================================================================
