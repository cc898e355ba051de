------------------------------- MODULE MCApi --------------------------------
(***************************************************************************)
(* Two requests of any two of a few kinds to one node, and a second node   *)
(* whose worker may take their jobs.                                       *)
(***************************************************************************)
EXTENDS Api, TLC

CONSTANTS r1, r2, n1, n2, alice

SameNode == [r \in {r1, r2} |-> n1]

Request(route, key, header, body) ==
    [route |-> route, key |-> key, auth |-> [scheme |-> "absent", token |-> "unknown"],
     header |-> header, body |-> body]

Bearing(c, scheme, token) == [c EXCEPT !.auth = [scheme |-> scheme, token |-> token]]

TwoCalls ==
    r1 :> {
        Request("POST /jobs", "standard", alice, "file"),
        Bearing(Request("POST /jobs", "absent", "absent", "file"), "Basic", "vip"),
        Request("POST /jobs", "admin", "blank", "other"),
        Request("GET files", "absent", "absent", "other"),
        Request("DELETE /jobs", "standard", alice, "json")}
    @@ r2 :> {
        Bearing(Request("POST /jobs", "absent", "poisoned", "json"), "Bearer", "inherited"),
        Request("DELETE /jobs", "admin", "absent", "json"),
        Request("GET /logs", "admin", alice, "json"),
        Request("DELETE /jobs", "inherited", "absent", "json"),
        Bearing(Request("GET /metrics", "absent", "absent", "other"), "ApiKey", "vip"),
        Request("GET /health", "absent", "absent", "other"),
        Request("GET /jobs", "unknown", "absent", "malformed")}

SomeSearches ==
    [level : {"absent"}, limit : {-1, 0}] \cup [level : {"warn"}, limit : {1}]

SomeNames ==
    {<<>>, <<"name">>, <<".">>, <<".", ".">>, <<".", ".", "/", "name">>, <<"name", "/", "name">>,
     <<"name", "NUL">>}

=============================================================================
