------------------------------- MODULE MCTiny -------------------------------
EXTENDS Tiny

IPv4 == "0.0.0.0"
IPv6 == "::"
Addresses == <<IPv4, IPv6>>
OthersHave == {IPv4}

Regular(size, r, x) == [type |-> "file", size |-> size, r |-> r, x |-> x]
Home == <<"/", "home.html">>
Program == <<"/", "cgi-bin", "/", "adder">>
Site == Home :> Regular(2, TRUE, FALSE) @@ Program :> Regular(1, TRUE, TRUE)

(* Removed, emptied, or cut to a page that nobody may execute. *)
NewAttributes == {Missing, Regular(0, TRUE, FALSE), Regular(1, TRUE, FALSE)}

Get(name) == <<"GET">> \o name
TheRequests ==
    {<<Get(<<"/">>), <<"Host">>, <<>>>>,
     <<Get(Program \o <<"?", "1", "&", "2">>), <<>>>>,
     <<Get(Program), <<>>>>,
     <<<<"POST", "/">>, <<>>>>,
     <<<<"GET">>, <<>>>>,
     <<<<>>, <<>>>>}
TheFragments == {<<>>, <<Get(Home)>>, <<Get(Home), <<"Host">>>>}
=============================================================================
