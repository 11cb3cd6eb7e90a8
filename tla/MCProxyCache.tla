---------------------------- MODULE MCProxyCache ----------------------------
(***************************************************************************)
(* The proxy for TLC: a behaviour is one of ProxyCache, where texts are    *)
(* kinds of requests and answers, or one of HttpText, where one connection *)
(* reads both character by character.                                      *)
(***************************************************************************)
EXTENDS ProxyCache, HttpText

MCMethods == {<<"G", "E", "T">>, <<"P", "U", "T">>}
MCHosts == {<<"a">>, <<"a", "b">>}
MCPaths == {<< >>, <<"/">>, <<"/", "p">>, <<"/", "/">>}

MCInit == Init /\ TextInit

MCNext ==
    \/ textAt = "new" /\ Next /\ UNCHANGED textVars
    \/ Init /\ TextNext /\ UNCHANGED vars

MCSpec ==
    /\ MCInit /\ [][MCNext]_<<vars, textVars>>
    /\ Fairness
=============================================================================
