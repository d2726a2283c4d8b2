------------------------------ MODULE MCAccess ------------------------------
(* Access with patterns that overlap: literals, wildcards before, after and *)
(* between letters, and several in one pattern.                             *)
EXTENDS Access

CONSTANTS h1, u1, r1

Patterns == {<< >>, <<Star>>, <<"a">>, <<"a", Star>>, <<Star, "b">>,
             <<"a", "b", Star>>, <<"a", Star, "b">>}

Two == {<<"a">>, <<"a", "b", "b">>}

ReadOnly == {"subscribe", "presence", "history"}
Standard == {"subscribe", "publish", "presence"}
Some == {{}, ReadOnly}

Rules == [pattern : Patterns, perms : {ReadOnly}, requireAuth : {TRUE},
          allowAnonymous : {FALSE}]
NewRule == [pattern |-> <<Star>>, perms |-> Standard, requireAuth |-> FALSE,
            allowAnonymous |-> FALSE]
Closed == {[NewRule EXCEPT !.perms = {}]}

Ns(name, prefix, publish, toPublish) ==
  [name |-> name, prefix |-> prefix, publish |-> publish,
   subscribeToPublish |-> toPublish, maxLength |-> 2]
NewNS == [Ns("default", << >>, TRUE, FALSE) EXCEPT !.maxLength = 255]
Both == {Ns("chat", <<"a">>, TRUE, TRUE), Ns("news", <<"a", "b">>, FALSE, FALSE)}
=============================================================================
