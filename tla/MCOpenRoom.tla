------------------------------ MODULE MCOpenRoom ------------------------------
\* Both servers have a room GENERAL; one has another, which is open.
EXTENDS OpenRoom

MCPlace == {<<"work", "GENERAL">>, <<"home", "GENERAL">>, <<"home", "lobby">>}
MCMembers == {[p \in Place |-> IF p = <<"home", "lobby">> THEN "open" ELSE f[p[1]]] :
                f \in [Account -> {"absent", "open"}]}
=============================================================================
