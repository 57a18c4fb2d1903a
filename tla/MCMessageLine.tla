----------------------------- MODULE MCMessageLine -----------------------------
\* Two accounts that both have a room "general"; one has a room more.
EXTENDS MessageLine

MCPlace == {<<"a", "general">>, <<"a", "other">>, <<"b", "general">>}

MCMessage == {"m1", "m2", "m3"}

MCPlaceOf ==
  [m \in MCMessage |-> CASE m = "m1" -> <<"a", "general">>
                        [] m = "m2" -> <<"a", "other">>
                        [] OTHER -> <<"b", "general">>]
=============================================================================
