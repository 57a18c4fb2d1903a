---------------------------- MODULE LoginProtocol ----------------------------
(***************************************************************************)
(* What an authentication manager promises to the rest of the client: a    *)
(* phase, and the requests the server still owes an answer for.  One gets  *)
(* in by the answer to a credential request (or by a personal access       *)
(* token, which is taken on trust), out by the answer to a logout request  *)
(* or by losing the connection, and a request is answered at most once.    *)
(***************************************************************************)

CONSTANT Ids

Phase == {"out", "idle", "waiting", "in", "leaving", "error"}
Kind  == {"credential", "logout"}

VARIABLES phase, owed

Init == phase = "out" /\ owed = {}

\* A request whose sending fails at once is owed by nobody.
Ask(id, kind) ==
  /\ \A r \in owed : r.id # id
  /\ kind = "logout" => phase \notin {"out", "leaving", "error"}
  /\ phase' = IF kind = "logout" THEN "leaving" ELSE "waiting"
  /\ owed' \in {owed, owed \cup {[id |-> id, kind |-> kind]}}

Answered(r) ==
  /\ owed' = owed \ {r}
  /\ phase' \in IF r.kind = "credential" THEN {"in", "idle", "error"}
                                         ELSE {"out", "error"}

Lost(r) == owed' = owed \ {r} /\ UNCHANGED phase

Connect == phase' = "idle" /\ UNCHANGED owed

Trust == phase' = "in" /\ UNCHANGED owed

Disconnect == phase' \in {"out", "error"} /\ owed' = {}

Next ==
  \/ \E id \in Ids, kind \in Kind : Ask(id, kind)
  \/ \E r \in owed : Answered(r) \/ Lost(r)
  \/ Connect
  \/ Trust
  \/ Disconnect

Spec == Init /\ [][Next]_<<phase, owed>>
=============================================================================
