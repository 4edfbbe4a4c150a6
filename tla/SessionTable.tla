---------------------------- MODULE SessionTable ----------------------------
(***************************************************************************)
(* What the session pool promises when requests do not overlap: a table of *)
(* at most Capacity sessions with expiry dates. A session leaves the table *)
(* only by a logout, when a login finds the table full, or because it is   *)
(* out of time when some request looks. A logout may take other sessions   *)
(* with it; a login into a table that is not full and a request never do.  *)
(***************************************************************************)
EXTENDS Integers, FiniteSets

CONSTANTS Tags, Capacity, VALID_TIME, Times

VARIABLE expires   \* expires[t]: the date, 0 when there is no session t

Live == {t \in Tags : expires[t] # 0}

InTimeAt(t, x) == x <= expires[t] /\ expires[t] <= x + VALID_TIME

Init == expires = [t \in Tags |-> 0]

\* The sessions in S leave the table.
Without(S) == [t \in Tags |-> IF t \in S THEN 0 ELSE expires[t]]

Login(t, x) ==
    /\ t \notin Live
    /\ \E S \in SUBSET Live :
          /\ Cardinality(S) = IF Cardinality(Live) = Capacity THEN 1 ELSE 0
          /\ expires' = [Without(S) EXCEPT ![t] = x + VALID_TIME]

Use(t, x) ==
    /\ t \in Live
    /\ InTimeAt(t, x)
    /\ expires' = [expires EXCEPT ![t] = x + VALID_TIME]

Logout(t) ==
    /\ t \in Live
    /\ \E S \in SUBSET Live : t \in S /\ expires' = Without(S)

Expire(x) == expires' = Without({t \in Live : ~InTimeAt(t, x)})

Next ==
    \/ \E t \in Tags, x \in Times : Login(t, x) \/ Use(t, x)
    \/ \E t \in Tags : Logout(t)
    \/ \E x \in Times : Expire(x)

Spec == Init /\ [][Next]_expires
=============================================================================
