--------------------------- MODULE SessionContract ---------------------------
(***************************************************************************)
(* What the holder of a session may rely on: every refresh token is handed *)
(* out once and replaces the one before it, only a live session is         *)
(* refreshed, and a session that has ended does not come back.             *)
(***************************************************************************)
EXTENDS Naturals

CONSTANT Session

VARIABLES
    state,  \* "absent", "live" or "dead"
    token,  \* how many tokens the session has had, the last of which it takes
    handed  \* how many tokens have been handed out for it

vars == <<state, token, handed>>

Init ==
    /\ state = [s \in Session |-> "absent"]
    /\ token = [s \in Session |-> 0]
    /\ handed = [s \in Session |-> 0]

Ended(ending) == [s \in Session |-> IF s \in ending THEN "dead" ELSE state[s]]

Live == {s \in Session : state[s] = "live"}

(* A session starts, with its first token or still without, and may take   *)
(* the place of others.                                                    *)
Start(s, n) ==
    /\ state[s] = "absent"
    /\ \E ending \in SUBSET Live : state' = [Ended(ending) EXCEPT ![s] = "live"]
    /\ token' = [token EXCEPT ![s] = n]
    /\ handed' = [handed EXCEPT ![s] = n]

(* The next token of a session is handed out. *)
HandOut(s) ==
    /\ token' = [token EXCEPT ![s] = @ + 1]
    /\ handed' = [handed EXCEPT ![s] = @ + 1]
    /\ UNCHANGED state

FirstToken(s) == state[s] # "absent" /\ token[s] = 0 /\ HandOut(s)
Rotate(s) == state[s] = "live" /\ token[s] > 0 /\ HandOut(s)

End ==
    /\ \E ending \in SUBSET Live : state' = Ended(ending)
    /\ UNCHANGED <<token, handed>>

Next ==
    \/ \E s \in Session : Start(s, 0) \/ Start(s, 1) \/ FirstToken(s) \/ Rotate(s)
    \/ End

Spec == Init /\ [][Next]_vars
=============================================================================
