------------------------------ MODULE Handlers -------------------------------
(***************************************************************************)
(* The event loop that the back office's modules share.  NestJS runs one   *)
(* handler until its next await and may then run any other: a handler      *)
(* between two of its statements is a record of calls, with the request    *)
(* that started it, its operation, the statement it is at and what it read.*)
(***************************************************************************)
EXTENDS FiniteSets

CONSTANT Request  \* ids of requests: how many handlers may be in flight

ASSUME RequestAssumption == Request # {} /\ IsFiniteSet(Request)

VARIABLE calls    \* handlers between two of their statements

(* The values of a nullable column or an optional field over S. *)
Optional(S) == {{}} \cup {{x} : x \in S}

(* A handler starts under a request id that is not in use, *)
Begin(call) ==
    /\ \A c \in calls : c.req # call.req
    /\ calls' = calls \cup {call}

(* goes on with what it knows by now, *)
GoOn(c, next) == calls' = (calls \ {c}) \cup {next}

(* and ends. *)
End(c) == calls' = calls \ {c}

At(c, op, at) == /\ c.op = op
                 /\ c.at = at
=============================================================================
