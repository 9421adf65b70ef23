-------------------------- MODULE Handlers_proofs ---------------------------
(***************************************************************************)
(* What the proofs about handlers in flight have in common: each of them   *)
(* serves a request of its own, so that there are no more of them than     *)
(* there are requests.                                                     *)
(***************************************************************************)
EXTENDS Handlers, FiniteSetTheorems, TLAPS

(* The handlers of C serve requests of their own. *)
OneEach(C) ==
    /\ \A c \in C : c.req \in Request
    /\ \A c, d \in C : c.req = d.req => c = d

(* A handler starts only under a free request id, *)
LEMMA BeginOneEach ==
    ASSUME OneEach(calls), NEW call, call.req \in Request, Begin(call)
    PROVE  OneEach(calls')
BY DEF OneEach, Begin

(* keeps it while it goes on, *)
LEMMA GoOnOneEach ==
    ASSUME OneEach(calls), NEW c \in calls, NEW next, next.req = c.req, GoOn(c, next)
    PROVE  OneEach(calls')
BY DEF OneEach, GoOn

(* and gives it back. *)
LEMMA FewerOneEach ==
    ASSUME NEW C, OneEach(C), NEW D \in SUBSET C
    PROVE  OneEach(D)
BY DEF OneEach

----------------------------------------------------------------------------
(* What is told apart by requests is as much as there are requests at most. *)
LEMMA RequestsCount ==
    ASSUME NEW R \in SUBSET Request, NEW S, NEW by \in [S -> R],
           \A s, t \in S : by[s] = by[t] => s = t
    PROVE  IsFiniteSet(S) /\ Cardinality(S) \in Nat /\ Cardinality(S) <= Cardinality(R)
<1>1. by \in Injection(S, R)
  BY DEF Injection, IsInjective
<1>2. IsFiniteSet(R)
  BY RequestAssumption, FS_Subset
<1>3. IsFiniteSet(S) /\ Cardinality(S) <= Cardinality(R)
  BY <1>1, <1>2, FS_Injection
<1> QED BY <1>3, FS_CardinalityType

LEMMA RequestsNumber == Cardinality(Request) \in Nat \ {0}
BY RequestAssumption, FS_CardinalityType, FS_EmptySet

LEMMA HandlersCount ==
    ASSUME NEW C, OneEach(C), NEW H \in SUBSET C
    PROVE  IsFiniteSet(H) /\ Cardinality(H) \in Nat /\ Cardinality(H) <= Cardinality(Request)
<1> DEFINE by == [c \in H |-> c.req]
<1>1. by \in [H -> Request] /\ \A s, t \in H : by[s] = by[t] => s = t
  BY DEF OneEach
<1> QED BY <1>1, RequestsCount

(* One handler more or less. *)
LEMMA OneMore ==
    ASSUME NEW H, IsFiniteSet(H), NEW c, c \notin H
    PROVE  IsFiniteSet(H \cup {c}) /\ Cardinality(H \cup {c}) = Cardinality(H) + 1
BY FS_AddElement

LEMMA OneLess ==
    ASSUME NEW H, IsFiniteSet(H), NEW c \in H
    PROVE  /\ IsFiniteSet(H \ {c}) /\ Cardinality(H \ {c}) = Cardinality(H) - 1
           /\ Cardinality(H) >= 1
<1>1. IsFiniteSet(H \ {c}) /\ Cardinality(H \ {c}) = Cardinality(H) - 1
  BY FS_RemoveElement
<1>2. Cardinality(H) \in Nat /\ Cardinality(H) # 0
  BY FS_CardinalityType, FS_EmptySet
<1> QED BY <1>1, <1>2
=============================================================================
