-------------------------------- MODULE Devices --------------------------------
(***************************************************************************)
(* The devices a user's push notifications go to: PushNotificationService. *)
(* A device has one token, which the app registers when somebody signs in  *)
(* there and removes when they sign out; Firebase forgets a token when the *)
(* app is uninstalled.  A push reads the tokens of its user, is awaited at *)
(* Firebase, and then deletes the tokens Firebase did not know.            *)
(***************************************************************************)
EXTENDS Handlers, FiniteSets, Naturals

CONSTANTS
    Device,  \* devices, by their token
    AppUser  \* users of the app

VARIABLES
    owner,     \* device_tokens.userId by token, as the set of its one user
    lapsed,    \* external: the tokens Firebase no longer knows
    atDevice,  \* history: who registered the token last and has not removed it
    strays     \* history: pushes of others shown there since that user came

deviceVars == <<owner, lapsed, atDevice, strays>>

----------------------------------------------------------------------------
PushCall == [req : Request, op : {"push"}, user : AppUser, tokens : SUBSET Device,
             at : {"send", "clean"}]

DevicesTypeOK ==
    /\ owner \in [Device -> Optional(AppUser)]
    /\ lapsed \in SUBSET Device
    /\ atDevice \in [Device -> Optional(AppUser)]
    /\ strays \in [Device -> Nat]
    /\ calls \in SUBSET PushCall

DevicesInit ==
    /\ owner = [d \in Device |-> {}]
    /\ lapsed = {}
    /\ atDevice = [d \in Device |-> {}]
    /\ strays = [d \in Device |-> 0]
    /\ calls = {}

----------------------------------------------------------------------------
Arrives(d, people) ==
    /\ atDevice' = [atDevice EXCEPT ![d] = people]
    /\ strays' = [strays EXCEPT ![d] = 0]
    /\ UNCHANGED <<lapsed, calls>>

(* A token that is registered already just gets a new timestamp. *)
RegisterKeepsOwner(d, u) ==
    /\ owner' = [owner EXCEPT ![d] = IF @ = {} THEN {u} ELSE @]
    /\ Arrives(d, {u})

(* registerToken: an upsert by token, which moves it to the user. *)
RegisterToken(d, u) ==
    /\ owner' = [owner EXCEPT ![d] = {u}]
    /\ Arrives(d, {u})

(* removeToken: nobody is signed in there now. *)
RemoveToken(d) ==
    /\ owner' = [owner EXCEPT ![d] = {}]
    /\ Arrives(d, {})

TokenLapses(d) ==
    /\ lapsed' = lapsed \cup {d}
    /\ UNCHANGED <<owner, atDevice, strays, calls>>

(* sendToUser: a user without tokens gets no push; *)
PushRead(r, u) ==
    LET tokens == {d \in Device : owner[d] = {u}}
    IN /\ tokens # {}
       /\ Begin([req |-> r, op |-> "push", user |-> u, tokens |-> tokens, at |-> "send"])
       /\ UNCHANGED deviceVars

(* Firebase shows it on the devices of the tokens that were read, whoever  *)
(* is signed in there by now; *)
PushSend(c) ==
    /\ At(c, "push", "send")
    /\ strays' = [d \in Device |->
           IF d \in c.tokens \ lapsed /\ atDevice[d] # {c.user} THEN strays[d] + 1 ELSE strays[d]]
    /\ IF c.tokens \cap lapsed = {} THEN End(c)
       ELSE GoOn(c, [c EXCEPT !.tokens = @ \cap lapsed, !.at = "clean"])
    /\ UNCHANGED <<owner, lapsed, atDevice>>

(* and the tokens it did not know are deleted, whoever's they are by now. *)
PushClean(c) ==
    /\ At(c, "push", "clean")
    /\ owner' = [d \in Device |-> IF d \in c.tokens THEN {} ELSE owner[d]]
    /\ End(c)
    /\ UNCHANGED <<lapsed, atDevice, strays>>

(* Firebase cannot be reached, or the server goes down. *)
PushAbort(c) == End(c) /\ UNCHANGED deviceVars

DevicesNext ==
    \/ \E d \in Device :
          \/ RemoveToken(d) \/ TokenLapses(d)
          \/ \E u \in AppUser : RegisterToken(d, u)
    \/ \E r \in Request, u \in AppUser : PushRead(r, u)
    \/ \E c \in calls : PushSend(c) \/ PushClean(c) \/ PushAbort(c)

DevicesSpec == DevicesInit /\ [][DevicesNext]_<<deviceVars, calls>>

----------------------------------------------------------------------------
(* What a device shows is meant for the one signed in there, from when     *)
(* registerToken or removeToken was committed on: only a push that had     *)
(* read the token before that may still arrive, one per request.           *)
FewStrays == \A d \in Device : strays[d] <= Cardinality(Request)
=============================================================================
