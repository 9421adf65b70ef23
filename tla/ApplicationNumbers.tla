-------------------------- MODULE ApplicationNumbers ---------------------------
(***************************************************************************)
(* The number of an application: LoanApplicationsService.create draws it   *)
(* from a database sequence, which it first sets past the numbers in the   *)
(* table, in three statements of which any two may have another handler    *)
(* between them.  A submission is an application that passed the checks of *)
(* LendingTerms; the year and the product in a number are left out.        *)
(***************************************************************************)
EXTENDS Handlers, FiniteSets, Naturals

CONSTANTS
    Submission, \* applications that passed the checks of LendingTerms
    Imported,   \* how many numbered applications were there before the code ran
    MaxTries,   \* how often create tries to insert: 5 in the code
    MaxNumber   \* bound on the sequence when an application starts

ASSUME NumbersAssumption == Imported \subseteq Nat /\ MaxTries \in Nat \ {0} /\ MaxNumber \in Nat

VARIABLES
    imported,    \* applications 1..imported were imported
    sequence,    \* loan_application_seq: last_value and is_called
    appNumber    \* applicationNumber of each one, 0 before it is stored

numberVars == <<imported, sequence, appNumber>>

----------------------------------------------------------------------------
(* raced is history: since the handler last looked for the highest number, *)
(* another has stored one or set the sequence.                             *)
StoreCall == [req : Request, op : {"store"}, submission : Submission, max : Nat, number : Nat,
              tries : 0..MaxTries - 1, raced : BOOLEAN,
              at : {"syncMax", "syncLast", "syncSet", "number", "insert"}]

NumbersTypeOK ==
    /\ imported \in Imported
    /\ sequence \in [last : Nat, called : BOOLEAN]
    /\ appNumber \in [Submission -> Nat]
    /\ calls \in SUBSET StoreCall

(* The migration creates the sequence; an import may come after it. *)
NumbersInit ==
    /\ imported \in Imported
    /\ sequence = [last |-> 1, called |-> FALSE]
    /\ appNumber = [a \in Submission |-> 0]
    /\ calls = {}

----------------------------------------------------------------------------
Numbered == {a \in Submission : appNumber[a] # 0}
Taken == (1..imported) \cup {appNumber[a] : a \in Numbered}
Highest == IF Taken = {} THEN 0 ELSE CHOOSE n \in Taken : \A m \in Taken : m <= n

StoreBegin(r, a) ==
    /\ sequence.last < MaxNumber
    /\ a \notin Numbered
    /\ \A c \in calls : c.op = "store" => c.submission # a
    /\ Begin([req |-> r, op |-> "store", submission |-> a, max |-> 0, number |-> 0, tries |-> 0,
              raced |-> FALSE, at |-> "syncMax"])
    /\ UNCHANGED numberVars

(* syncApplicationNumberSequence reads the highest number in the table, *)
SyncSkipped(c) == \* goes straight to the sequence
    /\ At(c, "store", "syncMax")
    /\ GoOn(c, [c EXCEPT !.at = "number"])
    /\ UNCHANGED numberVars

SyncMax(c) ==
    /\ At(c, "store", "syncMax")
    /\ GoOn(c, [c EXCEPT !.max = Highest, !.raced = FALSE,
                       !.at = IF Highest = 0 THEN "number" ELSE "syncLast"])
    /\ UNCHANGED numberVars

(* the last value of the sequence, which is 1 before its first call, *)
SyncLast(c) ==
    /\ At(c, "store", "syncLast")
    /\ GoOn(c, [c EXCEPT !.at = IF sequence.last >= c.max THEN "number" ELSE "syncSet"])
    /\ UNCHANGED numberVars

RacedBy(c) == {[d EXCEPT !.raced = TRUE] : d \in calls \ {c}}

(* and sets the sequence to what it read, whatever it has become since. *)
SyncSet(c) ==
    /\ At(c, "store", "syncSet")
    /\ sequence' = [last |-> c.max, called |-> TRUE]
    /\ calls' = RacedBy(c) \cup {[c EXCEPT !.at = "number"]}
    /\ UNCHANGED <<imported, appNumber>>

(* nextval *)
NextValue == IF sequence.called THEN sequence.last + 1 ELSE sequence.last

GenerateNumber(c) ==
    /\ At(c, "store", "number")
    /\ sequence' = [last |-> NextValue, called |-> TRUE]
    /\ GoOn(c, [c EXCEPT !.number = NextValue, !.at = "insert"])
    /\ UNCHANGED <<imported, appNumber>>

(* The insert, under the unique key of applicationNumber. *)
InsertNumbered(c) ==
    /\ At(c, "store", "insert")
    /\ c.number \notin Taken
    /\ appNumber' = [appNumber EXCEPT ![c.submission] = c.number]
    /\ calls' = RacedBy(c)
    /\ UNCHANGED <<imported, sequence>>

LastTry(c) == c.tries + 1 >= MaxTries

(* A number that is taken: synchronise and try again, or give up. *)
NumberCollides(c) ==
    /\ At(c, "store", "insert")
    /\ c.number \in Taken
    /\ IF LastTry(c) THEN End(c)
       ELSE GoOn(c, [c EXCEPT !.tries = @ + 1, !.at = "syncMax"])
    /\ UNCHANGED numberVars

(* An exception or a restart ends a handler where it is. *)
NumbersAbort(c) ==
    /\ End(c)
    /\ UNCHANGED numberVars

----------------------------------------------------------------------------
NumbersNext ==
    \/ \E r \in Request, a \in Submission : StoreBegin(r, a)
    \/ \E c \in calls :
          \/ SyncMax(c) \/ SyncLast(c) \/ SyncSet(c) \/ GenerateNumber(c)
          \/ InsertNumbered(c) \/ NumberCollides(c) \/ NumbersAbort(c)

NumbersSpec == NumbersInit /\ [][NumbersNext]_<<numberVars, calls>>

----------------------------------------------------------------------------
(* A number is drawn in vain, and one of the five tries lost, only if      *)
(* another submission stored one or set the sequence back meanwhile; the   *)
(* numbers that were there before, imported ones included, are passed by   *)
(* the synchronisation, but for the 1 of a sequence not called yet, whose  *)
(* last_value looks used (syncApplicationNumberSequence, create's loop).   *)
CollisionsAreRaces ==
    \A c \in calls : At(c, "store", "insert") /\ c.number \in Taken =>
        c.raced \/ c.number = 1
=============================================================================
