----------------------------- MODULE AddressBook -----------------------------
(***************************************************************************)
(* What the address service promises a user: the requests, however many    *)
(* are under way, are carried out one after the other, each between its    *)
(* call and its answer.  A request takes effect as a whole or not at all,  *)
(* and the default goes from one address to another in one step.           *)
(***************************************************************************)
CONSTANTS Ids, Requests, None

VARIABLES
    book,  \* the addresses: "none", "plain" or "default"
    call   \* what each request was called with, or the answer it gave last

bookVars == <<book, call>>

Answered(a) == [pending |-> FALSE, op |-> "add", id |-> None, dflt |-> FALSE, answer |-> a]

Init ==
    /\ book = [i \in Ids |-> "none"]
    /\ call = [r \in Requests |-> Answered("none")]

\* The user asks for an address to be added (under a new id), changed or deleted.
Ask(r, op, i, dflt) ==
    /\ ~call[r].pending
    /\ op = "add" => book[i] = "none"
    /\ op = "delete" => ~dflt
    /\ call' = [call EXCEPT ![r] = [pending |-> TRUE, op |-> op, id |-> i, dflt |-> dflt,
                                    answer |-> "none"]]
    /\ UNCHANGED book

\* The address book with address i as it was asked for: there is one default.
Put(i, dflt) ==
    [j \in Ids |-> IF j = i THEN IF dflt THEN "default" ELSE "plain"
                   ELSE IF dflt /\ book[j] = "default" THEN "plain" ELSE book[j]]
Remove(i) == [book EXCEPT ![i] = "none"]

\* The request takes effect; the answer of the database may get lost.
Perform(r) ==
    LET c == call[r] IN
    /\ c.pending
    /\ c.op = "add" <=> book[c.id] = "none"
    /\ book' = IF c.op = "delete" THEN Remove(c.id) ELSE Put(c.id, c.dflt)
    /\ \E a \in {"ok", IF c.op = "delete" THEN "not_found" ELSE "error"} :
          call' = [call EXCEPT ![r] = Answered(a)]

\* It has no effect, and the answer says so.
Refuse(r) ==
    /\ call[r].pending
    /\ \E a \in {"error", "not_found"} :
          /\ a = "not_found" => call[r].op # "add"
          /\ call' = [call EXCEPT ![r] = Answered(a)]
    /\ UNCHANGED book

Next == \E r \in Requests :
    \/ \E op \in {"add", "update", "delete"}, i \in Ids, dflt \in BOOLEAN : Ask(r, op, i, dflt)
    \/ Perform(r)
    \/ Refuse(r)

Spec == Init /\ [][Next]_bookVars
=============================================================================
