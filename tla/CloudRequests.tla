--------------------------- MODULE CloudRequests ---------------------------
(***************************************************************************)
(* What the cloud client promises to the window that calls it: a call it   *)
(* accepts gets one result, unless the window withdraws it first or gives  *)
(* the client another configuration, which voids all open calls at once.   *)
(* Queries are answered whether or not the server can be reached.          *)
(*                                                                         *)
(* Source: CloudMatchClient.h; CloudMatchClient implements it.             *)
(***************************************************************************)
EXTENDS Naturals

CONSTANTS
    Calls,      \* calls of the window, each made once
    Queries     \* calls that ask the server for something

VARIABLES
    fate,       \* what became of each call
    epoch       \* changes of configuration so far

Fates == {"fresh", "open", "answered", "withdrawn", "void"}

Init == fate = [c \in Calls |-> "fresh"] /\ epoch = 0

\* What can become of a call, while the configuration lasts.
Accept(c) == fate[c] = "fresh" /\ fate' = [fate EXCEPT ![c] = "open"]
Answer(c) == fate[c] = "open" /\ fate' = [fate EXCEPT ![c] = "answered"]
Withdraw(c) == c \in Queries /\ fate[c] = "open" /\ fate' = [fate EXCEPT ![c] = "withdrawn"]

Reset ==
    /\ epoch' = epoch + 1
    /\ fate' = [c \in Calls |-> IF fate[c] = "open" THEN "void" ELSE fate[c]]

Next ==
    \/ Reset
    \/ /\ UNCHANGED epoch /\ fate' # fate
       /\ \E c \in Calls : Accept(c) \/ Answer(c) \/ Withdraw(c)

Spec == Init /\ [][Next]_<<fate, epoch>>

\* A query does not stay open for ever.
QueryEnds == \A c \in Queries : (fate[c] = "open") ~> (fate[c] # "open")

=============================================================================
