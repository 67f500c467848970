---------------------------- MODULE CheckerLease ----------------------------
(***************************************************************************)
(* What the checker pool of a language-service project promises to the     *)
(* requests it serves, free of slots, condition variables and              *)
(* associations: a type checker is lent to one request at a time, and a    *)
(* request never works with two checkers at once, because types obtained   *)
(* from different checkers must not be mixed.                              *)
(***************************************************************************)
CONSTANTS Request, Checker, NoChecker

VARIABLE lent    \* the checker each request holds, or NoChecker

TypeOK == lent \in [Request -> Checker \cup {NoChecker}]

Init == lent = [r \in Request |-> NoChecker]

Lend(r, c) ==
    /\ lent[r] = NoChecker
    /\ \A q \in Request : lent[q] # c
    /\ lent' = [lent EXCEPT ![r] = c]

Return(r) ==
    /\ lent[r] # NoChecker
    /\ lent' = [lent EXCEPT ![r] = NoChecker]

Next == \E r \in Request : Return(r) \/ \E c \in Checker : Lend(r, c)

Spec == Init /\ [][Next]_lent
=============================================================================
