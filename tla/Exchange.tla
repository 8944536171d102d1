------------------------------ MODULE Exchange ------------------------------
(***************************************************************************)
(* What a link to a device promises to the code above it.  A call is       *)
(* answered with the whole answer to itself, or fails.  When a call failed *)
(* and its answer is still to come, the link owes that answer, and a later *)
(* call may be given it in place of its own: the answer is then late but   *)
(* whole, it is given once, and the call that took it is owed its own.     *)
(***************************************************************************)
EXTENDS Naturals

VARIABLES
    current,  \* the call that waits for its answer, 0 when none does
    owed,     \* failed calls whose answers may still come
    given     \* calls whose answers have been given

vars == <<current, owed, given>>

Init ==
    /\ current = 0
    /\ owed = {}
    /\ given = {}

Ask ==
    /\ current = 0
    /\ current' \in Nat \ ({0} \cup owed \cup given)
    /\ UNCHANGED <<owed, given>>

Return ==
    /\ current # 0
    /\ \E of \in (owed \cup {current}) \ given :
          /\ given' = given \cup {of}
          /\ owed' \subseteq (owed \cup {current}) \ {of}
    /\ current' = 0

Fail ==
    /\ current # 0
    /\ owed' \subseteq owed \cup {current}
    /\ current' = 0
    /\ UNCHANGED given

\* A new connection owes less than the old one did.
Reconnect ==
    /\ current = 0
    /\ owed' \subseteq owed
    /\ UNCHANGED <<current, given>>

Next == Ask \/ Return \/ Fail \/ Reconnect

Spec == Init /\ [][Next]_vars
=============================================================================
