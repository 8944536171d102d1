---------------------------- MODULE LedgerOracle ----------------------------
(***************************************************************************)
(* What the host promises a Ledger that runs a command on data it does not *)
(* hold itself: a question about the data is answered with exactly that    *)
(* piece of the data, or not at all.                                       *)
(***************************************************************************)
CONSTANTS
    Questions,   \* preimages and leaf proofs the device may ask for
    Content(_),  \* the answer to a question, a sequence of elements
    Nothing,     \* no question
    NoAnswer     \* no answer yet

VARIABLES question, answer

Init == question = Nothing /\ answer = NoAnswer

\* A short answer comes at once, a long one takes further messages.
Ask(q) == question' = q /\ answer' \in {NoAnswer, Content(q)}

Answer == /\ question # Nothing /\ answer = NoAnswer
          /\ answer' = Content(question)
          /\ UNCHANGED question

Drop == question' = Nothing /\ answer' = NoAnswer

Next == (\E q \in Questions : Ask(q)) \/ Answer \/ Drop

Spec == Init /\ [][Next]_<<question, answer>>
=============================================================================
