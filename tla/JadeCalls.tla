------------------------------ MODULE JadeCalls ------------------------------
(***************************************************************************)
(* What JadeAPI (src/src/jade/jadeapi.h) promises its clients: a call is     *)
(* made once and its response handler is invoked at most once, after that.  *)
(***************************************************************************)
EXTENDS Naturals

CONSTANT Call      \* calls of the API's functions

VARIABLES made,    \* calls made so far
          answers  \* answers[c]: how often the handler of c was invoked

Init == made = {} /\ answers = [c \in Call |-> 0]

Make(c) ==
    /\ c \notin made
    /\ made' = made \cup {c}
    /\ UNCHANGED answers

Answer(c) ==
    /\ c \in made
    /\ answers[c] = 0
    /\ answers' = [answers EXCEPT ![c] = 1]
    /\ UNCHANGED made

Next == \E c \in Call : Make(c) \/ Answer(c)

Spec == Init /\ [][Next]_<<made, answers>>
=============================================================================
