---------------------------- MODULE ChangesOnce ----------------------------
(***************************************************************************)
(* What making a change of a combat promises to the people at the table,   *)
(* whatever happens on the way: each thing wanted is made at most once,    *)
(* the changes are in one order with no gap, the streams are told only of  *)
(* changes that were made, and somebody is answered "done" only about a    *)
(* change the streams were told of.  CombatWrite implements it.            *)
(***************************************************************************)
EXTENDS Integers

CONSTANT Wishes  \* what people may want done

VARIABLES
    last,   \* the number of the last change
    made,   \* the changes made, with their numbers
    told,   \* the changes the streams were told of
    heard   \* the changes somebody was answered about

Init ==
    /\ last = 1
    /\ made = {} /\ told = {} /\ heard = {}

Numbers == {m.at : m \in made}

(* A thing is done, once. *)
Make(w) ==
    /\ \A m \in made : m.wish # w
    /\ last' = last + 1
    /\ made' = made \cup {[wish |-> w, at |-> last']}
    /\ UNCHANGED <<told, heard>>

(* The streams are told of some of what was done. *)
Tell ==
    /\ told \subseteq told' /\ told' \subseteq Numbers
    /\ UNCHANGED <<last, made, heard>>

(* Somebody is answered. *)
Hear ==
    /\ \E n \in told : heard' = heard \cup {n}
    /\ UNCHANGED <<last, made, told>>

Next == (\E w \in Wishes : Make(w)) \/ Tell \/ Hear

Spec == Init /\ [][Next]_<<last, made, told, heard>>
=============================================================================
