----------------------------- MODULE BuildOnce -----------------------------
(***************************************************************************)
(* What ClientCache promises: a call is answered in one step, with the     *)
(* client of its key, which is built if there is none and then stays, or   *)
(* with an error that leaves no trace.                                     *)
(***************************************************************************)
CONSTANTS Caller, Key, Client, None, Error

VARIABLES
    made,    \* key |-> its client, or None
    asked,   \* caller |-> the key it asks for, or None
    answer   \* caller |-> the client it was given, Error, or None yet

Init ==
    /\ made = [k \in Key |-> None]
    /\ asked = [p \in Caller |-> None]
    /\ answer = [p \in Caller |-> None]

Ask(p) ==
    /\ asked[p] = None
    /\ \E k \in Key : asked' = [asked EXCEPT ![p] = k]
    /\ UNCHANGED <<made, answer>>

Answer(p) ==
    /\ asked[p] # None /\ answer[p] = None
    /\ \/ /\ made[asked[p]] # None
          /\ answer' = [answer EXCEPT ![p] = made[asked[p]]]
          /\ UNCHANGED made
       \/ /\ made[asked[p]] = None
          /\ \E v \in Client :
                /\ made' = [made EXCEPT ![asked[p]] = v]
                /\ answer' = [answer EXCEPT ![p] = v]
       \/ /\ made[asked[p]] = None
          /\ answer' = [answer EXCEPT ![p] = Error]
          /\ UNCHANGED made
    /\ UNCHANGED asked

Leave(p) ==
    /\ answer[p] # None
    /\ asked' = [asked EXCEPT ![p] = None]
    /\ answer' = [answer EXCEPT ![p] = None]
    /\ UNCHANGED made

Next == \E p \in Caller : Ask(p) \/ Answer(p) \/ Leave(p)

Spec == Init /\ [][Next]_<<made, asked, answer>>
=============================================================================
