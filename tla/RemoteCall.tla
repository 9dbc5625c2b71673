----------------------------- MODULE RemoteCall -----------------------------
(***************************************************************************)
(* What the remote SCSI transport promises to libscg: a call is carried    *)
(* out at most once, by the other end, and while the connection lasts it   *)
(* returns the answer of that very call.  After that a call still returns, *)
(* with an answer nobody vouches for.                                      *)
(***************************************************************************)
CONSTANTS Calls, NoCall, Answers, None

VARIABLES
    call,   \* the call in progress, or NoCall
    due,    \* it has still to be carried out
    answer, \* its outcome, once it was
    result, \* what the caller was told last
    up      \* the connection lasts

vars == <<call, due, answer, result, up>>

Init == call = NoCall /\ due = FALSE /\ up = TRUE
        /\ answer = None /\ result = None

Ask ==
    /\ call = NoCall
    /\ call' \in Calls
    /\ due' \in {due, up}
    /\ result' = None
    /\ UNCHANGED <<answer, up>>
Perform ==
    /\ due
    /\ due' = FALSE
    /\ answer' \in Answers
    /\ UNCHANGED <<call, result, up>>
Answer ==
    /\ call # NoCall /\ ~due /\ up
    /\ call' = NoCall /\ result' = answer /\ answer' = None
    /\ up' \in {TRUE, FALSE}
    /\ UNCHANGED due
Guess ==
    /\ call # NoCall /\ ~up
    /\ call' = NoCall /\ result' \in Answers /\ answer' = None
    /\ UNCHANGED <<due, up>>
Break ==
    /\ up' = FALSE
    /\ due' \in {due, FALSE}
    /\ UNCHANGED <<call, answer, result>>

Next == Ask \/ Perform \/ Answer \/ Guess \/ Break

Spec == Init /\ [][Next]_vars
=============================================================================
