----------------------------- MODULE ReplyOnce -----------------------------
(* What the assistant-run table promises about one user message, whatever   *)
(* the workers, their retries and their failures do: the model is started a *)
(* bounded number of times, at most one start is in charge at any moment,   *)
(* only the one in charge can answer, and the answer is given once.         *)
EXTENDS Naturals

CONSTANTS
    MaxAttempts,   \* Settings.max_model_attempts
    Nobody         \* no start is in charge / no answer yet

VARIABLES
    started,    \* how many starts have been granted; start n is named n
    inCharge,   \* the start that may answer, or Nobody
    answer      \* the start that answered, or Nobody

vars == <<started, inCharge, answer>>

Starts == 1 .. MaxAttempts

TypeOK ==
    /\ started \in 0 .. MaxAttempts
    /\ inCharge \in Starts \cup {Nobody}
    /\ answer \in Starts \cup {Nobody}

Init ==
    /\ started = 0
    /\ inCharge = Nobody
    /\ answer = Nobody

\* A worker is put in charge, in place of one that failed or vanished.
Start ==
    /\ answer = Nobody
    /\ started < MaxAttempts
    /\ started' = started + 1
    /\ inCharge' = started'
    /\ UNCHANGED answer

Answer ==
    /\ inCharge # Nobody
    /\ answer' = inCharge
    /\ inCharge' = Nobody
    /\ UNCHANGED started

GiveUp ==
    /\ inCharge # Nobody
    /\ inCharge' = Nobody
    /\ UNCHANGED <<started, answer>>

Next == Start \/ Answer \/ GiveUp

Spec == Init /\ [][Next]_vars
=============================================================================
