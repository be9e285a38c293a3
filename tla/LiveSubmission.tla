--------------------------- MODULE LiveSubmission ---------------------------
(***************************************************************************)
(* What the live-order safety protocol promises, without threads, rows,    *)
(* heads or gates: a confirmation starts one submission at most, one       *)
(* submission is open at a time, the broker is called once and only for    *)
(* the open submission, nothing starts while trading is stopped, and       *)
(* trading resumes only when no submission is open.  LiveSafety.tla is     *)
(* shown to implement this.                                                *)
(***************************************************************************)
EXTENDS Naturals

CONSTANT Confirmations

VARIABLES confirmed, \* confirmations that were issued
          used,      \* confirmations that have started a submission
          open,      \* confirmations whose submission is unresolved
          called,    \* confirmations for which the broker was called
          stopped    \* whether the kill switch is active

submissionVars == <<confirmed, used, open, called, stopped>>

Init == /\ confirmed = {} /\ used = {} /\ open = {} /\ called = {}
        /\ stopped = FALSE

Confirm(c) == /\ c \notin confirmed
              /\ confirmed' = confirmed \cup {c}
              /\ UNCHANGED <<used, open, called, stopped>>

Start(c) == /\ c \in confirmed \ used
            /\ open = {}
            /\ ~ stopped
            /\ used' = used \cup {c}
            /\ open' = {c}
            /\ UNCHANGED <<confirmed, called, stopped>>

CallBroker(c) == /\ c \in open \ called
                 /\ called' = called \cup {c}
                 /\ UNCHANGED <<confirmed, used, open, stopped>>

Acknowledge(c) == /\ c \in open \cap called
                  /\ open' = {}
                  /\ UNCHANGED <<confirmed, used, called, stopped>>

\* An outcome nobody knows resolves the submission and stops trading at once.
GiveUp(c) == /\ c \in open \cap called
             /\ open' = {}
             /\ stopped' = TRUE
             /\ UNCHANGED <<confirmed, used, called>>

Stop == /\ stopped' = TRUE
        /\ UNCHANGED <<confirmed, used, open, called>>

Resume == /\ stopped
          /\ open = {}
          /\ stopped' = FALSE
          /\ UNCHANGED <<confirmed, used, open, called>>

Next == \/ \E c \in Confirmations :
              \/ Confirm(c) \/ Start(c) \/ CallBroker(c) \/ Acknowledge(c) \/ GiveUp(c)
        \/ Stop \/ Resume

Spec == Init /\ [][Next]_submissionVars
=============================================================================
