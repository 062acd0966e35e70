---------------------------- MODULE CaptureBook ----------------------------
(***************************************************************************)
(* What the settlement handler of app/server.py promises about money,      *)
(* without requests, locks or copies: a capture is taken at the gateway,   *)
(* and it is credited to the invoice at most once and never taken back.    *)
(***************************************************************************)
CONSTANT Orders

VARIABLES
    captured,  \* orders the debtor has paid
    credited   \* captures counted into amount_received_paise, with the
               \* number of times

bookVars == <<captured, credited>>

BookInit ==
    /\ captured = {}
    /\ credited = [o \in Orders |-> 0]

TakeCapture(o) ==
    /\ o \in Orders \ captured
    /\ captured' = captured \cup {o}
    /\ UNCHANGED credited

CreditOnce(o) ==
    /\ o \in captured
    /\ credited[o] = 0
    /\ credited' = [credited EXCEPT ![o] = 1]
    /\ UNCHANGED captured

BookNext == \E o \in Orders : TakeCapture(o) \/ CreditOnce(o)

BookSpec == BookInit /\ [][BookNext]_bookVars
=============================================================================
