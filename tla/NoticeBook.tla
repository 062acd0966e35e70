----------------------------- MODULE NoticeBook -----------------------------
(***************************************************************************)
(* What the review-first queue of app/operator.py promises about a notice, *)
(* without requests, rows or ids: it is drafted once, waits for a person   *)
(* or does not, and is decided once and for good.  An exception may break  *)
(* the request it is decided in; it is lost at most where the queue may    *)
(* lose anything at all.                                                   *)
(***************************************************************************)
EXTENDS Naturals

CONSTANTS
    Notices,  \* drafted messages
    MayLose   \* whether a waiting notice may be lost

VARIABLES
    fate,     \* where each notice is
    copies,   \* messages that left for it
    unknown   \* those whose sender never learnt that they left

bookVars == <<fate, copies, unknown>>

BookInit ==
    /\ fate = [n \in Notices |-> "new"]
    /\ copies = [n \in Notices |-> 0]
    /\ unknown = [n \in Notices |-> 0]

Turn(n, from, to) ==
    /\ fate[n] = from
    /\ fate' = [fate EXCEPT ![n] = to]

(* The pipeline comes to a notice: it is drafted, or the switch is on. *)
Reach(n) ==
    /\ Turn(n, "new", "drafted") \/ Turn(n, "new", "dropped")
    /\ UNCHANGED <<copies, unknown>>

(* It is put before a person. *)
Submit(n) ==
    /\ Turn(n, "drafted", "waiting")
    /\ UNCHANGED <<copies, unknown>>

(* It is sent, by the pipeline or by the person. *)
Send(n) ==
    /\ Turn(n, "drafted", "sent") \/ Turn(n, "waiting", "sent")
    /\ copies' = [copies EXCEPT ![n] = copies[n] + 1]
    /\ UNCHANGED unknown

(* The pipeline's own message fails, and nobody looks. *)
Drop(n) ==
    /\ Turn(n, "drafted", "dropped")
    /\ UNCHANGED <<copies, unknown>>

(* It is sent and the answer is lost: it waits on. *)
SendUnknown(n) ==
    /\ fate[n] = "waiting"
    /\ copies' = [copies EXCEPT ![n] = copies[n] + 1]
    /\ unknown' = [unknown EXCEPT ![n] = unknown[n] + 1]
    /\ UNCHANGED fate

Refuse(n) ==
    /\ Turn(n, "waiting", "rejected")
    /\ UNCHANGED <<copies, unknown>>

(* The request that decides about it breaks off, with it or without a copy *)
(* on its way: nobody has it any more.                                     *)
Break(n) ==
    /\ Turn(n, "waiting", "broken")
    /\ \/ UNCHANGED <<copies, unknown>>
       \/ /\ copies' = [copies EXCEPT ![n] = copies[n] + 1]
          /\ unknown' = [unknown EXCEPT ![n] = unknown[n] + 1]

(* Some of what was drafted or waits is gone. *)
Lose ==
    /\ MayLose
    /\ \E gone \in SUBSET {n \in Notices : fate[n] \in {"drafted", "waiting"}} :
        fate' = [n \in Notices |->
                   IF n \notin gone THEN fate[n]
                   ELSE IF fate[n] = "drafted" THEN "dropped" ELSE "lost"]
    /\ UNCHANGED <<copies, unknown>>

BookNext ==
    \/ \E n \in Notices :
        Reach(n) \/ Submit(n) \/ Send(n) \/ Drop(n) \/ SendUnknown(n) \/ Refuse(n)
        \/ Break(n)
    \/ Lose

BookSpec == BookInit /\ [][BookNext]_bookVars
=============================================================================
