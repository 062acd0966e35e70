------------------------------ MODULE ModelChain ------------------------------
(***************************************************************************)
(* complete() in app/llm.py: one call works down a chain of models until   *)
(* one of them answers.  A busy model or an empty answer passes the call   *)
(* on; a request the provider refuses, or a client nobody can build for    *)
(* want of a key, ends it where it stands.                                 *)
(*                                                                         *)
(* The provider is external: each model answers, is busy (429, 5xx, a      *)
(* timeout), refuses (400, 404) or says nothing, as it likes.  What the    *)
(* log is told of a call is kept with the call.                            *)
(***************************************************************************)
EXTENDS Naturals, FiniteSets, SequencesExt

CONSTANTS
    Callers,    \* who may call complete() at the same time
    Primary,    \* LLM_MODEL
    Fallbacks,  \* LLM_FALLBACK_MODELS, in order, repetitions and all
    NoModel,    \* the empty name
    HasKey      \* whether GOOGLE_API_KEY is set

ASSUME KeyAssumption == HasKey \in BOOLEAN /\ Fallbacks \in Seq(Range(Fallbacks))

VARIABLE call   \* each caller's call: where it is in the chain, which models
                \* failed it and why, and the event it recorded

Names == <<Primary>> \o Fallbacks

(* model_chain: every name in the place of its first appearance *)
Kept == {i \in DOMAIN Names : Names[i] # NoModel /\ \A j \in 1..(i - 1) : Names[j] # Names[i]}

Chain ==
    [n \in 1..Cardinality(Kept) |->
        Names[CHOOSE i \in Kept : Cardinality({j \in Kept : j <= i}) = n]]

NoCall == [state |-> "none", at |-> 0, failed |-> <<>>, event |-> "none"]

ChainInit == call = [c \in Callers |-> NoCall]

Asking(c) == call[c].state = "asking"

OnLast(c) == call[c].at = Len(Chain)

FailedWith(c, why) == Append(call[c].failed, [model |-> Chain[call[c].at], why |-> why])

(* The call is over; an exception reaches the caller unless it answered. *)
Ends(c, state, failed, event) ==
    call' = [call EXCEPT ![c] = [call[c] EXCEPT !.state = state, !.failed = failed,
                                                !.event = event]]

PassesOn(c, why) ==
    call' = [call EXCEPT ![c] = [call[c] EXCEPT !.at = call[c].at + 1,
                                                !.failed = FailedWith(c, why)]]

Call(c) ==
    call' = [call EXCEPT ![c] =
              IF Chain = <<>> \/ ~HasKey THEN [NoCall EXCEPT !.state = "failed"]
              ELSE [NoCall EXCEPT !.state = "asking", !.at = 1]]

ModelAnswers(c) ==
    /\ Asking(c)
    /\ Ends(c, "answered", call[c].failed,
            IF call[c].at > 1 THEN "llm.failover" ELSE "none")

(* Deviation: whatever ends the chain is recorded as having exhausted it. *)
EndEventExhausted(why) == "llm.exhausted"

EndEvent(why) == IF why = "refused" THEN "llm.unrecoverable" ELSE "llm.exhausted"

(* A retryable status, a timeout, or no text at all. *)
ModelFails(c, why) ==
    /\ Asking(c)
    /\ IF OnLast(c) THEN Ends(c, "failed", FailedWith(c, why), EndEvent(why))
       ELSE PassesOn(c, why)

(* Retrying a 400 or a 404 wastes the clock. *)
ModelRefuses(c) ==
    /\ Asking(c)
    /\ Ends(c, "failed", FailedWith(c, "refused"), EndEvent("refused"))

ModelStep(c) ==
    \/ ModelAnswers(c)
    \/ \E why \in {"busy", "empty"} : ModelFails(c, why)
    \/ ModelRefuses(c)

-----------------------------------------------------------------------------
(* "The log is the evidence for the failover story, so it has to say which *)
(* of the two happened" (llm.py:124): exhausted means that every model     *)
(* failed this call and none refused it, unrecoverable that one refused    *)
(* it, and a failover names exactly the models before the one that served. *)
ChainHonest ==
    \A c \in Callers :
        LET failed == call[c].failed
            Tried == [i \in DOMAIN failed |-> failed[i].model]
            refused == \E i \in DOMAIN failed : failed[i].why = "refused"
        IN  /\ call[c].event = "llm.exhausted" => Tried = Chain /\ ~refused
            /\ call[c].event = "llm.unrecoverable" => refused
            /\ call[c].event = "llm.failover" =>
                 Tried # <<>> /\ Tried = SubSeq(Chain, 1, call[c].at - 1)
=============================================================================
