------------------------------ MODULE MCOutbound ------------------------------
(* A book of two debtors for Outbound.tla. *)
EXTENDS Outbound, TLC

CONSTANTS own1, own2, team  \* addresses

Row(opted, email, merchant) == [opted |-> opted, email |-> email, merchant |-> merchant]

MCLedgers ==
    {<<Row(FALSE, own1, TRUE), Row(FALSE, None, TRUE)>>,
     <<Row(FALSE, None, TRUE), Row(TRUE, own2, TRUE)>>,
     <<Row(FALSE, None, TRUE), Row(FALSE, own2, FALSE)>>}

MCBooks ==
    {(1 :> [email |-> own1, phone |-> "known"]) @@ (2 :> [email |-> own2, phone |-> None])}

Environment(live, key, allowed, contacts) ==
    [live |-> live, key |-> key, allowed |-> allowed, contacts |-> contacts]

MCEnvs ==
    {Environment(TRUE, TRUE, None, None),
     Environment(TRUE, TRUE, team, None),
     Environment(TRUE, TRUE, own1, Invalid)}

Decided(kind, channel, review) == [kind |-> kind, channel |-> channel, review |-> review]

MCDecisions ==
    {Decided("ask", "email", FALSE), Decided("ask", "email", TRUE),
     Decided("other", "whatsapp", FALSE),
     Decided("wait", "none", FALSE), Decided("handoff", "none", TRUE)}

MCAsks == {d \in MCDecisions : d.kind = "ask"}
=============================================================================
