----------------------------- MODULE MCChannel -----------------------------
(* A behaviour is about the tab's subscriptions or about its account: in   *)
(* the first nobody signs in or out or watches an account; in the second   *)
(* the page has one component of each symbol, which stays.                 *)
EXTENDS Channel

VARIABLE subject

Ann == CHOOSE u \in Users : TRUE

Init ==
    /\ ChannelInit
    /\ subject \in {"symbols", "account"}
    /\ subject = "symbols" => cookie \in {Nobody, Ann}
    /\ \A u \in Users : book[u].open = (subject = "account" /\ u = Ann)

Mount == \E s \in Symbols : tab.counts[s] = 0 /\ Subscribe(s)

SymbolsNext == PageStep \/ ClientStep \/ GatewayStep \/ FaultStep

AccountNext ==
    \/ Mount
    \/ tab.watched # cookie /\ WatchAccount
    \/ SignInOrOut
    \/ ClientStep
    \/ GatewayStep
    \/ FaultStep
    \/ Trade(Ann)
    \/ Transfer(Ann)
    \/ EngineStep
    \/ \E u \in Users : BuildStep(u)

Next ==
    /\ UNCHANGED subject
    /\ IF subject = "symbols" THEN SymbolsNext ELSE AccountNext

Spec == Init /\ [][Next]_<<subject, channelVars>> /\ Fairness
============================================================================
