--------------------------- MODULE MCStreamBridge ---------------------------
(* Tool calls of the streams TLC explores: a call of each type, of which a   *)
(* turn makes two; for the violation run one call the gateway localizes and *)
(* one it bridges as a custom tool.                                          *)
EXTENDS StreamBridge, TLC

MCToolType == "call_1" :> "localized" @@ "call_2" :> "custom"
MCTools == DOMAIN MCToolType
MCTurn == {MCTools}

MCAllToolTypes == MCToolType @@ "call_3" :> "function" @@ "call_4" :> "web_search"
MCAllTools == DOMAIN MCAllToolTypes
MCTurns == {{"call_1", "call_2"}, {"call_1", "call_3"}, {"call_4"}}
=============================================================================
