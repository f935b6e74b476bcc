------------------------------- MODULE MCWiFi -------------------------------
(***************************************************************************)
(* Two networks, one of them open; the other takes a passphrase, which may *)
(* be mistyped.                                                            *)
(***************************************************************************)
EXTENDS WiFi

CONSTANTS home, cafe

MCNets  == {home, cafe}
MCOpen  == {cafe}
MCGiven == {[ssid |-> home, type |-> "phrase", phrase |-> p, auto |-> TRUE] : p \in {"right", "wrong"}}
             \cup {[ssid |-> cafe, type |-> "open", phrase |-> "wrong", auto |-> FALSE]}
MCFound == {<<home, FALSE>>}
=============================================================================
