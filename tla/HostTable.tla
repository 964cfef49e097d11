----------------------------- MODULE HostTable -----------------------------
(***************************************************************************)
(* What a scan promises about the hosts it reports, whatever its send      *)
(* schedule: one table from IPv4 address to hardware address that every    *)
(* accepted reply is offered to in arrival order.  The first address heard *)
(* for an IPv4 address keeps it for good; a report is made only when every *)
(* differing address heard for it (a rival) has been named in a warning;   *)
(* and a warning names only addresses that were really heard.              *)
(***************************************************************************)
CONSTANTS
    Ip,      \* IPv4 addresses
    Mac,     \* hardware addresses
    None     \* "no entry"

VARIABLES
    table,   \* table[ip]: the hardware address kept for ip, or None
    claims,  \* pairs <<ip, mac>> of the accepted replies heard so far
    named,   \* pairs <<ip, mac>> some warning says are ignored
    outcome  \* "running", "reported" or "failed"

vars == <<table, claims, named, outcome>>

Rivals(t, c) == {claim \in c : t[claim[1]] # claim[2]}

Init ==
    /\ table = [ip \in Ip |-> None]
    /\ claims = {}
    /\ named = {}
    /\ outcome = "running"

\* Warnings are never withdrawn and name only what was heard.
WarningsGrow ==
    /\ named \subseteq named'
    /\ named' \subseteq claims'

\* An accepted reply: the first address heard for ip enters the table.
Hear(ip, mac) ==
    /\ outcome = "running"
    /\ claims' = claims \cup {<<ip, mac>>}
    /\ table' = IF table[ip] = None THEN [table EXCEPT ![ip] = mac] ELSE table
    /\ WarningsGrow
    /\ UNCHANGED outcome

Warn ==
    /\ outcome = "running"
    /\ WarningsGrow
    /\ UNCHANGED <<table, claims, outcome>>

\* The result is handed to the caller, every rival named.
Report ==
    /\ outcome = "running"
    /\ outcome' = "reported"
    /\ WarningsGrow
    /\ Rivals(table, claims) \subseteq named'
    /\ UNCHANGED <<table, claims>>

\* A poll, receive or timing error: the caller gets the error and no table.
Fail ==
    /\ outcome = "running"
    /\ outcome' = "failed"
    /\ UNCHANGED <<table, claims, named>>

Next ==
    \/ \E ip \in Ip, mac \in Mac : Hear(ip, mac)
    \/ Warn
    \/ Report
    \/ Fail

Spec == Init /\ [][Next]_vars
=============================================================================
