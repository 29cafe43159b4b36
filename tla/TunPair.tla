------------------------------- MODULE TunPair -------------------------------
(***************************************************************************)
(* What internal/tun promises to its callers, the connection code of       *)
(* cmd/main.go and the monitor: one pair of processes that is down, up, or *)
(* broken (OpenConnect has a login but the pair carries no traffic).       *)
(* SessionControl relies on it; TunSession implements it.                  *)
(***************************************************************************)

VARIABLES tun, busy, result

pair == <<tun, busy, result>>

Init == tun = "down" /\ busy = "none" /\ result = "none"

\* Start ends whatever was there, and may refuse at once.
Start ==
  /\ busy = "none"
  /\ tun' = "down"
  /\ \/ busy' = "start" /\ result' = "none"
     \/ UNCHANGED busy /\ result' = "error"

\* A start that fails leaves nothing; one that succeeds may already have lost
\* one of the two.
EndStart ==
  /\ busy = "start" /\ busy' = "none"
  /\ \/ result' = "ok" /\ tun' \in {"up", "broken"}
     \/ result' \in {"error", "auth", "late"} /\ tun' = "down"

\* A refresh needs a login and never gives it up, even when it fails.
Refresh ==
  /\ busy = "none"
  /\ \/ /\ tun # "down"
        /\ tun' = "broken" /\ busy' = "refresh" /\ result' = "none"
     \/ UNCHANGED <<tun, busy>> /\ result' = "error"

EndRefresh ==
  /\ busy = "refresh" /\ busy' = "none"
  /\ \/ result' = "ok" /\ tun' \in {"up", "broken"}
     \/ result' = "error" /\ tun' = "broken"

Lose == tun = "up" /\ tun' = "broken" /\ UNCHANGED <<busy, result>>

Stop == busy = "none" /\ tun' = "down" /\ UNCHANGED busy /\ result' = "none"

\* The program that called ends.
Crash == tun' = "down" /\ busy' = "none" /\ result' = "none"

Next == Start \/ EndStart \/ Refresh \/ EndRefresh \/ Lose \/ Stop \/ Crash

Spec == Init /\ [][Next]_pair
=============================================================================
