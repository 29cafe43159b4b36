----------------------------- MODULE VpnContract -----------------------------
(***************************************************************************)
(* What AnyConnectVpnService relies on when it calls                       *)
(* MinimalVpnEngine.connect.  One call is a record of                      *)
(*   phase    "load" (it cannot be cancelled yet), "live" or "over"        *)
(*   up       its VPN interface exists                                     *)
(*   said     it has called onConnected                                    *)
(*   heard    a cancel has reached it                                      *)
(*   outcome  how it ended: it returned ("quiet"), or it threw because the *)
(*            tunnel was "lost", a route refresh failed ("dns"), or the    *)
(*            login or the set-up of the interface "failed".               *)
(* AndroidEngine implements these steps; AndroidService is built on them.  *)
(***************************************************************************)

Outcomes == {"quiet", "lost", "dns", "failed"}

Calls == [phase : {"load", "live", "over"}, up : BOOLEAN, said : BOOLEAN,
          heard : BOOLEAN, outcome : {"none"} \cup Outcomes]

Fresh == [phase |-> "load", up |-> FALSE, said |-> FALSE, heard |-> FALSE,
          outcome |-> "none"]

\* What a call can do by itself.  It can be cancelled once it has begun:
Begun(c) == [c EXCEPT !.phase = "live"]

\* With static rules the first interface is the final one, and announced.
Risen(c) ==
  {[c EXCEPT !.up = TRUE, !.said = s] : s \in {TRUE, c.said}} \ {c}

\* It ends without an exception only when it was told to or has had an
\* interface; what failed to begin is no lost tunnel.
Ended(c) ==
  LET possible == {o \in Outcomes : /\ o = "quiet" => c.heard \/ c.up
                                    /\ o = "lost" => c.phase = "live"
                                    /\ o = "dns" => c.up
                                    /\ o = "failed" => ~c.said}
  IN  {[c EXCEPT !.phase = "over", !.up = FALSE, !.outcome = o] : o \in possible}

Own(c) ==
  CASE c.phase = "load" -> {Begun(c)} \cup Ended(c)
    [] c.phase = "live" -> Risen(c) \cup Ended(c)
    [] c.phase = "over" -> {}

\* cancel(), by another thread.
Hears(c) == IF c.phase = "live" THEN {[c EXCEPT !.heard = TRUE]} ELSE {}
=============================================================================
