----------------------------- MODULE AndroidEngine ---------------------------
(***************************************************************************)
(* service/MinimalVpnEngine.kt: one call of MinimalVpnEngine.connect.      *)
(* Three threads meet in it: the worker that called connect and runs       *)
(* OpenConnect's main loop, the refresher that resolves the hosts of the   *)
(* routing rules again and again and asks the worker for a new TUN table,  *)
(* and the thread that cancels.                                            *)
(***************************************************************************)
EXTENDS Naturals, VpnContract

CONSTANT MaxSwitches  \* bound: number of table switches the refresher asks for

ASSUME EngineAssumption == MaxSwitches \in Nat \ {0}

VARIABLES
  worker,     \* where the worker is
  refresher,  \* where the refresher is
  stopper,    \* where the thread that cancels is
  result,     \* what mainloop returned
  outcome,    \* how connect ends
  canceled,   \* LibOpenConnect: cancel() was called
  paused,     \* LibOpenConnect: a pause() mainloop has not answered
  stopping, setupFailure, refreshFailure,
  thread,     \* routeRefreshThread is set
  halt,       \* the refresher is interrupted
  pending,    \* pendingTunSwitch is set
  answer,     \* the last request: completed, and with which failure
  asked, installed,  \* the routes last asked for, and those in the table
  table,      \* the interface: "none", the "bootstrap" one or a "final" one
  said,       \* finalRoutesInstalled: onTunnelEstablished was called
  heard,      \* history: cancel found an active client
  missed      \* history: cancel found no client, or stop looked for the
              \* refresher when it ran but its thread was not yet stored

native == <<canceled, paused>>
failures == <<setupFailure, refreshFailure>>
switch == <<pending, answer, asked>>
tun == <<table, installed, said>>
ending == <<result, outcome>>
histories == <<heard, missed>>
vars == <<worker, refresher, stopper, ending, native, stopping, failures,
          thread, halt, switch, tun, histories>>

Values ==
  /\ worker \in {"load", "login", "loop", "assign", "back", "install",
                 "installing", "check", "recheck", "closing", "joining", "gone"}
  /\ refresher \in {"none", "top", "network", "resolve", "ask", "pause",
                    "wait", "sleep", "failing", "record", "cancel", "done"}
  /\ stopper \in {"idle", "withdraw", "cancel", "thread", "join", "clear",
                  "done"}
  /\ result \in {"none", "ok", "error"}
  /\ outcome \in {"none"} \cup Outcomes
  /\ answer \in {"none", "done", "failed", "stopped"}
  /\ asked \in 0..MaxSwitches /\ installed \in 0..MaxSwitches
  /\ table \in {"none", "bootstrap", "final"}

Flags ==
  /\ {canceled, paused, stopping, setupFailure, refreshFailure} \subseteq BOOLEAN
  /\ {thread, halt, pending, said, heard, missed} \subseteq BOOLEAN

\* What the threads find and leave.
Control ==
  /\ outcome # "none" <=> worker \in {"closing", "joining", "gone"}
  /\ pending => answer = "none" /\ refresher \in {"pause", "wait", "done"}
  /\ refresher = "none" => ~thread
  /\ said => table = "final" \/ worker = "gone"

TypeOK == Values /\ Flags /\ Control

\* The first action that ends connect decides how.
Leave(o) == worker' = "closing" /\ outcome' = o

-----------------------------------------------------------------------------
(* Faulty variants of actions below, each with the mistake its name says.   *)

FailSwitch_LeavesNoFailure ==
  /\ refreshFailure' = TRUE /\ answer' = "done" /\ canceled' = TRUE
  /\ Leave("dns")

Check_ForgetsSetup ==
  /\ worker = "check"
  /\ \/ refreshFailure /\ Leave("dns")
     \/ ~refreshFailure /\ worker' = "recheck" /\ UNCHANGED outcome
  /\ UNCHANGED <<refresher, stopper, result, native, stopping, failures, thread,
                 halt, switch, tun, histories>>

Turn_IgnoresCancel ==
  /\ refresher = "top" /\ refresher' = IF halt THEN "done" ELSE "network"
  /\ UNCHANGED <<worker, stopper, ending, native, stopping, failures, thread,
                 halt, switch, tun, histories>>

Record_CancelsFirst ==
  /\ refresher = "record"
  /\ IF canceled
       THEN refreshFailure' = TRUE /\ refresher' = "done" /\ UNCHANGED canceled
       ELSE canceled' = TRUE /\ UNCHANGED <<refreshFailure, refresher>>
  /\ UNCHANGED <<worker, stopper, ending, paused, stopping, setupFailure, thread,
                 halt, switch, tun, histories>>

ReportCancel_Forgotten ==
  /\ refresher = "cancel" /\ refresher' = "done"
  /\ UNCHANGED <<worker, stopper, ending, native, stopping, failures, thread,
                 halt, switch, tun, histories>>

StopWithdraws_KeepsRequest ==
  /\ stopper = "withdraw" /\ stopper' = "cancel"
  /\ answer' = IF pending THEN "stopped" ELSE answer
  /\ UNCHANGED <<worker, refresher, ending, native, stopping, failures, thread,
                 halt, pending, asked, tun, histories>>

-----------------------------------------------------------------------------
(* The worker: connect. *)

\* applyTunSwitch and failTunSwitch: what a switch that fails leaves.
FailSwitch ==
  /\ refreshFailure' = TRUE /\ answer' = "failed" /\ canceled' = TRUE
  /\ Leave("dns")

\* OpenConnectLibrary.load; then cancel() can find the client.
Load ==
  /\ worker = "load"
  /\ \/ worker' = "login" /\ UNCHANGED outcome
     \/ worker' = "gone" /\ outcome' = "failed"
  /\ UNCHANGED <<refresher, stopper, result, native, stopping, failures, thread,
                 halt, switch, tun, histories>>

\* obtainCookie to setupDTLS.
Login ==
  /\ worker = "login"
  /\ \/ worker' = "loop" /\ UNCHANGED outcome
     \/ Leave("failed")
  /\ UNCHANGED <<refresher, stopper, result, native, stopping, failures, thread,
                 halt, switch, tun, histories>>

\* mainloop calls onSetupTun first, even after a cancel.
SetupStatic ==
  /\ worker = "loop" /\ table = "none" /\ ~setupFailure
  /\ table' = "final" /\ said' = TRUE
  /\ UNCHANGED <<worker, refresher, stopper, ending, native, stopping, failures,
                 thread, halt, switch, installed, histories>>

\* The refresher runs before its thread is stored.
SetupHosts ==
  /\ worker = "loop" /\ table = "none" /\ ~setupFailure
  /\ table' = "bootstrap"
  /\ refresher' = "top" /\ worker' = "assign"
  /\ UNCHANGED <<stopper, ending, native, stopping, failures, thread, halt,
                 switch, installed, said, histories>>

AssignThread ==
  /\ worker = "assign"
  /\ thread' = TRUE /\ worker' = "loop"
  /\ UNCHANGED <<refresher, stopper, ending, native, stopping, failures, halt,
                 switch, tun, histories>>

SetupFails ==
  /\ worker = "loop" /\ table = "none" /\ ~setupFailure
  /\ setupFailure' = TRUE /\ canceled' = TRUE
  /\ UNCHANGED <<worker, refresher, stopper, ending, paused, stopping,
                 refreshFailure, thread, halt, switch, tun, histories>>

\* mainloop returns 0 for a pause, and an error after a cancel or when the
\* tunnel cannot be restored.
Return(r) ==
  /\ worker = "loop"
  /\ result' = r /\ worker' = "back"
  /\ UNCHANGED <<refresher, stopper, outcome, canceled, stopping, failures,
                 thread, halt, switch, tun, histories>>

Pauses == paused /\ ~canceled /\ Return("ok") /\ paused' = FALSE
Canceled == canceled /\ Return("error") /\ UNCHANGED paused
Lost == ~canceled /\ Return("error") /\ UNCHANGED paused

\* takePendingTunSwitch.
TakeSwitch ==
  /\ worker = "back"
  /\ pending' = FALSE
  /\ \/ /\ ~pending /\ worker' = "check"
        /\ UNCHANGED <<outcome, answer, refreshFailure, canceled>>
     \/ /\ pending /\ result = "ok" /\ worker' = "install"
        /\ UNCHANGED <<outcome, answer, refreshFailure, canceled>>
     \/ pending /\ result = "error" /\ FailSwitch
  /\ UNCHANGED <<refresher, stopper, result, paused, stopping, setupFailure,
                 thread, halt, asked, tun, histories>>

\* applyTunSwitch.
BeginInstall ==
  /\ worker = "install"
  /\ IF stopping \/ canceled
       THEN FailSwitch
       ELSE /\ worker' = "installing"
            /\ UNCHANGED <<outcome, answer, refreshFailure, canceled>>
  /\ UNCHANGED <<refresher, stopper, result, paused, stopping, setupFailure,
                 thread, halt, pending, asked, tun, histories>>

Install ==
  /\ worker = "installing"
  /\ \/ /\ table' = "final" /\ installed' = asked /\ said' = TRUE
        /\ answer' = "done" /\ worker' = "loop"
        /\ UNCHANGED <<outcome, refreshFailure, canceled>>
     \/ FailSwitch /\ UNCHANGED tun
  /\ UNCHANGED <<refresher, stopper, result, paused, stopping, setupFailure,
                 thread, halt, pending, asked, histories>>

\* The failures are read one after the other, then the cancellation.
Check ==
  /\ worker = "check"
  /\ \/ setupFailure /\ Leave("failed")
     \/ ~setupFailure /\ refreshFailure /\ Leave("dns")
     \/ /\ ~setupFailure /\ ~refreshFailure
        /\ worker' = "recheck" /\ UNCHANGED outcome
  /\ UNCHANGED <<refresher, stopper, result, native, stopping, failures, thread,
                 halt, switch, tun, histories>>

Recheck ==
  /\ worker = "recheck"
  /\ Leave(IF canceled THEN "quiet" ELSE "lost")
  /\ UNCHANGED <<refresher, stopper, result, native, stopping, failures, thread,
                 halt, switch, tun, histories>>

\* finally: activeClient is cleared, and close() stops the refresher.
Close ==
  /\ worker = "closing"
  /\ stopping' = TRUE
  /\ halt' = (halt \/ thread)
  /\ worker' = "joining"
  /\ UNCHANGED <<refresher, stopper, ending, native, failures, thread, switch,
                 tun, histories>>

\* Then it closes the interface and destroys the native connection.  The
\* service interrupts the worker after a cancel: the join ends at once.
Destroy ==
  /\ worker = "joining"
  /\ thread => refresher = "done" \/ stopper = "done"
  /\ thread' = FALSE /\ table' = "none" /\ worker' = "gone"
  /\ UNCHANGED <<refresher, stopper, ending, native, stopping, failures, halt,
                 switch, installed, said, histories>>

-----------------------------------------------------------------------------
(* The refresher: refreshRouteLoop. *)

\* Steps that read the flags and go on.
GoOn(from, to) ==
  /\ refresher = from /\ refresher' = to
  /\ UNCHANGED <<worker, stopper, ending, native, stopping, failures, thread,
                 halt, switch, tun, histories>>

Turn == GoOn("top", IF halt \/ canceled THEN "done" ELSE "network")

\* awaitVpnNetwork.
FindNetwork == GoOn("network", "resolve") \/ GoOn("network", "failing")
NetworkStopped == (halt \/ canceled) /\ GoOn("network", "done")

\* A resolver that stop() closes fails.  The first answer is always a new table.
Resolve ==
  \/ GoOn("resolve", "ask")
  \/ said /\ GoOn("resolve", "sleep")
  \/ GoOn("resolve", "failing")

\* requestTunSwitch.
Ask ==
  /\ refresher = "ask" /\ asked < MaxSwitches
  /\ IF pending
       THEN refresher' = "failing" /\ UNCHANGED switch
       ELSE /\ pending' = TRUE /\ answer' = "none" /\ asked' = asked + 1
            /\ refresher' = "pause"
  /\ UNCHANGED <<worker, stopper, ending, native, stopping, failures, thread,
                 halt, tun, histories>>

Pause ==
  /\ refresher = "pause"
  /\ paused' = TRUE /\ refresher' = "wait"
  /\ UNCHANGED <<worker, stopper, ending, canceled, stopping, failures, thread,
                 halt, switch, tun, histories>>

Answered ==
  \/ answer = "done" /\ GoOn("wait", "sleep")
  \/ answer = "failed" /\ GoOn("wait", "failing")
  \/ answer = "stopped" /\ GoOn("wait", "done")

AwaitTimesOut ==
  /\ refresher = "wait" /\ answer = "none"
  /\ pending' = FALSE /\ refresher' = "failing"
  /\ UNCHANGED <<worker, stopper, ending, native, stopping, failures, thread,
                 halt, answer, asked, tun, histories>>

Wake == asked < MaxSwitches /\ GoOn("sleep", "top")

\* await and sleep throw when the thread is interrupted.
Interrupted ==
  halt /\ \E l \in {"network", "resolve", "wait", "sleep"} : GoOn(l, "done")

\* reportRouteRefreshFailure, unless the connection is being stopped.
Fails == GoOn("failing", IF stopping \/ canceled THEN "done" ELSE "record")

Record ==
  /\ refresher = "record"
  /\ refreshFailure' = TRUE /\ refresher' = "cancel"
  /\ UNCHANGED <<worker, stopper, ending, native, stopping, setupFailure, thread,
                 halt, switch, tun, histories>>

ReportCancel ==
  /\ refresher = "cancel"
  /\ canceled' = TRUE /\ refresher' = "done"
  /\ UNCHANGED <<worker, stopper, ending, paused, stopping, failures, thread,
                 halt, switch, tun, histories>>

-----------------------------------------------------------------------------
(* The thread that cancels: cancel and stop. *)

StopBegins ==
  /\ stopper = "idle"
  /\ IF worker \in {"load", "joining", "gone"}
       THEN /\ stopper' = "done" /\ missed' = (worker # "gone")
            /\ UNCHANGED <<stopping, heard>>
       ELSE /\ stopping' = TRUE /\ heard' = TRUE /\ stopper' = "withdraw"
            /\ UNCHANGED missed
  /\ UNCHANGED <<worker, refresher, ending, native, failures, thread, halt,
                 switch, tun>>

StopWithdraws ==
  /\ stopper = "withdraw"
  /\ pending' = FALSE
  /\ answer' = IF pending THEN "stopped" ELSE answer
  /\ stopper' = "cancel"
  /\ UNCHANGED <<worker, refresher, ending, native, stopping, failures, thread,
                 halt, asked, tun, histories>>

StopCancels ==
  /\ stopper = "cancel"
  /\ canceled' = TRUE /\ stopper' = "thread"
  /\ UNCHANGED <<worker, refresher, ending, paused, stopping, failures, thread,
                 halt, switch, tun, histories>>

\* stopRouteRefresh.
StopInterrupts ==
  /\ stopper = "thread"
  /\ halt' = (halt \/ thread)
  /\ stopper' = IF thread THEN "join" ELSE "clear"
  /\ missed' = (worker = "assign")
  /\ UNCHANGED <<worker, refresher, ending, native, stopping, failures, thread,
                 switch, tun, heard>>

StopJoins ==
  /\ stopper = "join" /\ refresher = "done"
  /\ stopper' = "clear"
  /\ UNCHANGED <<worker, refresher, ending, native, stopping, failures, thread,
                 halt, switch, tun, histories>>

StopClears ==
  /\ stopper = "clear"
  /\ thread' = FALSE /\ stopper' = "done"
  /\ UNCHANGED <<worker, refresher, ending, native, stopping, failures, halt,
                 switch, tun, histories>>

-----------------------------------------------------------------------------
Init ==
  /\ worker = "load" /\ refresher = "none" /\ stopper = "idle"
  /\ result = "none" /\ outcome = "none" /\ answer = "none" /\ table = "none"
  /\ canceled = FALSE /\ paused = FALSE /\ stopping = FALSE
  /\ setupFailure = FALSE /\ refreshFailure = FALSE
  /\ thread = FALSE /\ halt = FALSE /\ pending = FALSE
  /\ said = FALSE /\ heard = FALSE /\ missed = FALSE
  /\ asked = 0 /\ installed = 0

\* The steps of the worker it always gets to; the tunnel need not be lost.
Works ==
  \/ Load \/ Login \/ SetupStatic \/ SetupHosts \/ AssignThread \/ SetupFails
  \/ Pauses \/ Canceled \/ TakeSwitch \/ BeginInstall \/ Install
  \/ Check \/ Recheck \/ Close \/ Destroy

Refreshes ==
  \/ Turn \/ FindNetwork \/ NetworkStopped \/ Resolve \/ Ask \/ Pause
  \/ Answered \/ AwaitTimesOut \/ Wake \/ Interrupted
  \/ Fails \/ Record \/ ReportCancel

Stops ==
  \/ StopWithdraws \/ StopCancels \/ StopInterrupts \/ StopJoins \/ StopClears

Next == Works \/ Lost \/ Refreshes \/ StopBegins \/ Stops

Spec ==
  /\ Init /\ [][Next]_vars
  /\ WF_vars(Works) /\ WF_vars(Refreshes) /\ WF_vars(Stops)

-----------------------------------------------------------------------------
(* Properties. *)

\* connect returns without an exception only after a stop, or when a route
\* refresh has failed and said so: a tunnel that dies by itself is reported.
SilentOnlyIfCaused == outcome = "quiet" => heard \/ refreshFailure

\* When the refresher goes to sleep until the next answer of the DNS is due,
\* the routes it asked for last are the routes of the interface, whatever was
\* stopped, withdrawn or timed out meanwhile.
RoutesAsAnswered ==
  refresher = "sleep" /\ worker # "gone" => table = "final" /\ installed = asked

\* Once the native connection is destroyed the refresher neither resolves nor
\* asks for a switch nor cancels: not even one that onSetupTun starts while
\* stop() clears routeRefreshThread, and that nobody will ever join.  (missed:
\* startRouteRefresh stores the thread after it has started it, and a stop in
\* between does not see it; a cancel that finds no client leaves the worker
\* interrupted, and its join with the refresher does not wait.)
DestroyedIsLeftAlone ==
  worker = "gone" /\ ~missed => refresher \in {"none", "top", "done"}

\* A cancel that found the connection, and a recorded refresh failure, end it.
EndsOnceTold == (heard \/ refreshFailure) ~> worker = "gone"

\* What connect shows the service of itself.
contract ==
  [phase |-> CASE worker = "load" -> "load"
               [] worker = "gone" -> "over"
               [] OTHER -> "live",
   up |-> table # "none", said |-> said, heard |-> heard,
   outcome |-> IF worker = "gone" THEN outcome ELSE "none"]

\* connect keeps to the contract that AnyConnectVpnService is built on.
KeepsContract ==
  /\ contract = Fresh
  /\ [][contract' \in Own(contract) \cup Hears(contract)]_contract
=============================================================================
