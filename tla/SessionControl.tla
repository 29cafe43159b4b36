--------------------------- MODULE SessionControl ---------------------------
(***************************************************************************)
(* The goroutines of cmd/main.go that own the VPN session: the status poll *)
(* of internal/monitor, the handler of its state changes, the automatic    *)
(* recovery, and the goroutines of the user's commands.  They share the    *)
(* monitor's state and its buffered channel, the name of the backend in    *)
(* charge, the context of the running route work and a handful of mutexes. *)
(*                                                                         *)
(* A step is what one goroutine does between two points where another one  *)
(* can observe or disturb it: a mutex, a channel operation, an atomic, an  *)
(* external process.  Route contents, credentials and texts are abstract.  *)
(***************************************************************************)
EXTENDS Naturals, Sequences, FiniteSets

CONSTANTS
  Users,     \* goroutines that run commands of the tray and of the dashboard
  Boot,      \* the one of them that first applies the routes at start-up
  Buf,       \* capacity of the monitor's onChange channel
  Traffic,   \* cfg.TrafficBackend
  HasCli,    \* vpncli.exe was found
  Split,     \* cfg.SplitTunnelEnabled
  Kept,      \* the routes of the last run are in the table at start-up
  Ops,       \* the commands the users give in this instance
  Attempts,  \* connections an automatic recovery tries: 3 in the code
  Overlap,   \* what may begin while other work is under way: see Poll, Start
  MaxOps,    \* bound: number of commands
  MaxDrops   \* bound: number of times a tunnel is lost

ASSUME SessionAssumption ==
  /\ Boot \in Users
  /\ {"mon", "hnd", "rec"} \cap Users = {}
  /\ "none" \notin Users
  /\ Buf \in Nat \ {0}
  /\ Traffic \in {"auto", "openconnect_tun", "cisco_static"}
  /\ HasCli \in BOOLEAN
  /\ Split \in BOOLEAN
  /\ Kept \in BOOLEAN
  /\ Ops \subseteq {"disconnect", "switch", "restore", "refresh"}
  /\ Attempts \in Nat \ {0}
  /\ Overlap \subseteq {"poll", "command"}
  /\ MaxOps \in Nat
  /\ MaxDrops \in Nat

VARIABLES
  mstate,      \* Monitor.state
  queue,       \* Monitor.onChange: the new states not yet received
  outbox,      \* what a goroutine inside SetState still has to send
  backend,     \* activeBackend
  tun,         \* the OpenConnect and sing-box pair
  cisco,       \* the Cisco client is connected
  routes,      \* the static routes the route manager has in the table
  ctxLive,     \* routeOpsCtx is not cancelled
  stale,       \* the context a goroutine captured has been cancelled
  lock,        \* the holder of each mutex
  manualBusy,  \* manualConnectionBusy
  suppress,    \* suppressVPNDetection
  pc, op,      \* where a goroutine is, and the command it runs
  seen,        \* the presence the poll has just read
  attempt,     \* attempt number of the automatic recovery
  ops, drops   \* commands given and tunnels lost so far

monitorVars == <<mstate, queue, outbox>>
linkVars    == <<backend, tun, cisco>>
ctxVars     == <<ctxLive, stale>>
userVars    == <<op, manualBusy, suppress>>
bounds      == <<ops, drops>>
vars == <<monitorVars, linkVars, routes, ctxVars, lock, userVars, pc, seen,
          attempt, bounds>>

Actors == Users \cup {"mon", "hnd", "rec"}
States == {"idle", "connected", "active", "cleaning"}
Mutexes == {"apply", "disc", "mode", "routes", "tunnel"}

Labels ==
  {"poll", "read", "set", "wait", "rest", "lockMode",
   "lockDisc", "cancel", "using", "stop", "remove", "cli", "down", "clear",
   "idle", "reset", "recover", "conn", "tunBegin", "tunEnd",
   "tunStop", "setTun", "prep", "dial", "setCisco", "connected", "connFail",
   "renew", "lockApply", "backend", "refresh", "static", "purge", "purging",
   "add", "adding", "check", "active", "unlockApply", "finish"}

TypeOK ==
  /\ mstate \in States
  /\ queue \in Seq(States) /\ Len(queue) <= Buf
  /\ outbox \in [Actors -> States \cup {"none"}]
  /\ backend \in {"none", "tun", "cisco"}
  /\ tun \in {"down", "up", "broken"}
  /\ cisco \in BOOLEAN
  /\ routes \in {"none", "partial", "full"}
  /\ ctxLive \in BOOLEAN
  /\ stale \in [Actors -> BOOLEAN]
  /\ lock \in [Mutexes -> Actors \cup {"none"}]
  /\ manualBusy \in BOOLEAN
  /\ suppress \in BOOLEAN
  /\ pc \in [Actors -> Labels]
  /\ op \in [Actors -> {"apply", "abort", "disconnect", "switch", "restore",
                        "refresh"}]
  /\ seen \in {"connected", "disconnected", "unknown"}
  /\ attempt \in 0..Attempts
  /\ ops \in 0..MaxOps
  /\ drops \in 0..MaxDrops

-----------------------------------------------------------------------------
(* Building blocks. *)

\* A poll is under way; an instance without "poll" in Overlap lets it end
\* before any goroutine goes on.
Polling == pc["mon"] # "poll" \/ outbox["mon"] # "none"

\* A goroutine inside SetState cannot go on before its send.
At(p, l) ==
  /\ pc[p] = l
  /\ outbox[p] = "none"
  /\ "poll" \in Overlap \/ p = "mon" \/ ~Polling

\* The handler has taken and handled every change of state.
Handled ==
  /\ queue = <<>>
  /\ \A p \in Actors : outbox[p] = "none"
  /\ pc["hnd"] = "wait"
  /\ pc["rec"] = "rest"

\* No goroutine has anything left to do.
Settled == Handled /\ \A u \in Users : pc[u] = "rest"

Goto(p, l) == pc' = [pc EXCEPT ![p] = l]
Free(m) == lock[m] = "none"
Take(m, p) == lock' = [lock EXCEPT ![m] = p]

SetState(p, s) ==
  /\ mstate' = s
  /\ outbox' = [outbox EXCEPT ![p] = IF mstate = s THEN "none" ELSE s]
  /\ UNCHANGED queue

cancelActiveRouteOps ==
  /\ ctxLive' = FALSE
  /\ stale' = [p \in Actors |-> TRUE]

resetRouteOps ==
  /\ ctxLive' = TRUE
  /\ stale' = [p \in Actors |-> TRUE]

\* A goroutine gives up the mutexes ms and returns to where it waits for work.
Leave(p, ms) ==
  /\ lock' = [m \in Mutexes |-> IF m \in ms THEN "none" ELSE lock[m]]
  /\ op' = [op EXCEPT ![p] = "apply"]
  /\ Goto(p, IF p = "hnd" THEN "wait" ELSE "rest")

\* applySplitRoutes returns; the context it captured matters no more.
Return(p, ms) ==
  /\ Leave(p, ms)
  /\ stale' = [stale EXCEPT ![p] = TRUE]
  /\ UNCHANGED <<ctxLive, manualBusy, suppress>>

\* The program connects before it starts any goroutine, or ends.
FirstConnection ==
  \/ Traffic # "cisco_static" /\ backend = "tun" /\ tun = "up" /\ cisco = FALSE
  \/ /\ Traffic # "openconnect_tun" /\ HasCli
     /\ backend = "cisco" /\ tun = "down" /\ cisco = TRUE

\* The start-up goroutine applies the routes unless it takes over the old ones.
FirstLabel(p) ==
  CASE p = "mon" -> "poll"
    [] p = "hnd" -> "wait"
    [] p = Boot /\ (backend = "tun" \/ Split) /\ routes = "none" -> "lockApply"
    [] OTHER     -> "rest"

Init ==
  /\ mstate = "idle"
  /\ queue = <<>>
  /\ outbox = [p \in Actors |-> "none"]
  /\ FirstConnection
  /\ routes = IF backend = "cisco" /\ Split /\ Kept THEN "full" ELSE "none"
  /\ ctxLive = TRUE
  /\ stale = [p \in Actors |-> TRUE]
  /\ lock = [m \in Mutexes |-> "none"]
  /\ manualBusy = FALSE
  /\ suppress = FALSE
  /\ pc = [p \in Actors |-> FirstLabel(p)]
  /\ op = [p \in Actors |-> "apply"]
  /\ seen = "unknown"
  /\ attempt = 0
  /\ ops = 0
  /\ drops = 0

-----------------------------------------------------------------------------
(* Faulty variants of actions below, each with the mistake its name says:   *)
(* the properties are tested by putting one in the place of its original.  *)

Send_DropsWhenFull(p) ==
  /\ outbox[p] # "none"
  /\ queue' = IF Len(queue) < Buf THEN Append(queue, outbox[p]) ELSE queue
  /\ outbox' = [outbox EXCEPT ![p] = "none"]
  /\ UNCHANGED <<mstate, linkVars, routes, ctxVars, lock, userVars, pc, seen,
                 attempt, bounds>>

ReadState_ComparesWithConnected ==
  /\ At("mon", "read")
  /\ Goto("mon", IF <<mstate, seen>> \in {<<"idle", "connected">>,
                                         <<"connected", "disconnected">>}
                 THEN "set" ELSE "poll")
  /\ seen' = IF pc'["mon"] = "poll" THEN "unknown" ELSE seen
  /\ UNCHANGED <<monitorVars, linkVars, routes, ctxVars, lock, userVars,
                 attempt, bounds>>

CancelRoutes_ClearsBackend(p) ==
  /\ At(p, "cancel")
  /\ cancelActiveRouteOps
  /\ backend' = "none"
  /\ Goto(p, "using")
  /\ UNCHANGED <<monitorVars, tun, cisco, routes, lock, userVars, seen, attempt,
                 bounds>>

\* The removal runs under the cancelled context of the route work.
RemoveAllRoutes_Cancelled(p) ==
  /\ At(p, "remove") /\ Free("routes")
  /\ routes' = IF ctxLive \/ routes = "none" THEN "none" ELSE "partial"
  /\ Goto(p, IF p = "hnd" THEN "clear" ELSE "cli")
  /\ UNCHANGED <<monitorVars, linkVars, ctxVars, lock, userVars, seen, attempt,
                 bounds>>

SetIdle_LeavesCleaning(p) ==
  /\ At(p, "idle")
  /\ SetState(p, IF p = "hnd" THEN "idle" ELSE "cleaning")
  /\ Goto(p, IF p = "hnd" THEN "recover" ELSE "reset")
  /\ UNCHANGED <<linkVars, routes, ctxVars, lock, userVars, seen, attempt,
                 bounds>>

ConnectFailed_OneTooMany(p) ==
  /\ At(p, "connFail")
  /\ cancelActiveRouteOps
  /\ IF p = "rec"
     THEN IF attempt <= Attempts THEN Goto(p, "conn") /\ attempt' = attempt + 1
                                 ELSE Goto(p, "rest") /\ attempt' = 0
     ELSE Goto(p, "finish") /\ UNCHANGED attempt
  /\ UNCHANGED <<monitorVars, linkVars, routes, lock, userVars, seen, bounds>>

ConnectFailed_NeverGivesUp(p) ==
  /\ At(p, "connFail")
  /\ cancelActiveRouteOps
  /\ Goto(p, IF p = "rec" THEN "conn" ELSE "finish")
  /\ UNCHANGED <<monitorVars, linkVars, routes, lock, userVars, seen, attempt,
                 bounds>>

CheckContext_KeepsLock(p) ==
  /\ At(p, "check")
  /\ IF stale[p] THEN Return(p, {})
     ELSE Goto(p, "active") /\ UNCHANGED <<lock, ctxVars, userVars>>
  /\ UNCHANGED <<monitorVars, linkVars, routes, seen, attempt, bounds>>

Switch_WithoutTryLock(u) ==
  /\ At(u, "rest")
  /\ ops < MaxOps /\ ops' = ops + 1
  /\ "switch" \in Ops /\ ~manualBusy
  /\ op' = [op EXCEPT ![u] = "switch"]
  /\ manualBusy' = TRUE
  /\ Goto(u, "lockDisc")
  /\ UNCHANGED <<monitorVars, linkVars, routes, ctxVars, lock, suppress, seen,
                 attempt, drops>>

Finish_BusyAfterFailure(u) ==
  /\ At(u, "finish")
  /\ Leave(u, {"mode"})
  /\ manualBusy' = (manualBusy /\ op[u] # "switch")
  /\ suppress' = (suppress /\ op[u] # "restore")
  /\ UNCHANGED <<monitorVars, linkVars, routes, ctxVars, seen, attempt, bounds>>

-----------------------------------------------------------------------------
(* The channel of the monitor: the second half of SetState. *)

Send(p) ==
  /\ outbox[p] # "none"
  /\ Len(queue) < Buf
  /\ queue' = Append(queue, outbox[p])
  /\ outbox' = [outbox EXCEPT ![p] = "none"]
  /\ UNCHANGED <<mstate, linkVars, routes, ctxVars, lock, userVars, pc, seen,
                 attempt, bounds>>

-----------------------------------------------------------------------------
(* The status poll: NewWithStatusDetector's detector and handleDetection.  *)

Presence(up) == IF up THEN "connected" ELSE "disconnected"

\* The detector: Session.Presence waits for the session's mutex and ask vpncli
\* takes seconds.  An unknown presence changes nothing, whatever the state, so
\* a suppressed poll and a vpncli that does not answer are stuttering steps.
Poll ==
  /\ At("mon", "poll")
  /\ "poll" \in Overlap \/ Settled
  /\ ~suppress
  /\ \/ backend = "tun" /\ Free("tunnel")
        /\ seen' = Presence(tun = "up")
     \/ backend # "tun" /\ HasCli
        /\ seen' = Presence(cisco)
  /\ Goto("mon", "read")
  /\ UNCHANGED <<monitorVars, linkVars, routes, ctxVars, lock, userVars,
                 attempt, bounds>>

\* handleDetection reads the state here and sets it in a later step.
ReadState ==
  /\ At("mon", "read")
  /\ Goto("mon", IF <<mstate, seen>> \in {<<"idle", "connected">>,
                                         <<"active", "disconnected">>}
                 THEN "set" ELSE "poll")
  /\ seen' = IF pc'["mon"] = "poll" THEN "unknown" ELSE seen
  /\ UNCHANGED <<monitorVars, linkVars, routes, ctxVars, lock, userVars,
                 attempt, bounds>>

PollSet ==
  /\ At("mon", "set")
  /\ SetState("mon", IF seen = "connected" THEN "connected" ELSE "cleaning")
  /\ Goto("mon", "poll")
  /\ seen' = "unknown"
  /\ UNCHANGED <<linkVars, routes, ctxVars, lock, userVars, attempt, bounds>>

-----------------------------------------------------------------------------
(* The goroutine that handles the monitor's state changes. *)

Receive ==
  /\ At("hnd", "wait")
  /\ queue # <<>>
  /\ queue' = Tail(queue)
  /\ Goto("hnd", CASE Head(queue) = "connected" -> "lockApply"
                   [] Head(queue) = "cleaning"  -> "cancel"
                   [] OTHER                     -> "wait")
  /\ UNCHANGED <<mstate, outbox, linkVars, routes, ctxVars, lock, userVars,
                 seen, attempt, bounds>>

\* recoverUnexpectedDisconnect: the compare-and-swap on autoRecoveryRunning.
Recover ==
  /\ At("hnd", "recover")
  /\ IF At("rec", "rest")
     THEN /\ pc' = [pc EXCEPT !["hnd"] = "wait", !["rec"] = "conn"]
          /\ attempt' = 1
     ELSE Goto("hnd", "wait") /\ UNCHANGED attempt
  /\ UNCHANGED <<monitorVars, linkVars, routes, ctxVars, lock, userVars, seen,
                 bounds>>

-----------------------------------------------------------------------------
(* Taking a session down.  disconnectSessionContext runs it in a command's *)
(* goroutine under disconnectMu; the handler's Cleaning branch runs it     *)
(* without that mutex, without the Cisco disconnect, and resets the route  *)
(* context before it sets the state instead of after.                      *)

LockDisconnect(p) ==
  /\ At(p, "lockDisc") /\ Free("disc")
  /\ Take("disc", p)
  /\ Goto(p, "cancel")
  /\ UNCHANGED <<monitorVars, linkVars, routes, ctxVars, userVars, seen,
                 attempt, bounds>>

CancelRoutes(p) ==
  /\ At(p, "cancel")
  /\ cancelActiveRouteOps
  /\ Goto(p, "using")
  /\ UNCHANGED <<monitorVars, linkVars, routes, lock, userVars, seen, attempt,
                 bounds>>

UsingTun(p) ==
  /\ At(p, "using")
  /\ Goto(p, IF backend = "tun" THEN "stop" ELSE "remove")
  /\ UNCHANGED <<monitorVars, linkVars, routes, ctxVars, lock, userVars, seen,
                 attempt, bounds>>

StopTun(p) ==
  /\ At(p, "stop") /\ Free("tunnel")
  /\ tun' = "down"
  /\ Goto(p, "remove")
  /\ UNCHANGED <<monitorVars, backend, cisco, routes, ctxVars, lock, userVars,
                 seen, attempt, bounds>>

RemoveAllRoutes(p) ==
  /\ At(p, "remove") /\ Free("routes")
  /\ routes' = "none"
  /\ Goto(p, IF p = "hnd" THEN "clear" ELSE "cli")
  /\ UNCHANGED <<monitorVars, linkVars, ctxVars, lock, userVars, seen, attempt,
                 bounds>>

UsingCli(p) ==
  /\ At(p, "cli")
  /\ Goto(p, IF HasCli /\ backend = "cisco" THEN "down" ELSE "clear")
  /\ UNCHANGED <<monitorVars, linkVars, routes, ctxVars, lock, userVars, seen,
                 attempt, bounds>>

\* vpn.DisconnectContext; its failure stops a switch but not the teardown.
CliDown(p) ==
  /\ At(p, "down")
  /\ Goto(p, "clear")
  /\ \/ cisco' = FALSE /\ UNCHANGED op
     \/ /\ op' = [op EXCEPT ![p] = IF @ = "switch" THEN "abort" ELSE @]
        /\ UNCHANGED cisco
  /\ UNCHANGED <<monitorVars, backend, tun, routes, ctxVars, lock, manualBusy,
                 suppress, seen, attempt, bounds>>

ClearBackend(p) ==
  /\ At(p, "clear")
  /\ backend' = "none"
  /\ Goto(p, IF p = "hnd" THEN "reset" ELSE "idle")
  /\ UNCHANGED <<monitorVars, tun, cisco, routes, ctxVars, lock, userVars, seen,
                 attempt, bounds>>

SetIdle(p) ==
  /\ At(p, "idle")
  /\ SetState(p, "idle")
  /\ Goto(p, IF p = "hnd" THEN "recover" ELSE "reset")
  /\ UNCHANGED <<linkVars, routes, ctxVars, lock, userVars, seen, attempt,
                 bounds>>

ResetAfter(p) ==
  /\ At(p, "reset")
  /\ resetRouteOps
  /\ IF p = "hnd" THEN Goto(p, "idle") /\ UNCHANGED <<lock, op>>
     ELSE CASE op[p] \in {"switch", "restore"} ->
                 Goto(p, "conn") /\ Take("disc", "none") /\ UNCHANGED op
            [] op[p] = "abort" ->
                 Goto(p, "finish") /\ Take("disc", "none") /\ UNCHANGED op
            [] OTHER -> Leave(p, {"disc"})
  /\ UNCHANGED <<monitorVars, linkVars, routes, manualBusy, suppress, seen,
                 attempt, bounds>>

-----------------------------------------------------------------------------
(* connectFinalSite and connectWithBestBackendContext, in the goroutine of *)
(* a command or of the automatic recovery.                                 *)

\* resetRouteOps, refreshLocalRoute, then the first backend to try: the split
\* rules of the TUN backend may not load.
FirstBackend ==
  {"connFail"} \cup (IF Traffic = "cisco_static" THEN {} ELSE {"tunBegin"})
               \cup (IF HasCli THEN {"prep"} ELSE {})

BeginConnect(p) ==
  /\ At(p, "conn")
  /\ resetRouteOps
  /\ \E l \in FirstBackend : Goto(p, l)
  /\ UNCHANGED <<monitorVars, linkVars, routes, lock, userVars, seen, attempt,
                 bounds>>

\* Session.Start holds the session's mutex and first stops the old pair.
TunBegin(p) ==
  /\ At(p, "tunBegin") /\ Free("tunnel")
  /\ Take("tunnel", p)
  /\ tun' = "down"
  /\ Goto(p, "tunEnd")
  /\ UNCHANGED <<monitorVars, backend, cisco, routes, ctxVars, userVars, seen,
                 attempt, bounds>>

TunEnd(p) ==
  /\ At(p, "tunEnd")
  /\ Take("tunnel", "none")
  /\ \/ tun' = "up" /\ Goto(p, "setTun")
     \/ UNCHANGED tun /\ Goto(p, "tunStop")
  /\ UNCHANGED <<monitorVars, backend, cisco, routes, ctxVars, userVars, seen,
                 attempt, bounds>>

\* The Stop after a failed Start, then shouldFallbackFromOpenConnect.
TunStop(p) ==
  /\ At(p, "tunStop") /\ Free("tunnel")
  /\ tun' = "down"
  /\ \E l \in {"connFail"} \cup
              (IF Traffic = "auto" /\ HasCli THEN {"prep"} ELSE {}) : Goto(p, l)
  /\ UNCHANGED <<monitorVars, backend, cisco, routes, ctxVars, lock, userVars,
                 seen, attempt, bounds>>

\* PrepareForNewConnectionContext ignores a disconnect that fails.
Prepare(p) ==
  /\ At(p, "prep")
  /\ cisco' \in {FALSE, cisco}
  /\ Goto(p, "dial")
  /\ UNCHANGED <<monitorVars, backend, tun, routes, ctxVars, lock, userVars,
                 seen, attempt, bounds>>

Dial(p) ==
  /\ At(p, "dial")
  /\ \/ cisco' = TRUE /\ Goto(p, "setCisco")
     \/ UNCHANGED cisco /\ Goto(p, "connFail")
  /\ UNCHANGED <<monitorVars, backend, tun, routes, ctxVars, lock, userVars,
                 seen, attempt, bounds>>

SetBackend(p) ==
  /\ \/ At(p, "setTun") /\ backend' = "tun"
     \/ At(p, "setCisco") /\ backend' = "cisco"
  /\ Goto(p, "connected")
  /\ UNCHANGED <<monitorVars, tun, cisco, routes, ctxVars, lock, userVars, seen,
                 attempt, bounds>>

SetConnected(p) ==
  /\ At(p, "connected")
  /\ SetState(p, "connected")
  /\ suppress' = FALSE
  /\ Goto(p, IF p = "rec" THEN "rest" ELSE "finish")
  /\ attempt' = IF p = "rec" THEN 0 ELSE attempt
  /\ UNCHANGED <<linkVars, routes, ctxVars, lock, op, manualBusy, seen, bounds>>

ConnectFailed(p) ==
  /\ At(p, "connFail")
  /\ cancelActiveRouteOps
  /\ IF p = "rec"
     THEN IF attempt < Attempts THEN Goto(p, "conn") /\ attempt' = attempt + 1
                                ELSE Goto(p, "rest") /\ attempt' = 0
     ELSE Goto(p, "finish") /\ UNCHANGED attempt
  /\ UNCHANGED <<monitorVars, linkVars, routes, lock, userVars, seen, bounds>>

-----------------------------------------------------------------------------
(* applySplitRoutes, called by the handler, at start-up and by a refresh.  *)

LockApply(p) ==
  /\ At(p, "lockApply") /\ Free("apply")
  /\ IF ctxLive
     THEN /\ Take("apply", p)
          /\ stale' = [stale EXCEPT ![p] = FALSE]
          /\ Goto(p, "backend")
          /\ UNCHANGED <<ctxLive, userVars>>
     ELSE Return(p, {})
  /\ UNCHANGED <<monitorVars, linkVars, routes, seen, attempt, bounds>>

\* forceRefresh is set only by a command that refreshes.
Forced(p) == op[p] = "refresh"

ByBackend(p) ==
  /\ At(p, "backend")
  /\ Goto(p, IF backend # "tun" THEN "static"
             ELSE IF Forced(p) THEN "refresh" ELSE "active")
  /\ UNCHANGED <<monitorVars, linkVars, routes, ctxVars, lock, userVars, seen,
                 attempt, bounds>>

\* Session.Refresh restarts sing-box.  It gives up early when the context is
\* cancelled or the pair is not started; a failed restart leaves it down.
RefreshTun(p) ==
  /\ At(p, "refresh") /\ Free("tunnel")
  /\ \/ /\ ~stale[p] /\ tun # "down"
        /\ tun' = "up"
        /\ Goto(p, "active")
        /\ UNCHANGED <<lock, ctxVars, userVars>>
        /\ UNCHANGED drops
     \/ /\ UNCHANGED <<tun, drops>>
        /\ Return(p, {"apply"})
     \/ /\ ~stale[p] /\ tun # "down" /\ drops < MaxDrops
        /\ tun' = "broken" /\ drops' = drops + 1
        /\ Return(p, {"apply"})
  /\ UNCHANGED <<monitorVars, backend, cisco, routes, seen, attempt, ops>>

\* A plan that cannot be made ends the call with an error on the tray.
PlanStatic(p) ==
  /\ At(p, "static")
  /\ \/ /\ Goto(p, IF ~Split \/ (routes # "none" /\ ~Forced(p)) THEN "active"
                    ELSE IF routes = "none" THEN "add" ELSE "purge")
        /\ UNCHANGED <<lock, ctxVars, userVars>>
     \/ /\ Split /\ (routes = "none" \/ Forced(p))
        /\ Return(p, {"apply"})
  /\ UNCHANGED <<monitorVars, linkVars, routes, seen, attempt, bounds>>

\* RemoveAllRoutesContext and AddRoutesContext hold the manager's mutex and
\* stop between two batches once their context is cancelled.
Purge(p) ==
  /\ At(p, "purge") /\ Free("routes")
  /\ Take("routes", p)
  /\ Goto(p, "purging")
  /\ UNCHANGED <<monitorVars, linkVars, routes, ctxVars, userVars, seen, attempt,
                 bounds>>

Purged(p) ==
  /\ At(p, "purging")
  /\ IF stale[p]
     THEN /\ routes' = IF routes = "none" THEN "none" ELSE "partial"
          /\ Return(p, {"routes", "apply"})
     ELSE /\ routes' = "none"
          /\ Goto(p, "add") /\ Take("routes", "none")
          /\ UNCHANGED <<ctxVars, userVars>>
  /\ UNCHANGED <<monitorVars, linkVars, seen, attempt, bounds>>

Add(p) ==
  /\ At(p, "add") /\ Free("routes")
  /\ IF stale[p]
     THEN Return(p, {"apply"}) /\ UNCHANGED routes
     ELSE /\ Take("routes", p) /\ routes' = "partial" /\ Goto(p, "adding")
          /\ UNCHANGED <<ctxVars, userVars>>
  /\ UNCHANGED <<monitorVars, linkVars, seen, attempt, bounds>>

Added(p) ==
  /\ At(p, "adding")
  /\ Take("routes", "none")
  /\ routes' \in IF stale[p] THEN {"partial", "full"} ELSE {"full"}
  /\ Goto(p, "check")
  /\ UNCHANGED <<monitorVars, linkVars, ctxVars, userVars, seen, attempt, bounds>>

CheckContext(p) ==
  /\ At(p, "check")
  /\ IF stale[p] THEN Return(p, {"apply"})
     ELSE Goto(p, "active") /\ UNCHANGED <<lock, ctxVars, userVars>>
  /\ UNCHANGED <<monitorVars, linkVars, routes, seen, attempt, bounds>>

\* The send of SetState happens before the deferred unlock.
SetActive(p) ==
  /\ At(p, "active")
  /\ SetState(p, "active")
  /\ Goto(p, "unlockApply")
  /\ UNCHANGED <<linkVars, routes, ctxVars, lock, userVars, seen, attempt,
                 bounds>>

UnlockApply(p) ==
  /\ At(p, "unlockApply")
  /\ Return(p, {"apply"})
  /\ UNCHANGED <<monitorVars, linkVars, routes, seen, attempt, bounds>>

-----------------------------------------------------------------------------
(* The commands of the tray and of the dashboard. *)

Start(u, o) ==
  /\ At(u, "rest")
  /\ "command" \in Overlap \/ Handled
  /\ ops < MaxOps /\ ops' = ops + 1
  /\ o \in Ops
  /\ op' = [op EXCEPT ![u] = o]

Disconnect(u) ==
  /\ Start(u, "disconnect")
  /\ ~manualBusy
  /\ Goto(u, "lockDisc")
  /\ UNCHANGED <<monitorVars, linkVars, routes, ctxVars, lock, manualBusy,
                 suppress, seen, attempt, drops>>

\* OnReconnect and OnSelectSite: TryLock, then the busy flag.
Switch(u) ==
  /\ Start(u, "switch")
  /\ Free("mode") /\ ~manualBusy
  /\ Take("mode", u)
  /\ manualBusy' = TRUE
  /\ Goto(u, "lockDisc")
  /\ UNCHANGED <<monitorVars, linkVars, routes, ctxVars, suppress, seen, attempt,
                 drops>>

Restore(u) ==
  /\ Start(u, "restore")
  /\ ~manualBusy
  /\ Goto(u, "lockMode")
  /\ UNCHANGED <<monitorVars, linkVars, routes, ctxVars, lock, manualBusy,
                 suppress, seen, attempt, drops>>

LockMode(u) ==
  /\ At(u, "lockMode") /\ Free("mode")
  /\ Take("mode", u)
  /\ suppress' = TRUE
  /\ Goto(u, "lockDisc")
  /\ UNCHANGED <<monitorVars, linkVars, routes, ctxVars, op, manualBusy, seen,
                 attempt, bounds>>

\* OnSetSplitMode, OnUpdateIPDB and refreshRoutesIfConnected read the state,
\* then reset the route context in a later step.
Refresh(u) ==
  /\ Start(u, "refresh")
  /\ mstate \in {"active", "connected"}
  /\ backend = "tun" => tun = "up" /\ Free("tunnel")
  /\ Goto(u, "renew")
  /\ UNCHANGED <<monitorVars, linkVars, routes, ctxVars, lock, manualBusy,
                 suppress, seen, attempt, drops>>

Renew(u) ==
  /\ At(u, "renew")
  /\ resetRouteOps
  /\ Goto(u, "lockApply")
  /\ UNCHANGED <<monitorVars, linkVars, routes, lock, userVars, seen, attempt,
                 bounds>>

\* The deferred releases, in one step: nothing observes them separately.
Finish(u) ==
  /\ At(u, "finish")
  /\ Leave(u, {"mode"})
  /\ manualBusy' = (manualBusy /\ op[u] = "restore")
  /\ suppress' = (suppress /\ op[u] # "restore")
  /\ UNCHANGED <<monitorVars, linkVars, routes, ctxVars, seen, attempt, bounds>>

-----------------------------------------------------------------------------
(* The environment: a process of the pair dies, or Cisco loses its tunnel. *)

Drop ==
  /\ drops < MaxDrops /\ drops' = drops + 1
  /\ \/ tun = "up" /\ tun' = "broken" /\ UNCHANGED cisco
     \/ cisco /\ cisco' = FALSE /\ UNCHANGED tun
  /\ UNCHANGED <<monitorVars, backend, routes, ctxVars, lock, userVars, pc, seen,
                 attempt, ops>>

Monitor == Poll \/ ReadState \/ PollSet \/ Send("mon")

Teardown(p) == \/ CancelRoutes(p) \/ UsingTun(p) \/ StopTun(p)
               \/ RemoveAllRoutes(p) \/ ClearBackend(p) \/ SetIdle(p)
               \/ ResetAfter(p)

Connect(p) == \/ BeginConnect(p) \/ TunBegin(p) \/ TunEnd(p)
              \/ TunStop(p) \/ Prepare(p) \/ Dial(p) \/ SetBackend(p)
              \/ SetConnected(p) \/ ConnectFailed(p)

Apply(p) == \/ LockApply(p) \/ ByBackend(p) \/ RefreshTun(p) \/ PlanStatic(p)
            \/ Purge(p) \/ Purged(p) \/ Add(p) \/ Added(p) \/ CheckContext(p)
            \/ SetActive(p) \/ UnlockApply(p)

Handler == Receive \/ Teardown("hnd") \/ Apply("hnd") \/ Recover \/ Send("hnd")

Recovery == Connect("rec") \/ Send("rec")

Command(u) == \/ LockMode(u) \/ LockDisconnect(u) \/ Teardown(u) \/ UsingCli(u)
              \/ CliDown(u) \/ Connect(u) \/ Renew(u) \/ Apply(u) \/ Finish(u)
              \/ Send(u)

Next == \/ Monitor \/ Handler \/ Recovery \/ Drop
        \/ \E u \in Users : \/ Disconnect(u) \/ Switch(u) \/ Restore(u)
                            \/ Refresh(u) \/ Command(u)

Spec == Init /\ [][Next]_vars

\* Go's scheduler runs every goroutine that can go on; its mutexes and channel
\* hand over in order; the deadlines of the external processes end them.
FairSpec ==
  /\ Spec
  /\ WF_vars(Monitor) /\ WF_vars(Handler) /\ WF_vars(Recovery)
  /\ \A u \in Users : WF_vars(Command(u))
-----------------------------------------------------------------------------
(* Properties of every interleaving. *)

DiscLabels == {"cancel", "using", "stop", "remove", "cli", "down", "clear",
               "idle", "reset"}
ApplyLabels == {"backend", "refresh", "static", "purge", "purging", "add",
                "adding", "check", "active", "unlockApply"}
DialLabels == {"conn", "tunBegin", "tunEnd", "tunStop", "setTun", "prep",
               "dial", "setCisco", "connected", "connFail"}

\* Every path through a critical section, the early returns of a cancelled
\* apply, a failed disconnect or a failed dial included, holds its mutex to the
\* end and gives it back: routeApplyMu, disconnectMu, modeSwitchMu, the route
\* manager's and the TUN session's.
LocksHeld ==
  \A p \in Actors :
    /\ pc[p] \in ApplyLabels <=> lock["apply"] = p
    /\ (p \in Users /\ pc[p] \in DiscLabels) <=> lock["disc"] = p
    /\ (\/ op[p] \in {"switch", "abort"}
        \/ op[p] = "restore" /\ pc[p] # "lockMode") <=> lock["mode"] = p
    /\ pc[p] \in {"purging", "adding"} <=> lock["routes"] = p
    /\ pc[p] = "tunEnd" <=> lock["tunnel"] = p

\* docs/native-ui-host.md:36: two manual connections never run at once, be it a
\* reconnect, the choice of a site or the return to the usual site.
ConnectionsExclusive ==
  \A u, v \in Users :
    (pc[u] \in DialLabels /\ pc[v] \in DialLabels) => u = v

\* manualConnectionBusy blocks disconnect, restore and refresh buttons: it is
\* set exactly while a reconnect or a choice of a site is under way, so that no
\* path leaves it set (buttons dead for ever) or clears it too early.
BusyWhileSwitching ==
  manualBusy <=> \E u \in Users : op[u] \in {"switch", "abort"}

\* Monitor.SetState changes the state under its mutex and sends afterwards.
\* Even so a lost link is never forgotten: while the state is Cleaning, a
\* Cleaning event is on its way or the handler is at work on one.
CleaningIsPending ==
  mstate = "cleaning" =>
    \/ outbox["mon"] = "cleaning"
    \/ \E i \in DOMAIN queue : queue[i] = "cleaning"
    \/ pc["hnd"] \in DiscLabels

\* Where each goroutine can be, and which command a user's goroutine runs there.
ControlFlow ==
  /\ \A p \in {"mon", "hnd", "rec"} : op[p] = "apply"
  /\ pc["mon"] \in {"poll", "read", "set"}
  /\ pc["hnd"] \in {"wait", "lockApply", "recover"} \cup ApplyLabels
                    \cup (DiscLabels \ {"cli", "down"})
  /\ pc["rec"] \in {"rest"} \cup DialLabels
  /\ \A u \in Users :
       \/ pc[u] = "rest" /\ op[u] = "apply"
       \/ pc[u] = "lockMode" /\ op[u] = "restore"
       \/ pc[u] \in {"lockDisc"} \cup DiscLabels
          /\ op[u] \in {"disconnect", "switch", "restore"}
       \/ pc[u] \in {"clear", "idle", "reset"} /\ op[u] = "abort"
       \/ pc[u] \in DialLabels /\ op[u] \in {"switch", "restore"}
       \/ pc[u] = "finish" /\ op[u] \in {"switch", "restore", "abort"}
       \/ pc[u] = "renew" /\ op[u] = "refresh"
       \/ pc[u] \in {"lockApply"} \cup ApplyLabels
          /\ op[u] \in {"apply", "refresh"}

\* The inductive invariant of the proofs, checked as it stands as well.
SessionInv ==
  TypeOK /\ ControlFlow /\ LocksHeld /\ BusyWhileSwitching /\ CleaningIsPending

-----------------------------------------------------------------------------
(* Properties that need commands and polls to come one after the other: an   *)
(* empty Overlap and one goroutine for the commands.  Loss, recovery, handler *)
(* and command still interleave.  With overlap, or with a second goroutine,   *)
(* they fail: see the README.                                               *)

LinkUp == IF backend = "tun" THEN tun = "up" ELSE cisco

\* docs/manual-verification-checklist.md:112, routes are cleaned up when the
\* VPN goes down: nothing is left in the routing table once the session is
\* down and everybody has finished.
RoutesGoneAtIdle ==
  Settled /\ mstate = "idle" /\ ~LinkUp => routes = "none"

\* For an Active Cisco session every batch of its static routes has been
\* tried, whatever cancelled application or removal came before:
\* applySplitRoutes(false) takes any tracked route for a complete set.
RoutesWhileActive ==
  Split /\ Settled /\ mstate = "active" /\ backend = "cisco" => routes = "full"

\* No OpenConnect or sing-box process outlives the backend that owns it:
\* teardown stops the pair only while activeBackend names it.
NoOrphanTunnel == Settled /\ backend = "none" => tun = "down"

\* main.go:1385, "Automatic VPN recovery started after backend failure": as
\* long as no backend has failed, nothing is recovered.
RecoveryNeedsLoss == drops = 0 => pc["rec"] = "rest"

\* Finitely many commands and losses are followed by rest: a recovery never
\* provokes the next one, and Cleaning is always left.
ComesToRest == <>[](Settled /\ mstate # "cleaning")

\* With vpncli at hand to ask, an Active session whose link is lost is noticed:
\* it is dialled again or leaves Active.
Heals == HasCli => <>[](mstate = "active" => LinkUp)
=============================================================================
