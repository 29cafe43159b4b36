---------------------------- MODULE AndroidService ---------------------------
(***************************************************************************)
(* service/AnyConnectVpnService.kt with core/VpnRecoveryPolicy.kt: the main *)
(* thread handles the commands in the order of its queue; each connection  *)
(* has a generation and a worker thread, which calls connect (a call of    *)
(* VpnContract) and calls it once more when an established tunnel is lost. *)
(* The system restarts the service of a killed process and delivers again  *)
(* what it had not finished (START_STICKY).                                *)
(***************************************************************************)
EXTENDS Naturals, Sequences, VpnContract

CONSTANTS
  MaxCommands,  \* bound: number of commands of the user
  MaxFaults     \* bound: number of times the system kills the process, or
                \* join(2000) gives up

ASSUME ServiceAssumption == {MaxCommands, MaxFaults} \subseteq Nat

VARIABLES
  inbox,    \* what the main thread is to handle
  started, exists,  \* the system keeps the service started; it has an instance
  main, command,    \* where the main thread is, and in handling what
  gen,      \* connectionGeneration: the generation that is current, or 0
  engine, worker,   \* the fields: whose they are, or 0
  thread,   \* the worker thread of each generation
  status,   \* what publishStatus saved last
  commands, faults,
  wanted,   \* history: the last command of the user was "connect"
  slips     \* history of the races this module knows of; see Slip

queue == <<inbox, started, exists>>
caller == <<main, command>>
fields == <<gen, engine, worker>>
bounds == <<commands, faults>>
vars == <<queue, caller, fields, thread, status, bounds, wanted, slips>>

\* A worker compares its generation with the current one only, so the number
\* of a worker that has ended is free for a new one.
Generations == 1..(MaxFaults + 1)

Busy == {"head", "make", "wait", "run", "announce", "after", "decide", "fail",
         "quit", "again", "delay", "poll"}

Idle == [at |-> "done", call |-> Fresh, hasConnected |-> FALSE,
         reauthenticationAttempted |-> FALSE, interrupted |-> FALSE]

Threads == [at : Busy \cup {"done"}, call : Calls, hasConnected : BOOLEAN,
            reauthenticationAttempted : BOOLEAN, interrupted : BOOLEAN]

Values ==
  /\ inbox \in Seq({"connect", "disconnect", "restore", "destroy"})
  /\ main \in {"idle", "cancel", "clear", "join", "finish"}
  /\ command \in {"none", "connect", "disconnect", "restore", "destroy"}
  /\ {gen, engine, worker} \subseteq Generations \cup {0}
  /\ thread \in [Generations -> Threads]
  /\ status \in {"disconnected", "connecting", "connected", "failed"}
  /\ {started, exists, wanted} \subseteq BOOLEAN
  /\ commands \in 0..MaxCommands /\ faults \in 0..MaxFaults
  /\ slips \subseteq {"stray", "silent", "overtaken"}

At(g) == thread[g].at
Up(g) == thread[g].call.up

\* What the threads find and leave.
Control ==
  /\ command = "none" <=> main = "idle"
  /\ gen # 0 => gen = worker /\ main = "idle"
  /\ \A g \in Generations :
       /\ At(g) = "done" => thread[g] = Idle
       /\ thread[g].call.phase = "live" => At(g) \in {"run", "announce"}

TypeOK == Values /\ Control

\* The thread of g goes from one place to another; it changes itself only, or
\* what it says as well.
Step(g, from, t) == At(g) = from /\ thread' = [thread EXCEPT ![g] = t]
Goto(g, from, to) == Step(g, from, [thread[g] EXCEPT !.at = to])
End(g) == thread' = [thread EXCEPT ![g] = Idle]
Quietly == UNCHANGED <<queue, caller, fields, status, bounds, wanted, slips>>

ConnectWaits == \E i \in 1..Len(inbox) : inbox[i] = "connect"

\* "stray": a call could be cancelled only after its generation had ended;
\* "silent": connect returned though nobody had stopped it; "overtaken":
\* stopSelf, which ends every start, came after a newer one.
Slip(s, happened) == slips' = IF happened THEN slips \cup {s} ELSE slips

-----------------------------------------------------------------------------
(* Faulty variants of definitions below, each with the mistake its name     *)
(* says.                                                                    *)

Take_KeepsGeneration ==
  /\ main = "idle" /\ inbox # <<>>
  /\ command' = Head(inbox) /\ inbox' = Tail(inbox)
  /\ exists' = (Head(inbox) # "destroy" \/ exists)
  /\ main' = "cancel"
  /\ UNCHANGED <<started, fields, thread, status, bounds, wanted, slips>>

CancelEngine_Forgotten ==
  /\ main = "cancel" /\ main' = "clear"
  /\ UNCHANGED <<queue, command, fields, thread, status, bounds, wanted, slips>>

FinishDisconnect_KeepsService ==
  /\ main = "finish" /\ command = "disconnect"
  /\ main' = "idle" /\ command' = "none"
  /\ worker' = 0 /\ status' = "disconnected"
  /\ UNCHANGED <<queue, gen, engine, thread, bounds, wanted, slips>>

onConnected_OfAnyGeneration(g, t) ==
  [t EXCEPT !.at = "announce", !.hasConnected = TRUE,
            !.reauthenticationAttempted = FALSE]

After_ClearsAnothers(g) ==
  /\ At(g) = "after"
  /\ IF thread[g].call.outcome = "quiet" THEN End(g)
                                         ELSE Goto(g, "after", "decide")
  /\ engine' = 0
  /\ Slip("silent", thread[g].call.outcome = "quiet" /\ gen = g)
  /\ UNCHANGED <<queue, caller, gen, worker, status, bounds, wanted>>

-----------------------------------------------------------------------------
(* The user, and the system. *)

\* startService, from the main page, which runs on the main thread as well.
Give(c) ==
  /\ main = "idle" /\ commands < MaxCommands /\ commands' = commands + 1
  /\ inbox' = Append(inbox, c) /\ started' = TRUE
  /\ wanted' = (c = "connect")
  /\ UNCHANGED <<exists, caller, fields, thread, status, faults, slips>>

\* A service that nobody has started or, with its interface, bound.
BringDown ==
  /\ exists /\ ~started
  /\ \A g \in Generations : ~Up(g)
  /\ inbox' = Append(inbox, "destroy") /\ exists' = FALSE
  /\ UNCHANGED <<started, caller, fields, thread, status, bounds, wanted, slips>>

\* What the main thread is to finish; of that, the system delivers the user's
\* commands again, in their order.
pending == (IF main = "idle" THEN <<>> ELSE <<command>>) \o inbox

UserCommands == {"connect", "disconnect"}

unfinished ==
  LET kept[n \in 0..Len(pending)] ==
        IF n = 0 THEN <<>>
        ELSE IF pending[n] \in UserCommands THEN Append(kept[n - 1], pending[n])
                                            ELSE kept[n - 1]
  IN kept[Len(pending)]

\* The process dies.  If the service is started, it starts again with the
\* commands that were not finished or, if there are none, with a null intent.
Die ==
  /\ inbox' = IF unfinished = <<>> /\ started THEN <<"restore">> ELSE unfinished
  /\ exists' = FALSE
  /\ main' = "idle" /\ command' = "none"
  /\ gen' = 0 /\ engine' = 0 /\ worker' = 0
  /\ thread' = [g \in Generations |-> Idle]
  /\ UNCHANGED <<started, status, commands, wanted, slips>>

SystemKill == faults < MaxFaults /\ faults' = faults + 1 /\ Die

-----------------------------------------------------------------------------
(* The main thread: onStartCommand and onDestroy. *)

\* stopConnection begins: the generation ends.
Take ==
  /\ main = "idle" /\ inbox # <<>>
  /\ command' = Head(inbox) /\ inbox' = Tail(inbox)
  /\ exists' = (Head(inbox) # "destroy" \/ exists)
  /\ gen' = 0 /\ main' = "cancel"
  /\ UNCHANGED <<started, engine, worker, thread, status, bounds, wanted,
                 slips>>

\* engine?.cancel() finds a client or does nothing.
CancelEngine ==
  /\ main = "cancel"
  /\ \/ /\ engine # 0
        /\ \E d \in Hears(thread[engine].call) :
             thread' = [thread EXCEPT ![engine].call = d]
     \/ /\ engine # 0 => Hears(thread[engine].call) = {}
        /\ UNCHANGED thread
  /\ main' = "clear"
  /\ UNCHANGED <<queue, command, fields, status, bounds, wanted, slips>>

Interrupt ==
  /\ main = "clear"
  /\ engine' = 0
  /\ IF worker # 0 /\ At(worker) # "done"
       THEN thread' = [thread EXCEPT ![worker].interrupted = TRUE]
       ELSE UNCHANGED thread
  /\ main' = "join"
  /\ UNCHANGED <<queue, command, gen, worker, status, bounds, wanted, slips>>

\* A worker inside connect may need longer than the two seconds of the join.
Join ==
  /\ main = "join"
  /\ \/ (worker # 0 => At(worker) = "done") /\ UNCHANGED faults
     \/ /\ worker # 0 /\ At(worker) = "run"
        /\ faults < MaxFaults /\ faults' = faults + 1
  /\ main' = "finish"
  /\ UNCHANGED <<queue, command, fields, thread, status, commands, wanted,
                 slips>>

Finish(c) ==
  main = "finish" /\ command = c /\ main' = "idle" /\ command' = "none"

\* stopSelf, and the status of a disconnect.
FinishDisconnect ==
  /\ Finish("disconnect")
  /\ worker' = 0 /\ started' = FALSE /\ status' = "disconnected"
  /\ Slip("overtaken", ConnectWaits)
  /\ UNCHANGED <<inbox, exists, gen, engine, thread, bounds, wanted>>

FinishDestroy ==
  /\ Finish("destroy")
  /\ worker' = 0
  /\ UNCHANGED <<queue, gen, engine, thread, status, bounds, wanted, slips>>

\* startConnection after its stopConnection; the saved settings that
\* restoreLastConnection reads are those of the last connect.
FinishConnect ==
  /\ Finish("connect") \/ Finish("restore")
  /\ \E g \in Generations :
       /\ thread[g] = Idle /\ \A h \in 1..(g - 1) : thread[h] # Idle
       /\ gen' = g /\ worker' = g
       /\ thread' = [thread EXCEPT ![g].at = "head"]
  /\ status' = "connecting"
  /\ UNCHANGED <<queue, engine, bounds, wanted, slips>>

-----------------------------------------------------------------------------
(* A worker. *)

\* The loop, and the new engine.
LoopHead(g) ==
  /\ At(g) = "head"
  /\ IF gen = g /\ ~thread[g].interrupted THEN Goto(g, "head", "make")
                                           ELSE End(g)
  /\ Quietly

MakeEngine(g) ==
  /\ Step(g, "make", [thread[g] EXCEPT !.at = "wait", !.call = Fresh])
  /\ engine' = g
  /\ UNCHANGED <<queue, caller, gen, worker, status, bounds, wanted, slips>>

\* awaitPreviousVpnRelease: with no VPN left it asks for nothing else.
Released(g) ==
  /\ \A h \in Generations : ~Up(h)
  /\ Goto(g, "wait", "run")
  /\ Quietly

NotReleased(g) ==
  /\ Step(g, "wait", [thread[g] EXCEPT !.at = "after", !.call.phase = "over",
                                       !.call.outcome = "failed"])
  /\ Quietly

\* The callback, but for what it publishes.
onConnected(g, t) ==
  IF gen # g THEN t
  ELSE [t EXCEPT !.at = "announce", !.hasConnected = TRUE,
                 !.reauthenticationAttempted = FALSE]

\* connect, by itself.
Connects(g) ==
  /\ At(g) = "run"
  /\ \E d \in Own(thread[g].call) :
       LET c == thread[g].call
           t == [thread[g] EXCEPT !.call = d,
                   !.at = IF d.phase = "over" THEN "after" ELSE "run"]
       IN /\ Step(g, "run", IF d.said /\ ~c.said THEN onConnected(g, t) ELSE t)
          /\ Slip("stray", d = Begun(c) /\ gen # g)
  /\ UNCHANGED <<queue, caller, fields, status, bounds, wanted>>

\* onConnected has checked the generation; now it publishes.
Announce(g) ==
  /\ Goto(g, "announce", "run")
  /\ status' = "connected"
  /\ UNCHANGED <<queue, caller, fields, bounds, wanted, slips>>

\* The engine is forgotten; a call that returned ends the worker.
After(g) ==
  LET quiet == thread[g].call.outcome = "quiet" IN
  /\ At(g) = "after"
  /\ IF quiet THEN End(g) ELSE Goto(g, "after", "decide")
  /\ engine' = IF engine = g THEN 0 ELSE engine
  /\ Slip("silent", quiet /\ gen = g)
  /\ UNCHANGED <<queue, caller, gen, worker, status, bounds, wanted>>

\* VpnRecoveryPolicy.decide, of a thread whose call threw.
decide(t, generationActive) ==
  CASE ~generationActive -> "STOP"
    [] generationActive /\ t.call.outcome = "dns" -> "FAIL"
    [] OTHER -> IF t.hasConnected /\ ~t.reauthenticationAttempted
                  THEN "REAUTHENTICATE" ELSE "FAIL"

Decide(g) ==
  LET action == decide(thread[g], gen = g)
      t == [thread[g] EXCEPT !.call = Fresh]
  IN /\ \/ action = "STOP" /\ At(g) = "decide" /\ End(g)
        \/ action = "FAIL" /\ Step(g, "decide", [t EXCEPT !.at = "fail"])
        \/ /\ action = "REAUTHENTICATE"
           /\ Step(g, "decide", [t EXCEPT !.at = "again",
                                          !.reauthenticationAttempted = TRUE])
     /\ Quietly

Fail(g) ==
  /\ Goto(g, "fail", "quit")
  /\ status' = "failed"
  /\ UNCHANGED <<queue, caller, fields, bounds, wanted, slips>>

\* stopSelf, whatever has been started since.
Quit(g) ==
  /\ At(g) = "quit" /\ End(g)
  /\ started' = FALSE
  /\ Slip("overtaken", gen # g \/ ConnectWaits)
  /\ UNCHANGED <<inbox, exists, caller, fields, status, bounds, wanted>>

Again(g) ==
  /\ Goto(g, "again", "delay")
  /\ status' = "connecting"
  /\ UNCHANGED <<queue, caller, fields, bounds, wanted, slips>>

\* awaitReconnectNetwork.
AwaitNetwork(g) ==
  /\ ~thread[g].interrupted
  /\ Goto(g, "delay", "poll") \/ Goto(g, "poll", "head")
  /\ Quietly

PollStopped(g) ==
  /\ gen # g /\ Goto(g, "poll", "head")
  /\ Quietly

\* Its sleeps are outside runCatching: an interrupt kills the process.
Uncaught(g) ==
  /\ At(g) \in {"delay", "poll"} /\ thread[g].interrupted
  /\ Die /\ UNCHANGED faults

-----------------------------------------------------------------------------
Init ==
  /\ inbox = <<>> /\ main = "idle" /\ command = "none" /\ status = "disconnected"
  /\ gen = 0 /\ engine = 0 /\ worker = 0
  /\ thread = [g \in Generations |-> Idle]
  /\ started = FALSE /\ exists = FALSE /\ wanted = FALSE
  /\ commands = 0 /\ faults = 0 /\ slips = {}

Handle ==
  \/ Take \/ CancelEngine \/ Interrupt \/ Join
  \/ FinishDisconnect \/ FinishDestroy \/ FinishConnect

\* connect gets out of loading, and ends once a cancel has reached it.
MustGoOn(g) == thread[g].call.phase = "load" \/ thread[g].call.heard

\* What a worker gets to in any case.
Moves(g) ==
  \/ LoopHead(g) \/ MakeEngine(g) \/ Released(g) \/ NotReleased(g) \/ Announce(g)
  \/ After(g) \/ Decide(g) \/ Fail(g) \/ Quit(g) \/ Again(g)
  \/ PollStopped(g) \/ Uncaught(g)
  \/ MustGoOn(g) /\ Connects(g)

Next ==
  \/ \E c \in UserCommands : Give(c)
  \/ BringDown \/ SystemKill \/ Handle
  \/ \E g \in Generations : Moves(g) \/ Connects(g) \/ AwaitNetwork(g)

Fairness == WF_vars(Handle) /\ \A g \in Generations : WF_vars(Moves(g))

Spec == Init /\ [][Next]_vars /\ Fairness

-----------------------------------------------------------------------------
(* Properties. *)

Settled == main = "idle" /\ inbox = <<>>

\* After a disconnect nothing connects again, neither a restart of the service
\* nor a worker of an earlier generation, and what is still up has been told to
\* end.
DisconnectHolds ==
  Settled /\ ~wanted /\ "stray" \notin slips
    => gen = 0 /\ \A g \in Generations : Up(g) => thread[g].call.heard

\* The same of every connection, as the design promises it.
DisconnectClosesTunnel ==
  Settled /\ ~wanted => \A g \in Generations : Up(g) => thread[g].call.heard

\* The status says "connecting" or "connected" only while the worker of the
\* current generation is at work, across kills and restarts of the process.
StatusTruthful ==
  Settled /\ status \in {"connecting", "connected"} /\ slips = {}
    => gen # 0 /\ At(gen) # "done"

\* The field engine is that of the worker that runs a connection now: the next
\* stopConnection reaches it, whatever an older worker does when it ends late.
StopReaches ==
  main = "idle" /\ gen # 0 /\ At(gen) \in {"wait", "run", "announce"}
    => engine = gen

\* After a disconnect every worker ends and every interface goes.
DisconnectEnds ==
  ~wanted ~> \/ wanted \/ slips # {}
             \/ \A g \in Generations : At(g) = "done"
=============================================================================
