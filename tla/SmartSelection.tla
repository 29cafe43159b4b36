---------------------------- MODULE SmartSelection ----------------------------
(***************************************************************************)
(* switchToCodexMode of cmd/main.go with smart_runtime.go and              *)
(* internal/smartselect: the program leaves the line it is on, tries up to *)
(* two others, asks, and then either adopts one or goes back.  A file, the *)
(* recovery point, names the line to go back to while that is open, so     *)
(* that the next start can do it.  Around it: the windows of the host,     *)
(* whose answers come through the command channel, the user's own          *)
(* selection of a line, the 60 seconds a selection may take, crashes and   *)
(* starts.                                                                 *)
(*                                                                         *)
(* A dial succeeds or fails as a whole here; SessionControl and TunSession *)
(* have its steps.  Which lines are eligible, and what probes find, is     *)
(* left open.                                                              *)
(***************************************************************************)
EXTENDS DashboardCommands, FiniteSets

CONSTANTS
  Sites,          \* the lines that can be dialed
  Home, Abroad,   \* the preferred and the codex site of the configuration
  MaxCandidates,  \* 2 in the code
  Faults,         \* what may go wrong in this instance
  MaxRuns,        \* bound: number of selections
  MaxChoices,     \* bound: number of the user's own selections
  MaxFaults       \* bound: number of crashes and failing writes

ASSUME SmartAssumption ==
  /\ {Home, Abroad} \subseteq Sites /\ "none" \notin Sites
  /\ MaxCandidates \in Nat
  /\ Faults \subseteq {"crash", "save"}
  /\ MaxRuns \in Nat /\ MaxChoices \in Nat /\ MaxFaults \in Nat

Nowhere == "none"
Lines == Sites \cup {Nowhere}
NoPoint == [site |-> Nowhere, mode |-> FALSE]

VARIABLES
  cfg,       \* the configuration in memory: preferred and codex site, codex mode
  saved,     \* config.yaml
  point,     \* smart-select-transaction.json; NoPoint when there is none
  link,      \* the line the tunnel is on
  site,      \* connectedSite
  up,        \* how far the program has started
  pc,        \* what the goroutine of the selection does next
  orig,      \* originalSite and originalMode
  cand,      \* the candidate at hand, then the recommended one
  tried,     \* candidates tried in this run
  healthy,   \* currentHealthy
  expired,   \* its context is done: 60 seconds have passed, or cancelled
  decisions, \* the channel of decisions
  lock,      \* holder of modeSwitchMu
  user,      \* what a selection or restoration by the user does next
  target,    \* its line
  state,     \* SmartState in the snapshot for the dashboard
  fresh,     \* SmartResultID is one the host has not seen
  dialog,    \* the question the host's window asks
  runs, choices, faults,
  wanted,    \* history: lines the user has chosen or a selection has adopted
  unrestored, \* history: a selection ended without getting back
  refused    \* history: the first answer to this selection was to go back

run == <<pc, orig, cand, tried, healthy, expired, decisions, refused>>
users == <<user, target>>
host == <<fresh, dialog>>
disk == <<saved, point>>
bounds == <<runs, choices, faults>>
history == <<wanted, unrestored>>
vars == <<channel, cfg, disk, link, site, up, run, lock, users, state, host,
          bounds, history>>

Config == [preferred : Sites, codex : Sites, mode : BOOLEAN]
Questions == {"current_healthy", "recommendation"}

TypeOK ==
  /\ ChannelTypeOK
  /\ cfg \in Config /\ saved \in Config
  /\ point \in [site : Lines, mode : BOOLEAN]
  /\ link \in Lines /\ site \in Lines
  /\ up \in {"off", "forget", "dial", "login", "on"}
  /\ pc \in {"idle", "wait", "probe", "ask", "pick", "trial",
             "recommend", "adopt", "commit", "restore", "forget"}
  /\ orig \in [site : Lines, mode : BOOLEAN]
  /\ cand \in Lines
  /\ tried \subseteq Sites
  /\ healthy \in BOOLEAN /\ expired \in BOOLEAN
  /\ decisions \in Seq(Answers) /\ Len(decisions) <= 2
  /\ lock \in {"free", "smart", "user"}
  /\ user \in {"idle", "wait", "dial", "save"}
  /\ target \in Lines
  /\ state \in {"idle", "running", "restoring"} \cup Questions
  /\ fresh \in BOOLEAN
  /\ dialog \in {"none"} \cup Questions
  /\ runs \in 0..MaxRuns /\ choices \in 0..MaxChoices /\ faults \in 0..MaxFaults
  /\ wanted \subseteq Sites
  /\ unrestored \in BOOLEAN /\ refused \in BOOLEAN

Running == pc # "idle"

\* The line connectionInput dials with a given configuration.
Preferred(c) == IF c.mode THEN c.codex ELSE c.preferred

\* A write of config.yaml, or of the recovery point, fails.
Failing == "save" \in Faults /\ faults < MaxFaults /\ faults' = faults + 1
Saving(c) == saved' = c /\ UNCHANGED faults

\* cfg.Save where the code ignores an error.
TrySave(c) == Saving(c) \/ (Failing /\ UNCHANGED saved)

\* The deferred calls: modeSwitchMu is released, then finish.
Leave ==
  /\ pc' = "idle" /\ lock' = "free" /\ state' = "idle"
  /\ decisions' = <<>> /\ refused' = FALSE
  /\ orig' = NoPoint /\ cand' = Nowhere /\ tried' = {} /\ healthy' = FALSE
  /\ expired' = FALSE

\* The next decision in the channel is one of A.
Heard(A) == decisions # <<>> /\ Head(decisions) \in A

-----------------------------------------------------------------------------
(* Faulty variants of actions below, each with the mistake its name says.   *)

Choose_CancelOnlyStops(a) ==
  /\ decisions' = IF Running /\ Len(decisions) < 2 /\ a # "cancel"
                  THEN Append(decisions, a) ELSE decisions
  /\ expired' = (expired \/ (Running /\ a = "cancel"))
  /\ refused' = (refused \/ (Running /\ a \in {"cancel", "restore"}
                             /\ decisions = <<>>
                             /\ pc \notin {"adopt", "commit"}))

RollBack_PreferredOnly ==
  /\ up = "off"
  /\ cfg' = IF point = NoPoint THEN cfg
            ELSE [cfg EXCEPT !.mode = point.mode, !.preferred = point.site]
  /\ IF point = NoPoint THEN UNCHANGED <<saved, faults>> ELSE TrySave(cfg')
  /\ up' = "forget"
  /\ unrestored' = (unrestored \/ saved' # cfg')
  /\ UNCHANGED <<channel, point, link, site, run, lock, users, state,
                 host, runs, choices, wanted>>

KeepCurrent_WaitsForever ==
  /\ pc = "ask"
  /\ Heard(Answers \ {"continue"})
  /\ point' = NoPoint
  /\ Leave
  /\ UNCHANGED <<channel, cfg, saved, link, site, up, users, host, bounds,
                 history>>

GoBack_ForgetsFirst ==
  /\ pc = "restore"
  /\ point' = NoPoint
  /\ \/ /\ link' = orig.site /\ site' = orig.site
        /\ cfg' = [cfg EXCEPT !.mode = orig.mode]
        /\ TrySave(cfg')
        /\ pc' = "forget"
        /\ UNCHANGED <<state, orig, cand, tried, healthy, expired, decisions,
                       refused, lock, unrestored>>
     \/ /\ link' = Nowhere
        /\ Leave
        /\ UNCHANGED <<cfg, saved, site, faults, unrestored>>
  /\ UNCHANGED <<channel, up, users, host, runs, choices, wanted>>

-----------------------------------------------------------------------------
(* The selection. *)

\* OnCodexMode and begin: refused while the user's own selection is busy.
BeginSelection ==
  /\ up = "on" /\ pc = "idle" /\ user \in {"idle", "wait"}
  /\ runs < MaxRuns /\ runs' = runs + 1
  /\ pc' = "wait" /\ state' = "running"
  /\ expired' = FALSE /\ decisions' = <<>> /\ refused' = FALSE
  /\ UNCHANGED <<channel, cfg, disk, link, site, up, orig, cand, tried, healthy,
                 lock, users, host, choices, faults, history>>

\* Without a stored credential, a candidate or a point to return to there is
\* no selection.
SavePoint ==
  /\ pc = "wait" /\ lock = "free"
  /\ \/ /\ site # Nowhere
        /\ orig' = [site |-> site, mode |-> cfg.mode]
        /\ point' = orig'
        /\ pc' = "probe" /\ lock' = "smart"
        /\ UNCHANGED <<cand, tried, healthy, expired, decisions, refused, state,
                       faults>>
     \/ Leave /\ UNCHANGED point /\ (Failing \/ UNCHANGED faults)
  /\ UNCHANGED <<channel, cfg, saved, link, site, up, users, host, runs,
                 choices,
                 history>>

GoingBack == pc' = "restore" /\ state' = "restoring"

Ask(question) == state' = question /\ fresh' = TRUE /\ UNCHANGED dialog

\* Three rounds on the current line.
ProbeCurrent ==
  /\ pc = "probe"
  /\ healthy' \in BOOLEAN
  /\ \/ /\ expired
        /\ GoingBack /\ UNCHANGED host
     \/ /\ ~expired /\ healthy'
        /\ pc' = "ask" /\ Ask("current_healthy")
     \/ /\ ~expired /\ ~healthy'
        /\ pc' = "pick" /\ UNCHANGED <<state, host>>
  /\ UNCHANGED <<channel, cfg, disk, link, site, up, orig, cand, tried, expired,
                 decisions, refused, lock, users, bounds, history>>

\* The wait for a decision or the end of the context; when both are there
\* select takes either.
HearContinue ==
  /\ pc = "ask" /\ Heard({"continue"})
  /\ decisions' = Tail(decisions)
  /\ pc' = "pick"
  /\ UNCHANGED <<channel, cfg, disk, link, site, up, orig, cand, tried, healthy,
                 expired, refused, lock, users, state, host, bounds,
                 history>>

KeepCurrent ==
  /\ pc = "ask"
  /\ expired \/ Heard(Answers \ {"continue"})
  /\ point' = NoPoint
  /\ Leave
  /\ UNCHANGED <<channel, cfg, saved, link, site, up, users, host, bounds,
                 history>>

\* The next candidate: the old session is taken down, and if there is still time
\* the candidate is dialed.
Try ==
  /\ pc = "pick" /\ ~expired /\ Cardinality(tried) < MaxCandidates
  /\ state' = "running"
  /\ \E c \in Sites \ (tried \cup {orig.site}) :
       /\ tried' = tried \cup {c}
       /\ \/ link' = c /\ site' = c /\ cand' = c /\ pc' = "trial"
          \/ link' = Nowhere /\ UNCHANGED <<site, cand, pc>>
  /\ UNCHANGED <<channel, cfg, disk, up, orig, healthy, expired, decisions,
                 refused, lock, users, host, bounds, history>>

\* No candidate is left, or no time: nothing is recommended.
GiveUp ==
  /\ pc = "pick"
  /\ GoingBack
  /\ UNCHANGED <<channel, cfg, disk, link, site, up, orig, cand, tried, healthy,
                 expired, decisions, refused, lock, users, host, bounds, history>>

\* Four rounds on the candidate: not qualified, qualified but no better than a
\* healthy current line, or recommended.
Trial ==
  /\ pc = "trial"
  /\ \/ pc' = "pick" /\ cand' = Nowhere /\ UNCHANGED <<state, host>>
     \/ healthy /\ GoingBack /\ cand' = Nowhere /\ UNCHANGED host
     \/ pc' = "recommend" /\ Ask("recommendation") /\ UNCHANGED cand
  /\ UNCHANGED <<channel, cfg, disk, link, site, up, orig, tried, healthy,
                 expired,
                 decisions, refused, lock, users, bounds, history>>

\* A decision, or 20 seconds without one, which accept.
Decide ==
  /\ pc = "recommend"
  /\ \/ /\ decisions = <<>> \/ Heard({"accept"})
        /\ pc' = "adopt" /\ UNCHANGED <<cand, state>>
     \/ /\ Heard(Answers \ {"accept"})
        /\ GoingBack /\ cand' = Nowhere
  /\ decisions' = IF decisions = <<>> THEN <<>> ELSE Tail(decisions)
  /\ UNCHANGED <<channel, cfg, disk, link, site, up, orig, tried, healthy,
                 expired,
                 refused, lock, users, host, bounds, history>>

\* A failing save takes back the mode, not the site.
Adopt ==
  /\ pc = "adopt"
  /\ LET new == [cfg EXCEPT !.codex = cand, !.mode = TRUE]
     IN  \/ /\ cfg' = new /\ Saving(new)
            /\ pc' = "commit" /\ UNCHANGED <<state, unrestored>>
         \/ /\ Failing
            /\ cfg' = [new EXCEPT !.mode = orig.mode]
            /\ GoingBack /\ unrestored' = TRUE /\ UNCHANGED saved
  /\ UNCHANGED <<channel, point, link, site, up, orig, cand, tried, healthy,
                 expired, decisions, refused, lock, users, host, runs, choices,
                 wanted>>

Commit ==
  /\ pc = "commit"
  /\ point' = NoPoint
  /\ wanted' = wanted \cup {cand}
  /\ Leave
  /\ UNCHANGED <<channel, cfg, saved, link, site, up, users, host, bounds,
                 unrestored>>

\* restoreOriginal: the session is taken down and the original line dialed.
GoBack ==
  /\ pc = "restore"
  /\ \/ /\ link' = orig.site /\ site' = orig.site
        /\ cfg' = [cfg EXCEPT !.mode = orig.mode]
        /\ TrySave(cfg')
        /\ pc' = "forget"
        /\ UNCHANGED <<state, orig, cand, tried, healthy, expired, decisions,
                       refused,
                       lock, unrestored>>
     \/ /\ link' = Nowhere
        /\ unrestored' = TRUE
        /\ Leave
        /\ UNCHANGED <<cfg, saved, site, faults>>
  /\ UNCHANGED <<channel, point, up, users, host, runs, choices, wanted>>

Forget ==
  /\ pc = "forget"
  /\ point' = NoPoint
  /\ Leave
  /\ UNCHANGED <<channel, cfg, saved, link, site, up, users, host, bounds,
                 history>>

-----------------------------------------------------------------------------
(* The host's windows and their answers. *)

\* A result with a new number opens a window if the state still asks.
ShowResult ==
  /\ dialog = "none" /\ fresh
  /\ fresh' = FALSE
  /\ dialog' = IF state \in Questions THEN state ELSE "none"
  /\ UNCHANGED <<channel, cfg, disk, link, site, up, run, lock, users, state,
                 bounds, history>>

\* The user answers, or the host's own 20 seconds are over.
Answer ==
  /\ dialog # "none"
  /\ \E a \in IF dialog = "recommendation" THEN {"accept", "restore"}
                                           ELSE {"continue", "cancel"} : Send(a)
  /\ dialog' = "none"
  /\ UNCHANGED <<cfg, disk, link, site, up, run, lock, users, state, fresh,
                 bounds, history>>

\* The button of the settings page.
CancelButton ==
  /\ dialog = "none" /\ state \in {"running", "restoring"}
  /\ Send("cancel")
  /\ UNCHANGED <<cfg, disk, link, site, up, run, lock, users, state, host,
                 bounds, history>>

\* OnSmartContinue, OnSmartCancel, OnSmartAccept and OnSmartRestore: a full
\* channel drops the answer.
Choose(a) ==
  LET v == IF a = "cancel" THEN "restore" ELSE a
  IN  /\ decisions' = IF Running /\ Len(decisions) < 2 THEN Append(decisions, v)
                                                       ELSE decisions
      /\ expired' = (expired \/ (Running /\ a = "cancel"))
      /\ refused' = (refused \/ (Running /\ v = "restore" /\ decisions = <<>>
                                 /\ pc \notin {"adopt", "commit"}))

RunCommand ==
  /\ up = "on"
  /\ Dispatch
  /\ Choose(Head(inbox).action)
  /\ UNCHANGED <<cfg, disk, link, site, up, pc, orig, cand, tried, healthy,
                 lock,
                 users, state, host, bounds, history>>

Tick ==
  /\ up = "on"
  /\ ConsumeCommands
  /\ UNCHANGED <<cfg, disk, link, site, up, run, lock, users, state, host,
                 bounds, history>>

File ==
  /\ Hold \/ Release
  /\ UNCHANGED <<cfg, disk, link, site, up, run, lock, users, state, host,
                 bounds, history>>

Expire ==
  /\ Running /\ ~expired
  /\ expired' = TRUE
  /\ UNCHANGED <<channel, cfg, disk, link, site, up, pc, orig, cand, tried,
                 healthy, decisions, refused, lock, users, state, host, bounds, history>>

-----------------------------------------------------------------------------
(* The user's own selections. *)

\* OnSelectSite takes modeSwitchMu at once or not at all.
SelectSite(s) ==
  /\ up = "on" /\ lock = "free" /\ ~Running /\ user = "idle"
  /\ choices < MaxChoices /\ choices' = choices + 1
  /\ lock' = "user" /\ target' = s
  /\ user' = IF link = s /\ site = s THEN "save" ELSE "dial"
  /\ UNCHANGED <<channel, cfg, disk, link, site, up, run, state, host, runs,
                 faults, history>>

\* OnRestoreNormal checks that no selection runs, then waits for the mutex.
RestoreNormal ==
  /\ up = "on" /\ ~Running /\ user = "idle"
  /\ choices < MaxChoices /\ choices' = choices + 1
  /\ user' = "wait"
  /\ UNCHANGED <<channel, cfg, disk, link, site, up, run, lock, target, state,
                 host, runs, faults, history>>

UserLock ==
  /\ user = "wait" /\ lock = "free"
  /\ lock' = "user" /\ target' = cfg.preferred
  /\ user' = "dial"
  /\ UNCHANGED <<channel, cfg, disk, link, site, up, run, state, host, bounds,
                 history>>

\* disconnectSession and connectFinalSite.
UserDial ==
  /\ user = "dial"
  /\ \/ /\ link' = target /\ site' = target
        /\ user' = "save" /\ UNCHANGED <<lock, target>>
        /\ wanted' = wanted \cup {target}
     \/ /\ link' = Nowhere
        /\ user' = "idle" /\ target' = Nowhere /\ lock' = "free"
        /\ UNCHANGED <<site, wanted>>
  /\ UNCHANGED <<channel, cfg, disk, up, run, state, host, bounds, unrestored>>

\* For RestoreNormal the target is the preferred site already.
UserSave ==
  /\ user = "save"
  /\ cfg' = [cfg EXCEPT !.preferred = target, !.mode = FALSE]
  /\ TrySave(cfg')
  /\ user' = "idle" /\ target' = Nowhere /\ lock' = "free"
  /\ UNCHANGED <<channel, point, link, site, up, run, state, host,
                 runs, choices, history>>

-----------------------------------------------------------------------------
(* Ends and starts of the program. *)

\* The program ends between any two steps; files and host stay.
Crash ==
  /\ "crash" \in Faults /\ faults < MaxFaults /\ faults' = faults + 1
  /\ up # "off" /\ up' = "off"
  /\ ChannelCrash
  /\ cfg' = saved
  /\ link' = Nowhere /\ site' = Nowhere
  /\ pc' = "idle" /\ orig' = NoPoint /\ cand' = Nowhere /\ tried' = {}
  /\ healthy' = FALSE /\ expired' = FALSE /\ decisions' = <<>>
  /\ refused' = FALSE
  /\ lock' = "free" /\ user' = "idle" /\ target' = Nowhere
  /\ state' = "idle"
  /\ UNCHANGED <<disk, host, runs, choices, history>>

\* A recovery point found at the start is put into the configuration.
RollBack ==
  /\ up = "off"
  /\ IF point = NoPoint THEN UNCHANGED <<cfg, saved, faults>>
     ELSE /\ cfg' = IF point.mode
                    THEN [cfg EXCEPT !.mode = TRUE, !.codex = point.site]
                    ELSE [cfg EXCEPT !.mode = FALSE, !.preferred = point.site]
          /\ TrySave(cfg')
  /\ up' = "forget"
  /\ unrestored' = (unrestored \/ saved' # cfg')
  /\ UNCHANGED <<channel, point, link, site, run, lock, users, state,
                 host, runs, choices, wanted>>

ClearPoint ==
  /\ up = "forget"
  /\ point' = NoPoint
  /\ up' = "dial"
  /\ UNCHANGED <<channel, cfg, saved, link, site, run, lock, users, state,
                 host, bounds, history>>

\* connectionInput chooses the line, without a question the first time.
FirstDial ==
  /\ up = "dial"
  /\ \/ link' = Preferred(cfg) /\ site' = link' /\ up' = "on"
     \/ up' = "login" /\ UNCHANGED <<link, site>>
  /\ UNCHANGED <<channel, cfg, disk, run, lock, users, state, host,
                 bounds, history>>

\* The login window saves the line chosen before it is dialed.
Login(s) ==
  /\ up = "login"
  /\ choices < MaxChoices /\ choices' = choices + 1
  /\ cfg' = [cfg EXCEPT !.preferred = s]
  /\ TrySave(cfg')
  /\ wanted' = wanted \cup {s}
  /\ \/ link' = s /\ site' = s /\ up' = "on"
     \/ UNCHANGED <<link, site, up>>
  /\ UNCHANGED <<channel, point, run, lock, users, state, host, runs,
                 unrestored>>

-----------------------------------------------------------------------------
Init ==
  /\ ChannelInit
  /\ cfg \in [preferred : {Home}, codex : {Abroad}, mode : BOOLEAN]
  /\ saved = cfg
  /\ point = NoPoint
  /\ link = Preferred(cfg) /\ site = link /\ up = "on" /\ wanted = {link}
  /\ pc = "idle" /\ orig = NoPoint /\ cand = Nowhere /\ tried = {}
  /\ healthy = FALSE /\ expired = FALSE /\ decisions = <<>>
  /\ lock = "free" /\ user = "idle" /\ target = Nowhere
  /\ state = "idle" /\ fresh = FALSE /\ dialog = "none"
  /\ runs = 0 /\ choices = 0 /\ faults = 0
  /\ unrestored = FALSE /\ refused = FALSE

Select == \/ SavePoint \/ ProbeCurrent \/ HearContinue \/ KeepCurrent \/ Try
          \/ GiveUp \/ Trial \/ Decide \/ Adopt \/ Commit
          \/ GoBack \/ Forget
User == UserLock \/ UserDial \/ UserSave
Start == RollBack \/ ClearPoint \/ FirstDial

Next == \/ BeginSelection \/ Select \/ User \/ Start
        \/ ShowResult \/ Answer \/ CancelButton \/ RunCommand \/ Tick \/ File
        \/ Expire \/ RestoreNormal \/ Crash
        \/ \E s \in Sites : SelectSite(s) \/ Login(s)

Spec == Init /\ [][Next]_vars

\* The goroutines run, and the timer of the context fires; the host, the user
\* and the channel need not do anything.
FairSpec == Spec /\ WF_vars(Select \/ User \/ Expire)

-----------------------------------------------------------------------------
(* Properties. *)

\* What the next start would dial without asking.
NextLine == IF point # NoPoint THEN point.site ELSE Preferred(saved)

\* A line that a selection only tried survives nowhere: neither as the line of
\* an idle program nor as the line of its next start, whatever was cancelled,
\* answered late, lost or ended on the way, as long as every attempt to go back
\* has succeeded.
OnlyWantedLines ==
  unrestored \/ (/\ NextLine \in wanted
                 /\ pc = "idle" /\ link # Nowhere => link \in wanted)

\* A start that finds a recovery point dials its line and has its mode.
StartGoesBack ==
  [][point # NoPoint /\ up = "forget" /\ up' = "dial"
       => Preferred(cfg') = point.site /\ cfg'.mode = point.mode]_vars

\* Once going back was the first answer to a selection, the selection does not
\* adopt a line, however late the answer came.
RefusalHolds == [][refused => pc' # "adopt"]_pc

\* Every selection ends, without any answer.
SelectionEnds == (pc # "idle") ~> (pc = "idle")
=============================================================================
