---------------------------- MODULE RouteManager ----------------------------
(***************************************************************************)
(* internal/route/manager.go: the static routes that go past the VPN, and  *)
(* in domestic_direct mode the ones that go through it.  For each kind the *)
(* manager keeps a list in memory and a record on disk; the routes         *)
(* themselves live in the operating system's table, which outlives the     *)
(* program and which only netsh scripts of a bounded number of lines       *)
(* change.  The mutex of the manager makes one job run at a time, but the  *)
(* program can end and its context be cancelled between any two steps.     *)
(***************************************************************************)
EXTENDS Naturals, FiniteSets

CONSTANTS
  Bypass,     \* prefixes for the original gateway, already summarized
  Foreign,    \* prefixes for the VPN's gateway
  Gateways,   \* gateways of the physical network
  Batch,      \* netshBatchSize: 200 in the code
  Samples,    \* routeCheckSamples: 24 in the code
  Faults,     \* what may go wrong in this instance
  MaxJobs,    \* bound: number of jobs
  MaxFaults   \* bound: number of faults

ASSUME RouteAssumption ==
  /\ Bypass \cap Foreign = {}
  /\ IsFiniteSet(Bypass) /\ IsFiniteSet(Foreign)
  /\ Gateways # {} /\ {"none", "vpn"} \cap Gateways = {}
  /\ Batch \in Nat \ {0} /\ Samples \in Nat \ {0}
  /\ Faults \subseteq {"cancel", "crash", "netsh", "gateway"}
  /\ MaxJobs \in Nat /\ MaxFaults \in Nat

Kinds == {"bypass", "vpn"}
Prefixes == Bypass \cup Foreign
CidrsOf(k) == IF k = "bypass" THEN Bypass ELSE Foreign

VARIABLES
  table,    \* the system's routing table: prefix and gateway of our routes
  gateway,  \* gateway and interface of each kind; "none" when missing
  tracked,  \* appliedRoutes and appliedVPNRoutes
  saved,    \* applied_routes.json and applied_vpn_routes.json
  boot,     \* how far the program's start has come
  job,      \* what the holder of the manager's mutex does
  kind,     \* the routes it works on
  ctx,      \* its context
  todo,     \* the tasks of its later batches
  left,     \* the tasks a removal gives back as remaining
  chunk,    \* its current batch
  result,   \* what netsh said of the batch
  jobs, faults,
  past      \* history: the kinds of the faults so far

vars == <<table, gateway, tracked, saved, boot, job, kind, ctx, todo, left,
          chunk, result, jobs, faults, past>>
work == <<job, kind, ctx, todo, left, chunk, result>>
bounds == <<jobs, faults, past>>

TypeOK ==
  /\ table \subseteq Prefixes \X (Gateways \cup {"vpn"})
  /\ gateway \in [Kinds -> Gateways \cup {"vpn", "none"}]
  /\ tracked \in [Kinds -> SUBSET Prefixes]
  /\ saved \in [Kinds -> SUBSET Prefixes]
  /\ boot \in {"start", "stale", "staleVpn", "forget", "up"}
  /\ job \in {"free", "add", "remove"}
  /\ kind \in Kinds
  /\ ctx \in {"background", "live", "cancelled"}
  /\ todo \subseteq Prefixes
  /\ left \subseteq Prefixes
  /\ chunk \subseteq Prefixes
  /\ result \in {"none", "ok", "known", "failed"}
  /\ jobs \in 0..MaxJobs
  /\ faults \in 0..MaxFaults
  /\ past \subseteq Faults

Present == {r[1] : r \in table}
Routes(C, g) == {<<c, g>> : c \in C}
Known(k) == gateway[k] # "none"

Fault(f) ==
  /\ f \in Faults /\ faults < MaxFaults
  /\ faults' = faults + 1 /\ past' = past \cup {f}

NoFault == UNCHANGED <<faults, past>>

-----------------------------------------------------------------------------
(* Jobs. *)

Begin(j, k, c, tasks, rest) ==
  /\ job' = j /\ kind' = k /\ ctx' = c
  /\ todo' = tasks /\ left' = rest
  /\ chunk' = {} /\ result' = "none"

End ==
  /\ job' = "free" /\ ctx' = "background"
  /\ todo' = {} /\ left' = {} /\ chunk' = {} /\ result' = "none"
  /\ UNCHANGED kind

\* netshDeleteLine: without an interface a route cannot be deleted; it remains.
Removal(k, c, routes) ==
  IF Known(k) THEN Begin("remove", k, c, routes, {})
              ELSE Begin("remove", k, c, {}, routes)

Save(k) == saved' = [saved EXCEPT ![k] = tracked'[k]]

Job == boot = "up" /\ job = "free" /\ jobs < MaxJobs /\ jobs' = jobs + 1

\* After a failed batch each of its routes has a script of its own.  B are the
\* ones whose script fails too, or that a cancelled context leaves out; the one
\* of them whose script the end of the context kills may be done all the same.
\* (A crash among these scripts is one before them: it loses the same batch.)
Retry(B) ==
  /\ B # {} => result = "failed"
  /\ IF B = {} \/ ctx = "cancelled" THEN NoFault ELSE Fault("netsh")

Killed(B) == {{}} \cup IF ctx = "cancelled" THEN {{c} : c \in B} ELSE {}

-----------------------------------------------------------------------------
(* Faulty variants of actions below, each with the mistake its name says:   *)
(* the properties are tested by putting one in the place of its original.  *)

RecordAdd_SkipsKnown ==
  /\ job = "add" /\ chunk # {}
  /\ \E B \in SUBSET chunk :
       /\ Retry(B)
       /\ table' = IF result = "failed"
                   THEN table \cup Routes(chunk \ B, gateway[kind]) ELSE table
       /\ tracked' = [tracked EXCEPT ![kind] = @ \cup
            IF result = "known" THEN {} ELSE chunk \ B]
  /\ Save(kind)
  /\ chunk' = {} /\ result' = "none"
  /\ UNCHANGED <<gateway, boot, job, kind, ctx, todo, left, jobs>>

RecordAdd_WithoutSave ==
  /\ job = "add" /\ chunk # {}
  /\ \E B \in SUBSET chunk :
       /\ Retry(B)
       /\ table' = IF result = "failed"
                   THEN table \cup Routes(chunk \ B, gateway[kind]) ELSE table
       /\ tracked' = [tracked EXCEPT ![kind] = @ \cup (chunk \ B)]
  /\ chunk' = {} /\ result' = "none"
  /\ UNCHANGED <<gateway, saved, boot, job, kind, ctx, todo, left, jobs>>

\* The end of a removal with the lists the variants below leave.
EndDeleteWith(lists, record, later) ==
  /\ job = "remove" /\ chunk = {}
  /\ todo = {} \/ ctx = "cancelled"
  /\ tracked' = lists /\ saved' = record
  /\ IF kind = "bypass"
     THEN Removal("vpn", ctx, later) /\ UNCHANGED boot
     ELSE /\ End
          /\ boot' = CASE boot = "stale" -> "staleVpn"
                       [] boot = "staleVpn" -> "forget"
                       [] OTHER -> boot
  /\ UNCHANGED <<table, gateway, bounds>>

EndDelete_DropsRest ==
  LET lists == [tracked EXCEPT ![kind] = left]
  IN  EndDeleteWith(lists, [saved EXCEPT ![kind] = left], tracked["vpn"])

EndDelete_SavesUncancelled ==
  LET lists == [tracked EXCEPT ![kind] = left \cup todo]
  IN  EndDeleteWith(lists, IF ctx = "cancelled" THEN saved
                           ELSE [saved EXCEPT ![kind] = lists[kind]],
                    tracked["vpn"])

-----------------------------------------------------------------------------
(* Additions and removals. *)

\* AddRoutesContext and AddVPNRoutesContext.
StartAdd(k) ==
  /\ Job
  /\ Known(k)
  /\ \E C \in SUBSET CidrsOf(k) :
       IF C = {} THEN saved' = [saved EXCEPT ![k] = tracked[k]] /\ UNCHANGED work
                 ELSE Begin("add", k, "live", C, {}) /\ UNCHANGED saved
  /\ UNCHANGED <<table, gateway, tracked, boot, faults, past>>

\* RemoveAllRoutesContext: of a refresh, whose context can be cancelled, or of
\* the end of a session, whose cannot.
StartRemoveAll ==
  /\ Job
  /\ \E c \in {"live", "background"} : Removal("bypass", c, tracked["bypass"])
  /\ UNCHANGED <<table, gateway, tracked, saved, boot, faults, past>>

\* runNetshScript on the next batch of an addition.  netsh runs every line; its
\* answer names a route that exists already before any other error.
RunAdd ==
  /\ job = "add" /\ chunk = {} /\ todo # {} /\ ctx # "cancelled"
  /\ \E C \in SUBSET todo, B \in SUBSET Prefixes :
       /\ Cardinality(C) = IF Cardinality(todo) < Batch THEN Cardinality(todo)
                                                        ELSE Batch
       /\ B \subseteq C
       /\ IF B = {} THEN NoFault ELSE Fault("netsh")
       /\ table' = table \cup Routes(C \ B, gateway[kind])
       /\ result' = IF \E c \in C \ B : <<c, gateway[kind]>> \in table
                    THEN "known" ELSE IF B = {} THEN "ok" ELSE "failed"
       /\ chunk' = C /\ todo' = todo \ C
  /\ UNCHANGED <<gateway, tracked, saved, boot, job, kind, ctx, left, jobs>>

\* The context ends while netsh runs: the script is killed part of the way, and
\* nothing of the batch is tracked.
KillAdd ==
  /\ Fault("cancel")
  /\ job = "add" /\ chunk = {} /\ todo # {} /\ ctx = "live"
  /\ \E C \in SUBSET todo :
       /\ Cardinality(C) <= Batch
       /\ table' = table \cup Routes(C, gateway[kind])
  /\ saved' = [saved EXCEPT ![kind] = tracked[kind]]
  /\ End
  /\ UNCHANGED <<gateway, tracked, boot, jobs>>

\* Track and save the batch; a route that isRoutePresent finds counts as added.
RecordAdd ==
  /\ job = "add" /\ chunk # {}
  /\ \E B \in SUBSET chunk : \E D \in Killed(B) :
       /\ Retry(B)
       /\ table' = IF result = "failed"
                   THEN table \cup Routes((chunk \ B) \cup D, gateway[kind])
                   ELSE table
       /\ tracked' = [tracked EXCEPT ![kind] = @ \cup
            (chunk \ IF ctx = "cancelled" THEN B ELSE B \ Present)]
  /\ Save(kind)
  /\ chunk' = {} /\ result' = "none"
  /\ UNCHANGED <<gateway, boot, job, kind, ctx, todo, left, jobs>>

\* The loop ends: no task is left, or the context is found cancelled.
EndAdd ==
  /\ job = "add" /\ chunk = {}
  /\ todo = {} \/ ctx = "cancelled"
  /\ saved' = [saved EXCEPT ![kind] = tracked[kind]]
  /\ End
  /\ UNCHANGED <<table, gateway, tracked, boot, bounds>>

\* The next batch of a removal.  A line whose route, with this gateway, is not
\* in the table makes netsh answer that an element is missing.
RunDelete ==
  /\ job = "remove" /\ chunk = {} /\ todo # {} /\ ctx # "cancelled"
  /\ \E C \in SUBSET todo, B \in SUBSET Prefixes :
       /\ Cardinality(C) = IF Cardinality(todo) < Batch THEN Cardinality(todo)
                                                        ELSE Batch
       /\ B \subseteq {c \in C : <<c, gateway[kind]>> \in table}
       /\ IF B = {} THEN NoFault ELSE Fault("netsh")
       /\ table' = table \ Routes(C \ B, gateway[kind])
       /\ result' = IF \E c \in C : <<c, gateway[kind]>> \notin table
                    THEN "known" ELSE IF B = {} THEN "ok" ELSE "failed"
       /\ chunk' = C /\ todo' = todo \ C
  /\ UNCHANGED <<gateway, tracked, saved, boot, job, kind, ctx, left, jobs>>

\* The script of a removal is killed: the whole batch and the rest remain.
KillDelete ==
  /\ Fault("cancel")
  /\ job = "remove" /\ chunk = {} /\ todo # {} /\ ctx = "live"
  /\ \E C \in SUBSET todo :
       /\ Cardinality(C) <= Batch
       /\ table' = table \ Routes(C, gateway[kind])
  /\ ctx' = "cancelled"
  /\ UNCHANGED <<gateway, tracked, saved, boot, job, kind, todo, left, chunk,
                 result, jobs>>

\* A route whose own script fails remains if isRoutePresent still finds it, one
\* that a cancelled context leaves out remains in any case.
RecordDelete ==
  /\ job = "remove" /\ chunk # {}
  /\ \E B \in SUBSET chunk : \E D \in Killed(B) :
       /\ Retry(B)
       /\ table' = IF result = "failed"
                   THEN table \ Routes((chunk \ B) \cup D, gateway[kind])
                   ELSE table
       /\ left' = left \cup IF ctx = "cancelled" THEN B ELSE B \cap Present
  /\ chunk' = {} /\ result' = "none"
  /\ UNCHANGED <<gateway, tracked, saved, boot, job, kind, ctx, todo, jobs>>

\* replaceAppliedRoutes; RemoveAllRoutesContext goes on with the VPN's routes.
EndDelete ==
  /\ job = "remove" /\ chunk = {}
  /\ todo = {} \/ ctx = "cancelled"
  /\ tracked' = [tracked EXCEPT ![kind] = left \cup todo]
  /\ Save(kind)
  /\ IF kind = "bypass"
     THEN Removal("vpn", ctx, tracked["vpn"]) /\ UNCHANGED boot
     ELSE /\ End
          /\ boot' = CASE boot = "stale" -> "staleVpn"
                       [] boot = "staleVpn" -> "forget"
                       [] OTHER -> boot
  /\ UNCHANGED <<table, gateway, bounds>>

-----------------------------------------------------------------------------
(* The program's start, as the Cisco backend goes through it: take over the *)
(* routes of the last run, or CleanupStaleRoutes and ForgetAppliedRoutes.  *)

\* SavedRoutesCover, then AreRoutesApplied, which looks up a sample S of the
\* routes only.  Neither reads the record of VPN routes.
SavedRoutesCover == saved["bypass"] = Bypass /\ Bypass # {}

Sample(S) ==
  /\ S \subseteq Bypass
  /\ Cardinality(S) = IF Cardinality(Bypass) < Samples THEN Cardinality(Bypass)
                                                      ELSE Samples

Reuse ==
  /\ boot = "start"
  /\ SavedRoutesCover
  /\ \E S \in SUBSET Bypass : Sample(S) /\ S \subseteq Present
  /\ tracked' = [tracked EXCEPT !["bypass"] = Bypass]
  /\ boot' = "up"
  /\ UNCHANGED <<table, gateway, saved, work, bounds>>

CleanupStale ==
  /\ boot = "start"
  /\ SavedRoutesCover => \E S \in SUBSET Bypass : Sample(S) /\ ~(S \subseteq Present)
  /\ IF saved["bypass"] # {}
     THEN /\ boot' = "stale"
          /\ tracked' = [tracked EXCEPT !["bypass"] = saved["bypass"]]
          /\ Removal("bypass", "background", saved["bypass"])
     ELSE boot' = "staleVpn" /\ UNCHANGED <<tracked, work>>
  /\ UNCHANGED <<table, gateway, saved, bounds>>

CleanupStaleVpn ==
  /\ boot = "staleVpn" /\ job = "free"
  /\ IF saved["vpn"] # {}
     THEN /\ tracked' = [tracked EXCEPT !["vpn"] = saved["vpn"]]
          /\ Removal("vpn", "background", saved["vpn"])
          /\ UNCHANGED boot
     ELSE boot' = "forget" /\ UNCHANGED <<tracked, work>>
  /\ UNCHANGED <<table, gateway, saved, bounds>>

ForgetAppliedRoutes ==
  /\ boot = "forget"
  /\ tracked' = [k \in Kinds |-> {}]
  /\ saved' = [k \in Kinds |-> {}]
  /\ boot' = "up"
  /\ UNCHANGED <<table, gateway, work, bounds>>

\* applyDomesticDirectStaticRoutes finds the VPN's gateway before it adds.
SetVPNRouteTarget ==
  /\ boot = "up" /\ job = "free" /\ Foreign # {}
  /\ gateway["vpn"] = "none"
  /\ gateway' = [gateway EXCEPT !["vpn"] = "vpn"]
  /\ UNCHANGED <<table, tracked, saved, boot, work, bounds>>

\* refreshLocalRoute, before a new connection, on another network.
SetLocalRoute ==
  /\ Fault("gateway")
  /\ boot = "up" /\ job = "free"
  /\ \E g \in Gateways \ {gateway["bypass"]} :
       gateway' = [gateway EXCEPT !["bypass"] = g]
  /\ UNCHANGED <<table, tracked, saved, boot, work, jobs>>

\* The user cancels what may be cancelled; the job finds out between batches.
Cancel ==
  /\ Fault("cancel")
  /\ ctx = "live" /\ job # "free"
  /\ ctx' = "cancelled"
  /\ UNCHANGED <<table, gateway, tracked, saved, boot, job, kind, todo, left,
                 chunk, result, jobs>>

\* The program dies; the table and the files stay.
Crash ==
  /\ Fault("crash")
  /\ tracked' = [k \in Kinds |-> {}]
  /\ gateway' = [gateway EXCEPT !["vpn"] = "none"]
  /\ boot' = "start"
  /\ End
  /\ UNCHANGED <<table, saved, jobs>>

Init ==
  /\ table = {}
  /\ \E g \in Gateways :
       gateway = [k \in Kinds |-> IF k = "vpn" THEN "none" ELSE g]
  /\ tracked = [k \in Kinds |-> {}]
  /\ saved = [k \in Kinds |-> {}]
  /\ boot = "up"
  /\ job = "free" /\ kind = "bypass" /\ ctx = "background"
  /\ todo = {} /\ left = {} /\ chunk = {} /\ result = "none"
  /\ jobs = 0 /\ faults = 0 /\ past = {}

Work == \/ RunAdd \/ KillAdd \/ RecordAdd \/ EndAdd
        \/ RunDelete \/ KillDelete \/ RecordDelete \/ EndDelete
        \/ Reuse \/ CleanupStale \/ CleanupStaleVpn \/ ForgetAppliedRoutes

Next == \/ Work \/ StartRemoveAll \/ SetVPNRouteTarget \/ SetLocalRoute
        \/ Cancel \/ Crash
        \/ \E k \in Kinds : StartAdd(k)

Spec == Init /\ [][Next]_vars

-----------------------------------------------------------------------------
(* Properties. *)

Idle == boot = "up" /\ job = "free"
Stopped == past \subseteq {"crash", "cancel"}
OnRecord(rec) == rec["bypass"] \cup rec["vpn"]
Unrecorded == {r \in table : r[1] \in Bypass \ saved["bypass"]}

\* What the program believes and what the next start will read are the same
\* whenever no job runs, whatever was cancelled, failed or restarted before.
\* (A start that reuses the bypass routes does not read the VPN's record.)
RecordsAgree ==
  Idle => /\ saved["bypass"] = tracked["bypass"]
          /\ "crash" \notin past => saved["vpn"] = tracked["vpn"]

\* Without a fault the table holds no route of ours, between two jobs, that the
\* manager would not delete at the end of the session.
NothingUnknown == Idle /\ past = {} => Present \subseteq OnRecord(tracked)

\* The record is written after each batch: a crash or a cancellation loses
\* sight of the bypass routes of the batch at hand, and of no more.
FaultLosesOneBatch == Stopped => Cardinality(Unrecorded) <= Batch * (faults + 1)

\* A prefix leaves the record of bypass routes only once the table no longer
\* has it: after a crash or a cancellation the next start still finds all it
\* has to delete.
RecordOutlivesRoute ==
  [][Stopped' => \A c \in saved["bypass"] \ saved'["bypass"] :
                   c \notin {r[1] : r \in table'}]_vars
=============================================================================
