------------------------------ MODULE TunSession ------------------------------
(***************************************************************************)
(* internal/tun/session.go: a session is OpenConnect, which logs in and    *)
(* makes a VPN interface, and sing-box, which captures the traffic and     *)
(* routes it into that interface.  The operations hold the session's mutex *)
(* (pc is "idle" when it is free); the two processes live on their own:    *)
(* they may die at any time, a kill may fail, and they outlive the program.*)
(***************************************************************************)
EXTENDS Naturals

CONSTANTS
  Faults,    \* what may go wrong in this instance
  MaxOps,    \* bound: number of operations
  MaxFaults  \* bound: number of failing kills and cleanups, and of crashes

ASSUME TunAssumption ==
  /\ Faults \subseteq {"kill", "cleanup", "crash"}
  /\ MaxOps \in Nat /\ MaxFaults \in Nat

VARIABLES
  oc,      \* openConnectCmd and the state of its process
  sb,      \* singBoxCmd and the state of its process
  strays,  \* processes of earlier sessions that still run
  file,    \* openconnect-state.txt: written by our OpenConnect or another
  known,   \* statePath is set
  iface,   \* vpnInterfaceName: the interface of our OpenConnect or another
  flag,    \* openConnectAuthFailed
  pc, op,  \* the operation that holds the mutex, and what it does next
  result,  \* what the last operation returned
  ops, faults,
  denied,  \* history: the server refused the login of the last start
  unclean  \* history: since the last cleanup that worked, a kill has failed or
           \* the program has died with a session

session == <<oc, sb, iface, flag>>
caller == <<pc, op, result>>
bounds == <<ops, faults>>
vars == <<session, strays, file, known, caller, bounds, denied, unclean>>

Alive == {"dialing", "refused", "linked"}

Values ==
  /\ oc \in {"none", "dead"} \cup Alive
  /\ sb \in {"none", "alive", "dead"}
  /\ strays \subseteq {"openconnect", "sing-box"}
  /\ file \in {"none", "own", "other"}
  /\ iface \in {"none", "own", "other"}
  /\ pc \in {"idle", "clean", "launch", "vpn", "box", "boxWait"}
  /\ op \in {"none", "start", "refresh"}
  /\ result \in {"none", "ok", "error", "auth", "late"}

Flags == {known, flag, denied, unclean} \subseteq BOOLEAN

Counters == ops \in 0..MaxOps /\ faults \in 0..MaxFaults

\* What the operations find and leave.
Control ==
  /\ op = "none" <=> pc = "idle"
  /\ op = "refresh" => pc \in {"box", "boxWait"}
  /\ pc \in {"clean", "launch"} => oc = "none"
  /\ pc \in {"clean", "launch", "vpn"} => sb = "none" /\ iface = "none"
  /\ sb # "none" => oc # "none" /\ iface # "none"

TypeOK == Values /\ Flags /\ Counters /\ Control

\* A process that has printed a refusal is on its way out.
OpenConnect == IF oc \in {"dialing", "linked"} THEN {"openconnect"} ELSE {}
SingBox == IF sb = "alive" THEN {"sing-box"} ELSE {}

Fault(f) == f \in Faults /\ faults < MaxFaults /\ faults' = faults + 1

Left(kept) == strays' = strays \cup kept /\ unclean' = TRUE

\* killProcessTree for each of K; callers forget the process in any case.
Kill(K) ==
  \/ UNCHANGED <<strays, unclean, faults>>
  \/ Fault("kill") /\ \E kept \in SUBSET K : kept # {} /\ Left(kept)

Goto(l) == pc' = l /\ UNCHANGED <<op, result>>
Return(r) == pc' = "idle" /\ op' = "none" /\ result' = r

-----------------------------------------------------------------------------
(* Faulty variants of actions below, each with the mistake its name says.   *)

Refresh_ForgetsTheOld ==
  /\ pc = "idle" /\ ops < MaxOps /\ ops' = ops + 1
  /\ oc \in Alive
  /\ sb' = "none" /\ strays' = strays \cup SingBox
  /\ pc' = "box" /\ op' = "refresh" /\ result' = "none"
  /\ UNCHANGED <<oc, iface, flag, file, known, faults, denied, unclean>>

CleanUp_KeepsFile ==
  /\ pc = "clean"
  /\ \/ strays' = {} /\ unclean' = FALSE /\ UNCHANGED faults
     \/ Fault("cleanup") /\ UNCHANGED <<strays, unclean>>
  /\ Goto("launch") \/ Return("error")
  /\ UNCHANGED <<session, file, known, ops, denied>>

Exit_PipesLater ==
  /\ oc \in Alive
  /\ oc' = "dead"
  /\ file' \in {file, "none"}
  /\ UNCHANGED <<sb, iface, flag, strays, known, caller, bounds, denied,
                 unclean>>

BoxFails_KeepsLogin ==
  /\ pc = "boxWait" /\ sb = "dead"
  /\ sb' = "none"
  /\ Return("error")
  /\ UNCHANGED <<oc, iface, flag, strays, file, known, bounds, denied, unclean>>

stopLocked_EndsAtError ==
  \/ /\ UNCHANGED <<strays, unclean, faults>>
     /\ oc' = "none" /\ sb' = "none" /\ iface' = "none" /\ flag' = FALSE
     /\ file' = IF known THEN "none" ELSE file
  \/ /\ Fault("kill") /\ SingBox # {} /\ Left(SingBox)
     /\ sb' = "none"
     /\ UNCHANGED <<oc, iface, flag, file>>

-----------------------------------------------------------------------------
(* Start. *)

stopLocked ==
  /\ Kill(OpenConnect \cup SingBox)
  /\ oc' = "none" /\ sb' = "none" /\ iface' = "none" /\ flag' = FALSE
  /\ file' = IF known THEN "none" ELSE file

\* What a previous session left is stopped before any argument is checked.
BeginStart ==
  /\ pc = "idle" /\ ops < MaxOps /\ ops' = ops + 1
  /\ stopLocked
  /\ \/ pc' = "clean" /\ op' = "start" /\ result' = "none" /\ known' = TRUE
     \/ Return("error") /\ UNCHANGED known
  /\ UNCHANGED denied

\* cleanupStaleBackendProcesses, the local interface, the script, and the
\* removal of an old state file.
CleanUp ==
  /\ pc = "clean"
  /\ \/ strays' = {} /\ unclean' = FALSE /\ UNCHANGED faults
     \/ Fault("cleanup") /\ UNCHANGED <<strays, unclean>>
  /\ \/ Goto("launch") /\ file' = "none"
     \/ Return("error") /\ UNCHANGED file
  /\ UNCHANGED <<session, known, ops, denied>>

\* startOpenConnect; a process that does not take the password is killed, and
\* forgotten if that fails.
Launch ==
  /\ pc = "launch"
  /\ denied' = FALSE
  /\ \/ oc' = "dialing" /\ flag' = FALSE /\ Goto("vpn")
        /\ UNCHANGED <<strays, unclean, faults>>
     \/ Return("error") /\ UNCHANGED oc /\ flag' \in {flag, FALSE}
        /\ Kill({"openconnect"})
  /\ UNCHANGED <<sb, iface, file, known, ops>>

\* waitForVPNInterface: the state file, or any adapter that looks right.
SeeInterface ==
  /\ pc = "vpn" /\ oc \in Alive
  /\ \/ file # "none" /\ iface' = file
     \/ file = "none" /\ oc = "linked" /\ iface' = "own"
     \/ file = "none" /\ strays # {} /\ iface' = "other"
  /\ Goto("box")
  /\ UNCHANGED <<oc, sb, flag, strays, file, known, bounds, denied, unclean>>

\* The caller has given up or 45 seconds have passed, which is looked at first,
\* or OpenConnect has exited.
NoInterface ==
  /\ pc = "vpn"
  /\ stopLocked
  /\ \/ Return("late")
     \/ oc = "dead" /\ Return(IF flag THEN "auth" ELSE "error")
  /\ UNCHANGED <<known, ops, denied>>

-----------------------------------------------------------------------------
(* startSingBoxLocked, for Start and for Refresh. *)

StartBox ==
  /\ pc = "box"
  /\ sb' = "alive"
  /\ Goto("boxWait")
  /\ UNCHANGED <<oc, iface, flag, strays, file, known, bounds, denied, unclean>>

\* The interface was there for a while, or 12 seconds have passed.  OpenConnect
\* is not looked at again.
BoxReady ==
  /\ pc = "boxWait" /\ sb = "alive"
  /\ Return("ok")
  /\ UNCHANGED <<session, strays, file, known, bounds, denied, unclean>>

\* It could not be started, or has exited.  Only a Start ends the session.
BoxFails ==
  /\ pc = "box" \/ (pc = "boxWait" /\ sb = "dead")
  /\ \/ op = "start" /\ stopLocked
     \/ /\ op = "refresh" /\ sb' = "none"
        /\ UNCHANGED <<oc, iface, flag, strays, file, faults, unclean>>
  /\ Return("error")
  /\ UNCHANGED <<known, ops, denied>>

-----------------------------------------------------------------------------
Refresh ==
  /\ pc = "idle" /\ ops < MaxOps /\ ops' = ops + 1
  /\ \/ /\ oc \in Alive
        /\ Kill(SingBox) /\ sb' = "none"
        /\ pc' = "box" /\ op' = "refresh" /\ result' = "none"
     \/ Return("error") /\ UNCHANGED <<sb, strays, unclean, faults>>
  /\ UNCHANGED <<oc, iface, flag, file, known, denied>>

Stop ==
  /\ pc = "idle"
  /\ stopLocked
  /\ result' = "none"
  /\ UNCHANGED <<known, pc, op, ops, denied>>

-----------------------------------------------------------------------------
(* The processes. *)

\* The script makes the interface and writes its name, if it can.
Link ==
  /\ oc = "dialing" /\ oc' = "linked"
  /\ file' \in {file, "own"}
  /\ UNCHANGED <<sb, iface, flag, strays, known, caller, bounds, denied,
                 unclean>>

Refuse ==
  /\ oc = "dialing" /\ oc' = "refused"
  /\ denied' = TRUE
  /\ UNCHANGED <<sb, iface, flag, strays, file, known, caller, bounds, unclean>>

\* logOpenConnectPipe.  The lines of a process that was killed are read during
\* the half second that CleanUp waits.
ReadRefusal ==
  /\ oc = "refused" /\ ~flag
  /\ flag' = TRUE
  /\ UNCHANGED <<oc, sb, iface, strays, file, known, caller, bounds, denied,
                 unclean>>

\* The end of the process is noted when its output has been read; the script
\* deletes the file unless the process was killed.
Exit ==
  /\ oc \in Alive /\ (oc = "refused" => flag)
  /\ oc' = "dead"
  /\ file' \in {file, "none"}
  /\ UNCHANGED <<sb, iface, flag, strays, known, caller, bounds, denied,
                 unclean>>

BoxExit ==
  /\ sb = "alive" /\ sb' = "dead"
  /\ UNCHANGED <<oc, iface, flag, strays, file, known, caller, bounds, denied,
                 unclean>>

\* A process that was not killed ends, gets its tunnel after all, or is refused.
Stray ==
  /\ \/ /\ \E p \in strays : strays' = strays \ {p}
        /\ UNCHANGED <<file, flag>>
     \/ /\ "openconnect" \in strays
        /\ \/ file' = "other" /\ UNCHANGED flag
           \/ flag' = TRUE /\ UNCHANGED file
        /\ UNCHANGED strays
  /\ UNCHANGED <<oc, sb, iface, known, caller, bounds, denied, unclean>>

\* The processes survive the program.
Crash ==
  /\ Fault("crash")
  /\ Left(OpenConnect \cup SingBox)
  /\ oc' = "none" /\ sb' = "none" /\ iface' = "none" /\ flag' = FALSE
  /\ file' = IF file = "none" THEN "none" ELSE "other"
  /\ known' = FALSE
  /\ Return("none")
  /\ UNCHANGED <<ops, denied>>

-----------------------------------------------------------------------------
Init ==
  /\ oc = "none" /\ sb = "none" /\ strays = {} /\ file = "none"
  /\ known = FALSE /\ iface = "none" /\ flag = FALSE
  /\ pc = "idle" /\ op = "none" /\ result = "none"
  /\ ops = 0 /\ faults = 0
  /\ denied = FALSE /\ unclean = FALSE

Next == \/ BeginStart \/ CleanUp \/ Launch \/ SeeInterface \/ NoInterface
        \/ StartBox \/ BoxReady \/ BoxFails \/ Refresh \/ Stop
        \/ Link \/ Refuse \/ ReadRefusal \/ Exit \/ BoxExit \/ Stray \/ Crash

Spec == Init /\ [][Next]_vars

-----------------------------------------------------------------------------
(* Properties. *)

\* No process runs that the session does not know of, whatever failed, was
\* refreshed or started over, except after a kill that failed or a program that
\* died, and then only until a cleanup works.
OnlyOurs == strays # {} => unclean

\* sing-box routes into the interface of the OpenConnect that was started with
\* it, not into one whose name an earlier session left behind.
RoutesIntoOurs ==
  /\ iface = "other" => unclean
  /\ file = "own" => oc \in {"linked", "dead"}

\* A Start that fails because OpenConnect has exited says that the login was
\* refused exactly if it was: the caller then does not try another backend.
RefusalReported ==
  [][pc = "vpn" /\ result' \in {"auth", "error"} /\ ~unclean
       => (result' = "auth" <=> denied)]_vars

\* The pair that callers see.
Pair == INSTANCE TunPair WITH
  tun <- IF op = "start" \/ oc = "none" THEN "down"
         ELSE IF op = "none" /\ oc \in Alive /\ sb = "alive" THEN "up"
         ELSE "broken",
  busy <- op

\* The session keeps the promise of TunPair, whatever its processes do.
KeepsPromise == Pair!Spec
=============================================================================
