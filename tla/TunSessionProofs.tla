--------------------------- MODULE TunSessionProofs ---------------------------
(***************************************************************************)
(* Proofs about TunSession for every number of operations and faults: its  *)
(* invariants, and that it implements TunPair.                             *)
(***************************************************************************)
EXTENDS TunSession, TLAPS

\* A state file of another session is there only when a kill or the program has
\* failed, or before CleanUp removes it, when no OpenConnect of ours runs; and
\* one of ours is removed with its session because statePath is set by then.
FileInv ==
  /\ file = "other" /\ ~unclean => oc = "none" /\ pc \in {"idle", "clean"}
  /\ oc # "none" \/ pc # "idle" => known
  /\ pc \in {"box", "boxWait"} => oc # "none"
  /\ oc # "none" => iface # "none" \/ pc = "vpn"

\* While Start waits for the interface: what has been read is what was said.
RefusalInv ==
  /\ pc \in {"clean", "launch", "vpn"} => result = "none"
  /\ pc = "vpn" =>
       /\ denied => oc \in {"refused", "dead"}
       /\ denied /\ oc = "dead" => flag
       /\ oc = "refused" => denied
       /\ flag => denied \/ unclean

IInv == TypeOK /\ OnlyOurs /\ RoutesIntoOurs /\ FileInv /\ RefusalInv

LEMMA InitInv == Init => IInv
<1> SUFFICES ASSUME Init PROVE IInv
    OBVIOUS
<1>1. Values /\ Counters /\ Control /\ FileInv
  BY TunAssumption DEF Init, Values, Counters, Control, FileInv, Alive
<1>2. Flags /\ OnlyOurs /\ RoutesIntoOurs /\ RefusalInv
  BY DEF Init, Flags, OnlyOurs, RoutesIntoOurs, RefusalInv
<1>3. QED
  BY <1>1, <1>2 DEF IInv, TypeOK

LEMMA ValuesKept == IInv /\ [Next]_vars => Values'
<1> SUFFICES ASSUME IInv, [Next]_vars PROVE Values'
    OBVIOUS
<1> USE TunAssumption DEF IInv, TypeOK, Values, Control, FileInv, Alive
<1>1. CASE BeginStart
  BY <1>1 DEF BeginStart, stopLocked, Kill, Fault, Left, Return, OpenConnect,
     SingBox
<1>2. CASE CleanUp
  BY <1>2 DEF CleanUp, Fault, Goto, Return, session
<1>3. CASE Launch
  BY <1>3 DEF Launch, Kill, Fault, Left, Goto, Return
<1>4. CASE SeeInterface
  BY <1>4 DEF SeeInterface, Goto, bounds
<1>5. CASE NoInterface
  BY <1>5 DEF NoInterface, stopLocked, Kill, Fault, Left, Return, OpenConnect,
     SingBox
<1>6. CASE StartBox
  BY <1>6 DEF StartBox, Goto, bounds
<1>7. CASE BoxReady
  BY <1>7 DEF BoxReady, Return, session, bounds
<1>8. CASE BoxFails
  BY <1>8 DEF BoxFails, stopLocked, Kill, Fault, Left, Return, OpenConnect,
     SingBox
<1>9. CASE Refresh
  BY <1>9 DEF Refresh, Kill, Fault, Left, Return, SingBox
<1>10. CASE Stop
  BY <1>10 DEF Stop, stopLocked, Kill, Fault, Left, OpenConnect, SingBox
<1>11. CASE Link
  BY <1>11 DEF Link, caller, bounds
<1>12. CASE Refuse
  BY <1>12 DEF Refuse, caller, bounds
<1>13. CASE ReadRefusal
  BY <1>13 DEF ReadRefusal, caller, bounds
<1>14. CASE Exit
  BY <1>14 DEF Exit, caller, bounds
<1>15. CASE BoxExit
  BY <1>15 DEF BoxExit, caller, bounds
<1>16. CASE Stray
  <2>1. strays' \subseteq strays /\ file' \in {file, "other"}
    BY <1>16 DEF Stray
  <2>2. UNCHANGED <<oc, sb, iface, caller>>
    BY <1>16 DEF Stray
  <2>3. QED
    BY <2>1, <2>2 DEF caller
<1>17. CASE Crash
  BY <1>17 DEF Crash, Fault, Left, Return, OpenConnect, SingBox
<1>18. CASE UNCHANGED vars
  BY <1>18 DEF vars, session, caller, bounds
<1>19. QED
  BY <1>1, <1>2, <1>3, <1>4, <1>5, <1>6, <1>7, <1>8, <1>9, <1>10, <1>11,
     <1>12, <1>13, <1>14, <1>15, <1>16, <1>17, <1>18 DEF Next

LEMMA FlagsKept == IInv /\ [Next]_vars => Flags'
<1> SUFFICES ASSUME IInv, [Next]_vars PROVE Flags'
    OBVIOUS
<1> USE TunAssumption DEF IInv, TypeOK, Flags
<1>1. CASE BeginStart
  BY <1>1 DEF BeginStart, stopLocked, Kill, Fault, Left, Return, OpenConnect,
     SingBox
<1>2. CASE CleanUp
  BY <1>2 DEF CleanUp, Fault, Goto, Return, session
<1>3. CASE Launch
  BY <1>3 DEF Launch, Kill, Fault, Left, Goto, Return
<1>4. CASE SeeInterface
  BY <1>4 DEF SeeInterface, Goto, bounds
<1>5. CASE NoInterface
  BY <1>5 DEF NoInterface, stopLocked, Kill, Fault, Left, Return, OpenConnect,
     SingBox
<1>6. CASE StartBox
  BY <1>6 DEF StartBox, Goto, bounds
<1>7. CASE BoxReady
  BY <1>7 DEF BoxReady, Return, session, bounds
<1>8. CASE BoxFails
  BY <1>8 DEF BoxFails, stopLocked, Kill, Fault, Left, Return, OpenConnect,
     SingBox
<1>9. CASE Refresh
  BY <1>9 DEF Refresh, Kill, Fault, Left, Return, SingBox
<1>10. CASE Stop
  BY <1>10 DEF Stop, stopLocked, Kill, Fault, Left, OpenConnect, SingBox
<1>11. CASE Link
  BY <1>11 DEF Link, caller, bounds
<1>12. CASE Refuse
  BY <1>12 DEF Refuse, caller, bounds
<1>13. CASE ReadRefusal
  BY <1>13 DEF ReadRefusal, caller, bounds
<1>14. CASE Exit
  BY <1>14 DEF Exit, caller, bounds
<1>15. CASE BoxExit
  BY <1>15 DEF BoxExit, caller, bounds
<1>16. CASE Stray
  BY <1>16 DEF Stray, caller, bounds
<1>17. CASE Crash
  BY <1>17 DEF Crash, Fault, Left, Return, OpenConnect, SingBox
<1>18. CASE UNCHANGED vars
  BY <1>18 DEF vars, session, caller, bounds
<1>19. QED
  BY <1>1, <1>2, <1>3, <1>4, <1>5, <1>6, <1>7, <1>8, <1>9, <1>10, <1>11,
     <1>12, <1>13, <1>14, <1>15, <1>16, <1>17, <1>18 DEF Next

LEMMA CountersKept == IInv /\ [Next]_vars => Counters'
<1> SUFFICES ASSUME IInv, [Next]_vars PROVE Counters'
    OBVIOUS
<1> USE TunAssumption DEF IInv, TypeOK, Counters
<1>1. CASE BeginStart
  BY <1>1 DEF BeginStart, stopLocked, Kill, Fault, Left, Return, OpenConnect,
     SingBox
<1>2. CASE CleanUp
  BY <1>2 DEF CleanUp, Fault, Goto, Return, session
<1>3. CASE Launch
  <2>1. UNCHANGED ops /\ (UNCHANGED faults \/ Kill({"openconnect"}))
    BY <1>3 DEF Launch
  <2>2. QED
    BY <2>1 DEF Kill, Fault
<1>4. CASE SeeInterface
  BY <1>4 DEF SeeInterface, Goto, bounds
<1>5. CASE NoInterface
  BY <1>5 DEF NoInterface, stopLocked, Kill, Fault, Left, Return, OpenConnect,
     SingBox
<1>6. CASE StartBox
  BY <1>6 DEF StartBox, Goto, bounds
<1>7. CASE BoxReady
  BY <1>7 DEF BoxReady, Return, session, bounds
<1>8. CASE BoxFails
  BY <1>8 DEF BoxFails, stopLocked, Kill, Fault, Left, Return, OpenConnect,
     SingBox
<1>9. CASE Refresh
  BY <1>9 DEF Refresh, Kill, Fault, Left, Return, SingBox
<1>10. CASE Stop
  BY <1>10 DEF Stop, stopLocked, Kill, Fault, Left, OpenConnect, SingBox
<1>11. CASE Link
  BY <1>11 DEF Link, caller, bounds
<1>12. CASE Refuse
  BY <1>12 DEF Refuse, caller, bounds
<1>13. CASE ReadRefusal
  BY <1>13 DEF ReadRefusal, caller, bounds
<1>14. CASE Exit
  BY <1>14 DEF Exit, caller, bounds
<1>15. CASE BoxExit
  BY <1>15 DEF BoxExit, caller, bounds
<1>16. CASE Stray
  BY <1>16 DEF Stray, caller, bounds
<1>17. CASE Crash
  BY <1>17 DEF Crash, Fault, Left, Return, OpenConnect, SingBox
<1>18. CASE UNCHANGED vars
  BY <1>18 DEF vars, session, caller, bounds
<1>19. QED
  BY <1>1, <1>2, <1>3, <1>4, <1>5, <1>6, <1>7, <1>8, <1>9, <1>10, <1>11,
     <1>12, <1>13, <1>14, <1>15, <1>16, <1>17, <1>18 DEF Next

LEMMA ControlKept == IInv /\ [Next]_vars => Control' /\ FileInv'
<1> SUFFICES ASSUME IInv, [Next]_vars PROVE Control' /\ FileInv'
    OBVIOUS
<1> USE TunAssumption DEF IInv, TypeOK, Values, Control, FileInv,
        OnlyOurs, Alive
<1>1. CASE BeginStart
  BY <1>1 DEF BeginStart, stopLocked, Kill, Fault, Left, Return, OpenConnect,
     SingBox
<1>2. CASE CleanUp
  BY <1>2 DEF CleanUp, Fault, Goto, Return, session
<1>3. CASE Launch
  BY <1>3 DEF Launch, Kill, Fault, Left, Goto, Return
<1>4. CASE SeeInterface
  BY <1>4 DEF SeeInterface, Goto, bounds
<1>5. CASE NoInterface
  BY <1>5 DEF NoInterface, stopLocked, Kill, Fault, Left, Return, OpenConnect,
     SingBox
<1>6. CASE StartBox
  BY <1>6 DEF StartBox, Goto, bounds
<1>7. CASE BoxReady
  BY <1>7 DEF BoxReady, Return, session, bounds
<1>8. CASE BoxFails
  BY <1>8 DEF BoxFails, stopLocked, Kill, Fault, Left, Return, OpenConnect,
     SingBox
<1>9. CASE Refresh
  BY <1>9 DEF Refresh, Kill, Fault, Left, Return, SingBox
<1>10. CASE Stop
  BY <1>10 DEF Stop, stopLocked, Kill, Fault, Left, OpenConnect, SingBox
<1>11. CASE Link
  BY <1>11 DEF Link, caller, bounds
<1>12. CASE Refuse
  BY <1>12 DEF Refuse, caller, bounds
<1>13. CASE ReadRefusal
  BY <1>13 DEF ReadRefusal, caller, bounds
<1>14. CASE Exit
  BY <1>14 DEF Exit, caller, bounds
<1>15. CASE BoxExit
  BY <1>15 DEF BoxExit, caller, bounds
<1>16. CASE Stray
  BY <1>16 DEF Stray, caller, bounds
<1>17. CASE Crash
  BY <1>17 DEF Crash, Fault, Left, Return, OpenConnect, SingBox
<1>18. CASE UNCHANGED vars
  BY <1>18 DEF vars, session, caller, bounds
<1>19. QED
  BY <1>1, <1>2, <1>3, <1>4, <1>5, <1>6, <1>7, <1>8, <1>9, <1>10, <1>11,
     <1>12, <1>13, <1>14, <1>15, <1>16, <1>17, <1>18 DEF Next

LEMMA SafetyKept == IInv /\ [Next]_vars => OnlyOurs' /\ RoutesIntoOurs'
<1> SUFFICES ASSUME IInv, [Next]_vars PROVE OnlyOurs' /\ RoutesIntoOurs'
    OBVIOUS
<1> USE TunAssumption DEF IInv, TypeOK, Control, FileInv,
        OnlyOurs, RoutesIntoOurs, Alive
<1>1. CASE BeginStart
  BY <1>1 DEF BeginStart, stopLocked, Kill, Fault, Left, Return, OpenConnect,
     SingBox
<1>2. CASE CleanUp
  BY <1>2 DEF CleanUp, Fault, Goto, Return, session
<1>3. CASE Launch
  BY <1>3 DEF Launch, Kill, Fault, Left, Goto, Return
<1>4. CASE SeeInterface
  BY <1>4 DEF SeeInterface, Goto, bounds
<1>5. CASE NoInterface
  BY <1>5 DEF NoInterface, stopLocked, Kill, Fault, Left, Return, OpenConnect,
     SingBox
<1>6. CASE StartBox
  BY <1>6 DEF StartBox, Goto, bounds
<1>7. CASE BoxReady
  BY <1>7 DEF BoxReady, Return, session, bounds
<1>8. CASE BoxFails
  BY <1>8 DEF BoxFails, stopLocked, Kill, Fault, Left, Return, OpenConnect,
     SingBox
<1>9. CASE Refresh
  BY <1>9 DEF Refresh, Kill, Fault, Left, Return, SingBox
<1>10. CASE Stop
  BY <1>10 DEF Stop, stopLocked, Kill, Fault, Left, OpenConnect, SingBox
<1>11. CASE Link
  BY <1>11 DEF Link, caller, bounds
<1>12. CASE Refuse
  BY <1>12 DEF Refuse, caller, bounds
<1>13. CASE ReadRefusal
  BY <1>13 DEF ReadRefusal, caller, bounds
<1>14. CASE Exit
  BY <1>14 DEF Exit, caller, bounds
<1>15. CASE BoxExit
  BY <1>15 DEF BoxExit, caller, bounds
<1>16. CASE Stray
  BY <1>16 DEF Stray, caller, bounds
<1>17. CASE Crash
  BY <1>17 DEF Crash, Fault, Left, Return, OpenConnect, SingBox
<1>18. CASE UNCHANGED vars
  BY <1>18 DEF vars, session, caller, bounds
<1>19. QED
  BY <1>1, <1>2, <1>3, <1>4, <1>5, <1>6, <1>7, <1>8, <1>9, <1>10, <1>11,
     <1>12, <1>13, <1>14, <1>15, <1>16, <1>17, <1>18 DEF Next

LEMMA RefusalKept == IInv /\ [Next]_vars => RefusalInv'
<1> SUFFICES ASSUME IInv, [Next]_vars PROVE RefusalInv'
    OBVIOUS
<1> USE TunAssumption DEF IInv, TypeOK, Values, Control, OnlyOurs,
        RefusalInv, Alive
<1>1. CASE BeginStart
  BY <1>1 DEF BeginStart, stopLocked, Kill, Fault, Left, Return, OpenConnect,
     SingBox
<1>2. CASE CleanUp
  BY <1>2 DEF CleanUp, Fault, Goto, Return, session
<1>3. CASE Launch
  BY <1>3 DEF Launch, Kill, Fault, Left, Goto, Return
<1>4. CASE SeeInterface
  BY <1>4 DEF SeeInterface, Goto, bounds
<1>5. CASE NoInterface
  BY <1>5 DEF NoInterface, stopLocked, Kill, Fault, Left, Return, OpenConnect,
     SingBox
<1>6. CASE StartBox
  BY <1>6 DEF StartBox, Goto, bounds
<1>7. CASE BoxReady
  BY <1>7 DEF BoxReady, Return, session, bounds
<1>8. CASE BoxFails
  BY <1>8 DEF BoxFails, stopLocked, Kill, Fault, Left, Return, OpenConnect,
     SingBox
<1>9. CASE Refresh
  BY <1>9 DEF Refresh, Kill, Fault, Left, Return, SingBox
<1>10. CASE Stop
  BY <1>10 DEF Stop, stopLocked, Kill, Fault, Left, OpenConnect, SingBox
<1>11. CASE Link
  BY <1>11 DEF Link, caller, bounds
<1>12. CASE Refuse
  BY <1>12 DEF Refuse, caller, bounds
<1>13. CASE ReadRefusal
  BY <1>13 DEF ReadRefusal, caller, bounds
<1>14. CASE Exit
  BY <1>14 DEF Exit, caller, bounds
<1>15. CASE BoxExit
  BY <1>15 DEF BoxExit, caller, bounds
<1>16. CASE Stray
  BY <1>16 DEF Stray, caller, bounds
<1>17. CASE Crash
  BY <1>17 DEF Crash, Fault, Left, Return, OpenConnect, SingBox
<1>18. CASE UNCHANGED vars
  BY <1>18 DEF vars, session, caller, bounds
<1>19. QED
  BY <1>1, <1>2, <1>3, <1>4, <1>5, <1>6, <1>7, <1>8, <1>9, <1>10, <1>11,
     <1>12, <1>13, <1>14, <1>15, <1>16, <1>17, <1>18 DEF Next

LEMMA StepInv == IInv /\ [Next]_vars => IInv'
BY ValuesKept, FlagsKept, CountersKept, ControlKept, SafetyKept, RefusalKept
   DEF IInv, TypeOK

LEMMA Inductive == Spec => []IInv
BY InitInv, StepInv, PTL DEF Spec

\* The session's variables keep their types, and an operation of Start that has
\* not made its interface yet has no processes of an earlier session.
THEOREM TypeCorrect == Spec => []TypeOK
BY Inductive, PTL DEF IInv

\* Without a failed kill or a death of the program since the last cleanup, no
\* process runs that the session has forgotten.
THEOREM NoStrays == Spec => []OnlyOurs
BY Inductive, PTL DEF IInv

\* Without such a failure, sing-box routes into the interface of its own
\* OpenConnect.
THEOREM InterfaceIsOurs == Spec => []RoutesIntoOurs
BY Inductive, PTL DEF IInv

\* When OpenConnect's exit fails a Start, its error is the authentication error
\* exactly if the server refused the login.
THEOREM RefusalIsReported == Spec => RefusalReported
<1>1. IInv /\ [Next]_vars =>
        [pc = "vpn" /\ result' \in {"auth", "error"} /\ ~unclean
           => (result' = "auth" <=> denied)]_vars
  <2> SUFFICES ASSUME IInv, Next, pc = "vpn", result' \in {"auth", "error"},
                      ~unclean
               PROVE  result' = "auth" <=> denied
      BY DEF vars
  <2>1. result = "none"
    BY DEF IInv, RefusalInv
  <2>2. CASE NoInterface
    <3>1. oc = "dead" /\ result' = IF flag THEN "auth" ELSE "error"
      BY <2>2 DEF NoInterface, Return
    <3>2. flag <=> denied
      BY <3>1 DEF IInv, RefusalInv
    <3>3. QED
      BY <3>1, <3>2
  <2>3. CASE SeeInterface
    BY <2>1, <2>3 DEF SeeInterface, Goto
  <2>4. CASE Link \/ Refuse \/ ReadRefusal \/ Exit \/ BoxExit \/ Stray
    BY <2>1, <2>4 DEF Link, Refuse, ReadRefusal, Exit, BoxExit, Stray, caller
  <2>5. CASE Crash
    BY <2>5 DEF Crash, Return
  <2>6. QED
    BY <2>2, <2>3, <2>4, <2>5
       DEF Next, BeginStart, CleanUp, Launch, StartBox, BoxReady, BoxFails,
           Refresh, Stop
<1>2. QED
  BY <1>1, Inductive, PTL DEF Spec, RefusalReported

-----------------------------------------------------------------------------
(* Refinement. *)

LEMMA InitMaps == Init => Pair!Init
BY DEF Init, Pair!Init

LEMMA StepMaps == IInv /\ [Next]_vars => [Pair!Next]_(Pair!pair)
<1> SUFFICES ASSUME IInv, [Next]_vars PROVE [Pair!Next]_(Pair!pair)
    OBVIOUS
<1> USE DEF IInv, TypeOK, Values, Control, FileInv, Alive, Pair!pair, Pair!Next
<1>1. CASE BeginStart
  BY <1>1 DEF BeginStart, stopLocked, Return, Pair!Start
<1>2. CASE CleanUp
  BY <1>2 DEF CleanUp, Goto, Return, session, Pair!EndStart
<1>3. CASE Launch
  BY <1>3 DEF Launch, Goto, Return, Pair!EndStart
<1>4. CASE SeeInterface
  BY <1>4 DEF SeeInterface, Goto
<1>5. CASE NoInterface
  BY <1>5 DEF NoInterface, stopLocked, Return, Pair!EndStart
<1>6. CASE StartBox
  BY <1>6 DEF StartBox, Goto
<1>7. CASE BoxReady
  BY <1>7 DEF BoxReady, Return, session, Pair!EndStart, Pair!EndRefresh
<1>8. CASE BoxFails
  BY <1>8 DEF BoxFails, stopLocked, Return, Pair!EndStart, Pair!EndRefresh
<1>9. CASE Refresh
  BY <1>9 DEF Refresh, Return, Pair!Refresh
<1>10. CASE Stop
  BY <1>10 DEF Stop, stopLocked, Pair!Stop
<1>11. CASE Link \/ Refuse \/ ReadRefusal \/ Exit \/ BoxExit
  BY <1>11 DEF Link, Refuse, ReadRefusal, Exit, BoxExit, caller, Pair!Lose
<1>12. CASE Stray
  BY <1>12 DEF Stray, caller
<1>13. CASE Crash
  BY <1>13 DEF Crash, Return, Pair!Crash
<1>14. CASE UNCHANGED vars
  BY <1>14 DEF vars, session, caller
<1>15. QED
  BY <1>1, <1>2, <1>3, <1>4, <1>5, <1>6, <1>7, <1>8, <1>9, <1>10, <1>11, <1>12,
     <1>13, <1>14 DEF Next

\* TunSession implements TunPair: a start that fails leaves nothing, a refresh
\* never gives the login up, and only an operation of the caller brings the pair
\* up.
THEOREM Implements == Spec => KeepsPromise
BY Inductive, InitMaps, StepMaps, PTL DEF Spec, Pair!Spec, KeepsPromise
=============================================================================
