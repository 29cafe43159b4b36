------------------------- MODULE AndroidEngineProofs -------------------------
(***************************************************************************)
(* Proofs about AndroidEngine for every number of table switches: its      *)
(* invariants, and that connect keeps to VpnContract.                      *)
(***************************************************************************)
EXTENDS AndroidEngine, TLAPS

\* A cancelled connection has a cause, which the worker reads after it has
\* found that the set-up did not fail.
CauseInv ==
  /\ canceled => heard \/ refreshFailure \/ setupFailure
  /\ stopper \notin {"idle", "done"} => heard
  /\ refresher = "cancel" => refreshFailure
  /\ worker = "recheck" => ~setupFailure
  /\ outcome = "quiet" => heard \/ refreshFailure

\* The refresher lives with the interface, and what has failed to come up was
\* never announced.
InterfaceInv ==
  /\ worker \in {"load", "login"} => table = "none"
  /\ worker \in {"install", "installing", "assign"} => table # "none"
  /\ table = "none" => ~said \/ worker = "gone"
  /\ setupFailure => table = "none" /\ ~said
  /\ refresher # "none" /\ worker # "gone" => table # "none"
  /\ refresher = "none" => ~refreshFailure
  /\ worker = "gone" => table = "none"

\* Why connect ended fits what it has shown of itself.
OutcomeInv ==
  worker # "gone" =>
    /\ outcome = "quiet" => heard \/ table # "none"
    /\ outcome = "dns" => table # "none"
    /\ outcome = "failed" => ~said

\* The worker installs what was asked for last; meanwhile the refresher waits
\* or has given up.
SwitchInv ==
  /\ worker \in {"install", "installing"} =>
       /\ answer = "none" /\ ~pending
       /\ refresher \in {"pause", "wait", "failing", "record", "cancel", "done"}
  /\ worker # "gone" =>
       /\ refresher = "sleep" => said
       /\ said /\ refresher \in {"top", "network", "resolve", "ask", "sleep"}
            => installed = asked
       /\ answer = "done" /\ refresher \in {"pause", "wait"}
            => said /\ installed = asked

\* A refresher whose thread is not stored, or that starts when stop() has
\* cancelled, gets no further than the head of its loop.
StopInv ==
  /\ stopper \in {"thread", "join", "clear"} => canceled
  /\ stopper \in {"idle", "withdraw", "cancel", "thread"} => ~missed
  /\ stopper = "done" /\ ~missed => worker = "gone" \/ canceled
  /\ stopper \in {"clear", "done"} /\ ~missed /\ worker # "gone"
       => refresher \in {"none", "top", "done"}
  /\ worker \notin {"assign", "gone"} /\ ~thread /\ refresher # "none"
       => stopper = "done"
  /\ refresher = "none" => worker # "assign"
  /\ worker = "gone" /\ ~missed =>
       /\ refresher \in {"none", "top", "done"}
       /\ refresher = "top" => canceled

IInv ==
  TypeOK /\ CauseInv /\ InterfaceInv /\ OutcomeInv /\ SwitchInv /\ StopInv

LEMMA InitInv == Init => IInv
<1> SUFFICES ASSUME Init PROVE IInv
    OBVIOUS
<1>1. Values /\ Control
  BY EngineAssumption DEF Init, Values, Control
<1>2. Flags
  BY DEF Init, Flags
<1>3. CauseInv /\ InterfaceInv /\ OutcomeInv /\ SwitchInv /\ StopInv
  BY DEF Init, CauseInv, InterfaceInv, OutcomeInv, SwitchInv, StopInv
<1>4. QED
  BY <1>1, <1>2, <1>3 DEF IInv, TypeOK

LEMMA ValuesKept == IInv /\ [Next]_vars => Values'
<1> SUFFICES ASSUME IInv, [Next]_vars PROVE Values'
    OBVIOUS
<1> USE EngineAssumption DEF IInv, TypeOK, Values, Outcomes
<1>1. CASE Load
  BY <1>1 DEF Load, Leave, native, failures, switch, tun, histories
<1>2. CASE Login
  BY <1>2 DEF Login, Leave, native, failures, switch, tun, histories
<1>3. CASE SetupStatic
  BY <1>3 DEF SetupStatic, ending, native, failures, switch, histories
<1>4. CASE SetupHosts
  BY <1>4 DEF SetupHosts, ending, native, failures, switch, histories
<1>5. CASE AssignThread
  BY <1>5 DEF AssignThread, ending, native, failures, switch, tun, histories
<1>6. CASE SetupFails
  BY <1>6 DEF SetupFails, ending, switch, tun, histories
<1>7. CASE Pauses
  BY <1>7 DEF Pauses, Return, failures, switch, tun, histories
<1>8. CASE Canceled
  BY <1>8 DEF Canceled, Return, failures, switch, tun, histories
<1>9. CASE TakeSwitch
  BY <1>9 DEF TakeSwitch, FailSwitch, Leave, tun, histories
<1>10. CASE BeginInstall
  BY <1>10 DEF BeginInstall, FailSwitch, Leave, tun, histories
<1>11. CASE Install
  BY <1>11 DEF Install, FailSwitch, Leave, tun, histories
<1>12. CASE Check
  BY <1>12 DEF Check, Leave, native, failures, switch, tun, histories
<1>13. CASE Recheck
  BY <1>13 DEF Recheck, Leave, native, failures, switch, tun, histories
<1>14. CASE Close
  BY <1>14 DEF Close, ending, native, failures, switch, tun, histories
<1>15. CASE Destroy
  BY <1>15 DEF Destroy, ending, native, failures, switch, histories
<1>16. CASE Lost
  BY <1>16 DEF Lost, Return, failures, switch, tun, histories
<1>17. CASE Turn
  BY <1>17 DEF Turn, GoOn, ending, native, failures, switch, tun, histories
<1>18. CASE FindNetwork
  BY <1>18 DEF FindNetwork, GoOn, ending, native, failures, switch, tun,
     histories
<1>19. CASE NetworkStopped
  BY <1>19 DEF NetworkStopped, GoOn, ending, native, failures, switch, tun,
     histories
<1>20. CASE Resolve
  BY <1>20 DEF Resolve, GoOn, ending, native, failures, switch, tun,
     histories
<1>21. CASE Ask
  BY <1>21 DEF Ask, ending, native, failures, switch, tun, histories
<1>22. CASE Pause
  BY <1>22 DEF Pause, ending, failures, switch, tun, histories
<1>23. CASE Answered
  BY <1>23 DEF Answered, GoOn, ending, native, failures, switch, tun,
     histories
<1>24. CASE AwaitTimesOut
  BY <1>24 DEF AwaitTimesOut, ending, native, failures, tun, histories
<1>25. CASE Wake
  BY <1>25 DEF Wake, GoOn, ending, native, failures, switch, tun, histories
<1>26. CASE Interrupted
  BY <1>26 DEF Interrupted, GoOn, ending, native, failures, switch, tun,
     histories
<1>27. CASE Fails
  BY <1>27 DEF Fails, GoOn, ending, native, failures, switch, tun, histories
<1>28. CASE Record
  BY <1>28 DEF Record, ending, native, switch, tun, histories
<1>29. CASE ReportCancel
  BY <1>29 DEF ReportCancel, ending, failures, switch, tun, histories
<1>30. CASE StopBegins
  BY <1>30 DEF StopBegins, ending, native, failures, switch, tun
<1>31. CASE StopWithdraws
  BY <1>31 DEF StopWithdraws, ending, native, failures, tun, histories
<1>32. CASE StopCancels
  BY <1>32 DEF StopCancels, ending, failures, switch, tun, histories
<1>33. CASE StopInterrupts
  BY <1>33 DEF StopInterrupts, ending, native, failures, switch, tun
<1>34. CASE StopJoins
  BY <1>34 DEF StopJoins, ending, native, failures, switch, tun, histories
<1>35. CASE StopClears
  BY <1>35 DEF StopClears, ending, native, failures, switch, tun, histories
<1>36. CASE UNCHANGED vars
  BY <1>36 DEF vars, ending, native, failures, switch, tun, histories
<1>37. QED
  BY <1>1, <1>2, <1>3, <1>4, <1>5, <1>6, <1>7, <1>8, <1>9, <1>10, <1>11,
     <1>12, <1>13, <1>14, <1>15, <1>16, <1>17, <1>18, <1>19, <1>20, <1>21,
     <1>22, <1>23, <1>24, <1>25, <1>26, <1>27, <1>28, <1>29, <1>30, <1>31,
     <1>32, <1>33, <1>34, <1>35, <1>36 DEF Next, Works, Refreshes, Stops

LEMMA FlagsKept == IInv /\ [Next]_vars => Flags'
<1> SUFFICES ASSUME IInv, [Next]_vars PROVE Flags'
    OBVIOUS
<1> USE DEF IInv, TypeOK, Flags
<1>1. CASE Load
  BY <1>1 DEF Load, Leave, native, failures, switch, tun, histories
<1>2. CASE Login
  BY <1>2 DEF Login, Leave, native, failures, switch, tun, histories
<1>3. CASE SetupStatic
  BY <1>3 DEF SetupStatic, ending, native, failures, switch, histories
<1>4. CASE SetupHosts
  BY <1>4 DEF SetupHosts, ending, native, failures, switch, histories
<1>5. CASE AssignThread
  BY <1>5 DEF AssignThread, ending, native, failures, switch, tun, histories
<1>6. CASE SetupFails
  BY <1>6 DEF SetupFails, ending, switch, tun, histories
<1>7. CASE Pauses
  BY <1>7 DEF Pauses, Return, failures, switch, tun, histories
<1>8. CASE Canceled
  BY <1>8 DEF Canceled, Return, failures, switch, tun, histories
<1>9. CASE TakeSwitch
  BY <1>9 DEF TakeSwitch, FailSwitch, Leave, tun, histories
<1>10. CASE BeginInstall
  BY <1>10 DEF BeginInstall, FailSwitch, Leave, tun, histories
<1>11. CASE Install
  BY <1>11 DEF Install, FailSwitch, Leave, tun, histories
<1>12. CASE Check
  BY <1>12 DEF Check, Leave, native, failures, switch, tun, histories
<1>13. CASE Recheck
  BY <1>13 DEF Recheck, Leave, native, failures, switch, tun, histories
<1>14. CASE Close
  BY <1>14 DEF Close, ending, native, failures, switch, tun, histories
<1>15. CASE Destroy
  BY <1>15 DEF Destroy, ending, native, failures, switch, histories
<1>16. CASE Lost
  BY <1>16 DEF Lost, Return, failures, switch, tun, histories
<1>17. CASE Turn
  BY <1>17 DEF Turn, GoOn, ending, native, failures, switch, tun, histories
<1>18. CASE FindNetwork
  BY <1>18 DEF FindNetwork, GoOn, ending, native, failures, switch, tun,
     histories
<1>19. CASE NetworkStopped
  BY <1>19 DEF NetworkStopped, GoOn, ending, native, failures, switch, tun,
     histories
<1>20. CASE Resolve
  BY <1>20 DEF Resolve, GoOn, ending, native, failures, switch, tun,
     histories
<1>21. CASE Ask
  BY <1>21 DEF Ask, ending, native, failures, switch, tun, histories
<1>22. CASE Pause
  BY <1>22 DEF Pause, ending, failures, switch, tun, histories
<1>23. CASE Answered
  BY <1>23 DEF Answered, GoOn, ending, native, failures, switch, tun,
     histories
<1>24. CASE AwaitTimesOut
  BY <1>24 DEF AwaitTimesOut, ending, native, failures, tun, histories
<1>25. CASE Wake
  BY <1>25 DEF Wake, GoOn, ending, native, failures, switch, tun, histories
<1>26. CASE Interrupted
  BY <1>26 DEF Interrupted, GoOn, ending, native, failures, switch, tun,
     histories
<1>27. CASE Fails
  BY <1>27 DEF Fails, GoOn, ending, native, failures, switch, tun, histories
<1>28. CASE Record
  BY <1>28 DEF Record, ending, native, switch, tun, histories
<1>29. CASE ReportCancel
  BY <1>29 DEF ReportCancel, ending, failures, switch, tun, histories
<1>30. CASE StopBegins
  BY <1>30 DEF StopBegins, ending, native, failures, switch, tun
<1>31. CASE StopWithdraws
  BY <1>31 DEF StopWithdraws, ending, native, failures, tun, histories
<1>32. CASE StopCancels
  BY <1>32 DEF StopCancels, ending, failures, switch, tun, histories
<1>33. CASE StopInterrupts
  BY <1>33 DEF StopInterrupts, ending, native, failures, switch, tun
<1>34. CASE StopJoins
  BY <1>34 DEF StopJoins, ending, native, failures, switch, tun, histories
<1>35. CASE StopClears
  BY <1>35 DEF StopClears, ending, native, failures, switch, tun, histories
<1>36. CASE UNCHANGED vars
  BY <1>36 DEF vars, ending, native, failures, switch, tun, histories
<1>37. QED
  BY <1>1, <1>2, <1>3, <1>4, <1>5, <1>6, <1>7, <1>8, <1>9, <1>10, <1>11,
     <1>12, <1>13, <1>14, <1>15, <1>16, <1>17, <1>18, <1>19, <1>20, <1>21,
     <1>22, <1>23, <1>24, <1>25, <1>26, <1>27, <1>28, <1>29, <1>30, <1>31,
     <1>32, <1>33, <1>34, <1>35, <1>36 DEF Next, Works, Refreshes, Stops

LEMMA ControlKept == IInv /\ [Next]_vars => Control'
<1> SUFFICES ASSUME IInv, [Next]_vars PROVE Control'
    OBVIOUS
<1> USE DEF IInv, TypeOK, Values, Control, InterfaceInv, SwitchInv,
  StopInv
<1>1. CASE Load
  BY <1>1 DEF Load, Leave, native, failures, switch, tun, histories
<1>2. CASE Login
  BY <1>2 DEF Login, Leave, native, failures, switch, tun, histories
<1>3. CASE SetupStatic
  BY <1>3 DEF SetupStatic, ending, native, failures, switch, histories
<1>4. CASE SetupHosts
  BY <1>4 DEF SetupHosts, ending, native, failures, switch, histories
<1>5. CASE AssignThread
  BY <1>5 DEF AssignThread, ending, native, failures, switch, tun, histories
<1>6. CASE SetupFails
  BY <1>6 DEF SetupFails, ending, switch, tun, histories
<1>7. CASE Pauses
  BY <1>7 DEF Pauses, Return, failures, switch, tun, histories
<1>8. CASE Canceled
  BY <1>8 DEF Canceled, Return, failures, switch, tun, histories
<1>9. CASE TakeSwitch
  BY <1>9 DEF TakeSwitch, FailSwitch, Leave, tun, histories
<1>10. CASE BeginInstall
  BY <1>10 DEF BeginInstall, FailSwitch, Leave, tun, histories
<1>11. CASE Install
  BY <1>11 DEF Install, FailSwitch, Leave, tun, histories
<1>12. CASE Check
  BY <1>12 DEF Check, Leave, native, failures, switch, tun, histories
<1>13. CASE Recheck
  BY <1>13 DEF Recheck, Leave, native, failures, switch, tun, histories
<1>14. CASE Close
  BY <1>14 DEF Close, ending, native, failures, switch, tun, histories
<1>15. CASE Destroy
  BY <1>15 DEF Destroy, ending, native, failures, switch, histories
<1>16. CASE Lost
  BY <1>16 DEF Lost, Return, failures, switch, tun, histories
<1>17. CASE Turn
  BY <1>17 DEF Turn, GoOn, ending, native, failures, switch, tun, histories
<1>18. CASE FindNetwork
  BY <1>18 DEF FindNetwork, GoOn, ending, native, failures, switch, tun,
     histories
<1>19. CASE NetworkStopped
  BY <1>19 DEF NetworkStopped, GoOn, ending, native, failures, switch, tun,
     histories
<1>20. CASE Resolve
  BY <1>20 DEF Resolve, GoOn, ending, native, failures, switch, tun,
     histories
<1>21. CASE Ask
  BY <1>21 DEF Ask, ending, native, failures, switch, tun, histories
<1>22. CASE Pause
  BY <1>22 DEF Pause, ending, failures, switch, tun, histories
<1>23. CASE Answered
  BY <1>23 DEF Answered, GoOn, ending, native, failures, switch, tun,
     histories
<1>24. CASE AwaitTimesOut
  BY <1>24 DEF AwaitTimesOut, ending, native, failures, tun, histories
<1>25. CASE Wake
  BY <1>25 DEF Wake, GoOn, ending, native, failures, switch, tun, histories
<1>26. CASE Interrupted
  BY <1>26 DEF Interrupted, GoOn, ending, native, failures, switch, tun,
     histories
<1>27. CASE Fails
  BY <1>27 DEF Fails, GoOn, ending, native, failures, switch, tun, histories
<1>28. CASE Record
  BY <1>28 DEF Record, ending, native, switch, tun, histories
<1>29. CASE ReportCancel
  BY <1>29 DEF ReportCancel, ending, failures, switch, tun, histories
<1>30. CASE StopBegins
  BY <1>30 DEF StopBegins, ending, native, failures, switch, tun
<1>31. CASE StopWithdraws
  BY <1>31 DEF StopWithdraws, ending, native, failures, tun, histories
<1>32. CASE StopCancels
  BY <1>32 DEF StopCancels, ending, failures, switch, tun, histories
<1>33. CASE StopInterrupts
  BY <1>33 DEF StopInterrupts, ending, native, failures, switch, tun
<1>34. CASE StopJoins
  BY <1>34 DEF StopJoins, ending, native, failures, switch, tun, histories
<1>35. CASE StopClears
  BY <1>35 DEF StopClears, ending, native, failures, switch, tun, histories
<1>36. CASE UNCHANGED vars
  BY <1>36 DEF vars, ending, native, failures, switch, tun, histories
<1>37. QED
  BY <1>1, <1>2, <1>3, <1>4, <1>5, <1>6, <1>7, <1>8, <1>9, <1>10, <1>11,
     <1>12, <1>13, <1>14, <1>15, <1>16, <1>17, <1>18, <1>19, <1>20, <1>21,
     <1>22, <1>23, <1>24, <1>25, <1>26, <1>27, <1>28, <1>29, <1>30, <1>31,
     <1>32, <1>33, <1>34, <1>35, <1>36 DEF Next, Works, Refreshes, Stops

LEMMA CauseKept == IInv /\ [Next]_vars => CauseInv'
<1> SUFFICES ASSUME IInv, [Next]_vars PROVE CauseInv'
    OBVIOUS
<1> USE DEF IInv, CauseInv
<1>1. CASE Load
  BY <1>1 DEF Load, Leave, native, failures, switch, tun, histories
<1>2. CASE Login
  BY <1>2 DEF Login, Leave, native, failures, switch, tun, histories
<1>3. CASE SetupStatic
  BY <1>3 DEF SetupStatic, ending, native, failures, switch, histories
<1>4. CASE SetupHosts
  BY <1>4 DEF SetupHosts, ending, native, failures, switch, histories
<1>5. CASE AssignThread
  BY <1>5 DEF AssignThread, ending, native, failures, switch, tun, histories
<1>6. CASE SetupFails
  BY <1>6 DEF SetupFails, ending, switch, tun, histories
<1>7. CASE Pauses
  BY <1>7 DEF Pauses, Return, failures, switch, tun, histories
<1>8. CASE Canceled
  BY <1>8 DEF Canceled, Return, failures, switch, tun, histories
<1>9. CASE TakeSwitch
  BY <1>9 DEF TakeSwitch, FailSwitch, Leave, tun, histories
<1>10. CASE BeginInstall
  BY <1>10 DEF BeginInstall, FailSwitch, Leave, tun, histories
<1>11. CASE Install
  BY <1>11 DEF Install, FailSwitch, Leave, tun, histories
<1>12. CASE Check
  BY <1>12 DEF Check, Leave, native, failures, switch, tun, histories
<1>13. CASE Recheck
  BY <1>13 DEF Recheck, Leave, native, failures, switch, tun, histories
<1>14. CASE Close
  BY <1>14 DEF Close, ending, native, failures, switch, tun, histories
<1>15. CASE Destroy
  BY <1>15 DEF Destroy, ending, native, failures, switch, histories
<1>16. CASE Lost
  BY <1>16 DEF Lost, Return, failures, switch, tun, histories
<1>17. CASE Turn
  BY <1>17 DEF Turn, GoOn, ending, native, failures, switch, tun, histories
<1>18. CASE FindNetwork
  BY <1>18 DEF FindNetwork, GoOn, ending, native, failures, switch, tun,
     histories
<1>19. CASE NetworkStopped
  BY <1>19 DEF NetworkStopped, GoOn, ending, native, failures, switch, tun,
     histories
<1>20. CASE Resolve
  BY <1>20 DEF Resolve, GoOn, ending, native, failures, switch, tun,
     histories
<1>21. CASE Ask
  BY <1>21 DEF Ask, ending, native, failures, switch, tun, histories
<1>22. CASE Pause
  BY <1>22 DEF Pause, ending, failures, switch, tun, histories
<1>23. CASE Answered
  BY <1>23 DEF Answered, GoOn, ending, native, failures, switch, tun,
     histories
<1>24. CASE AwaitTimesOut
  BY <1>24 DEF AwaitTimesOut, ending, native, failures, tun, histories
<1>25. CASE Wake
  BY <1>25 DEF Wake, GoOn, ending, native, failures, switch, tun, histories
<1>26. CASE Interrupted
  BY <1>26 DEF Interrupted, GoOn, ending, native, failures, switch, tun,
     histories
<1>27. CASE Fails
  BY <1>27 DEF Fails, GoOn, ending, native, failures, switch, tun, histories
<1>28. CASE Record
  BY <1>28 DEF Record, ending, native, switch, tun, histories
<1>29. CASE ReportCancel
  BY <1>29 DEF ReportCancel, ending, failures, switch, tun, histories
<1>30. CASE StopBegins
  BY <1>30 DEF StopBegins, ending, native, failures, switch, tun
<1>31. CASE StopWithdraws
  BY <1>31 DEF StopWithdraws, ending, native, failures, tun, histories
<1>32. CASE StopCancels
  BY <1>32 DEF StopCancels, ending, failures, switch, tun, histories
<1>33. CASE StopInterrupts
  BY <1>33 DEF StopInterrupts, ending, native, failures, switch, tun
<1>34. CASE StopJoins
  BY <1>34 DEF StopJoins, ending, native, failures, switch, tun, histories
<1>35. CASE StopClears
  BY <1>35 DEF StopClears, ending, native, failures, switch, tun, histories
<1>36. CASE UNCHANGED vars
  BY <1>36 DEF vars, ending, native, failures, switch, tun, histories
<1>37. QED
  BY <1>1, <1>2, <1>3, <1>4, <1>5, <1>6, <1>7, <1>8, <1>9, <1>10, <1>11,
     <1>12, <1>13, <1>14, <1>15, <1>16, <1>17, <1>18, <1>19, <1>20, <1>21,
     <1>22, <1>23, <1>24, <1>25, <1>26, <1>27, <1>28, <1>29, <1>30, <1>31,
     <1>32, <1>33, <1>34, <1>35, <1>36 DEF Next, Works, Refreshes, Stops

LEMMA InterfaceKept == IInv /\ [Next]_vars => InterfaceInv'
<1> SUFFICES ASSUME IInv, [Next]_vars PROVE InterfaceInv'
    OBVIOUS
<1> USE DEF IInv, TypeOK, Control, InterfaceInv, SwitchInv
<1>1. CASE Load
  BY <1>1 DEF Load, Leave, native, failures, switch, tun, histories
<1>2. CASE Login
  BY <1>2 DEF Login, Leave, native, failures, switch, tun, histories
<1>3. CASE SetupStatic
  BY <1>3 DEF SetupStatic, ending, native, failures, switch, histories
<1>4. CASE SetupHosts
  BY <1>4 DEF SetupHosts, ending, native, failures, switch, histories
<1>5. CASE AssignThread
  BY <1>5 DEF AssignThread, ending, native, failures, switch, tun, histories
<1>6. CASE SetupFails
  BY <1>6 DEF SetupFails, ending, switch, tun, histories
<1>7. CASE Pauses
  BY <1>7 DEF Pauses, Return, failures, switch, tun, histories
<1>8. CASE Canceled
  BY <1>8 DEF Canceled, Return, failures, switch, tun, histories
<1>9. CASE TakeSwitch
  BY <1>9 DEF TakeSwitch, FailSwitch, Leave, tun, histories
<1>10. CASE BeginInstall
  BY <1>10 DEF BeginInstall, FailSwitch, Leave, tun, histories
<1>11. CASE Install
  BY <1>11 DEF Install, FailSwitch, Leave, tun, histories
<1>12. CASE Check
  BY <1>12 DEF Check, Leave, native, failures, switch, tun, histories
<1>13. CASE Recheck
  BY <1>13 DEF Recheck, Leave, native, failures, switch, tun, histories
<1>14. CASE Close
  BY <1>14 DEF Close, ending, native, failures, switch, tun, histories
<1>15. CASE Destroy
  BY <1>15 DEF Destroy, ending, native, failures, switch, histories
<1>16. CASE Lost
  BY <1>16 DEF Lost, Return, failures, switch, tun, histories
<1>17. CASE Turn
  BY <1>17 DEF Turn, GoOn, ending, native, failures, switch, tun, histories
<1>18. CASE FindNetwork
  BY <1>18 DEF FindNetwork, GoOn, ending, native, failures, switch, tun,
     histories
<1>19. CASE NetworkStopped
  BY <1>19 DEF NetworkStopped, GoOn, ending, native, failures, switch, tun,
     histories
<1>20. CASE Resolve
  BY <1>20 DEF Resolve, GoOn, ending, native, failures, switch, tun,
     histories
<1>21. CASE Ask
  BY <1>21 DEF Ask, ending, native, failures, switch, tun, histories
<1>22. CASE Pause
  BY <1>22 DEF Pause, ending, failures, switch, tun, histories
<1>23. CASE Answered
  BY <1>23 DEF Answered, GoOn, ending, native, failures, switch, tun,
     histories
<1>24. CASE AwaitTimesOut
  BY <1>24 DEF AwaitTimesOut, ending, native, failures, tun, histories
<1>25. CASE Wake
  BY <1>25 DEF Wake, GoOn, ending, native, failures, switch, tun, histories
<1>26. CASE Interrupted
  BY <1>26 DEF Interrupted, GoOn, ending, native, failures, switch, tun,
     histories
<1>27. CASE Fails
  BY <1>27 DEF Fails, GoOn, ending, native, failures, switch, tun, histories
<1>28. CASE Record
  BY <1>28 DEF Record, ending, native, switch, tun, histories
<1>29. CASE ReportCancel
  BY <1>29 DEF ReportCancel, ending, failures, switch, tun, histories
<1>30. CASE StopBegins
  BY <1>30 DEF StopBegins, ending, native, failures, switch, tun
<1>31. CASE StopWithdraws
  BY <1>31 DEF StopWithdraws, ending, native, failures, tun, histories
<1>32. CASE StopCancels
  BY <1>32 DEF StopCancels, ending, failures, switch, tun, histories
<1>33. CASE StopInterrupts
  BY <1>33 DEF StopInterrupts, ending, native, failures, switch, tun
<1>34. CASE StopJoins
  BY <1>34 DEF StopJoins, ending, native, failures, switch, tun, histories
<1>35. CASE StopClears
  BY <1>35 DEF StopClears, ending, native, failures, switch, tun, histories
<1>36. CASE UNCHANGED vars
  BY <1>36 DEF vars, ending, native, failures, switch, tun, histories
<1>37. QED
  BY <1>1, <1>2, <1>3, <1>4, <1>5, <1>6, <1>7, <1>8, <1>9, <1>10, <1>11,
     <1>12, <1>13, <1>14, <1>15, <1>16, <1>17, <1>18, <1>19, <1>20, <1>21,
     <1>22, <1>23, <1>24, <1>25, <1>26, <1>27, <1>28, <1>29, <1>30, <1>31,
     <1>32, <1>33, <1>34, <1>35, <1>36 DEF Next, Works, Refreshes, Stops

LEMMA OutcomeKept == IInv /\ [Next]_vars => OutcomeInv'
<1> SUFFICES ASSUME IInv, [Next]_vars PROVE OutcomeInv'
    OBVIOUS
<1> USE DEF IInv, TypeOK, Control, CauseInv, InterfaceInv, OutcomeInv
<1>1. CASE Load
  BY <1>1 DEF Load, Leave, native, failures, switch, tun, histories
<1>2. CASE Login
  BY <1>2 DEF Login, Leave, native, failures, switch, tun, histories
<1>3. CASE SetupStatic
  BY <1>3 DEF SetupStatic, ending, native, failures, switch, histories
<1>4. CASE SetupHosts
  BY <1>4 DEF SetupHosts, ending, native, failures, switch, histories
<1>5. CASE AssignThread
  BY <1>5 DEF AssignThread, ending, native, failures, switch, tun, histories
<1>6. CASE SetupFails
  BY <1>6 DEF SetupFails, ending, switch, tun, histories
<1>7. CASE Pauses
  BY <1>7 DEF Pauses, Return, failures, switch, tun, histories
<1>8. CASE Canceled
  BY <1>8 DEF Canceled, Return, failures, switch, tun, histories
<1>9. CASE TakeSwitch
  BY <1>9 DEF TakeSwitch, FailSwitch, Leave, tun, histories
<1>10. CASE BeginInstall
  BY <1>10 DEF BeginInstall, FailSwitch, Leave, tun, histories
<1>11. CASE Install
  BY <1>11 DEF Install, FailSwitch, Leave, tun, histories
<1>12. CASE Check
  BY <1>12 DEF Check, Leave, native, failures, switch, tun, histories
<1>13. CASE Recheck
  BY <1>13 DEF Recheck, Leave, native, failures, switch, tun, histories
<1>14. CASE Close
  BY <1>14 DEF Close, ending, native, failures, switch, tun, histories
<1>15. CASE Destroy
  BY <1>15 DEF Destroy, ending, native, failures, switch, histories
<1>16. CASE Lost
  BY <1>16 DEF Lost, Return, failures, switch, tun, histories
<1>17. CASE Turn
  BY <1>17 DEF Turn, GoOn, ending, native, failures, switch, tun, histories
<1>18. CASE FindNetwork
  BY <1>18 DEF FindNetwork, GoOn, ending, native, failures, switch, tun,
     histories
<1>19. CASE NetworkStopped
  BY <1>19 DEF NetworkStopped, GoOn, ending, native, failures, switch, tun,
     histories
<1>20. CASE Resolve
  BY <1>20 DEF Resolve, GoOn, ending, native, failures, switch, tun,
     histories
<1>21. CASE Ask
  BY <1>21 DEF Ask, ending, native, failures, switch, tun, histories
<1>22. CASE Pause
  BY <1>22 DEF Pause, ending, failures, switch, tun, histories
<1>23. CASE Answered
  BY <1>23 DEF Answered, GoOn, ending, native, failures, switch, tun,
     histories
<1>24. CASE AwaitTimesOut
  BY <1>24 DEF AwaitTimesOut, ending, native, failures, tun, histories
<1>25. CASE Wake
  BY <1>25 DEF Wake, GoOn, ending, native, failures, switch, tun, histories
<1>26. CASE Interrupted
  BY <1>26 DEF Interrupted, GoOn, ending, native, failures, switch, tun,
     histories
<1>27. CASE Fails
  BY <1>27 DEF Fails, GoOn, ending, native, failures, switch, tun, histories
<1>28. CASE Record
  BY <1>28 DEF Record, ending, native, switch, tun, histories
<1>29. CASE ReportCancel
  BY <1>29 DEF ReportCancel, ending, failures, switch, tun, histories
<1>30. CASE StopBegins
  BY <1>30 DEF StopBegins, ending, native, failures, switch, tun
<1>31. CASE StopWithdraws
  BY <1>31 DEF StopWithdraws, ending, native, failures, tun, histories
<1>32. CASE StopCancels
  BY <1>32 DEF StopCancels, ending, failures, switch, tun, histories
<1>33. CASE StopInterrupts
  BY <1>33 DEF StopInterrupts, ending, native, failures, switch, tun
<1>34. CASE StopJoins
  BY <1>34 DEF StopJoins, ending, native, failures, switch, tun, histories
<1>35. CASE StopClears
  BY <1>35 DEF StopClears, ending, native, failures, switch, tun, histories
<1>36. CASE UNCHANGED vars
  BY <1>36 DEF vars, ending, native, failures, switch, tun, histories
<1>37. QED
  BY <1>1, <1>2, <1>3, <1>4, <1>5, <1>6, <1>7, <1>8, <1>9, <1>10, <1>11,
     <1>12, <1>13, <1>14, <1>15, <1>16, <1>17, <1>18, <1>19, <1>20, <1>21,
     <1>22, <1>23, <1>24, <1>25, <1>26, <1>27, <1>28, <1>29, <1>30, <1>31,
     <1>32, <1>33, <1>34, <1>35, <1>36 DEF Next, Works, Refreshes, Stops

LEMMA SwitchKept == IInv /\ [Next]_vars => SwitchInv'
<1> SUFFICES ASSUME IInv, [Next]_vars PROVE SwitchInv'
    OBVIOUS
<1> USE DEF IInv, TypeOK, Values, Control, InterfaceInv, SwitchInv
<1>1. CASE Load
  BY <1>1 DEF Load, Leave, native, failures, switch, tun, histories
<1>2. CASE Login
  BY <1>2 DEF Login, Leave, native, failures, switch, tun, histories
<1>3. CASE SetupStatic
  BY <1>3 DEF SetupStatic, ending, native, failures, switch, histories
<1>4. CASE SetupHosts
  BY <1>4 DEF SetupHosts, ending, native, failures, switch, histories
<1>5. CASE AssignThread
  BY <1>5 DEF AssignThread, ending, native, failures, switch, tun, histories
<1>6. CASE SetupFails
  BY <1>6 DEF SetupFails, ending, switch, tun, histories
<1>7. CASE Pauses
  BY <1>7 DEF Pauses, Return, failures, switch, tun, histories
<1>8. CASE Canceled
  BY <1>8 DEF Canceled, Return, failures, switch, tun, histories
<1>9. CASE TakeSwitch
  BY <1>9 DEF TakeSwitch, FailSwitch, Leave, tun, histories
<1>10. CASE BeginInstall
  BY <1>10 DEF BeginInstall, FailSwitch, Leave, tun, histories
<1>11. CASE Install
  BY <1>11 DEF Install, FailSwitch, Leave, tun, histories
<1>12. CASE Check
  BY <1>12 DEF Check, Leave, native, failures, switch, tun, histories
<1>13. CASE Recheck
  BY <1>13 DEF Recheck, Leave, native, failures, switch, tun, histories
<1>14. CASE Close
  BY <1>14 DEF Close, ending, native, failures, switch, tun, histories
<1>15. CASE Destroy
  BY <1>15 DEF Destroy, ending, native, failures, switch, histories
<1>16. CASE Lost
  BY <1>16 DEF Lost, Return, failures, switch, tun, histories
<1>17. CASE Turn
  BY <1>17 DEF Turn, GoOn, ending, native, failures, switch, tun, histories
<1>18. CASE FindNetwork
  BY <1>18 DEF FindNetwork, GoOn, ending, native, failures, switch, tun,
     histories
<1>19. CASE NetworkStopped
  BY <1>19 DEF NetworkStopped, GoOn, ending, native, failures, switch, tun,
     histories
<1>20. CASE Resolve
  BY <1>20 DEF Resolve, GoOn, ending, native, failures, switch, tun,
     histories
<1>21. CASE Ask
  BY <1>21 DEF Ask, ending, native, failures, switch, tun, histories
<1>22. CASE Pause
  BY <1>22 DEF Pause, ending, failures, switch, tun, histories
<1>23. CASE Answered
  BY <1>23 DEF Answered, GoOn, ending, native, failures, switch, tun,
     histories
<1>24. CASE AwaitTimesOut
  BY <1>24 DEF AwaitTimesOut, ending, native, failures, tun, histories
<1>25. CASE Wake
  BY <1>25 DEF Wake, GoOn, ending, native, failures, switch, tun, histories
<1>26. CASE Interrupted
  BY <1>26 DEF Interrupted, GoOn, ending, native, failures, switch, tun,
     histories
<1>27. CASE Fails
  BY <1>27 DEF Fails, GoOn, ending, native, failures, switch, tun, histories
<1>28. CASE Record
  BY <1>28 DEF Record, ending, native, switch, tun, histories
<1>29. CASE ReportCancel
  BY <1>29 DEF ReportCancel, ending, failures, switch, tun, histories
<1>30. CASE StopBegins
  BY <1>30 DEF StopBegins, ending, native, failures, switch, tun
<1>31. CASE StopWithdraws
  BY <1>31 DEF StopWithdraws, ending, native, failures, tun, histories
<1>32. CASE StopCancels
  BY <1>32 DEF StopCancels, ending, failures, switch, tun, histories
<1>33. CASE StopInterrupts
  BY <1>33 DEF StopInterrupts, ending, native, failures, switch, tun
<1>34. CASE StopJoins
  BY <1>34 DEF StopJoins, ending, native, failures, switch, tun, histories
<1>35. CASE StopClears
  BY <1>35 DEF StopClears, ending, native, failures, switch, tun, histories
<1>36. CASE UNCHANGED vars
  BY <1>36 DEF vars, ending, native, failures, switch, tun, histories
<1>37. QED
  BY <1>1, <1>2, <1>3, <1>4, <1>5, <1>6, <1>7, <1>8, <1>9, <1>10, <1>11,
     <1>12, <1>13, <1>14, <1>15, <1>16, <1>17, <1>18, <1>19, <1>20, <1>21,
     <1>22, <1>23, <1>24, <1>25, <1>26, <1>27, <1>28, <1>29, <1>30, <1>31,
     <1>32, <1>33, <1>34, <1>35, <1>36 DEF Next, Works, Refreshes, Stops

LEMMA StopKept == IInv /\ [Next]_vars => StopInv'
<1> SUFFICES ASSUME IInv, [Next]_vars PROVE StopInv'
    OBVIOUS
<1> USE DEF IInv, TypeOK, Values, Control, InterfaceInv, SwitchInv, StopInv
<1>1. CASE Load
  BY <1>1 DEF Load, Leave, native, failures, switch, tun, histories
<1>2. CASE Login
  BY <1>2 DEF Login, Leave, native, failures, switch, tun, histories
<1>3. CASE SetupStatic
  BY <1>3 DEF SetupStatic, ending, native, failures, switch, histories
<1>4. CASE SetupHosts
  BY <1>4 DEF SetupHosts, ending, native, failures, switch, histories
<1>5. CASE AssignThread
  BY <1>5 DEF AssignThread, ending, native, failures, switch, tun, histories
<1>6. CASE SetupFails
  BY <1>6 DEF SetupFails, ending, switch, tun, histories
<1>7. CASE Pauses
  BY <1>7 DEF Pauses, Return, failures, switch, tun, histories
<1>8. CASE Canceled
  BY <1>8 DEF Canceled, Return, failures, switch, tun, histories
<1>9. CASE TakeSwitch
  BY <1>9 DEF TakeSwitch, FailSwitch, Leave, tun, histories
<1>10. CASE BeginInstall
  BY <1>10 DEF BeginInstall, FailSwitch, Leave, tun, histories
<1>11. CASE Install
  BY <1>11 DEF Install, FailSwitch, Leave, tun, histories
<1>12. CASE Check
  BY <1>12 DEF Check, Leave, native, failures, switch, tun, histories
<1>13. CASE Recheck
  BY <1>13 DEF Recheck, Leave, native, failures, switch, tun, histories
<1>14. CASE Close
  BY <1>14 DEF Close, ending, native, failures, switch, tun, histories
<1>15. CASE Destroy
  BY <1>15 DEF Destroy, ending, native, failures, switch, histories
<1>16. CASE Lost
  BY <1>16 DEF Lost, Return, failures, switch, tun, histories
<1>17. CASE Turn
  BY <1>17 DEF Turn, GoOn, ending, native, failures, switch, tun, histories
<1>18. CASE FindNetwork
  BY <1>18 DEF FindNetwork, GoOn, ending, native, failures, switch, tun,
     histories
<1>19. CASE NetworkStopped
  BY <1>19 DEF NetworkStopped, GoOn, ending, native, failures, switch, tun,
     histories
<1>20. CASE Resolve
  BY <1>20 DEF Resolve, GoOn, ending, native, failures, switch, tun,
     histories
<1>21. CASE Ask
  BY <1>21 DEF Ask, ending, native, failures, switch, tun, histories
<1>22. CASE Pause
  BY <1>22 DEF Pause, ending, failures, switch, tun, histories
<1>23. CASE Answered
  BY <1>23 DEF Answered, GoOn, ending, native, failures, switch, tun,
     histories
<1>24. CASE AwaitTimesOut
  BY <1>24 DEF AwaitTimesOut, ending, native, failures, tun, histories
<1>25. CASE Wake
  BY <1>25 DEF Wake, GoOn, ending, native, failures, switch, tun, histories
<1>26. CASE Interrupted
  BY <1>26 DEF Interrupted, GoOn, ending, native, failures, switch, tun,
     histories
<1>27. CASE Fails
  BY <1>27 DEF Fails, GoOn, ending, native, failures, switch, tun, histories
<1>28. CASE Record
  BY <1>28 DEF Record, ending, native, switch, tun, histories
<1>29. CASE ReportCancel
  BY <1>29 DEF ReportCancel, ending, failures, switch, tun, histories
<1>30. CASE StopBegins
  BY <1>30 DEF StopBegins, ending, native, failures, switch, tun
<1>31. CASE StopWithdraws
  BY <1>31 DEF StopWithdraws, ending, native, failures, tun, histories
<1>32. CASE StopCancels
  BY <1>32 DEF StopCancels, ending, failures, switch, tun, histories
<1>33. CASE StopInterrupts
  BY <1>33 DEF StopInterrupts, ending, native, failures, switch, tun
<1>34. CASE StopJoins
  BY <1>34 DEF StopJoins, ending, native, failures, switch, tun, histories
<1>35. CASE StopClears
  BY <1>35 DEF StopClears, ending, native, failures, switch, tun, histories
<1>36. CASE UNCHANGED vars
  BY <1>36 DEF vars, ending, native, failures, switch, tun, histories
<1>37. QED
  BY <1>1, <1>2, <1>3, <1>4, <1>5, <1>6, <1>7, <1>8, <1>9, <1>10, <1>11,
     <1>12, <1>13, <1>14, <1>15, <1>16, <1>17, <1>18, <1>19, <1>20, <1>21,
     <1>22, <1>23, <1>24, <1>25, <1>26, <1>27, <1>28, <1>29, <1>30, <1>31,
     <1>32, <1>33, <1>34, <1>35, <1>36 DEF Next, Works, Refreshes, Stops

LEMMA InvKept == IInv /\ [Next]_vars => IInv'
  BY ValuesKept, FlagsKept, ControlKept, CauseKept, InterfaceKept,
     OutcomeKept, SwitchKept, StopKept DEF IInv, TypeOK

(* What VpnContract allows, of two records with their fields as they are.   *)

LEMMA RisenAllows ==
  ASSUME NEW c \in Calls, NEW d \in Calls, c.phase = "live", d.phase = "live",
         d.up, c.said => d.said, d.heard = c.heard, d.outcome = c.outcome,
         d # c
  PROVE  d \in Own(c)
<1>1. d.said = TRUE \/ d.said = c.said
  BY DEF Calls
<1>2. d = [c EXCEPT !.up = TRUE, !.said = d.said]
  BY DEF Calls
<1>3. QED
  BY <1>1, <1>2 DEF Own, Risen

LEMMA EndedAllows ==
  ASSUME NEW c \in Calls, NEW d \in Calls, c.phase # "over", d.phase = "over",
         ~d.up, d.said = c.said, d.heard = c.heard, d.outcome \in Outcomes,
         d.outcome = "quiet" => c.heard \/ c.up,
         d.outcome = "lost" => c.phase = "live",
         d.outcome = "dns" => c.up, d.outcome = "failed" => ~c.said
  PROVE  d \in Own(c)
<1>1. d = [c EXCEPT !.phase = "over", !.up = FALSE, !.outcome = d.outcome]
  BY DEF Calls
<1>2. d \in Ended(c)
  BY <1>1 DEF Ended
<1>3. c.phase \in {"load", "live"}
  BY DEF Calls
<1>4. QED
  BY <1>2, <1>3 DEF Own

LEMMA BeginAllowed ==
  ASSUME NEW c \in Calls, NEW d \in Calls, c.phase = "load", d.phase = "live",
         d.up = c.up, d.said = c.said, d.heard = c.heard,
         d.outcome = c.outcome
  PROVE  d \in Own(c)
<1>1. d = [c EXCEPT !.phase = "live"]
  BY DEF Calls
<1>2. QED
  BY <1>1 DEF Own, Begun

LEMMA HearingAllowed ==
  ASSUME NEW c \in Calls, NEW d \in Calls, c.phase = "live", d.phase = "live",
         d.up = c.up, d.said = c.said, d.heard, d.outcome = c.outcome
  PROVE  d \in Hears(c)
<1>1. d = [c EXCEPT !.heard = TRUE]
  BY DEF Calls
<1>2. QED
  BY <1>1 DEF Hears

LEMMA ContractTyped ==
  /\ IInv => contract \in Calls
  /\ IInv' => contract' \in Calls
<1>1. ASSUME IInv PROVE contract \in Calls
  <2>1. (table # "none") \in BOOLEAN /\ said \in BOOLEAN /\ heard \in BOOLEAN
    BY <1>1 DEF IInv, TypeOK, Flags
  <2>2. contract.outcome \in {"none"} \cup Outcomes
    BY <1>1 DEF IInv, TypeOK, Values, contract
  <2>3. QED
    BY <2>1, <2>2 DEF contract, Calls
<1>2. ASSUME IInv' PROVE contract' \in Calls
  <2>1. /\ (table' # "none") \in BOOLEAN
        /\ said' \in BOOLEAN /\ heard' \in BOOLEAN
    BY <1>2 DEF IInv, TypeOK, Flags
  <2>2. contract'.outcome \in {"none"} \cup Outcomes
    BY <1>2 DEF IInv, TypeOK, Values, contract
  <2>3. QED
    BY <2>1, <2>2 DEF contract, Calls
<1>3. QED
  BY <1>1, <1>2

LEMMA ContractStep ==
  IInv /\ [Next]_vars
    => [contract' \in Own(contract) \cup Hears(contract)]_contract
<1> SUFFICES ASSUME IInv, [Next]_vars
             PROVE contract' \in Own(contract) \cup Hears(contract)
                     \/ contract' = contract
    OBVIOUS
<1> DEFINE Same == /\ UNCHANGED <<table, said, heard>>
                   /\ \/ UNCHANGED <<worker, outcome>>
                      \/ {worker, worker'} \cap {"load", "gone"} = {}
<1>0. Same => contract' = contract
  BY DEF contract
<1>c. contract \in Calls /\ contract' \in Calls
  BY InvKept, ContractTyped
<1>1. CASE Load
  <2>1. contract.phase = "load" /\ ~contract.said
    BY <1>1 DEF Load, contract, IInv, InterfaceInv
  <2>2. /\ contract'.up = contract.up /\ contract'.said = contract.said
        /\ contract'.heard = contract.heard
    BY <1>1 DEF Load, contract, tun, histories
  <2>3. CASE worker' = "login"
    <3>1. contract'.phase = "live" /\ contract'.outcome = contract.outcome
      BY <1>1, <2>3 DEF Load, contract
    <3>2. QED
      BY <1>c, <2>1, <2>2, <3>1, BeginAllowed
  <2>4. CASE worker' = "gone" /\ outcome' = "failed"
    <3>1. contract'.phase = "over" /\ contract'.outcome = "failed"
      BY <2>4 DEF contract
    <3>2. ~contract'.up
      BY <1>1, <2>2 DEF Load, contract, IInv, InterfaceInv
    <3>3. QED
      BY <1>c, <2>1, <2>2, <3>1, <3>2, EndedAllows DEF Outcomes
  <2>5. QED
    BY <1>1, <2>3, <2>4 DEF Load
<1>2. CASE SetupStatic
  <2>1. /\ contract.phase = "live" /\ contract'.phase = "live"
        /\ contract'.up /\ contract'.said
        /\ contract'.heard = contract.heard
        /\ contract'.outcome = contract.outcome
    BY <1>2 DEF SetupStatic, contract, histories
  <2>2. QED
    BY <1>c, <2>1, RisenAllows
<1>3. CASE SetupHosts
  <2>1. /\ contract.phase = "live" /\ contract'.phase = "live"
        /\ contract'.up /\ contract'.said = contract.said
        /\ contract'.heard = contract.heard
        /\ contract'.outcome = contract.outcome
    BY <1>3 DEF SetupHosts, contract, histories
  <2>2. QED
    BY <1>c, <2>1, RisenAllows
<1>4. CASE Install
  <2>1. /\ contract.phase = "live" /\ contract'.phase = "live"
        /\ contract'.heard = contract.heard
        /\ contract'.outcome = contract.outcome
    BY <1>4 DEF Install, FailSwitch, Leave, contract, histories
  <2>2. CASE table' = "final" /\ said' = TRUE
    <3>1. contract'.up /\ contract'.said
      BY <2>2 DEF contract
    <3>2. QED
      BY <1>c, <2>1, <3>1, RisenAllows
  <2>3. CASE UNCHANGED tun
    <3>1. Same
      BY <1>4, <2>3 DEF Install, FailSwitch, Leave, tun, histories
    <3>2. QED
      BY <3>1, <1>0
  <2>4. QED
    BY <1>4, <2>2, <2>3 DEF Install
<1>5. CASE Destroy
  <2>1. /\ contract.phase = "live" /\ contract'.phase = "over"
        /\ ~contract'.up /\ contract'.said = contract.said
        /\ contract'.heard = contract.heard /\ contract'.outcome = outcome
    BY <1>5 DEF Destroy, contract, ending, histories
  <2>2. outcome \in Outcomes
    BY <1>5 DEF Destroy, IInv, TypeOK, Values, Control
  <2>3. /\ outcome = "quiet" => contract.heard \/ contract.up
        /\ outcome = "dns" => contract.up
        /\ outcome = "failed" => ~contract.said
    BY <1>5 DEF Destroy, contract, IInv, OutcomeInv
  <2>4. QED
    BY <1>c, <2>1, <2>2, <2>3, EndedAllows
<1>6. CASE StopBegins
  <2>1. CASE worker \in {"load", "joining", "gone"}
    <3>1. Same
      BY <1>6, <2>1 DEF StopBegins, ending, tun
    <3>2. QED
      BY <3>1, <1>0
  <2>2. CASE worker \notin {"load", "joining", "gone"}
    <3>1. /\ contract.phase = "live" /\ contract'.phase = "live"
          /\ contract'.up = contract.up /\ contract'.said = contract.said
          /\ contract'.heard /\ contract'.outcome = contract.outcome
      BY <1>6, <2>2 DEF StopBegins, contract, ending, tun
    <3>2. QED
      BY <1>c, <3>1, HearingAllowed
  <2>3. QED
    BY <2>1, <2>2
<1>7. CASE Login
  <2>1. Same
    BY <1>7 DEF Login, Leave, native, failures, switch, tun, histories
  <2>2. QED
    BY <2>1, <1>0
<1>8. CASE AssignThread
  <2>1. Same
    BY <1>8 DEF AssignThread, ending, native, failures, switch, tun,
       histories
  <2>2. QED
    BY <2>1, <1>0
<1>9. CASE SetupFails
  <2>1. Same
    BY <1>9 DEF SetupFails, ending, switch, tun, histories
  <2>2. QED
    BY <2>1, <1>0
<1>10. CASE Pauses
  <2>1. Same
    BY <1>10 DEF Pauses, Return, failures, switch, tun, histories
  <2>2. QED
    BY <2>1, <1>0
<1>11. CASE Canceled
  <2>1. Same
    BY <1>11 DEF Canceled, Return, failures, switch, tun, histories
  <2>2. QED
    BY <2>1, <1>0
<1>12. CASE TakeSwitch
  <2>1. Same
    BY <1>12 DEF TakeSwitch, FailSwitch, Leave, tun, histories
  <2>2. QED
    BY <2>1, <1>0
<1>13. CASE BeginInstall
  <2>1. Same
    BY <1>13 DEF BeginInstall, FailSwitch, Leave, tun, histories
  <2>2. QED
    BY <2>1, <1>0
<1>14. CASE Check
  <2>1. Same
    BY <1>14 DEF Check, Leave, native, failures, switch, tun, histories
  <2>2. QED
    BY <2>1, <1>0
<1>15. CASE Recheck
  <2>1. Same
    BY <1>15 DEF Recheck, Leave, native, failures, switch, tun, histories
  <2>2. QED
    BY <2>1, <1>0
<1>16. CASE Close
  <2>1. Same
    BY <1>16 DEF Close, ending, native, failures, switch, tun, histories
  <2>2. QED
    BY <2>1, <1>0
<1>17. CASE Lost
  <2>1. Same
    BY <1>17 DEF Lost, Return, failures, switch, tun, histories
  <2>2. QED
    BY <2>1, <1>0
<1>18. CASE Turn
  <2>1. Same
    BY <1>18 DEF Turn, GoOn, ending, native, failures, switch, tun,
       histories
  <2>2. QED
    BY <2>1, <1>0
<1>19. CASE FindNetwork
  <2>1. Same
    BY <1>19 DEF FindNetwork, GoOn, ending, native, failures, switch, tun,
       histories
  <2>2. QED
    BY <2>1, <1>0
<1>20. CASE NetworkStopped
  <2>1. Same
    BY <1>20 DEF NetworkStopped, GoOn, ending, native, failures, switch,
       tun, histories
  <2>2. QED
    BY <2>1, <1>0
<1>21. CASE Resolve
  <2>1. Same
    BY <1>21 DEF Resolve, GoOn, ending, native, failures, switch, tun,
       histories
  <2>2. QED
    BY <2>1, <1>0
<1>22. CASE Ask
  <2>1. Same
    BY <1>22 DEF Ask, ending, native, failures, switch, tun, histories
  <2>2. QED
    BY <2>1, <1>0
<1>23. CASE Pause
  <2>1. Same
    BY <1>23 DEF Pause, ending, failures, switch, tun, histories
  <2>2. QED
    BY <2>1, <1>0
<1>24. CASE Answered
  <2>1. Same
    BY <1>24 DEF Answered, GoOn, ending, native, failures, switch, tun,
       histories
  <2>2. QED
    BY <2>1, <1>0
<1>25. CASE AwaitTimesOut
  <2>1. Same
    BY <1>25 DEF AwaitTimesOut, ending, native, failures, tun, histories
  <2>2. QED
    BY <2>1, <1>0
<1>26. CASE Wake
  <2>1. Same
    BY <1>26 DEF Wake, GoOn, ending, native, failures, switch, tun,
       histories
  <2>2. QED
    BY <2>1, <1>0
<1>27. CASE Interrupted
  <2>1. Same
    BY <1>27 DEF Interrupted, GoOn, ending, native, failures, switch, tun,
       histories
  <2>2. QED
    BY <2>1, <1>0
<1>28. CASE Fails
  <2>1. Same
    BY <1>28 DEF Fails, GoOn, ending, native, failures, switch, tun,
       histories
  <2>2. QED
    BY <2>1, <1>0
<1>29. CASE Record
  <2>1. Same
    BY <1>29 DEF Record, ending, native, switch, tun, histories
  <2>2. QED
    BY <2>1, <1>0
<1>30. CASE ReportCancel
  <2>1. Same
    BY <1>30 DEF ReportCancel, ending, failures, switch, tun, histories
  <2>2. QED
    BY <2>1, <1>0
<1>31. CASE StopWithdraws
  <2>1. Same
    BY <1>31 DEF StopWithdraws, ending, native, failures, tun, histories
  <2>2. QED
    BY <2>1, <1>0
<1>32. CASE StopCancels
  <2>1. Same
    BY <1>32 DEF StopCancels, ending, failures, switch, tun, histories
  <2>2. QED
    BY <2>1, <1>0
<1>33. CASE StopInterrupts
  <2>1. Same
    BY <1>33 DEF StopInterrupts, ending, native, failures, switch, tun
  <2>2. QED
    BY <2>1, <1>0
<1>34. CASE StopJoins
  <2>1. Same
    BY <1>34 DEF StopJoins, ending, native, failures, switch, tun,
       histories
  <2>2. QED
    BY <2>1, <1>0
<1>35. CASE StopClears
  <2>1. Same
    BY <1>35 DEF StopClears, ending, native, failures, switch, tun,
       histories
  <2>2. QED
    BY <2>1, <1>0
<1>36. CASE UNCHANGED vars
  <2>1. Same
    BY <1>36 DEF vars, ending, native, failures, switch, tun, histories
  <2>2. QED
    BY <2>1, <1>0
<1>37. QED
  BY <1>1, <1>2, <1>3, <1>4, <1>5, <1>6, <1>7, <1>8, <1>9, <1>10, <1>11,
     <1>12, <1>13, <1>14, <1>15, <1>16, <1>17, <1>18, <1>19, <1>20, <1>21,
     <1>22, <1>23, <1>24, <1>25, <1>26, <1>27, <1>28, <1>29, <1>30, <1>31,
     <1>32, <1>33, <1>34, <1>35, <1>36 DEF Next, Works, Refreshes, Stops

LEMMA Inductive == Spec => []IInv
  BY InitInv, InvKept, PTL DEF Spec

\* Every variable keeps its type, and requests, answers and the end of connect
\* fit where the threads are.
THEOREM TypeCorrect == Spec => []TypeOK
<1>1. IInv => TypeOK
  BY DEF IInv
<1>2. QED
  BY <1>1, Inductive, PTL

\* connect returns without an exception only if it was cancelled or a refresh
\* failed.
THEOREM SilenceHasCause == Spec => []SilentOnlyIfCaused
<1>1. IInv => SilentOnlyIfCaused
  BY DEF IInv, CauseInv, SilentOnlyIfCaused
<1>2. QED
  BY <1>1, Inductive, PTL

\* A refresher that sleeps has left the routes it asked for in the interface.
THEOREM RoutesInForce == Spec => []RoutesAsAnswered
<1>1. IInv => RoutesAsAnswered
  BY DEF IInv, TypeOK, Control, SwitchInv, RoutesAsAnswered
<1>2. QED
  BY <1>1, Inductive, PTL

\* Nothing works on a native connection that has been destroyed, but for the
\* stops that could not see the refresher.
THEOREM NoUseAfterDestroy == Spec => []DestroyedIsLeftAlone
<1>1. IInv => DestroyedIsLeftAlone
  BY DEF IInv, StopInv, DestroyedIsLeftAlone
<1>2. QED
  BY <1>1, Inductive, PTL

\* connect does only what VpnContract lets a call do: AnyConnectVpnService may
\* be understood from the contract alone.
THEOREM Implements == Spec => KeepsContract
<1>1. Init => contract = Fresh
  BY DEF Init, contract, Fresh
<1>2. QED
  BY <1>1, ContractStep, Inductive, PTL DEF Spec, KeepsContract
=============================================================================
