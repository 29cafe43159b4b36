------------------------ MODULE SessionControlProofs ------------------------
(***************************************************************************)
(* Theorems about SessionControl for every set of users, every capacity of *)
(* the monitor's channel, every configuration and every interleaving.      *)
(*                                                                         *)
(* SessionInv is inductive.  Its parts are proved one after the other: the *)
(* types; where each goroutine can be (ControlFlow); from these that every *)
(* path holds and releases its mutexes (LocksHeld); from the mutual        *)
(* exclusion this gives, that manualConnectionBusy is true exactly during  *)
(* a manual connection; and that a Cleaning state always has its event.    *)
(***************************************************************************)
EXTENDS SessionControl, TLAPS

(* The three goroutines of the program are not users; "none" is nobody. *)
LEMMA ActorsDistinct ==
  /\ "mon" \notin Users /\ "hnd" \notin Users /\ "rec" \notin Users
  /\ Boot \in Users /\ Boot # "mon" /\ Boot # "hnd"
  /\ "none" \notin Actors
BY SessionAssumption DEF SessionAssumption, Actors

-----------------------------------------------------------------------------
(* Types. *)

(* The initial states are well typed. *)
LEMMA TypeInit == Init => TypeOK
<1> SUFFICES ASSUME Init PROVE TypeOK
  OBVIOUS
<1>1. queue \in Seq(States) /\ Len(queue) <= Buf
  BY SessionAssumption DEF Init, SessionAssumption
<1>2. routes \in {"none", "partial", "full"}
  BY DEF Init
<1>3. pc \in [Actors -> Labels]
  BY DEF Init, FirstLabel, Labels
<1>4. /\ mstate \in States /\ outbox \in [Actors -> States \cup {"none"}]
      /\ lock \in [Mutexes -> Actors \cup {"none"}]
  BY DEF Init, States
<1>5. /\ attempt \in 0..Attempts /\ ops \in 0..MaxOps /\ drops \in 0..MaxDrops
  BY SessionAssumption DEF Init, SessionAssumption
<1>6. /\ backend \in {"none", "tun", "cisco"}
      /\ tun \in {"down", "up", "broken"} /\ cisco \in BOOLEAN
  BY DEF Init, FirstConnection
<1> QED
  BY <1>1, <1>2, <1>3, <1>4, <1>5, <1>6 DEF Init, TypeOK

(* The Boolean variables: a part of TypeOK that is Zenon's, not SMT's. *)
FlagsOK ==
  /\ cisco \in BOOLEAN
  /\ ctxLive \in BOOLEAN
  /\ stale \in [Actors -> BOOLEAN]
  /\ manualBusy \in BOOLEAN
  /\ suppress \in BOOLEAN

(* The context of the route work stays well typed when it is cancelled. *)
LEMMA CancelFlags ==
  cancelActiveRouteOps => ctxLive' \in BOOLEAN /\ stale' \in [Actors -> BOOLEAN]
BY Zenon DEF cancelActiveRouteOps

(* One entry of the table of captured contexts can be set either way. *)
LEMMA StaleUpdate ==
  ASSUME NEW f \in [Actors -> BOOLEAN], NEW p \in Actors, NEW b \in BOOLEAN
  PROVE  [f EXCEPT ![p] = b] \in [Actors -> BOOLEAN]
OBVIOUS

(* The flags stay well typed when an application of the routes returns. *)
LEMMA ReturnFlags ==
  ASSUME NEW p \in Actors, NEW ms, FlagsOK, Return(p, ms), cisco' = cisco
  PROVE  FlagsOK'
<1>1. stale' \in [Actors -> BOOLEAN]
  BY StaleUpdate, Zenon DEF Return, FlagsOK
<1>2. /\ ctxLive' = ctxLive /\ manualBusy' = manualBusy /\ suppress' = suppress
  BY DEF Return
<1> QED
  BY <1>1, <1>2, Zenon DEF FlagsOK

(* Every step keeps the types: one step of the proof per action. *)
LEMMA TypeStep ==
  TypeOK /\ [Next]_vars => TypeOK'
<1> SUFFICES ASSUME TypeOK, [Next]_vars PROVE TypeOK'
  OBVIOUS
<1> USE SessionAssumption, ActorsDistinct
    DEF SessionAssumption, Actors, TypeOK, At, Goto, Free, Take, Mutexes,
        vars, monitorVars, linkVars, ctxVars, userVars, bounds, States,
        Labels
<1>1. CASE Poll
  BY <1>1 DEF Poll, Presence
<1>2. CASE ReadState
  BY <1>2 DEF ReadState
<1>3. CASE PollSet
  BY <1>3 DEF PollSet, SetState
<1>4. ASSUME NEW p \in Actors, Send(p) PROVE TypeOK'
  BY <1>4 DEF Send
<1>5. CASE Receive
  BY <1>5 DEF Receive
<1>6. CASE Recover
  BY <1>6 DEF Recover
<1>7. CASE Drop
  <2>1. FlagsOK'
    BY <1>7, Zenon DEF Drop, FlagsOK
  <2> QED
    BY <1>7, <2>1 DEF FlagsOK, Drop
<1>8. ASSUME NEW p \in Users, LockDisconnect(p) PROVE TypeOK'
  BY <1>8 DEF LockDisconnect
<1>9. ASSUME NEW p \in Actors, CancelRoutes(p) PROVE TypeOK'
  <2>1. FlagsOK'
    BY <1>9, CancelFlags, Zenon DEF CancelRoutes, FlagsOK
  <2> QED
    BY <1>9, <2>1 DEF FlagsOK, CancelRoutes, cancelActiveRouteOps
<1>10. ASSUME NEW p \in Actors, UsingTun(p) PROVE TypeOK'
  BY <1>10 DEF UsingTun
<1>11. ASSUME NEW p \in Actors, StopTun(p) PROVE TypeOK'
  BY <1>11 DEF StopTun
<1>12. ASSUME NEW p \in Actors, RemoveAllRoutes(p) PROVE TypeOK'
  BY <1>12 DEF RemoveAllRoutes
<1>13. ASSUME NEW p \in Users, UsingCli(p) PROVE TypeOK'
  BY <1>13 DEF UsingCli
<1>14. ASSUME NEW p \in Users, CliDown(p) PROVE TypeOK'
  <2>1. FlagsOK'
    BY <1>14, Zenon DEF CliDown, FlagsOK
  <2> QED
    BY <1>14, <2>1 DEF FlagsOK, CliDown
<1>15. ASSUME NEW p \in Actors, ClearBackend(p) PROVE TypeOK'
  BY <1>15 DEF ClearBackend
<1>16. ASSUME NEW p \in Actors, SetIdle(p) PROVE TypeOK'
  BY <1>16 DEF SetIdle, SetState
<1>17. ASSUME NEW p \in Actors, ResetAfter(p) PROVE TypeOK'
  <2>1. FlagsOK'
    BY <1>17, Zenon DEF ResetAfter, resetRouteOps, FlagsOK
  <2>2. pc' \in [Actors -> Labels] /\ lock' \in [Mutexes -> Actors \cup {"none"}]
    BY <1>17 DEF ResetAfter, Leave
  <2>3. op' \in [Actors -> {"apply", "abort", "disconnect", "switch", "restore",
                            "refresh"}]
    BY <1>17 DEF ResetAfter, Leave
  <2> QED
    BY <1>17, <2>1, <2>2, <2>3 DEF FlagsOK, ResetAfter
<1>18. ASSUME NEW p \in Actors, BeginConnect(p) PROVE TypeOK'
  BY <1>18 DEF BeginConnect, resetRouteOps, FirstBackend
<1>19. ASSUME NEW p \in Actors, TunBegin(p) PROVE TypeOK'
  BY <1>19 DEF TunBegin
<1>20. ASSUME NEW p \in Actors, TunEnd(p) PROVE TypeOK'
  BY <1>20 DEF TunEnd
<1>21. ASSUME NEW p \in Actors, TunStop(p) PROVE TypeOK'
  BY <1>21 DEF TunStop
<1>22. ASSUME NEW p \in Actors, Prepare(p) PROVE TypeOK'
  <2>1. FlagsOK'
    BY <1>22, Zenon DEF Prepare, FlagsOK
  <2> QED
    BY <1>22, <2>1 DEF FlagsOK, Prepare
<1>23. ASSUME NEW p \in Actors, Dial(p) PROVE TypeOK'
  <2>1. FlagsOK'
    BY <1>23, Zenon DEF Dial, FlagsOK
  <2> QED
    BY <1>23, <2>1 DEF FlagsOK, Dial
<1>24. ASSUME NEW p \in Actors, SetBackend(p) PROVE TypeOK'
  BY <1>24 DEF SetBackend
<1>25. ASSUME NEW p \in Actors, SetConnected(p) PROVE TypeOK'
  <2>1. FlagsOK'
    BY <1>25, Zenon DEF SetConnected, FlagsOK
  <2> QED
    BY <1>25, <2>1 DEF FlagsOK, SetConnected, SetState
<1>26. ASSUME NEW p \in Actors, ConnectFailed(p) PROVE TypeOK'
  <2>1. FlagsOK'
    BY <1>26, CancelFlags, Zenon DEF ConnectFailed, FlagsOK
  <2> QED
    BY <1>26, <2>1 DEF FlagsOK, ConnectFailed, cancelActiveRouteOps
<1>27. ASSUME NEW p \in Actors, LockApply(p) PROVE TypeOK'
  <2>1. CASE Return(p, {})
    <3>1. FlagsOK'
      BY <1>27, <2>1, ReturnFlags, Zenon DEF LockApply, FlagsOK
    <3> QED
      BY <1>27, <2>1, <3>1 DEF FlagsOK, LockApply, Return, Leave
  <2>2. CASE ctxLive
    <3>1. /\ stale' = [stale EXCEPT ![p] = FALSE]
          /\ UNCHANGED <<ctxLive, cisco, manualBusy, suppress>>
      BY <1>27, <2>2 DEF LockApply
    <3>2. stale' \in [Actors -> BOOLEAN]
      BY <3>1, StaleUpdate, Zenon
    <3>3. FlagsOK'
      BY <3>1, <3>2, Zenon DEF FlagsOK
    <3>4. pc' \in [Actors -> Labels] /\ lock' \in [Mutexes -> Actors \cup {"none"}]
      BY <1>27, <2>2 DEF LockApply
    <3> QED
      BY <1>27, <2>2, <3>3, <3>4 DEF FlagsOK, LockApply
  <2> QED
    BY <1>27, <2>1, <2>2 DEF LockApply
<1>28. ASSUME NEW p \in Actors, ByBackend(p) PROVE TypeOK'
  BY <1>28 DEF ByBackend
<1>29. ASSUME NEW p \in Actors, RefreshTun(p) PROVE TypeOK'
  <2>1. FlagsOK'
    BY <1>29, ReturnFlags, Zenon DEF RefreshTun, FlagsOK
  <2> QED
    BY <1>29, <2>1 DEF FlagsOK, RefreshTun, Return, Leave
<1>30. ASSUME NEW p \in Actors, PlanStatic(p) PROVE TypeOK'
  <2>1. FlagsOK'
    BY ZenonT(30), <1>30, ReturnFlags DEF PlanStatic, FlagsOK
  <2> QED
    BY <1>30, <2>1 DEF FlagsOK, PlanStatic, Return, Leave
<1>31. ASSUME NEW p \in Actors, Purge(p) PROVE TypeOK'
  BY <1>31 DEF Purge
<1>32. ASSUME NEW p \in Actors, Purged(p) PROVE TypeOK'
  <2>1. FlagsOK'
    BY <1>32, ReturnFlags, Zenon DEF Purged, FlagsOK
  <2> QED
    BY <1>32, <2>1 DEF FlagsOK, Purged, Return, Leave
<1>33. ASSUME NEW p \in Actors, Add(p) PROVE TypeOK'
  <2>1. FlagsOK'
    BY <1>33, ReturnFlags, Zenon DEF Add, FlagsOK
  <2> QED
    BY <1>33, <2>1 DEF FlagsOK, Add, Return, Leave
<1>34. ASSUME NEW p \in Actors, Added(p) PROVE TypeOK'
  BY <1>34 DEF Added
<1>35. ASSUME NEW p \in Actors, CheckContext(p) PROVE TypeOK'
  <2>1. FlagsOK'
    BY <1>35, ReturnFlags, Zenon DEF CheckContext, FlagsOK
  <2> QED
    BY <1>35, <2>1 DEF FlagsOK, CheckContext, Return, Leave
<1>36. ASSUME NEW p \in Actors, SetActive(p) PROVE TypeOK'
  BY <1>36 DEF SetActive, SetState
<1>37. ASSUME NEW p \in Actors, UnlockApply(p) PROVE TypeOK'
  BY <1>37 DEF UnlockApply, Return, Leave
<1>38. ASSUME NEW p \in Users, Disconnect(p) PROVE TypeOK'
  BY <1>38 DEF Disconnect, Start
<1>39. ASSUME NEW p \in Users, Switch(p) PROVE TypeOK'
  BY <1>39 DEF Switch, Start
<1>40. ASSUME NEW p \in Users, Restore(p) PROVE TypeOK'
  BY <1>40 DEF Restore, Start
<1>41. ASSUME NEW p \in Users, LockMode(p) PROVE TypeOK'
  BY <1>41 DEF LockMode
<1>42. ASSUME NEW p \in Users, Refresh(p) PROVE TypeOK'
  BY <1>42 DEF Refresh, Start
<1>43. ASSUME NEW p \in Users, Renew(p) PROVE TypeOK'
  BY <1>43 DEF Renew, resetRouteOps
<1>44. ASSUME NEW p \in Users, Finish(p) PROVE TypeOK'
  BY <1>44 DEF Finish, Leave
<1>45. CASE UNCHANGED vars
  BY <1>45
<1> QED
  BY <1>1, <1>2, <1>3, <1>4, <1>5, <1>6, <1>7, <1>8, <1>9, <1>10, <1>11,
      <1>12, <1>13, <1>14, <1>15, <1>16, <1>17, <1>18, <1>19, <1>20, <1>21,
      <1>22, <1>23, <1>24, <1>25, <1>26, <1>27, <1>28, <1>29, <1>30, <1>31,
      <1>32, <1>33, <1>34, <1>35, <1>36, <1>37, <1>38, <1>39, <1>40, <1>41,
      <1>42, <1>43, <1>44, <1>45
  DEF Next, Monitor, Handler, Recovery, Teardown, Connect, Apply, Command

-----------------------------------------------------------------------------
(* Where each goroutine can be. *)

(* At the start every goroutine is where its kind can be. *)
LEMMA FlowInit == Init => ControlFlow
BY ActorsDistinct DEF Init, FirstLabel, ControlFlow, Actors

(* Every step takes a goroutine to a place where its kind, with its
   command, can be. *)
LEMMA FlowStep ==
  TypeOK /\ ControlFlow /\ [Next]_vars => ControlFlow'
<1> SUFFICES ASSUME TypeOK, ControlFlow, [Next]_vars PROVE ControlFlow'
  OBVIOUS
<1> USE SessionAssumption, ActorsDistinct
    DEF SessionAssumption, Actors, TypeOK, At, Goto, Free, Take, Mutexes,
        vars, monitorVars, linkVars, ctxVars, userVars, bounds, ControlFlow,
        DiscLabels, ApplyLabels, DialLabels
<1>1. CASE Poll
  BY <1>1 DEF Poll, Presence
<1>2. CASE ReadState
  BY <1>2 DEF ReadState
<1>3. CASE PollSet
  BY <1>3 DEF PollSet, SetState
<1>4. ASSUME NEW p \in Actors, Send(p) PROVE ControlFlow'
  BY <1>4 DEF Send
<1>5. CASE Receive
  BY <1>5 DEF Receive
<1>6. CASE Recover
  BY <1>6 DEF Recover
<1>7. CASE Drop
  BY <1>7 DEF Drop
<1>8. ASSUME NEW p \in Users, LockDisconnect(p) PROVE ControlFlow'
  BY <1>8 DEF LockDisconnect
<1>9. ASSUME NEW p \in Actors, CancelRoutes(p) PROVE ControlFlow'
  BY <1>9 DEF CancelRoutes, cancelActiveRouteOps
<1>10. ASSUME NEW p \in Actors, UsingTun(p) PROVE ControlFlow'
  BY <1>10 DEF UsingTun
<1>11. ASSUME NEW p \in Actors, StopTun(p) PROVE ControlFlow'
  BY <1>11 DEF StopTun
<1>12. ASSUME NEW p \in Actors, RemoveAllRoutes(p) PROVE ControlFlow'
  BY <1>12 DEF RemoveAllRoutes
<1>13. ASSUME NEW p \in Users, UsingCli(p) PROVE ControlFlow'
  BY <1>13 DEF UsingCli
<1>14. ASSUME NEW p \in Users, CliDown(p) PROVE ControlFlow'
  BY <1>14 DEF CliDown
<1>15. ASSUME NEW p \in Actors, ClearBackend(p) PROVE ControlFlow'
  BY <1>15 DEF ClearBackend
<1>16. ASSUME NEW p \in Actors, SetIdle(p) PROVE ControlFlow'
  BY <1>16 DEF SetIdle, SetState
<1>17. ASSUME NEW p \in Actors, ResetAfter(p) PROVE ControlFlow'
  BY <1>17 DEF ResetAfter, resetRouteOps, Leave
<1>18. ASSUME NEW p \in Actors, BeginConnect(p) PROVE ControlFlow'
  BY <1>18 DEF BeginConnect, resetRouteOps, FirstBackend
<1>19. ASSUME NEW p \in Actors, TunBegin(p) PROVE ControlFlow'
  BY <1>19 DEF TunBegin
<1>20. ASSUME NEW p \in Actors, TunEnd(p) PROVE ControlFlow'
  BY <1>20 DEF TunEnd
<1>21. ASSUME NEW p \in Actors, TunStop(p) PROVE ControlFlow'
  BY <1>21 DEF TunStop
<1>22. ASSUME NEW p \in Actors, Prepare(p) PROVE ControlFlow'
  BY <1>22 DEF Prepare
<1>23. ASSUME NEW p \in Actors, Dial(p) PROVE ControlFlow'
  <2>1. pc[p] = "dial" /\ (pc' = [pc EXCEPT ![p] = "setCisco"]
                            \/ pc' = [pc EXCEPT ![p] = "connFail"])
    BY <1>23 DEF Dial
  <2>2. op' = op
    BY <1>23 DEF Dial
  <2> QED
    BY <2>1, <2>2 DEF Actors
<1>24. ASSUME NEW p \in Actors, SetBackend(p) PROVE ControlFlow'
  BY SMTT(30), <1>24 DEF SetBackend
<1>25. ASSUME NEW p \in Actors, SetConnected(p) PROVE ControlFlow'
  BY <1>25 DEF SetConnected, SetState
<1>26. ASSUME NEW p \in Actors, ConnectFailed(p) PROVE ControlFlow'
  BY <1>26 DEF ConnectFailed, cancelActiveRouteOps
<1>27. ASSUME NEW p \in Actors, LockApply(p) PROVE ControlFlow'
  BY <1>27 DEF LockApply, Return, Leave
<1>28. ASSUME NEW p \in Actors, ByBackend(p) PROVE ControlFlow'
  BY <1>28 DEF ByBackend
<1>29. ASSUME NEW p \in Actors, RefreshTun(p) PROVE ControlFlow'
  BY <1>29 DEF RefreshTun, Return, Leave
<1>30. ASSUME NEW p \in Actors, PlanStatic(p) PROVE ControlFlow'
  BY <1>30 DEF PlanStatic, Return, Leave
<1>31. ASSUME NEW p \in Actors, Purge(p) PROVE ControlFlow'
  BY <1>31 DEF Purge
<1>32. ASSUME NEW p \in Actors, Purged(p) PROVE ControlFlow'
  BY <1>32 DEF Purged, Return, Leave
<1>33. ASSUME NEW p \in Actors, Add(p) PROVE ControlFlow'
  BY <1>33 DEF Add, Return, Leave
<1>34. ASSUME NEW p \in Actors, Added(p) PROVE ControlFlow'
  BY <1>34 DEF Added
<1>35. ASSUME NEW p \in Actors, CheckContext(p) PROVE ControlFlow'
  BY <1>35 DEF CheckContext, Return, Leave
<1>36. ASSUME NEW p \in Actors, SetActive(p) PROVE ControlFlow'
  BY <1>36 DEF SetActive, SetState
<1>37. ASSUME NEW p \in Actors, UnlockApply(p) PROVE ControlFlow'
  BY <1>37 DEF UnlockApply, Return, Leave
<1>38. ASSUME NEW p \in Users, Disconnect(p) PROVE ControlFlow'
  BY <1>38 DEF Disconnect, Start
<1>39. ASSUME NEW p \in Users, Switch(p) PROVE ControlFlow'
  BY <1>39 DEF Switch, Start
<1>40. ASSUME NEW p \in Users, Restore(p) PROVE ControlFlow'
  BY <1>40 DEF Restore, Start
<1>41. ASSUME NEW p \in Users, LockMode(p) PROVE ControlFlow'
  BY <1>41 DEF LockMode
<1>42. ASSUME NEW p \in Users, Refresh(p) PROVE ControlFlow'
  BY <1>42 DEF Refresh, Start
<1>43. ASSUME NEW p \in Users, Renew(p) PROVE ControlFlow'
  BY <1>43 DEF Renew, resetRouteOps
<1>44. ASSUME NEW p \in Users, Finish(p) PROVE ControlFlow'
  BY <1>44 DEF Finish, Leave
<1>45. CASE UNCHANGED vars
  BY <1>45
<1> HIDE DEF TypeOK, ControlFlow, At, Goto, Free, Take, Mutexes,
         DiscLabels, ApplyLabels, DialLabels
<1> QED
  BY <1>1, <1>2, <1>3, <1>4, <1>5, <1>6, <1>7, <1>8, <1>9, <1>10, <1>11,
      <1>12, <1>13, <1>14, <1>15, <1>16, <1>17, <1>18, <1>19, <1>20, <1>21,
      <1>22, <1>23, <1>24, <1>25, <1>26, <1>27, <1>28, <1>29, <1>30, <1>31,
      <1>32, <1>33, <1>34, <1>35, <1>36, <1>37, <1>38, <1>39, <1>40, <1>41,
      <1>42, <1>43, <1>44, <1>45
  DEF Next, Monitor, Handler, Recovery, Teardown, Connect, Apply, Command

-----------------------------------------------------------------------------
(* Mutexes. *)

(* At the start nobody holds a mutex and nobody is in a section. *)
LEMMA LocksInit == Init => LocksHeld
BY ActorsDistinct
   DEF Init, FirstLabel, LocksHeld, DiscLabels, ApplyLabels, Actors, Mutexes

(* Every step that enters or leaves a section takes or gives its mutex. *)
LEMMA LocksStep ==
  TypeOK /\ ControlFlow /\ LocksHeld /\ [Next]_vars => LocksHeld'
<1> SUFFICES ASSUME TypeOK, ControlFlow, LocksHeld, [Next]_vars PROVE
    LocksHeld'
  OBVIOUS
<1> USE SessionAssumption, ActorsDistinct
    DEF SessionAssumption, Actors, TypeOK, At, Goto, Free, Take, Mutexes,
        vars, monitorVars, linkVars, ctxVars, userVars, bounds, ControlFlow,
        LocksHeld, DiscLabels, ApplyLabels, DialLabels
<1>1. CASE Poll
  BY <1>1 DEF Poll, Presence
<1>2. CASE ReadState
  BY <1>2 DEF ReadState
<1>3. CASE PollSet
  BY <1>3 DEF PollSet, SetState
<1>4. ASSUME NEW p \in Actors, Send(p) PROVE LocksHeld'
  BY <1>4 DEF Send
<1>5. CASE Receive
  BY <1>5 DEF Receive
<1>6. CASE Recover
  BY <1>6 DEF Recover
<1>7. CASE Drop
  BY <1>7 DEF Drop
<1>8. ASSUME NEW p \in Users, LockDisconnect(p) PROVE LocksHeld'
  BY <1>8 DEF LockDisconnect
<1>9. ASSUME NEW p \in Actors, CancelRoutes(p) PROVE LocksHeld'
  BY <1>9 DEF CancelRoutes, cancelActiveRouteOps
<1>10. ASSUME NEW p \in Actors, UsingTun(p) PROVE LocksHeld'
  BY <1>10 DEF UsingTun
<1>11. ASSUME NEW p \in Actors, StopTun(p) PROVE LocksHeld'
  BY <1>11 DEF StopTun
<1>12. ASSUME NEW p \in Actors, RemoveAllRoutes(p) PROVE LocksHeld'
  BY <1>12 DEF RemoveAllRoutes
<1>13. ASSUME NEW p \in Users, UsingCli(p) PROVE LocksHeld'
  BY <1>13 DEF UsingCli
<1>14. ASSUME NEW p \in Users, CliDown(p) PROVE LocksHeld'
  BY <1>14 DEF CliDown
<1>15. ASSUME NEW p \in Actors, ClearBackend(p) PROVE LocksHeld'
  BY <1>15 DEF ClearBackend
<1>16. ASSUME NEW p \in Actors, SetIdle(p) PROVE LocksHeld'
  BY <1>16 DEF SetIdle, SetState
<1>17. ASSUME NEW p \in Actors, ResetAfter(p) PROVE LocksHeld'
  BY <1>17 DEF ResetAfter, resetRouteOps, Leave
<1>18. ASSUME NEW p \in Actors, BeginConnect(p) PROVE LocksHeld'
  BY <1>18 DEF BeginConnect, resetRouteOps, FirstBackend
<1>19. ASSUME NEW p \in Actors, TunBegin(p) PROVE LocksHeld'
  BY <1>19 DEF TunBegin
<1>20. ASSUME NEW p \in Actors, TunEnd(p) PROVE LocksHeld'
  BY <1>20 DEF TunEnd
<1>21. ASSUME NEW p \in Actors, TunStop(p) PROVE LocksHeld'
  BY <1>21 DEF TunStop
<1>22. ASSUME NEW p \in Actors, Prepare(p) PROVE LocksHeld'
  BY <1>22 DEF Prepare
<1>23. ASSUME NEW p \in Actors, Dial(p) PROVE LocksHeld'
  BY <1>23 DEF Dial
<1>24. ASSUME NEW p \in Actors, SetBackend(p) PROVE LocksHeld'
  BY <1>24 DEF SetBackend
<1>25. ASSUME NEW p \in Actors, SetConnected(p) PROVE LocksHeld'
  BY <1>25 DEF SetConnected, SetState
<1>26. ASSUME NEW p \in Actors, ConnectFailed(p) PROVE LocksHeld'
  BY <1>26 DEF ConnectFailed, cancelActiveRouteOps
<1>27. ASSUME NEW p \in Actors, LockApply(p) PROVE LocksHeld'
  BY <1>27 DEF LockApply, Return, Leave
<1>28. ASSUME NEW p \in Actors, ByBackend(p) PROVE LocksHeld'
  BY <1>28 DEF ByBackend
<1>29. ASSUME NEW p \in Actors, RefreshTun(p) PROVE LocksHeld'
  BY <1>29 DEF RefreshTun, Return, Leave
<1>30. ASSUME NEW p \in Actors, PlanStatic(p) PROVE LocksHeld'
  BY <1>30 DEF PlanStatic, Return, Leave
<1>31. ASSUME NEW p \in Actors, Purge(p) PROVE LocksHeld'
  BY SMTT(30), <1>31 DEF Purge
<1>32. ASSUME NEW p \in Actors, Purged(p) PROVE LocksHeld'
  BY <1>32 DEF Purged, Return, Leave
<1>33. ASSUME NEW p \in Actors, Add(p) PROVE LocksHeld'
  BY <1>33 DEF Add, Return, Leave
<1>34. ASSUME NEW p \in Actors, Added(p) PROVE LocksHeld'
  BY <1>34 DEF Added
<1>35. ASSUME NEW p \in Actors, CheckContext(p) PROVE LocksHeld'
  <2>1. CASE Return(p, {"apply"})
    BY <1>35, <2>1 DEF CheckContext, Return, Leave, Actors
  <2>2. CASE ~stale[p]
    BY <1>35, <2>2 DEF CheckContext, Actors
  <2> QED
    BY <1>35, <2>1, <2>2 DEF CheckContext
<1>36. ASSUME NEW p \in Actors, SetActive(p) PROVE LocksHeld'
  BY <1>36 DEF SetActive, SetState
<1>37. ASSUME NEW p \in Actors, UnlockApply(p) PROVE LocksHeld'
  BY <1>37 DEF UnlockApply, Return, Leave
<1>38. ASSUME NEW p \in Users, Disconnect(p) PROVE LocksHeld'
  BY <1>38 DEF Disconnect, Start
<1>39. ASSUME NEW p \in Users, Switch(p) PROVE LocksHeld'
  BY <1>39 DEF Switch, Start
<1>40. ASSUME NEW p \in Users, Restore(p) PROVE LocksHeld'
  BY <1>40 DEF Restore, Start
<1>41. ASSUME NEW p \in Users, LockMode(p) PROVE LocksHeld'
  BY <1>41 DEF LockMode
<1>42. ASSUME NEW p \in Users, Refresh(p) PROVE LocksHeld'
  BY <1>42 DEF Refresh, Start
<1>43. ASSUME NEW p \in Users, Renew(p) PROVE LocksHeld'
  BY <1>43 DEF Renew, resetRouteOps
<1>44. ASSUME NEW p \in Users, Finish(p) PROVE LocksHeld'
  BY <1>44 DEF Finish, Leave
<1>45. CASE UNCHANGED vars
  BY <1>45
<1> HIDE DEF TypeOK, ControlFlow, LocksHeld, At, Goto, Free, Take, Mutexes,
         DiscLabels, ApplyLabels, DialLabels
<1> QED
  BY <1>1, <1>2, <1>3, <1>4, <1>5, <1>6, <1>7, <1>8, <1>9, <1>10, <1>11,
      <1>12, <1>13, <1>14, <1>15, <1>16, <1>17, <1>18, <1>19, <1>20, <1>21,
      <1>22, <1>23, <1>24, <1>25, <1>26, <1>27, <1>28, <1>29, <1>30, <1>31,
      <1>32, <1>33, <1>34, <1>35, <1>36, <1>37, <1>38, <1>39, <1>40, <1>41,
      <1>42, <1>43, <1>44, <1>45
  DEF Next, Monitor, Handler, Recovery, Teardown, Connect, Apply, Command

-----------------------------------------------------------------------------
(* manualConnectionBusy. *)

(* At the start no manual connection is under way. *)
LEMMA BusyInit == Init => BusyWhileSwitching
BY DEF Init, BusyWhileSwitching, Actors

(* Only the one goroutine that holds modeSwitchMu can clear the busy flag. *)
LEMMA BusyStep ==
  TypeOK /\ ControlFlow /\ LocksHeld /\ BusyWhileSwitching /\ [Next]_vars => BusyWhileSwitching'
<1> SUFFICES ASSUME TypeOK, ControlFlow, LocksHeld, BusyWhileSwitching,
    [Next]_vars PROVE BusyWhileSwitching'
  OBVIOUS
<1> USE SessionAssumption, ActorsDistinct
    DEF SessionAssumption, Actors, TypeOK, At, Goto, Free, Take, Mutexes,
        vars, monitorVars, linkVars, ctxVars, userVars, bounds, ControlFlow,
        LocksHeld, BusyWhileSwitching, DiscLabels, ApplyLabels, DialLabels
<1>1. CASE Poll
  BY <1>1 DEF Poll, Presence
<1>2. CASE ReadState
  BY <1>2 DEF ReadState
<1>3. CASE PollSet
  BY <1>3 DEF PollSet, SetState
<1>4. ASSUME NEW p \in Actors, Send(p) PROVE BusyWhileSwitching'
  BY <1>4 DEF Send
<1>5. CASE Receive
  BY <1>5 DEF Receive
<1>6. CASE Recover
  BY <1>6 DEF Recover
<1>7. CASE Drop
  BY <1>7 DEF Drop
<1>8. ASSUME NEW p \in Users, LockDisconnect(p) PROVE BusyWhileSwitching'
  BY <1>8 DEF LockDisconnect
<1>9. ASSUME NEW p \in Actors, CancelRoutes(p) PROVE BusyWhileSwitching'
  BY <1>9 DEF CancelRoutes, cancelActiveRouteOps
<1>10. ASSUME NEW p \in Actors, UsingTun(p) PROVE BusyWhileSwitching'
  BY <1>10 DEF UsingTun
<1>11. ASSUME NEW p \in Actors, StopTun(p) PROVE BusyWhileSwitching'
  BY <1>11 DEF StopTun
<1>12. ASSUME NEW p \in Actors, RemoveAllRoutes(p) PROVE BusyWhileSwitching'
  BY <1>12 DEF RemoveAllRoutes
<1>13. ASSUME NEW p \in Users, UsingCli(p) PROVE BusyWhileSwitching'
  BY <1>13 DEF UsingCli
<1>14. ASSUME NEW p \in Users, CliDown(p) PROVE BusyWhileSwitching'
  BY <1>14 DEF CliDown
<1>15. ASSUME NEW p \in Actors, ClearBackend(p) PROVE BusyWhileSwitching'
  BY <1>15 DEF ClearBackend
<1>16. ASSUME NEW p \in Actors, SetIdle(p) PROVE BusyWhileSwitching'
  BY <1>16 DEF SetIdle, SetState
<1>17. ASSUME NEW p \in Actors, ResetAfter(p) PROVE BusyWhileSwitching'
  BY <1>17 DEF ResetAfter, resetRouteOps, Leave
<1>18. ASSUME NEW p \in Actors, BeginConnect(p) PROVE BusyWhileSwitching'
  BY <1>18 DEF BeginConnect, resetRouteOps, FirstBackend
<1>19. ASSUME NEW p \in Actors, TunBegin(p) PROVE BusyWhileSwitching'
  BY <1>19 DEF TunBegin
<1>20. ASSUME NEW p \in Actors, TunEnd(p) PROVE BusyWhileSwitching'
  BY <1>20 DEF TunEnd
<1>21. ASSUME NEW p \in Actors, TunStop(p) PROVE BusyWhileSwitching'
  BY <1>21 DEF TunStop
<1>22. ASSUME NEW p \in Actors, Prepare(p) PROVE BusyWhileSwitching'
  BY <1>22 DEF Prepare
<1>23. ASSUME NEW p \in Actors, Dial(p) PROVE BusyWhileSwitching'
  BY <1>23 DEF Dial
<1>24. ASSUME NEW p \in Actors, SetBackend(p) PROVE BusyWhileSwitching'
  BY <1>24 DEF SetBackend
<1>25. ASSUME NEW p \in Actors, SetConnected(p) PROVE BusyWhileSwitching'
  BY <1>25 DEF SetConnected, SetState
<1>26. ASSUME NEW p \in Actors, ConnectFailed(p) PROVE BusyWhileSwitching'
  BY <1>26 DEF ConnectFailed, cancelActiveRouteOps
<1>27. ASSUME NEW p \in Actors, LockApply(p) PROVE BusyWhileSwitching'
  BY <1>27 DEF LockApply, Return, Leave
<1>28. ASSUME NEW p \in Actors, ByBackend(p) PROVE BusyWhileSwitching'
  BY <1>28 DEF ByBackend
<1>29. ASSUME NEW p \in Actors, RefreshTun(p) PROVE BusyWhileSwitching'
  BY <1>29 DEF RefreshTun, Return, Leave
<1>30. ASSUME NEW p \in Actors, PlanStatic(p) PROVE BusyWhileSwitching'
  BY <1>30 DEF PlanStatic, Return, Leave
<1>31. ASSUME NEW p \in Actors, Purge(p) PROVE BusyWhileSwitching'
  BY <1>31 DEF Purge
<1>32. ASSUME NEW p \in Actors, Purged(p) PROVE BusyWhileSwitching'
  BY <1>32 DEF Purged, Return, Leave
<1>33. ASSUME NEW p \in Actors, Add(p) PROVE BusyWhileSwitching'
  BY <1>33 DEF Add, Return, Leave
<1>34. ASSUME NEW p \in Actors, Added(p) PROVE BusyWhileSwitching'
  BY <1>34 DEF Added
<1>35. ASSUME NEW p \in Actors, CheckContext(p) PROVE BusyWhileSwitching'
  BY <1>35 DEF CheckContext, Return, Leave
<1>36. ASSUME NEW p \in Actors, SetActive(p) PROVE BusyWhileSwitching'
  BY <1>36 DEF SetActive, SetState
<1>37. ASSUME NEW p \in Actors, UnlockApply(p) PROVE BusyWhileSwitching'
  BY <1>37 DEF UnlockApply, Return, Leave
<1>38. ASSUME NEW p \in Users, Disconnect(p) PROVE BusyWhileSwitching'
  BY <1>38 DEF Disconnect, Start
<1>39. ASSUME NEW p \in Users, Switch(p) PROVE BusyWhileSwitching'
  BY <1>39 DEF Switch, Start
<1>40. ASSUME NEW p \in Users, Restore(p) PROVE BusyWhileSwitching'
  BY <1>40 DEF Restore, Start
<1>41. ASSUME NEW p \in Users, LockMode(p) PROVE BusyWhileSwitching'
  BY <1>41 DEF LockMode
<1>42. ASSUME NEW p \in Users, Refresh(p) PROVE BusyWhileSwitching'
  BY <1>42 DEF Refresh, Start
<1>43. ASSUME NEW p \in Users, Renew(p) PROVE BusyWhileSwitching'
  BY <1>43 DEF Renew, resetRouteOps
<1>44. ASSUME NEW p \in Users, Finish(p) PROVE BusyWhileSwitching'
  <2>1. op' = [op EXCEPT ![p] = "apply"]
    BY <1>44 DEF Finish, Leave
  <2>2. CASE op[p] = "restore"
    BY <1>44, <2>1, <2>2 DEF Finish, Actors
  <2>3. CASE op[p] # "restore"
    <3>1. op[p] \in {"switch", "abort"}
      BY <1>44, <2>3 DEF Finish
    <3>2. \A u \in Users : op[u] \in {"switch", "abort"} => u = p
      BY <3>1 DEF Actors
    <3>3. ~manualBusy'
      BY <1>44, <2>3, Zenon DEF Finish
    <3> QED
      BY <2>1, <3>2, <3>3 DEF Actors
  <2> QED
    BY <2>2, <2>3
<1>45. CASE UNCHANGED vars
  BY <1>45
<1> QED
  BY <1>1, <1>2, <1>3, <1>4, <1>5, <1>6, <1>7, <1>8, <1>9, <1>10, <1>11,
      <1>12, <1>13, <1>14, <1>15, <1>16, <1>17, <1>18, <1>19, <1>20, <1>21,
      <1>22, <1>23, <1>24, <1>25, <1>26, <1>27, <1>28, <1>29, <1>30, <1>31,
      <1>32, <1>33, <1>34, <1>35, <1>36, <1>37, <1>38, <1>39, <1>40, <1>41,
      <1>42, <1>43, <1>44, <1>45
  DEF Next, Monitor, Handler, Recovery, Teardown, Connect, Apply, Command

-----------------------------------------------------------------------------
(* A Cleaning state has its event. *)

(* The start state is Idle, not Cleaning. *)
LEMMA PendingInit == Init => CleaningIsPending
BY DEF Init, CleaningIsPending

(* A step that sets Cleaning has its event to send; the handler that takes
   the event is at work until it leaves Cleaning. *)
LEMMA PendingStep ==
  TypeOK /\ ControlFlow /\ CleaningIsPending /\ [Next]_vars => CleaningIsPending'
<1> SUFFICES ASSUME TypeOK, ControlFlow, CleaningIsPending, [Next]_vars PROVE
    CleaningIsPending'
  OBVIOUS
<1> USE SessionAssumption, ActorsDistinct
    DEF SessionAssumption, Actors, TypeOK, At, Goto, Free, Take, Mutexes,
        vars, monitorVars, linkVars, ctxVars, userVars, bounds, ControlFlow,
        CleaningIsPending, DiscLabels, ApplyLabels, DialLabels
<1>1. CASE Poll
  BY <1>1 DEF Poll, Presence
<1>2. CASE ReadState
  BY <1>2 DEF ReadState
<1>3. CASE PollSet
  BY <1>3 DEF PollSet, SetState
<1>4. ASSUME NEW p \in Actors, Send(p) PROVE CleaningIsPending'
  <2> SUFFICES ASSUME mstate = "cleaning" PROVE CleaningIsPending'
    BY <1>4 DEF Send
  <2>1. /\ outbox[p] \in States /\ queue' = Append(queue, outbox[p])
        /\ outbox' = [outbox EXCEPT ![p] = "none"] /\ pc' = pc
    BY <1>4 DEF Send, States
  <2>2. /\ Len(queue') = Len(queue) + 1 /\ queue'[Len(queue) + 1] = outbox[p]
        /\ \A i \in 1..Len(queue) : queue'[i] = queue[i]
        /\ DOMAIN queue = 1..Len(queue) /\ DOMAIN queue' = 1..(Len(queue) + 1)
        /\ Len(queue) \in Nat
    BY <2>1
  <2>3. CASE p = "mon" /\ outbox[p] = "cleaning"
    BY <2>2, <2>3
  <2>4. CASE p # "mon" /\ outbox["mon"] = "cleaning"
    BY <2>1, <2>4 DEF Actors
  <2>5. CASE \E i \in DOMAIN queue : queue[i] = "cleaning"
    BY <2>2, <2>5
  <2>6. CASE pc["hnd"] \in DiscLabels
    BY <2>1, <2>6
  <2> QED
    BY <2>3, <2>4, <2>5, <2>6
<1>5. CASE Receive
  <2> SUFFICES ASSUME mstate = "cleaning" PROVE CleaningIsPending'
    BY <1>5 DEF Receive
  <2>1. /\ queue # <<>> /\ queue' = Tail(queue) /\ outbox' = outbox
        /\ pc["hnd"] = "wait"
    BY <1>5 DEF Receive
  <2>2. /\ Len(queue) \in Nat \ {0} /\ Head(queue) = queue[1]
        /\ DOMAIN queue = 1..Len(queue) /\ DOMAIN queue' = 1..(Len(queue) - 1)
        /\ \A i \in 1..(Len(queue) - 1) : queue'[i] = queue[i + 1]
    BY <2>1
  <2>3. CASE outbox["mon"] = "cleaning"
    BY <2>1, <2>3
  <2>4. CASE queue[1] = "cleaning"
    BY ZenonT(30), <1>5, <2>2, <2>4 DEF Receive, Actors
  <2>5. ASSUME NEW i \in DOMAIN queue, queue[i] = "cleaning", i # 1
        PROVE  CleaningIsPending'
    <3>1. i - 1 \in DOMAIN queue' /\ queue'[i - 1] = "cleaning"
      BY <2>2, <2>5
    <3> QED
      BY <3>1
  <2> QED
    BY <2>1, <2>3, <2>4, <2>5
<1>6. CASE Recover
  BY <1>6 DEF Recover
<1>7. CASE Drop
  BY <1>7 DEF Drop
<1>8. ASSUME NEW p \in Users, LockDisconnect(p) PROVE CleaningIsPending'
  BY <1>8 DEF LockDisconnect
<1>9. ASSUME NEW p \in Actors, CancelRoutes(p) PROVE CleaningIsPending'
  BY <1>9 DEF CancelRoutes, cancelActiveRouteOps
<1>10. ASSUME NEW p \in Actors, UsingTun(p) PROVE CleaningIsPending'
  BY <1>10 DEF UsingTun
<1>11. ASSUME NEW p \in Actors, StopTun(p) PROVE CleaningIsPending'
  BY <1>11 DEF StopTun
<1>12. ASSUME NEW p \in Actors, RemoveAllRoutes(p) PROVE CleaningIsPending'
  BY <1>12 DEF RemoveAllRoutes
<1>13. ASSUME NEW p \in Users, UsingCli(p) PROVE CleaningIsPending'
  BY <1>13 DEF UsingCli
<1>14. ASSUME NEW p \in Users, CliDown(p) PROVE CleaningIsPending'
  BY <1>14 DEF CliDown
<1>15. ASSUME NEW p \in Actors, ClearBackend(p) PROVE CleaningIsPending'
  BY <1>15 DEF ClearBackend
<1>16. ASSUME NEW p \in Actors, SetIdle(p) PROVE CleaningIsPending'
  BY <1>16 DEF SetIdle, SetState
<1>17. ASSUME NEW p \in Actors, ResetAfter(p) PROVE CleaningIsPending'
  BY <1>17 DEF ResetAfter, resetRouteOps, Leave
<1>18. ASSUME NEW p \in Actors, BeginConnect(p) PROVE CleaningIsPending'
  BY <1>18 DEF BeginConnect, resetRouteOps, FirstBackend
<1>19. ASSUME NEW p \in Actors, TunBegin(p) PROVE CleaningIsPending'
  BY <1>19 DEF TunBegin
<1>20. ASSUME NEW p \in Actors, TunEnd(p) PROVE CleaningIsPending'
  BY <1>20 DEF TunEnd
<1>21. ASSUME NEW p \in Actors, TunStop(p) PROVE CleaningIsPending'
  BY <1>21 DEF TunStop
<1>22. ASSUME NEW p \in Actors, Prepare(p) PROVE CleaningIsPending'
  BY <1>22 DEF Prepare
<1>23. ASSUME NEW p \in Actors, Dial(p) PROVE CleaningIsPending'
  BY <1>23 DEF Dial
<1>24. ASSUME NEW p \in Actors, SetBackend(p) PROVE CleaningIsPending'
  BY <1>24 DEF SetBackend
<1>25. ASSUME NEW p \in Actors, SetConnected(p) PROVE CleaningIsPending'
  BY <1>25 DEF SetConnected, SetState
<1>26. ASSUME NEW p \in Actors, ConnectFailed(p) PROVE CleaningIsPending'
  BY <1>26 DEF ConnectFailed, cancelActiveRouteOps
<1>27. ASSUME NEW p \in Actors, LockApply(p) PROVE CleaningIsPending'
  BY <1>27 DEF LockApply, Return, Leave
<1>28. ASSUME NEW p \in Actors, ByBackend(p) PROVE CleaningIsPending'
  BY <1>28 DEF ByBackend
<1>29. ASSUME NEW p \in Actors, RefreshTun(p) PROVE CleaningIsPending'
  BY <1>29 DEF RefreshTun, Return, Leave
<1>30. ASSUME NEW p \in Actors, PlanStatic(p) PROVE CleaningIsPending'
  BY <1>30 DEF PlanStatic, Return, Leave
<1>31. ASSUME NEW p \in Actors, Purge(p) PROVE CleaningIsPending'
  BY <1>31 DEF Purge
<1>32. ASSUME NEW p \in Actors, Purged(p) PROVE CleaningIsPending'
  BY <1>32 DEF Purged, Return, Leave
<1>33. ASSUME NEW p \in Actors, Add(p) PROVE CleaningIsPending'
  BY <1>33 DEF Add, Return, Leave
<1>34. ASSUME NEW p \in Actors, Added(p) PROVE CleaningIsPending'
  BY <1>34 DEF Added
<1>35. ASSUME NEW p \in Actors, CheckContext(p) PROVE CleaningIsPending'
  BY <1>35 DEF CheckContext, Return, Leave
<1>36. ASSUME NEW p \in Actors, SetActive(p) PROVE CleaningIsPending'
  BY <1>36 DEF SetActive, SetState
<1>37. ASSUME NEW p \in Actors, UnlockApply(p) PROVE CleaningIsPending'
  BY <1>37 DEF UnlockApply, Return, Leave
<1>38. ASSUME NEW p \in Users, Disconnect(p) PROVE CleaningIsPending'
  BY <1>38 DEF Disconnect, Start
<1>39. ASSUME NEW p \in Users, Switch(p) PROVE CleaningIsPending'
  BY <1>39 DEF Switch, Start
<1>40. ASSUME NEW p \in Users, Restore(p) PROVE CleaningIsPending'
  BY <1>40 DEF Restore, Start
<1>41. ASSUME NEW p \in Users, LockMode(p) PROVE CleaningIsPending'
  BY <1>41 DEF LockMode
<1>42. ASSUME NEW p \in Users, Refresh(p) PROVE CleaningIsPending'
  BY <1>42 DEF Refresh, Start
<1>43. ASSUME NEW p \in Users, Renew(p) PROVE CleaningIsPending'
  BY <1>43 DEF Renew, resetRouteOps
<1>44. ASSUME NEW p \in Users, Finish(p) PROVE CleaningIsPending'
  BY <1>44 DEF Finish, Leave
<1>45. CASE UNCHANGED vars
  BY <1>45
<1> QED
  BY <1>1, <1>2, <1>3, <1>4, <1>5, <1>6, <1>7, <1>8, <1>9, <1>10, <1>11,
      <1>12, <1>13, <1>14, <1>15, <1>16, <1>17, <1>18, <1>19, <1>20, <1>21,
      <1>22, <1>23, <1>24, <1>25, <1>26, <1>27, <1>28, <1>29, <1>30, <1>31,
      <1>32, <1>33, <1>34, <1>35, <1>36, <1>37, <1>38, <1>39, <1>40, <1>41,
      <1>42, <1>43, <1>44, <1>45
  DEF Next, Monitor, Handler, Recovery, Teardown, Connect, Apply, Command

-----------------------------------------------------------------------------
(* The theorems. *)

(* SessionInv, the conjunction of what follows, holds for ever. *)
THEOREM SessionInvariant == Spec => []SessionInv
<1>1. Init => SessionInv
  BY TypeInit, FlowInit, LocksInit, BusyInit, PendingInit DEF SessionInv
<1>2. SessionInv /\ [Next]_vars => SessionInv'
  BY TypeStep, FlowStep, LocksStep, BusyStep, PendingStep DEF SessionInv
<1> QED
  BY <1>1, <1>2, PTL DEF Spec

(* Every variable keeps its type; the channel never holds more than Buf. *)
THEOREM TypeCorrect == Spec => []TypeOK
<1>1. SessionInv => TypeOK
  BY DEF SessionInv
<1> QED
  BY <1>1, SessionInvariant, PTL

(* Every path through a critical section holds its mutex and gives it back. *)
THEOREM LockDiscipline == Spec => []LocksHeld
<1>1. SessionInv => LocksHeld
  BY DEF SessionInv
<1> QED
  BY <1>1, SessionInvariant, PTL

(* manualConnectionBusy is set exactly during a reconnect or a selection. *)
THEOREM BusyFlagExact == Spec => []BusyWhileSwitching
<1>1. SessionInv => BusyWhileSwitching
  BY DEF SessionInv
<1> QED
  BY <1>1, SessionInvariant, PTL

(* A lost link is never forgotten between the state and its event. *)
THEOREM NoLostCleaning == Spec => []CleaningIsPending
<1>1. SessionInv => CleaningIsPending
  BY DEF SessionInv
<1> QED
  BY <1>1, SessionInvariant, PTL

(* Two manual connections never run at once. *)
THEOREM ManualConnectionsExclusive == Spec => []ConnectionsExclusive
<1>1. SessionInv => ConnectionsExclusive
  <2> SUFFICES ASSUME SessionInv, NEW u \in Users, NEW v \in Users,
                      pc[u] \in DialLabels, pc[v] \in DialLabels
               PROVE  u = v
    BY DEF ConnectionsExclusive
  <2>1. ASSUME NEW w \in Users, pc[w] \in DialLabels PROVE lock["mode"] = w
    <3>1. op[w] \in {"switch", "restore"} /\ pc[w] # "lockMode"
      BY <2>1 DEF SessionInv, ControlFlow, DialLabels, DiscLabels, ApplyLabels
    <3> QED
      BY <3>1 DEF SessionInv, LocksHeld, Actors
  <2> QED
    BY <2>1
<1> QED
  BY <1>1, SessionInvariant, PTL
=============================================================================
