---------------------- MODULE SessionSequentialProofs -----------------------
(***************************************************************************)
(* Theorems about SessionControl when commands and polls come one after    *)
(* the other: one goroutine runs the user's commands, and a command or a   *)
(* poll begins when the work of the last one is done.  Losses of the link, *)
(* the handler, the recovery and the end of a command still interleave.    *)
(* They hold for every configuration, capacity of the channel and bound.   *)
(***************************************************************************)
EXTENDS SessionControlProofs

Sequential == Overlap = {} /\ Users = {Boot}

LEMMA Four ==
  ASSUME Sequential
  PROVE  /\ Actors = {Boot, "mon", "hnd", "rec"}
         /\ Boot \notin {"mon", "hnd", "rec"}
  BY ActorsDistinct DEF Sequential, Actors

-----------------------------------------------------------------------------
(* Who is at work. *)

\* The states the handler has to work on.
Loud == {"connected", "cleaning"}

NoWord ==
  /\ \A i \in DOMAIN queue : queue[i] \notin Loud
  /\ \A p \in Actors : outbox[p] \notin Loud

UserIdle == pc[Boot] \in {"rest", "finish"}

\* The poll, the handler, the recovery and the command work one at a time, and
\* none of them while a word for the handler is on its way.
Alone ==
  /\ Polling =>
       /\ queue = <<>> /\ \A p \in Actors \ {"mon"} : outbox[p] = "none"
       /\ pc["hnd"] = "wait" /\ pc["rec"] = "rest" /\ pc[Boot] = "rest"
  /\ pc["mon"] # "poll" => outbox["mon"] = "none"
  /\ pc["hnd"] # "wait" => pc["rec"] = "rest" /\ UserIdle /\ NoWord
  /\ pc["rec"] # "rest" => UserIdle /\ NoWord
  /\ ~UserIdle => NoWord

\* There is at most one such word, and it says what the state is.
OneWord ==
  /\ \A i \in DOMAIN queue : queue[i] \in Loud =>
       /\ queue[i] = mstate
       /\ \A j \in DOMAIN queue : queue[j] \in Loud => i = j
       /\ \A p \in Actors : outbox[p] \notin Loud
  /\ \A p \in Actors : outbox[p] \in Loud =>
       /\ outbox[p] = mstate
       /\ \A q \in Actors : outbox[q] \in Loud => p = q

Turns == Alone /\ OneWord

\* The handler takes the next word; one it has to work on was the only one.
LEMMA ReceiveTurns ==
  ASSUME Sequential, TypeOK, Turns, Receive
  PROVE  Turns'
<1>1. /\ queue # <<>> /\ queue' = Tail(queue) /\ UNCHANGED <<mstate, outbox>>
      /\ pc["hnd"] = "wait" /\ ~Polling
      /\ pc' = [pc EXCEPT !["hnd"] = pc'["hnd"]]
  BY Four DEF Receive, At, Goto, Sequential, TypeOK
<1>2. \A p \in Actors : p # "hnd" => pc'[p] = pc[p]
  BY <1>1 DEF TypeOK
<1>3. /\ Head(queue) \in Loud \/ pc'["hnd"] = "wait"
      /\ pc'["hnd"] = "wait" \/ Head(queue) \in Loud
  BY <1>1, Four DEF Receive, Goto, Loud, TypeOK
<1>4. /\ Len(queue) \in Nat \ {0} /\ Head(queue) = queue[1]
      /\ DOMAIN queue = 1..Len(queue) /\ DOMAIN queue' = 1..(Len(queue) - 1)
      /\ \A i \in DOMAIN queue' : queue'[i] = queue[i + 1]
  BY <1>1 DEF TypeOK
<1>5. /\ 1 \in DOMAIN queue
      /\ \A i \in DOMAIN queue' : i + 1 \in DOMAIN queue /\ i + 1 # 1
      /\ \A i, j \in DOMAIN queue' : i + 1 = j + 1 => i = j
  BY <1>4
<1>6. OneWord'
  <2>1. \A i \in DOMAIN queue' : queue'[i] \in Loud =>
          /\ queue'[i] = mstate
          /\ \A j \in DOMAIN queue' : queue'[j] \in Loud => i = j
          /\ \A p \in Actors : outbox[p] \notin Loud
    BY <1>4, <1>5 DEF Turns, OneWord
  <2>2. QED
    BY <1>1, <2>1 DEF Turns, OneWord
<1>7. NoWord => NoWord'
  BY <1>1, <1>4, <1>5 DEF NoWord
<1>8. ~Polling'
  BY <1>1, <1>2, Four DEF Polling
<1>9. /\ "mon" \in Actors /\ "rec" \in Actors /\ "hnd" \in Actors /\ Boot \in Actors
      /\ pc'["mon"] = pc["mon"] /\ pc'["rec"] = pc["rec"] /\ pc'[Boot] = pc[Boot]
  BY <1>2, Four
<1>10. CASE Head(queue) \notin Loud
  BY <1>1, <1>3, <1>6, <1>7, <1>8, <1>9, <1>10 DEF Turns, Alone, UserIdle
<1>11. CASE Head(queue) \in Loud
  <2>1. ~NoWord
    BY <1>4, <1>5, <1>11 DEF NoWord
  <2>2. UserIdle /\ pc["rec"] = "rest"
    BY <2>1 DEF Turns, Alone
  <2>3. NoWord'
    BY <1>1, <1>4, <1>5, <1>11 DEF Turns, OneWord, NoWord
  <2>4. QED
    BY <1>1, <1>6, <1>8, <1>9, <2>2, <2>3 DEF Turns, Alone, UserIdle
<1>12. QED
  BY <1>10, <1>11

\* Whoever works passes its turn on with its last word.
LEMMA TurnsStep ==
  ASSUME Sequential, TypeOK, ControlFlow, Turns, [Next]_vars
  PROVE  Turns'
<1> USE SessionAssumption, Four
    DEF SessionAssumption, Sequential, TypeOK, At, Goto, Free, Take, Mutexes,
        vars, monitorVars, linkVars, ctxVars, userVars, bounds, ControlFlow,
        Polling, Turns, Alone, OneWord, NoWord, UserIdle, Loud, DiscLabels,
        ApplyLabels, DialLabels
<1>1. CASE Poll
  BY <1>1 DEF Poll, Presence, Settled, Handled
<1>2. CASE ReadState
  BY <1>2 DEF ReadState
<1>3. CASE PollSet
  BY <1>3 DEF PollSet, SetState
<1>4. ASSUME NEW p \in Actors, Send(p) PROVE Turns'
  BY <1>4 DEF Send
<1>5. CASE Receive
  BY <1>5, ReceiveTurns
<1>6. CASE Recover
  BY <1>6 DEF Recover
<1>7. CASE Drop
  BY <1>7 DEF Drop
<1>8. ASSUME NEW p \in Users, LockDisconnect(p) PROVE Turns'
  BY <1>8 DEF LockDisconnect
<1>9. ASSUME NEW p \in Actors, CancelRoutes(p) PROVE Turns'
  BY <1>9 DEF CancelRoutes, cancelActiveRouteOps
<1>10. ASSUME NEW p \in Actors, UsingTun(p) PROVE Turns'
  BY <1>10 DEF UsingTun
<1>11. ASSUME NEW p \in Actors, StopTun(p) PROVE Turns'
  BY <1>11 DEF StopTun
<1>12. ASSUME NEW p \in Actors, RemoveAllRoutes(p) PROVE Turns'
  BY <1>12 DEF RemoveAllRoutes
<1>13. ASSUME NEW p \in Users, UsingCli(p) PROVE Turns'
  BY <1>13 DEF UsingCli
<1>14. ASSUME NEW p \in Users, CliDown(p) PROVE Turns'
  BY <1>14 DEF CliDown
<1>15. ASSUME NEW p \in Actors, ClearBackend(p) PROVE Turns'
  BY <1>15 DEF ClearBackend
<1>16. ASSUME NEW p \in Actors, SetIdle(p) PROVE Turns'
  BY <1>16 DEF SetIdle, SetState
<1>17. ASSUME NEW p \in Actors, ResetAfter(p) PROVE Turns'
  BY <1>17 DEF ResetAfter, resetRouteOps, Leave
<1>18. ASSUME NEW p \in Actors, BeginConnect(p) PROVE Turns'
  BY <1>18 DEF BeginConnect, resetRouteOps, FirstBackend
<1>19. ASSUME NEW p \in Actors, TunBegin(p) PROVE Turns'
  BY <1>19 DEF TunBegin
<1>20. ASSUME NEW p \in Actors, TunEnd(p) PROVE Turns'
  BY <1>20 DEF TunEnd
<1>21. ASSUME NEW p \in Actors, TunStop(p) PROVE Turns'
  BY <1>21 DEF TunStop
<1>22. ASSUME NEW p \in Actors, Prepare(p) PROVE Turns'
  BY <1>22 DEF Prepare
<1>23. ASSUME NEW p \in Actors, Dial(p) PROVE Turns'
  BY <1>23 DEF Dial
<1>24. ASSUME NEW p \in Actors, SetBackend(p) PROVE Turns'
  BY <1>24 DEF SetBackend
<1>25. ASSUME NEW p \in Actors, SetConnected(p) PROVE Turns'
  BY <1>25 DEF SetConnected, SetState
<1>26. ASSUME NEW p \in Actors, ConnectFailed(p) PROVE Turns'
  BY <1>26 DEF ConnectFailed, cancelActiveRouteOps
<1>27. ASSUME NEW p \in Actors, LockApply(p) PROVE Turns'
  BY <1>27 DEF LockApply, Return, Leave
<1>28. ASSUME NEW p \in Actors, ByBackend(p) PROVE Turns'
  BY <1>28 DEF ByBackend
<1>29. ASSUME NEW p \in Actors, RefreshTun(p) PROVE Turns'
  BY <1>29 DEF RefreshTun, Return, Leave
<1>30. ASSUME NEW p \in Actors, PlanStatic(p) PROVE Turns'
  BY <1>30 DEF PlanStatic, Return, Leave
<1>31. ASSUME NEW p \in Actors, Purge(p) PROVE Turns'
  BY <1>31 DEF Purge
<1>32. ASSUME NEW p \in Actors, Purged(p) PROVE Turns'
  BY <1>32 DEF Purged, Return, Leave
<1>33. ASSUME NEW p \in Actors, Add(p) PROVE Turns'
  BY <1>33 DEF Add, Return, Leave
<1>34. ASSUME NEW p \in Actors, Added(p) PROVE Turns'
  BY <1>34 DEF Added
<1>35. ASSUME NEW p \in Actors, CheckContext(p) PROVE Turns'
  BY <1>35 DEF CheckContext, Return, Leave
<1>36. ASSUME NEW p \in Actors, SetActive(p) PROVE Turns'
  BY <1>36 DEF SetActive, SetState
<1>37. ASSUME NEW p \in Actors, UnlockApply(p) PROVE Turns'
  BY <1>37 DEF UnlockApply, Return, Leave
<1>38. ASSUME NEW p \in Users, Disconnect(p) PROVE Turns'
  BY <1>38 DEF Disconnect, Start, Handled
<1>39. ASSUME NEW p \in Users, Switch(p) PROVE Turns'
  BY <1>39 DEF Switch, Start, Handled
<1>40. ASSUME NEW p \in Users, Restore(p) PROVE Turns'
  BY <1>40 DEF Restore, Start, Handled
<1>41. ASSUME NEW p \in Users, LockMode(p) PROVE Turns'
  BY <1>41 DEF LockMode
<1>42. ASSUME NEW p \in Users, Refresh(p) PROVE Turns'
  BY <1>42 DEF Refresh, Start, Handled
<1>43. ASSUME NEW p \in Users, Renew(p) PROVE Turns'
  BY <1>43 DEF Renew, resetRouteOps
<1>44. ASSUME NEW p \in Users, Finish(p) PROVE Turns'
  BY <1>44 DEF Finish, Leave
<1>45. CASE UNCHANGED vars
  BY <1>45
<1> HIDE DEF TypeOK, At, Goto, Free, Take, Mutexes, ControlFlow, Polling,
         Turns, Alone, OneWord, NoWord, UserIdle, Loud, DiscLabels,
         ApplyLabels, DialLabels
<1> QED
  BY <1>1, <1>2, <1>3, <1>4, <1>5, <1>6, <1>7, <1>8, <1>9, <1>10, <1>11,
     <1>12, <1>13, <1>14, <1>15, <1>16, <1>17, <1>18, <1>19, <1>20, <1>21,
     <1>22, <1>23, <1>24, <1>25, <1>26, <1>27, <1>28, <1>29, <1>30, <1>31,
     <1>32, <1>33, <1>34, <1>35, <1>36, <1>37, <1>38, <1>39, <1>40, <1>41,
     <1>42, <1>43, <1>44, <1>45
  DEF Next, Monitor, Handler, Recovery, Teardown, Connect, Apply, Command

-----------------------------------------------------------------------------
(* What the state is. *)

\* Where each goroutine works, the state is what the work is about.
Places ==
  /\ pc["hnd"] \in DiscLabels => mstate = "cleaning"
  /\ pc["hnd"] = "recover" => mstate = "idle"
  /\ pc["hnd"] \in {"lockApply"} \cup ApplyLabels => mstate \in {"connected", "active"}
  /\ pc["rec"] # "rest" => mstate = "idle"
  /\ pc[Boot] \in {"reset"} \cup DialLabels => mstate = "idle"
  /\ op[Boot] = "refresh" => mstate \in {"connected", "active"}

\* Nobody else sets the state meanwhile.
LEMMA PlacesStep ==
  ASSUME Sequential, TypeOK, ControlFlow, Turns, Places, [Next]_vars
  PROVE  Places'
<1> USE SessionAssumption, Four
    DEF SessionAssumption, Sequential, TypeOK, At, Goto, Free, Take, Mutexes,
        vars, monitorVars, linkVars, ctxVars, userVars, bounds, ControlFlow,
        DiscLabels, ApplyLabels, DialLabels, Polling, Turns, Alone, OneWord,
        NoWord, UserIdle, Loud, Places
<1>1. CASE Poll
  BY <1>1 DEF Poll, Presence
<1>2. CASE ReadState
  BY <1>2 DEF ReadState
<1>3. CASE PollSet
  BY <1>3 DEF PollSet, SetState
<1>4. ASSUME NEW p \in Actors, Send(p) PROVE Places'
  BY <1>4 DEF Send
<1>5. CASE Receive
  BY <1>5 DEF Receive
<1>6. CASE Recover
  BY <1>6 DEF Recover
<1>7. CASE Drop
  BY <1>7 DEF Drop
<1>8. ASSUME NEW p \in Users, LockDisconnect(p) PROVE Places'
  BY <1>8 DEF LockDisconnect
<1>9. ASSUME NEW p \in Actors, CancelRoutes(p) PROVE Places'
  BY <1>9 DEF CancelRoutes, cancelActiveRouteOps
<1>10. ASSUME NEW p \in Actors, UsingTun(p) PROVE Places'
  BY <1>10 DEF UsingTun
<1>11. ASSUME NEW p \in Actors, StopTun(p) PROVE Places'
  BY <1>11 DEF StopTun
<1>12. ASSUME NEW p \in Actors, RemoveAllRoutes(p) PROVE Places'
  BY <1>12 DEF RemoveAllRoutes
<1>13. ASSUME NEW p \in Users, UsingCli(p) PROVE Places'
  BY <1>13 DEF UsingCli
<1>14. ASSUME NEW p \in Users, CliDown(p) PROVE Places'
  BY <1>14 DEF CliDown
<1>15. ASSUME NEW p \in Actors, ClearBackend(p) PROVE Places'
  BY <1>15 DEF ClearBackend
<1>16. ASSUME NEW p \in Actors, SetIdle(p) PROVE Places'
  BY <1>16 DEF SetIdle, SetState
<1>17. ASSUME NEW p \in Actors, ResetAfter(p) PROVE Places'
  BY <1>17 DEF ResetAfter, resetRouteOps, Leave
<1>18. ASSUME NEW p \in Actors, BeginConnect(p) PROVE Places'
  BY <1>18 DEF BeginConnect, resetRouteOps, FirstBackend
<1>19. ASSUME NEW p \in Actors, TunBegin(p) PROVE Places'
  BY <1>19 DEF TunBegin
<1>20. ASSUME NEW p \in Actors, TunEnd(p) PROVE Places'
  BY <1>20 DEF TunEnd
<1>21. ASSUME NEW p \in Actors, TunStop(p) PROVE Places'
  BY <1>21 DEF TunStop
<1>22. ASSUME NEW p \in Actors, Prepare(p) PROVE Places'
  BY <1>22 DEF Prepare
<1>23. ASSUME NEW p \in Actors, Dial(p) PROVE Places'
  BY <1>23 DEF Dial
<1>24. ASSUME NEW p \in Actors, SetBackend(p) PROVE Places'
  BY <1>24 DEF SetBackend
<1>25. ASSUME NEW p \in Actors, SetConnected(p) PROVE Places'
  BY <1>25 DEF SetConnected, SetState
<1>26. ASSUME NEW p \in Actors, ConnectFailed(p) PROVE Places'
  BY <1>26 DEF ConnectFailed, cancelActiveRouteOps
<1>27. ASSUME NEW p \in Actors, LockApply(p) PROVE Places'
  BY <1>27 DEF LockApply, Return, Leave
<1>28. ASSUME NEW p \in Actors, ByBackend(p) PROVE Places'
  BY <1>28 DEF ByBackend
<1>29. ASSUME NEW p \in Actors, RefreshTun(p) PROVE Places'
  BY <1>29 DEF RefreshTun, Return, Leave
<1>30. ASSUME NEW p \in Actors, PlanStatic(p) PROVE Places'
  BY <1>30 DEF PlanStatic, Return, Leave
<1>31. ASSUME NEW p \in Actors, Purge(p) PROVE Places'
  BY <1>31 DEF Purge
<1>32. ASSUME NEW p \in Actors, Purged(p) PROVE Places'
  BY <1>32 DEF Purged, Return, Leave
<1>33. ASSUME NEW p \in Actors, Add(p) PROVE Places'
  BY <1>33 DEF Add, Return, Leave
<1>34. ASSUME NEW p \in Actors, Added(p) PROVE Places'
  BY <1>34 DEF Added
<1>35. ASSUME NEW p \in Actors, CheckContext(p) PROVE Places'
  BY <1>35 DEF CheckContext, Return, Leave
<1>36. ASSUME NEW p \in Actors, SetActive(p) PROVE Places'
  BY <1>36 DEF SetActive, SetState
<1>37. ASSUME NEW p \in Actors, UnlockApply(p) PROVE Places'
  BY <1>37 DEF UnlockApply, Return, Leave
<1>38. ASSUME NEW p \in Users, Disconnect(p) PROVE Places'
  BY <1>38 DEF Disconnect, Start
<1>39. ASSUME NEW p \in Users, Switch(p) PROVE Places'
  BY <1>39 DEF Switch, Start
<1>40. ASSUME NEW p \in Users, Restore(p) PROVE Places'
  BY <1>40 DEF Restore, Start
<1>41. ASSUME NEW p \in Users, LockMode(p) PROVE Places'
  BY <1>41 DEF LockMode
<1>42. ASSUME NEW p \in Users, Refresh(p) PROVE Places'
  BY <1>42 DEF Refresh, Start
<1>43. ASSUME NEW p \in Users, Renew(p) PROVE Places'
  BY <1>43 DEF Renew, resetRouteOps
<1>44. ASSUME NEW p \in Users, Finish(p) PROVE Places'
  BY <1>44 DEF Finish, Leave
<1>45. CASE UNCHANGED vars
  BY <1>45
<1> HIDE DEF TypeOK, At, Goto, Free, Take, Mutexes, ControlFlow, DiscLabels,
         ApplyLabels, DialLabels, Polling, Turns, Alone, OneWord, NoWord,
         UserIdle, Loud, Places
<1> QED
  BY <1>1, <1>2, <1>3, <1>4, <1>5, <1>6, <1>7, <1>8, <1>9, <1>10, <1>11,
     <1>12, <1>13, <1>14, <1>15, <1>16, <1>17, <1>18, <1>19, <1>20, <1>21,
     <1>22, <1>23, <1>24, <1>25, <1>26, <1>27, <1>28, <1>29, <1>30, <1>31,
     <1>32, <1>33, <1>34, <1>35, <1>36, <1>37, <1>38, <1>39, <1>40, <1>41,
     <1>42, <1>43, <1>44, <1>45
  DEF Next, Monitor, Handler, Recovery, Teardown, Connect, Apply, Command

-----------------------------------------------------------------------------
(* The pair of processes. *)

Dialling == DialLabels \ {"connected"}

\* The pair runs while the backend is "tun", or is about to be.
Pair ==
  /\ tun # "down" => backend = "tun" \/ \E p \in Actors : pc[p] = "setTun"
  /\ \A p \in Actors :
       /\ pc[p] \in {"remove", "cli", "down", "clear"} => tun = "down"
       /\ pc[p] \in {"idle", "reset", "recover"} \cup Dialling => backend = "none"
       /\ pc[p] = "refresh" => backend = "tun"

\* A teardown stops the pair before it clears the backend, and a connection
\* starts it before it sets the backend.
LEMMA PairStep ==
  ASSUME Sequential, TypeOK, ControlFlow, Turns, Pair, [Next]_vars
  PROVE  Pair'
<1> USE SessionAssumption, Four
    DEF SessionAssumption, Sequential, TypeOK, At, Goto, Free, Take, Mutexes,
        vars, monitorVars, linkVars, ctxVars, userVars, bounds, ControlFlow,
        DiscLabels, ApplyLabels, DialLabels, Polling, Turns, Alone, OneWord,
        NoWord, UserIdle, Loud, Pair, Dialling
<1>1. CASE Poll
  BY <1>1 DEF Poll, Presence
<1>2. CASE ReadState
  BY <1>2 DEF ReadState
<1>3. CASE PollSet
  BY <1>3 DEF PollSet, SetState
<1>4. ASSUME NEW p \in Actors, Send(p) PROVE Pair'
  BY <1>4 DEF Send
<1>5. CASE Receive
  BY <1>5 DEF Receive
<1>6. CASE Recover
  BY <1>6 DEF Recover
<1>7. CASE Drop
  BY <1>7 DEF Drop
<1>8. ASSUME NEW p \in Users, LockDisconnect(p) PROVE Pair'
  BY <1>8 DEF LockDisconnect
<1>9. ASSUME NEW p \in Actors, CancelRoutes(p) PROVE Pair'
  BY <1>9 DEF CancelRoutes, cancelActiveRouteOps
<1>10. ASSUME NEW p \in Actors, UsingTun(p) PROVE Pair'
  BY <1>10 DEF UsingTun
<1>11. ASSUME NEW p \in Actors, StopTun(p) PROVE Pair'
  BY <1>11 DEF StopTun
<1>12. ASSUME NEW p \in Actors, RemoveAllRoutes(p) PROVE Pair'
  BY <1>12 DEF RemoveAllRoutes
<1>13. ASSUME NEW p \in Users, UsingCli(p) PROVE Pair'
  BY <1>13 DEF UsingCli
<1>14. ASSUME NEW p \in Users, CliDown(p) PROVE Pair'
  BY <1>14 DEF CliDown
<1>15. ASSUME NEW p \in Actors, ClearBackend(p) PROVE Pair'
  BY <1>15 DEF ClearBackend
<1>16. ASSUME NEW p \in Actors, SetIdle(p) PROVE Pair'
  BY <1>16 DEF SetIdle, SetState
<1>17. ASSUME NEW p \in Actors, ResetAfter(p) PROVE Pair'
  BY <1>17 DEF ResetAfter, resetRouteOps, Leave
<1>18. ASSUME NEW p \in Actors, BeginConnect(p) PROVE Pair'
  BY <1>18 DEF BeginConnect, resetRouteOps, FirstBackend
<1>19. ASSUME NEW p \in Actors, TunBegin(p) PROVE Pair'
  BY <1>19 DEF TunBegin
<1>20. ASSUME NEW p \in Actors, TunEnd(p) PROVE Pair'
  <2>1. /\ pc[p] = "tunEnd" /\ backend = "none" /\ backend' = backend
        /\ \A q \in Actors \ {p} : pc'[q] = pc[q]
        /\ \/ tun' = "up" /\ pc'[p] = "setTun"
           \/ tun' = tun /\ pc'[p] = "tunStop"
    <3> HIDE DEF ControlFlow, Turns, Alone, OneWord, Pair
    <3>1. /\ pc[p] = "tunEnd" /\ backend' = backend
          /\ \A q \in Actors \ {p} : pc'[q] = pc[q]
          /\ \/ tun' = "up" /\ pc'[p] = "setTun"
             \/ tun' = tun /\ pc'[p] = "tunStop"
      BY <1>20 DEF TunEnd
    <3>2. backend = "none"
      BY <3>1 DEF Pair
    <3>3. QED
      BY <3>1, <3>2
  <2>2. tun' # "down" => backend' = "tun" \/ \E q \in Actors : pc'[q] = "setTun"
    BY <2>1
  <2>3. ASSUME NEW q \in Actors \ {p}
        PROVE  pc[q] \notin DiscLabels \cup ApplyLabels
    BY <2>1
  <2>4. ASSUME NEW q \in Actors
        PROVE  /\ pc'[q] \in {"remove", "cli", "down", "clear"} => tun' = "down"
               /\ pc'[q] \in {"idle", "reset", "recover"} \cup Dialling
                    => backend' = "none"
               /\ pc'[q] = "refresh" => backend' = "tun"
    <3>1. CASE q = p
      BY <2>1, <3>1
    <3>2. CASE q # p
      BY <2>1, <2>3, <3>2
    <3>3. QED
      BY <3>1, <3>2
  <2>5. QED
    BY <2>2, <2>4
<1>21. ASSUME NEW p \in Actors, TunStop(p) PROVE Pair'
  BY <1>21 DEF TunStop
<1>22. ASSUME NEW p \in Actors, Prepare(p) PROVE Pair'
  BY <1>22 DEF Prepare
<1>23. ASSUME NEW p \in Actors, Dial(p) PROVE Pair'
  BY <1>23 DEF Dial
<1>24. ASSUME NEW p \in Actors, SetBackend(p) PROVE Pair'
  BY <1>24 DEF SetBackend
<1>25. ASSUME NEW p \in Actors, SetConnected(p) PROVE Pair'
  BY <1>25 DEF SetConnected, SetState
<1>26. ASSUME NEW p \in Actors, ConnectFailed(p) PROVE Pair'
  BY <1>26 DEF ConnectFailed, cancelActiveRouteOps
<1>27. ASSUME NEW p \in Actors, LockApply(p) PROVE Pair'
  BY <1>27 DEF LockApply, Return, Leave
<1>28. ASSUME NEW p \in Actors, ByBackend(p) PROVE Pair'
  BY <1>28 DEF ByBackend
<1>29. ASSUME NEW p \in Actors, RefreshTun(p) PROVE Pair'
  BY <1>29 DEF RefreshTun, Return, Leave
<1>30. ASSUME NEW p \in Actors, PlanStatic(p) PROVE Pair'
  BY <1>30 DEF PlanStatic, Return, Leave
<1>31. ASSUME NEW p \in Actors, Purge(p) PROVE Pair'
  BY <1>31 DEF Purge
<1>32. ASSUME NEW p \in Actors, Purged(p) PROVE Pair'
  BY <1>32 DEF Purged, Return, Leave
<1>33. ASSUME NEW p \in Actors, Add(p) PROVE Pair'
  BY <1>33 DEF Add, Return, Leave
<1>34. ASSUME NEW p \in Actors, Added(p) PROVE Pair'
  BY <1>34 DEF Added
<1>35. ASSUME NEW p \in Actors, CheckContext(p) PROVE Pair'
  BY <1>35 DEF CheckContext, Return, Leave
<1>36. ASSUME NEW p \in Actors, SetActive(p) PROVE Pair'
  BY <1>36 DEF SetActive, SetState
<1>37. ASSUME NEW p \in Actors, UnlockApply(p) PROVE Pair'
  BY <1>37 DEF UnlockApply, Return, Leave
<1>38. ASSUME NEW p \in Users, Disconnect(p) PROVE Pair'
  BY <1>38 DEF Disconnect, Start
<1>39. ASSUME NEW p \in Users, Switch(p) PROVE Pair'
  BY <1>39 DEF Switch, Start
<1>40. ASSUME NEW p \in Users, Restore(p) PROVE Pair'
  BY <1>40 DEF Restore, Start
<1>41. ASSUME NEW p \in Users, LockMode(p) PROVE Pair'
  BY <1>41 DEF LockMode
<1>42. ASSUME NEW p \in Users, Refresh(p) PROVE Pair'
  BY <1>42 DEF Refresh, Start
<1>43. ASSUME NEW p \in Users, Renew(p) PROVE Pair'
  BY <1>43 DEF Renew, resetRouteOps
<1>44. ASSUME NEW p \in Users, Finish(p) PROVE Pair'
  BY <1>44 DEF Finish, Leave
<1>45. CASE UNCHANGED vars
  BY <1>45
<1> HIDE DEF TypeOK, At, Goto, Free, Take, Mutexes, ControlFlow, DiscLabels,
         ApplyLabels, DialLabels, Polling, Turns, Alone, OneWord, NoWord,
         UserIdle, Loud, Pair, Dialling
<1> QED
  BY <1>1, <1>2, <1>3, <1>4, <1>5, <1>6, <1>7, <1>8, <1>9, <1>10, <1>11,
     <1>12, <1>13, <1>14, <1>15, <1>16, <1>17, <1>18, <1>19, <1>20, <1>21,
     <1>22, <1>23, <1>24, <1>25, <1>26, <1>27, <1>28, <1>29, <1>30, <1>31,
     <1>32, <1>33, <1>34, <1>35, <1>36, <1>37, <1>38, <1>39, <1>40, <1>41,
     <1>42, <1>43, <1>44, <1>45
  DEF Next, Monitor, Handler, Recovery, Teardown, Connect, Apply, Command

-----------------------------------------------------------------------------
(* The static routes. *)

\* Nobody cancels an application of the routes that is under way, so the table
\* holds all of them or none but while they are being added or removed.
Routes ==
  /\ \A p \in Actors :
       /\ pc[p] \in ApplyLabels => ~stale[p]
       /\ pc[p] \in {"cli", "down", "clear", "idle", "reset", "add"} => routes = "none"
       /\ pc[p] = "check" => routes = "full"
       /\ pc[p] = "active" /\ Split /\ backend = "cisco" => routes = "full"
  /\ routes = "partial" => \E p \in Actors : pc[p] = "adding"
  /\ Split /\ mstate = "active" /\ backend = "cisco"
       => \/ routes = "full"
          \/ \E p \in Actors : pc[p] \in {"add", "adding", "cli", "down", "clear"}

\* Whoever applies the routes ends with all of them or with an error that
\* leaves them as they were.
LEMMA RoutesStep ==
  ASSUME Sequential, TypeOK, ControlFlow, Turns, Places, Pair, Routes,
         [Next]_vars
  PROVE  Routes'
<1> USE SessionAssumption, Four
    DEF SessionAssumption, Sequential, TypeOK, At, Goto, Free, Take, Mutexes,
        vars, monitorVars, linkVars, ctxVars, userVars, bounds, ControlFlow,
        DiscLabels, ApplyLabels, DialLabels, Polling, Turns, Alone, OneWord,
        NoWord, UserIdle, Loud, Places, Pair, Dialling, Routes
<1>1. CASE Poll
  BY <1>1 DEF Poll, Presence
<1>2. CASE ReadState
  BY <1>2 DEF ReadState
<1>3. CASE PollSet
  BY <1>3 DEF PollSet, SetState
<1>4. ASSUME NEW p \in Actors, Send(p) PROVE Routes'
  BY <1>4 DEF Send
<1>5. CASE Receive
  BY <1>5 DEF Receive
<1>6. CASE Recover
  BY <1>6 DEF Recover
<1>7. CASE Drop
  BY <1>7 DEF Drop
<1>8. ASSUME NEW p \in Users, LockDisconnect(p) PROVE Routes'
  BY <1>8 DEF LockDisconnect
<1>9. ASSUME NEW p \in Actors, CancelRoutes(p) PROVE Routes'
  BY <1>9 DEF CancelRoutes, cancelActiveRouteOps
<1>10. ASSUME NEW p \in Actors, UsingTun(p) PROVE Routes'
  BY <1>10 DEF UsingTun
<1>11. ASSUME NEW p \in Actors, StopTun(p) PROVE Routes'
  BY <1>11 DEF StopTun
<1>12. ASSUME NEW p \in Actors, RemoveAllRoutes(p) PROVE Routes'
  BY <1>12 DEF RemoveAllRoutes
<1>13. ASSUME NEW p \in Users, UsingCli(p) PROVE Routes'
  BY <1>13 DEF UsingCli
<1>14. ASSUME NEW p \in Users, CliDown(p) PROVE Routes'
  BY <1>14 DEF CliDown
<1>15. ASSUME NEW p \in Actors, ClearBackend(p) PROVE Routes'
  BY <1>15 DEF ClearBackend
<1>16. ASSUME NEW p \in Actors, SetIdle(p) PROVE Routes'
  BY <1>16 DEF SetIdle, SetState
<1>17. ASSUME NEW p \in Actors, ResetAfter(p) PROVE Routes'
  BY <1>17 DEF ResetAfter, resetRouteOps, Leave
<1>18. ASSUME NEW p \in Actors, BeginConnect(p) PROVE Routes'
  BY <1>18 DEF BeginConnect, resetRouteOps, FirstBackend
<1>19. ASSUME NEW p \in Actors, TunBegin(p) PROVE Routes'
  BY <1>19 DEF TunBegin
<1>20. ASSUME NEW p \in Actors, TunEnd(p) PROVE Routes'
  BY <1>20 DEF TunEnd
<1>21. ASSUME NEW p \in Actors, TunStop(p) PROVE Routes'
  BY <1>21 DEF TunStop
<1>22. ASSUME NEW p \in Actors, Prepare(p) PROVE Routes'
  BY <1>22 DEF Prepare
<1>23. ASSUME NEW p \in Actors, Dial(p) PROVE Routes'
  BY <1>23 DEF Dial
<1>24. ASSUME NEW p \in Actors, SetBackend(p) PROVE Routes'
  BY <1>24 DEF SetBackend
<1>25. ASSUME NEW p \in Actors, SetConnected(p) PROVE Routes'
  BY <1>25 DEF SetConnected, SetState
<1>26. ASSUME NEW p \in Actors, ConnectFailed(p) PROVE Routes'
  BY <1>26 DEF ConnectFailed, cancelActiveRouteOps
<1>27. ASSUME NEW p \in Actors, LockApply(p) PROVE Routes'
  BY <1>27 DEF LockApply, Return, Leave
<1>28. ASSUME NEW p \in Actors, ByBackend(p) PROVE Routes'
  BY <1>28 DEF ByBackend
<1>29. ASSUME NEW p \in Actors, RefreshTun(p) PROVE Routes'
  BY <1>29 DEF RefreshTun, Return, Leave
<1>30. ASSUME NEW p \in Actors, PlanStatic(p) PROVE Routes'
  BY <1>30 DEF PlanStatic, Return, Leave
<1>31. ASSUME NEW p \in Actors, Purge(p) PROVE Routes'
  BY <1>31 DEF Purge
<1>32. ASSUME NEW p \in Actors, Purged(p) PROVE Routes'
  BY <1>32 DEF Purged, Return, Leave
<1>33. ASSUME NEW p \in Actors, Add(p) PROVE Routes'
  BY <1>33 DEF Add, Return, Leave
<1>34. ASSUME NEW p \in Actors, Added(p) PROVE Routes'
  BY <1>34 DEF Added
<1>35. ASSUME NEW p \in Actors, CheckContext(p) PROVE Routes'
  BY <1>35 DEF CheckContext, Return, Leave
<1>36. ASSUME NEW p \in Actors, SetActive(p) PROVE Routes'
  BY <1>36 DEF SetActive, SetState
<1>37. ASSUME NEW p \in Actors, UnlockApply(p) PROVE Routes'
  BY <1>37 DEF UnlockApply, Return, Leave
<1>38. ASSUME NEW p \in Users, Disconnect(p) PROVE Routes'
  BY <1>38 DEF Disconnect, Start
<1>39. ASSUME NEW p \in Users, Switch(p) PROVE Routes'
  BY <1>39 DEF Switch, Start
<1>40. ASSUME NEW p \in Users, Restore(p) PROVE Routes'
  BY <1>40 DEF Restore, Start
<1>41. ASSUME NEW p \in Users, LockMode(p) PROVE Routes'
  BY <1>41 DEF LockMode
<1>42. ASSUME NEW p \in Users, Refresh(p) PROVE Routes'
  BY <1>42 DEF Refresh, Start
<1>43. ASSUME NEW p \in Users, Renew(p) PROVE Routes'
  BY <1>43 DEF Renew, resetRouteOps
<1>44. ASSUME NEW p \in Users, Finish(p) PROVE Routes'
  BY <1>44 DEF Finish, Leave
<1>45. CASE UNCHANGED vars
  BY <1>45
<1> HIDE DEF TypeOK, At, Goto, Free, Take, Mutexes, ControlFlow, DiscLabels,
         ApplyLabels, DialLabels, Polling, Turns, Alone, OneWord, NoWord,
         UserIdle, Loud, Places, Pair, Dialling, Routes
<1> QED
  BY <1>1, <1>2, <1>3, <1>4, <1>5, <1>6, <1>7, <1>8, <1>9, <1>10, <1>11,
     <1>12, <1>13, <1>14, <1>15, <1>16, <1>17, <1>18, <1>19, <1>20, <1>21,
     <1>22, <1>23, <1>24, <1>25, <1>26, <1>27, <1>28, <1>29, <1>30, <1>31,
     <1>32, <1>33, <1>34, <1>35, <1>36, <1>37, <1>38, <1>39, <1>40, <1>41,
     <1>42, <1>43, <1>44, <1>45
  DEF Next, Monitor, Handler, Recovery, Teardown, Connect, Apply, Command

\* In Idle there are none, but for the application at start-up.
Gone ==
  ~Kept /\ mstate = "idle" /\ routes # "none" => pc[Boot] \in {"adding", "check", "active"}

\* The state becomes Idle only after the routes have been removed.
LEMMA GoneStep ==
  ASSUME Sequential, TypeOK, ControlFlow, Turns, Places, Routes, Gone,
         [Next]_vars
  PROVE  Gone'
<1> USE SessionAssumption, Four
    DEF SessionAssumption, Sequential, TypeOK, At, Goto, Free, Take, Mutexes,
        vars, monitorVars, linkVars, ctxVars, userVars, bounds, ControlFlow,
        DiscLabels, ApplyLabels, DialLabels, Polling, Turns, Alone, OneWord,
        NoWord, UserIdle, Loud, Places, Routes, Gone
<1>1. CASE Poll
  BY <1>1 DEF Poll, Presence
<1>2. CASE ReadState
  BY <1>2 DEF ReadState
<1>3. CASE PollSet
  BY <1>3 DEF PollSet, SetState
<1>4. ASSUME NEW p \in Actors, Send(p) PROVE Gone'
  BY <1>4 DEF Send
<1>5. CASE Receive
  BY <1>5 DEF Receive
<1>6. CASE Recover
  BY <1>6 DEF Recover
<1>7. CASE Drop
  BY <1>7 DEF Drop
<1>8. ASSUME NEW p \in Users, LockDisconnect(p) PROVE Gone'
  BY <1>8 DEF LockDisconnect
<1>9. ASSUME NEW p \in Actors, CancelRoutes(p) PROVE Gone'
  BY <1>9 DEF CancelRoutes, cancelActiveRouteOps
<1>10. ASSUME NEW p \in Actors, UsingTun(p) PROVE Gone'
  BY <1>10 DEF UsingTun
<1>11. ASSUME NEW p \in Actors, StopTun(p) PROVE Gone'
  BY <1>11 DEF StopTun
<1>12. ASSUME NEW p \in Actors, RemoveAllRoutes(p) PROVE Gone'
  BY <1>12 DEF RemoveAllRoutes
<1>13. ASSUME NEW p \in Users, UsingCli(p) PROVE Gone'
  BY <1>13 DEF UsingCli
<1>14. ASSUME NEW p \in Users, CliDown(p) PROVE Gone'
  BY <1>14 DEF CliDown
<1>15. ASSUME NEW p \in Actors, ClearBackend(p) PROVE Gone'
  BY <1>15 DEF ClearBackend
<1>16. ASSUME NEW p \in Actors, SetIdle(p) PROVE Gone'
  BY <1>16 DEF SetIdle, SetState
<1>17. ASSUME NEW p \in Actors, ResetAfter(p) PROVE Gone'
  BY <1>17 DEF ResetAfter, resetRouteOps, Leave
<1>18. ASSUME NEW p \in Actors, BeginConnect(p) PROVE Gone'
  BY <1>18 DEF BeginConnect, resetRouteOps, FirstBackend
<1>19. ASSUME NEW p \in Actors, TunBegin(p) PROVE Gone'
  BY <1>19 DEF TunBegin
<1>20. ASSUME NEW p \in Actors, TunEnd(p) PROVE Gone'
  BY <1>20 DEF TunEnd
<1>21. ASSUME NEW p \in Actors, TunStop(p) PROVE Gone'
  BY <1>21 DEF TunStop
<1>22. ASSUME NEW p \in Actors, Prepare(p) PROVE Gone'
  BY <1>22 DEF Prepare
<1>23. ASSUME NEW p \in Actors, Dial(p) PROVE Gone'
  BY <1>23 DEF Dial
<1>24. ASSUME NEW p \in Actors, SetBackend(p) PROVE Gone'
  BY <1>24 DEF SetBackend
<1>25. ASSUME NEW p \in Actors, SetConnected(p) PROVE Gone'
  BY <1>25 DEF SetConnected, SetState
<1>26. ASSUME NEW p \in Actors, ConnectFailed(p) PROVE Gone'
  BY <1>26 DEF ConnectFailed, cancelActiveRouteOps
<1>27. ASSUME NEW p \in Actors, LockApply(p) PROVE Gone'
  BY <1>27 DEF LockApply, Return, Leave
<1>28. ASSUME NEW p \in Actors, ByBackend(p) PROVE Gone'
  BY <1>28 DEF ByBackend
<1>29. ASSUME NEW p \in Actors, RefreshTun(p) PROVE Gone'
  BY <1>29 DEF RefreshTun, Return, Leave
<1>30. ASSUME NEW p \in Actors, PlanStatic(p) PROVE Gone'
  BY <1>30 DEF PlanStatic, Return, Leave
<1>31. ASSUME NEW p \in Actors, Purge(p) PROVE Gone'
  BY <1>31 DEF Purge
<1>32. ASSUME NEW p \in Actors, Purged(p) PROVE Gone'
  BY <1>32 DEF Purged, Return, Leave
<1>33. ASSUME NEW p \in Actors, Add(p) PROVE Gone'
  BY <1>33 DEF Add, Return, Leave
<1>34. ASSUME NEW p \in Actors, Added(p) PROVE Gone'
  BY <1>34 DEF Added
<1>35. ASSUME NEW p \in Actors, CheckContext(p) PROVE Gone'
  BY <1>35 DEF CheckContext, Return, Leave
<1>36. ASSUME NEW p \in Actors, SetActive(p) PROVE Gone'
  BY <1>36 DEF SetActive, SetState
<1>37. ASSUME NEW p \in Actors, UnlockApply(p) PROVE Gone'
  BY <1>37 DEF UnlockApply, Return, Leave
<1>38. ASSUME NEW p \in Users, Disconnect(p) PROVE Gone'
  BY <1>38 DEF Disconnect, Start
<1>39. ASSUME NEW p \in Users, Switch(p) PROVE Gone'
  BY <1>39 DEF Switch, Start
<1>40. ASSUME NEW p \in Users, Restore(p) PROVE Gone'
  BY <1>40 DEF Restore, Start
<1>41. ASSUME NEW p \in Users, LockMode(p) PROVE Gone'
  BY <1>41 DEF LockMode
<1>42. ASSUME NEW p \in Users, Refresh(p) PROVE Gone'
  BY <1>42 DEF Refresh, Start
<1>43. ASSUME NEW p \in Users, Renew(p) PROVE Gone'
  BY <1>43 DEF Renew, resetRouteOps
<1>44. ASSUME NEW p \in Users, Finish(p) PROVE Gone'
  BY <1>44 DEF Finish, Leave
<1>45. CASE UNCHANGED vars
  BY <1>45
<1> HIDE DEF TypeOK, At, Goto, Free, Take, Mutexes, ControlFlow, DiscLabels,
         ApplyLabels, DialLabels, Polling, Turns, Alone, OneWord, NoWord,
         UserIdle, Loud, Places, Routes, Gone
<1> QED
  BY <1>1, <1>2, <1>3, <1>4, <1>5, <1>6, <1>7, <1>8, <1>9, <1>10, <1>11,
     <1>12, <1>13, <1>14, <1>15, <1>16, <1>17, <1>18, <1>19, <1>20, <1>21,
     <1>22, <1>23, <1>24, <1>25, <1>26, <1>27, <1>28, <1>29, <1>30, <1>31,
     <1>32, <1>33, <1>34, <1>35, <1>36, <1>37, <1>38, <1>39, <1>40, <1>41,
     <1>42, <1>43, <1>44, <1>45
  DEF Next, Monitor, Handler, Recovery, Teardown, Connect, Apply, Command

-----------------------------------------------------------------------------
(* The loss of a link. *)

\* As long as no link was lost, it is up wherever the state says connected, and
\* nobody looks after a loss.
Loss ==
  drops = 0 =>
    /\ pc["rec"] = "rest" /\ mstate # "cleaning"
    /\ pc["hnd"] \notin DiscLabels \cup {"recover"}
    /\ pc["mon"] # "poll" => (seen = "connected" <=> LinkUp)
    /\ pc["mon"] = "set" => seen = "connected"
    /\ mstate \in {"connected", "active"} /\ pc[Boot] \notin DiscLabels => LinkUp
    /\ pc[Boot] \in {"lockApply", "connected"} \cup ApplyLabels => LinkUp
    /\ pc[Boot] = "setTun" => tun = "up"
    /\ pc[Boot] = "setCisco" => cisco

\* A poll finds what is there, and no step but a loss takes a link away that
\* the state counts on.
LEMMA LossStep ==
  ASSUME Sequential, TypeOK, ControlFlow, Turns, Places, Pair, Loss,
         [Next]_vars
  PROVE  Loss'
<1> USE SessionAssumption, Four
    DEF SessionAssumption, Sequential, TypeOK, At, Goto, Free, Take, Mutexes,
        vars, monitorVars, linkVars, ctxVars, userVars, bounds, ControlFlow,
        DiscLabels, ApplyLabels, DialLabels, Polling, Turns, Alone, OneWord,
        NoWord, UserIdle, Loud, Places, Pair, Dialling, Loss, LinkUp
<1>1. CASE Poll
  BY <1>1 DEF Poll, Presence
<1>2. CASE ReadState
  BY <1>2 DEF ReadState
<1>3. CASE PollSet
  BY <1>3 DEF PollSet, SetState
<1>4. ASSUME NEW p \in Actors, Send(p) PROVE Loss'
  BY <1>4 DEF Send
<1>5. CASE Receive
  BY <1>5 DEF Receive
<1>6. CASE Recover
  BY <1>6 DEF Recover
<1>7. CASE Drop
  BY <1>7 DEF Drop
<1>8. ASSUME NEW p \in Users, LockDisconnect(p) PROVE Loss'
  BY <1>8 DEF LockDisconnect
<1>9. ASSUME NEW p \in Actors, CancelRoutes(p) PROVE Loss'
  BY <1>9 DEF CancelRoutes, cancelActiveRouteOps
<1>10. ASSUME NEW p \in Actors, UsingTun(p) PROVE Loss'
  BY <1>10 DEF UsingTun
<1>11. ASSUME NEW p \in Actors, StopTun(p) PROVE Loss'
  BY <1>11 DEF StopTun
<1>12. ASSUME NEW p \in Actors, RemoveAllRoutes(p) PROVE Loss'
  BY <1>12 DEF RemoveAllRoutes
<1>13. ASSUME NEW p \in Users, UsingCli(p) PROVE Loss'
  BY <1>13 DEF UsingCli
<1>14. ASSUME NEW p \in Users, CliDown(p) PROVE Loss'
  BY <1>14 DEF CliDown
<1>15. ASSUME NEW p \in Actors, ClearBackend(p) PROVE Loss'
  BY <1>15 DEF ClearBackend
<1>16. ASSUME NEW p \in Actors, SetIdle(p) PROVE Loss'
  BY <1>16 DEF SetIdle, SetState
<1>17. ASSUME NEW p \in Actors, ResetAfter(p) PROVE Loss'
  BY <1>17 DEF ResetAfter, resetRouteOps, Leave
<1>18. ASSUME NEW p \in Actors, BeginConnect(p) PROVE Loss'
  BY <1>18 DEF BeginConnect, resetRouteOps, FirstBackend
<1>19. ASSUME NEW p \in Actors, TunBegin(p) PROVE Loss'
  BY <1>19 DEF TunBegin
<1>20. ASSUME NEW p \in Actors, TunEnd(p) PROVE Loss'
  BY <1>20 DEF TunEnd
<1>21. ASSUME NEW p \in Actors, TunStop(p) PROVE Loss'
  BY <1>21 DEF TunStop
<1>22. ASSUME NEW p \in Actors, Prepare(p) PROVE Loss'
  BY <1>22 DEF Prepare
<1>23. ASSUME NEW p \in Actors, Dial(p) PROVE Loss'
  BY <1>23 DEF Dial
<1>24. ASSUME NEW p \in Actors, SetBackend(p) PROVE Loss'
  BY <1>24 DEF SetBackend
<1>25. ASSUME NEW p \in Actors, SetConnected(p) PROVE Loss'
  BY <1>25 DEF SetConnected, SetState
<1>26. ASSUME NEW p \in Actors, ConnectFailed(p) PROVE Loss'
  BY <1>26 DEF ConnectFailed, cancelActiveRouteOps
<1>27. ASSUME NEW p \in Actors, LockApply(p) PROVE Loss'
  BY <1>27 DEF LockApply, Return, Leave
<1>28. ASSUME NEW p \in Actors, ByBackend(p) PROVE Loss'
  BY <1>28 DEF ByBackend
<1>29. ASSUME NEW p \in Actors, RefreshTun(p) PROVE Loss'
  BY <1>29 DEF RefreshTun, Return, Leave
<1>30. ASSUME NEW p \in Actors, PlanStatic(p) PROVE Loss'
  BY <1>30 DEF PlanStatic, Return, Leave
<1>31. ASSUME NEW p \in Actors, Purge(p) PROVE Loss'
  BY <1>31 DEF Purge
<1>32. ASSUME NEW p \in Actors, Purged(p) PROVE Loss'
  BY <1>32 DEF Purged, Return, Leave
<1>33. ASSUME NEW p \in Actors, Add(p) PROVE Loss'
  BY <1>33 DEF Add, Return, Leave
<1>34. ASSUME NEW p \in Actors, Added(p) PROVE Loss'
  BY <1>34 DEF Added
<1>35. ASSUME NEW p \in Actors, CheckContext(p) PROVE Loss'
  BY <1>35 DEF CheckContext, Return, Leave
<1>36. ASSUME NEW p \in Actors, SetActive(p) PROVE Loss'
  BY <1>36 DEF SetActive, SetState
<1>37. ASSUME NEW p \in Actors, UnlockApply(p) PROVE Loss'
  BY <1>37 DEF UnlockApply, Return, Leave
<1>38. ASSUME NEW p \in Users, Disconnect(p) PROVE Loss'
  BY <1>38 DEF Disconnect, Start
<1>39. ASSUME NEW p \in Users, Switch(p) PROVE Loss'
  BY <1>39 DEF Switch, Start
<1>40. ASSUME NEW p \in Users, Restore(p) PROVE Loss'
  BY <1>40 DEF Restore, Start
<1>41. ASSUME NEW p \in Users, LockMode(p) PROVE Loss'
  BY <1>41 DEF LockMode
<1>42. ASSUME NEW p \in Users, Refresh(p) PROVE Loss'
  BY <1>42 DEF Refresh, Start
<1>43. ASSUME NEW p \in Users, Renew(p) PROVE Loss'
  BY <1>43 DEF Renew, resetRouteOps
<1>44. ASSUME NEW p \in Users, Finish(p) PROVE Loss'
  BY <1>44 DEF Finish, Leave
<1>45. CASE UNCHANGED vars
  BY <1>45
<1> HIDE DEF TypeOK, At, Goto, Free, Take, Mutexes, ControlFlow, DiscLabels,
         ApplyLabels, DialLabels, Polling, Turns, Alone, OneWord, NoWord,
         UserIdle, Loud, Places, Pair, Dialling, Loss, LinkUp
<1> QED
  BY <1>1, <1>2, <1>3, <1>4, <1>5, <1>6, <1>7, <1>8, <1>9, <1>10, <1>11,
     <1>12, <1>13, <1>14, <1>15, <1>16, <1>17, <1>18, <1>19, <1>20, <1>21,
     <1>22, <1>23, <1>24, <1>25, <1>26, <1>27, <1>28, <1>29, <1>30, <1>31,
     <1>32, <1>33, <1>34, <1>35, <1>36, <1>37, <1>38, <1>39, <1>40, <1>41,
     <1>42, <1>43, <1>44, <1>45
  DEF Next, Monitor, Handler, Recovery, Teardown, Connect, Apply, Command

-----------------------------------------------------------------------------
(* The theorems. *)

\* The inductive invariant of sequential instances.
SeqInv ==
  TypeOK /\ ControlFlow /\ Turns /\ Places /\ Pair /\ Routes /\ Gone /\ Loss

LEMMA SeqInit == ASSUME Sequential, Init PROVE SeqInv
<1>1. TypeOK /\ ControlFlow
  BY TypeInit, FlowInit
<1>2. /\ mstate = "idle" /\ queue = <<>> /\ \A p \in Actors : outbox[p] = "none"
      /\ pc["mon"] = "poll" /\ pc["hnd"] = "wait" /\ pc["rec"] = "rest"
      /\ pc[Boot] \in {"rest", "lockApply"} /\ op[Boot] = "apply"
  BY Four DEF Init, FirstLabel
<1>3. \A p \in Actors : pc[p] \in {"poll", "wait", "rest", "lockApply"}
  BY <1>2, Four
<1>4. Turns
  BY <1>2, Four DEF Turns, Alone, OneWord, NoWord, UserIdle, Polling, Loud
<1>5. Places
  BY <1>2, <1>3 DEF Places, DiscLabels, ApplyLabels, DialLabels
<1>6. Pair
  BY <1>3 DEF Init, FirstConnection, Pair, Dialling, DialLabels
<1>7. Routes
  BY <1>2, <1>3 DEF Init, Routes, ApplyLabels
<1>8. Gone
  BY DEF Init, Gone
<1>9. Loss
  BY <1>2, <1>3 DEF Init, FirstConnection, Loss, LinkUp, DiscLabels, ApplyLabels
<1>10. QED
  BY <1>1, <1>4, <1>5, <1>6, <1>7, <1>8, <1>9 DEF SeqInv

LEMMA SeqStep == ASSUME Sequential, SeqInv, [Next]_vars PROVE SeqInv'
  BY TypeStep, FlowStep, TurnsStep, PlacesStep, PairStep, RoutesStep, GoneStep, LossStep
     DEF SeqInv

\* When all have finished.
LEMMA AtRest ==
  ASSUME Sequential, ControlFlow, Settled
  PROVE  pc[Boot] = "rest" /\ \A p \in Actors : pc[p] \in {"poll", "read", "set", "wait", "rest"}
<1>1. pc["hnd"] = "wait" /\ pc["rec"] = "rest" /\ pc[Boot] = "rest"
  BY Four DEF Settled, Handled, Sequential
<1>2. pc["mon"] \in {"poll", "read", "set"}
  BY DEF ControlFlow
<1>3. QED
  BY <1>1, <1>2, Four

\* SeqInv holds in every sequential instance.
THEOREM SequentialInvariant == ASSUME Sequential PROVE Spec => []SeqInv
<1>1. Init => SeqInv
  BY SeqInit
<1>2. SeqInv /\ [Next]_vars => SeqInv'
  BY SeqStep
<1>3. QED
  BY <1>1, <1>2, PTL DEF Spec

\* Once the session is down and everybody has finished, no static route is left
\* in the table (disconnectSessionContext, the Cleaning branch of the handler);
\* an instance that starts with the routes of the last run is left out.
THEOREM RoutesRemoved == ASSUME Sequential, ~Kept PROVE Spec => []RoutesGoneAtIdle
<1>1. SeqInv => RoutesGoneAtIdle
  BY AtRest DEF SeqInv, Gone, RoutesGoneAtIdle
<1>2. QED
  BY <1>1, SequentialInvariant, PTL

\* For an Active session on Cisco every batch of the static routes has been tried:
\* no earlier application or removal left a part that applySplitRoutes(false)
\* would take for the whole.
THEOREM RoutesComplete == ASSUME Sequential PROVE Spec => []RoutesWhileActive
<1>1. SeqInv => RoutesWhileActive
  BY AtRest DEF SeqInv, Routes, RoutesWhileActive, TypeOK
<1>2. QED
  BY <1>1, SequentialInvariant, PTL

\* No OpenConnect or sing-box process outlives the backend that owns it:
\* disconnectSessionContext and connectWithBestBackendContext stop the pair
\* before activeBackend forgets it.
THEOREM NoOrphans == ASSUME Sequential PROVE Spec => []NoOrphanTunnel
<1>1. SeqInv => NoOrphanTunnel
  BY AtRest DEF SeqInv, Pair, NoOrphanTunnel
<1>2. QED
  BY <1>1, SequentialInvariant, PTL

\* recoverUnexpectedDisconnect runs only after a backend has failed, whatever
\* commands, failing dials and polls there were.
THEOREM NothingRecoveredUnlost == ASSUME Sequential PROVE Spec => []RecoveryNeedsLoss
<1>1. SeqInv => RecoveryNeedsLoss
  BY AtRest DEF SeqInv, Loss, RecoveryNeedsLoss
<1>2. QED
  BY <1>1, SequentialInvariant, PTL
=============================================================================
