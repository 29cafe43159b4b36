------------------------ MODULE AndroidServiceProofs ------------------------
(***************************************************************************)
(* Proofs about AndroidService for every number of commands and faults: the *)
(* engine that a stop reaches is the one at work, a disconnect holds over   *)
(* kills and restarts of the process, and the status is true.              *)
(***************************************************************************)
EXTENDS AndroidService, WellFoundedInduction, TLAPS

FieldTypes ==
  /\ main \in {"idle", "cancel", "clear", "join", "finish"}
  /\ {gen, engine, worker} \subseteq Generations \cup {0}
  /\ thread \in [Generations -> Threads]

\* The current generation is that of the last worker, and only while the main
\* thread is at rest: stopConnection ends it first and joins its worker last.
CurrentInv ==
  /\ gen # 0 => gen = worker /\ main = "idle"
  /\ main = "idle" /\ gen = 0 => worker = 0

\* Where a worker can be that the main thread no longer waits for: inside its
\* last connect or on its way out of it.
Late == {"done", "run", "after", "decide"}

LateInv ==
  \A g \in Generations : g # worker \/ main = "finish" => At(g) \in Late

IInv == FieldTypes /\ CurrentInv /\ LateInv /\ StopReaches

-----------------------------------------------------------------------------
(* Steps of a thread. *)

LEMMA CallsTyped ==
  /\ Fresh \in Calls
  /\ \A c \in Calls : Own(c) \subseteq Calls /\ Hears(c) \subseteq Calls
<1>1. Fresh \in Calls
  BY DEF Fresh, Calls, Outcomes
<1>2. ASSUME NEW c \in Calls PROVE Own(c) \subseteq Calls /\ Hears(c) \subseteq Calls
  <2>1. Begun(c) \in Calls
    BY DEF Begun, Calls
  <2>2. Risen(c) \subseteq Calls
    BY ZenonT(30) DEF Risen, Calls
  <2>3. Ended(c) \subseteq Calls
    BY ZenonT(30) DEF Ended, Calls, Outcomes
  <2>4. Hears(c) \subseteq Calls
    BY DEF Hears, Calls
  <2>5. Own(c) \subseteq Calls
    <3>1. c.phase \in {"load", "live", "over"}
      BY DEF Calls
    <3>2. QED
      BY <2>1, <2>2, <2>3, <3>1 DEF Own
  <2>6. QED
    BY <2>4, <2>5
<1>3. QED
  BY <1>1, <1>2

LEMMA IdleTyped == Idle \in Threads /\ Idle.at = "done"
  BY CallsTyped DEF Idle, Threads

\* A step of the thread of g moves that thread and no other.
LEMMA Moved ==
  ASSUME FieldTypes, NEW g \in Generations, NEW t \in Threads,
         thread' = [thread EXCEPT ![g] = t]
  PROVE  /\ thread' \in [Generations -> Threads]
         /\ At(g)' = t.at
         /\ \A h \in Generations : h # g => At(h)' = At(h)
  BY DEF FieldTypes, At

\* The records a thread can become.
LEMMA ThreadTyped ==
  ASSUME FieldTypes, NEW g \in Generations
  PROVE  /\ thread[g] \in Threads
         /\ \A l \in Busy \cup {"done"} :
              /\ [thread[g] EXCEPT !.at = l] \in Threads
              /\ [thread[g] EXCEPT !.at = l].at = l
         /\ \A c \in Calls : /\ [thread[g] EXCEPT !.call = c] \in Threads
                             /\ [thread[g] EXCEPT !.call = c].at = At(g)
         /\ /\ [thread[g] EXCEPT !.interrupted = TRUE] \in Threads
            /\ [thread[g] EXCEPT !.interrupted = TRUE].at = At(g)
  BY DEF FieldTypes, Threads, At

\* A worker goes on and changes nothing the invariant reads but its own place:
\* it stays where it may be.
LEMMA WorkerGoesOn ==
  ASSUME IInv, NEW g \in Generations, NEW t \in Threads,
         thread' = [thread EXCEPT ![g] = t],
         UNCHANGED <<main, gen, worker, engine>>,
         t.at \in Late \/ At(g) \notin Late \/ gen = g,
         t.at \in {"wait", "run", "announce"}
           => At(g) \in {"wait", "run", "announce"}
  PROVE  IInv'
<1>1. /\ thread' \in [Generations -> Threads] /\ At(g)' = t.at
      /\ \A h \in Generations : h # g => At(h)' = At(h)
  BY Moved DEF IInv
<1>2. FieldTypes' /\ CurrentInv'
  BY <1>1 DEF IInv, FieldTypes, CurrentInv
<1>3. LateInv'
  <2>1. gen = g => g = worker /\ main = "idle"
    BY DEF IInv, CurrentInv, Generations
  <2>2. QED
    BY <1>1, <2>1 DEF IInv, LateInv
<1>4. StopReaches'
  BY <1>1, <1>2 DEF IInv, StopReaches, FieldTypes
<1>5. QED
  BY <1>2, <1>3, <1>4 DEF IInv

\* A worker goes from one place to another.
LEMMA WorkerGoes ==
  ASSUME IInv, NEW g \in Generations,
         NEW from \in Busy, NEW to \in Busy, Goto(g, from, to),
         UNCHANGED <<main, gen, worker, engine>>,
         to \in Late \/ from \notin Late \/ gen = g,
         to \in {"wait", "run", "announce"}
           => from \in {"wait", "run", "announce"}
  PROVE  IInv'
<1> DEFINE t == [thread[g] EXCEPT !.at = to]
<1>1. t \in Threads /\ t.at = to
  BY ThreadTyped DEF IInv
<1>2. At(g) = from /\ thread' = [thread EXCEPT ![g] = t]
  BY DEF Goto, Step
<1>3. QED
  BY <1>1, <1>2, WorkerGoesOn

\* A worker ends.
LEMMA WorkerEnds ==
  ASSUME IInv, NEW g \in Generations, End(g),
         UNCHANGED <<main, gen, worker, engine>>
  PROVE  IInv'
<1>1. thread' = [thread EXCEPT ![g] = Idle]
  BY DEF End
<1>2. QED
  BY <1>1, IdleTyped, WorkerGoesOn DEF Late

-----------------------------------------------------------------------------
(* The invariant. *)

LEMMA InitInv == Init => IInv
<1> SUFFICES ASSUME Init PROVE IInv
  OBVIOUS
<1>1. FieldTypes
  BY IdleTyped DEF Init, FieldTypes
<1>2. CurrentInv /\ StopReaches
  BY DEF Init, CurrentInv, StopReaches
<1>3. LateInv
  BY IdleTyped DEF Init, LateInv, At, Late
<1>4. QED
  BY <1>1, <1>2, <1>3 DEF IInv

\* The death of the process leaves nothing at work.
LEMMA DieInv == ASSUME IInv, Die PROVE IInv'
<1>1. FieldTypes'
  BY IdleTyped DEF IInv, Die, FieldTypes
<1>2. CurrentInv' /\ StopReaches'
  BY DEF Die, CurrentInv, StopReaches
<1>3. LateInv'
  BY IdleTyped DEF Die, LateInv, At, Late
<1>4. QED
  BY <1>1, <1>2, <1>3 DEF IInv

LEMMA UserInv ==
  ASSUME IInv, (\E c \in UserCommands : Give(c)) \/ BringDown
  PROVE  IInv'
<1>1. UNCHANGED <<main, gen, worker, engine, thread>>
  BY DEF Give, BringDown, caller, fields
<1>2. QED
  BY <1>1 DEF IInv, FieldTypes, CurrentInv, LateInv, StopReaches, At

LEMMA HandleInv == ASSUME IInv, Handle PROVE IInv'
<1>1. CASE Take
  <2>1. /\ main = "idle" /\ main' = "cancel" /\ gen' = 0
        /\ UNCHANGED <<engine, worker, thread>>
    BY <1>1 DEF Take
  <2>2. QED
    BY <2>1 DEF IInv, FieldTypes, CurrentInv, LateInv, StopReaches, At
<1>2. CASE CancelEngine
  <2>1. /\ main = "cancel" /\ main' = "clear" /\ UNCHANGED <<gen, engine, worker>>
    BY <1>2 DEF CancelEngine, fields
  <2>2. gen = 0
    BY <2>1 DEF IInv, CurrentInv
  <2>3. /\ thread' \in [Generations -> Threads]
        /\ \A h \in Generations : At(h)' = At(h)
    <3>1. CASE UNCHANGED thread
      BY <3>1 DEF IInv, FieldTypes, At
    <3>2. CASE /\ engine # 0
               /\ \E d \in Hears(thread[engine].call) :
                    thread' = [thread EXCEPT ![engine].call = d]
      <4>1. engine \in Generations
        BY <3>2 DEF IInv, FieldTypes
      <4>2. PICK d \in Hears(thread[engine].call) :
                   thread' = [thread EXCEPT ![engine] = [thread[engine] EXCEPT !.call = d]]
        BY <3>2
      <4>3. d \in Calls
        BY <4>1, <4>2, ThreadTyped, CallsTyped DEF Threads, IInv
      <4>4. /\ [thread[engine] EXCEPT !.call = d] \in Threads
            /\ [thread[engine] EXCEPT !.call = d].at = At(engine)
        BY <4>1, <4>3, ThreadTyped DEF IInv
      <4>5. QED
        BY <4>1, <4>2, <4>4, Moved DEF IInv
    <3>3. QED
      BY <1>2, <3>1, <3>2 DEF CancelEngine
  <2>4. QED
    BY <2>1, <2>2, <2>3 DEF IInv, FieldTypes, CurrentInv, LateInv, StopReaches
<1>3. CASE Interrupt
  <2>1. /\ main = "clear" /\ main' = "join" /\ engine' = 0 /\ UNCHANGED <<gen, worker>>
    BY <1>3 DEF Interrupt
  <2>2. gen = 0
    BY <2>1 DEF IInv, CurrentInv
  <2>3. /\ thread' \in [Generations -> Threads]
        /\ \A h \in Generations : At(h)' = At(h)
    <3>1. CASE UNCHANGED thread
      BY <3>1 DEF IInv, FieldTypes, At
    <3>2. CASE /\ worker # 0
               /\ thread' = [thread EXCEPT ![worker].interrupted = TRUE]
      <4>1. worker \in Generations
        BY <3>2 DEF IInv, FieldTypes
      <4>2. thread' = [thread EXCEPT ![worker] =
                         [thread[worker] EXCEPT !.interrupted = TRUE]]
        BY <3>2
      <4>3. QED
        BY ZenonT(30), <4>1, <4>2, ThreadTyped, Moved DEF IInv
    <3>3. QED
      BY <1>3, <3>1, <3>2 DEF Interrupt
  <2>4. QED
    BY <2>1, <2>2, <2>3 DEF IInv, FieldTypes, CurrentInv, LateInv, StopReaches
<1>4. CASE Join
  <2>1. /\ main = "join" /\ main' = "finish"
        /\ UNCHANGED <<gen, engine, worker, thread>>
    BY <1>4 DEF Join, fields
  <2>2. gen = 0
    BY <2>1 DEF IInv, CurrentInv
  <2>3. worker # 0 => At(worker) \in Late
    BY <1>4 DEF Join, Late
  <2>4. \A h \in Generations : h = worker => worker # 0
    BY DEF Generations
  <2>5. LateInv'
    BY <2>1, <2>3, <2>4 DEF IInv, LateInv, At
  <2>6. QED
    BY <2>1, <2>2, <2>5 DEF IInv, FieldTypes, CurrentInv, StopReaches
<1>5. CASE FinishDisconnect \/ FinishDestroy
  <2>1. /\ main = "finish" /\ main' = "idle" /\ worker' = 0
        /\ UNCHANGED <<gen, engine, thread>>
    BY <1>5 DEF FinishDisconnect, FinishDestroy, Finish
  <2>2. gen = 0
    BY <2>1 DEF IInv, CurrentInv
  <2>3. QED
    BY <2>1, <2>2 DEF IInv, FieldTypes, CurrentInv, LateInv, StopReaches, At
<1>6. CASE FinishConnect
  <2>1. main = "finish" /\ main' = "idle" /\ engine' = engine
    BY <1>6 DEF FinishConnect, Finish
  <2>2. PICK g \in Generations :
          /\ gen' = g /\ worker' = g
          /\ thread' = [thread EXCEPT ![g] = [thread[g] EXCEPT !.at = "head"]]
    BY <1>6 DEF FinishConnect
  <2>3. /\ [thread[g] EXCEPT !.at = "head"] \in Threads
        /\ [thread[g] EXCEPT !.at = "head"].at = "head"
    BY ThreadTyped DEF IInv, Busy
  <2>4. /\ thread' \in [Generations -> Threads] /\ At(g)' = "head"
        /\ \A h \in Generations : h # g => At(h)' = At(h)
    BY <2>2, <2>3, Moved DEF IInv
  <2>5. FieldTypes'
    BY <2>1, <2>2, <2>4 DEF IInv, FieldTypes
  <2>6. CurrentInv' /\ StopReaches'
    BY <2>1, <2>2, <2>4 DEF CurrentInv, StopReaches, Generations
  <2>7. LateInv'
    BY <2>1, <2>2, <2>4 DEF IInv, LateInv
  <2>8. QED
    BY <2>5, <2>6, <2>7 DEF IInv
<1>7. QED
  BY <1>1, <1>2, <1>3, <1>4, <1>5, <1>6 DEF Handle

\* What connect does by itself keeps the worker inside it, or ends the call.
LEMMA ConnectsInv == ASSUME IInv, NEW g \in Generations, Connects(g) PROVE IInv'
<1>1. PICK d \in Own(thread[g].call) :
        LET t == [thread[g] EXCEPT !.call = d,
                    !.at = IF d.phase = "over" THEN "after" ELSE "run"]
        IN Step(g, "run", IF d.said /\ ~thread[g].call.said
                            THEN onConnected(g, t) ELSE t)
  BY DEF Connects
<1> DEFINE t == [thread[g] EXCEPT !.call = d,
                   !.at = IF d.phase = "over" THEN "after" ELSE "run"]
           u == IF d.said /\ ~thread[g].call.said THEN onConnected(g, t) ELSE t
<1>2. UNCHANGED <<main, gen, worker, engine>>
  BY DEF Connects, caller, fields
<1>3. At(g) = "run" /\ thread' = [thread EXCEPT ![g] = u]
  BY <1>1 DEF Step
<1>4. thread[g] \in Threads /\ d \in Calls
  BY ThreadTyped, CallsTyped DEF IInv, Threads
<1>5. t \in Threads /\ t.at \in {"after", "run"}
  BY <1>4 DEF Threads, Busy
<1>6. /\ u \in Threads
      /\ u.at \in Late \/ gen = g
  <2>1. u = t \/ (gen = g /\ u = [t EXCEPT !.at = "announce", !.hasConnected = TRUE,
                                          !.reauthenticationAttempted = FALSE])
    BY DEF onConnected
  <2>2. [t EXCEPT !.at = "announce", !.hasConnected = TRUE,
                  !.reauthenticationAttempted = FALSE] \in Threads
    BY <1>5 DEF Threads, Busy
  <2>3. QED
    BY <1>5, <2>1, <2>2 DEF Late
<1>7. QED
  <2> HIDE DEF u
  <2> QED
    BY <1>2, <1>3, <1>6, WorkerGoesOn

LEMMA MakeEngineInv == ASSUME IInv, NEW g \in Generations, MakeEngine(g) PROVE IInv'
<1> DEFINE t == [thread[g] EXCEPT !.at = "wait", !.call = Fresh]
<1>1. /\ At(g) = "make" /\ thread' = [thread EXCEPT ![g] = t]
      /\ engine' = g /\ UNCHANGED <<main, gen, worker>>
  BY DEF MakeEngine, Step, caller
<1>2. t \in Threads /\ t.at = "wait"
  <2>1. thread[g] \in Threads /\ Fresh \in Calls
    BY ThreadTyped, CallsTyped DEF IInv
  <2>2. QED
    BY <2>1 DEF Threads, Busy
<1>3. /\ thread' \in [Generations -> Threads] /\ At(g)' = "wait"
      /\ \A h \in Generations : h # g => At(h)' = At(h)
  BY <1>1, <1>2, Moved DEF IInv
<1>4. g = worker /\ main # "finish"
  BY <1>1 DEF IInv, LateInv, Late
<1>5. gen # 0 => gen = g
  BY <1>4 DEF IInv, CurrentInv
<1>6. FieldTypes' /\ CurrentInv'
  BY <1>1, <1>3 DEF IInv, FieldTypes, CurrentInv
<1>7. LateInv'
  BY <1>1, <1>3, <1>4 DEF IInv, LateInv
<1>8. StopReaches'
  BY <1>1, <1>5 DEF StopReaches
<1>9. QED
  BY <1>6, <1>7, <1>8 DEF IInv

\* A worker that leaves connect forgets the engine only if it is its own.
LEMMA AfterInv == ASSUME IInv, NEW g \in Generations, After(g) PROVE IInv'
<1>1. /\ At(g) = "after" /\ engine' = (IF engine = g THEN 0 ELSE engine)
      /\ UNCHANGED <<main, gen, worker>>
  BY DEF After, caller
<1>2. PICK t \in Threads : t.at \in {"done", "decide"} /\ thread' = [thread EXCEPT ![g] = t]
  BY IdleTyped, ThreadTyped DEF After, End, Goto, Step, IInv, Busy
<1>3. /\ thread' \in [Generations -> Threads] /\ At(g)' \in {"done", "decide"}
      /\ \A h \in Generations : h # g => At(h)' = At(h)
  BY <1>2, Moved DEF IInv
<1>4. FieldTypes' /\ CurrentInv'
  BY <1>1, <1>3 DEF IInv, FieldTypes, CurrentInv
<1>5. LateInv'
  BY <1>1, <1>3 DEF IInv, LateInv, Late
<1>6. StopReaches'
  BY <1>1, <1>3, <1>4 DEF IInv, StopReaches, FieldTypes
<1>7. QED
  BY <1>4, <1>5, <1>6 DEF IInv

\* A generation that is over decides to stop.
LEMMA DecideInv == ASSUME IInv, NEW g \in Generations, Decide(g) PROVE IInv'
<1> DEFINE t == [thread[g] EXCEPT !.call = Fresh]
<1>1. UNCHANGED <<main, gen, worker, engine>>
  BY DEF Decide, Quietly, caller, fields
<1>2. CASE decide(thread[g], gen = g) = "STOP" /\ End(g)
  BY <1>1, <1>2, WorkerEnds
<1>3. ASSUME NEW v \in Threads, gen = g, v.at \in {"fail", "again"},
             thread' = [thread EXCEPT ![g] = v]
      PROVE  IInv'
  BY <1>1, <1>3, WorkerGoesOn
<1>4. t \in Threads
  BY ThreadTyped, CallsTyped DEF IInv
<1>5. gen # g => decide(thread[g], gen = g) = "STOP"
  BY DEF decide
<1>6. CASE /\ decide(thread[g], gen = g) = "FAIL"
           /\ Step(g, "decide", [t EXCEPT !.at = "fail"])
  <2>1. gen = g
    BY <1>5, <1>6
  <2>2. [t EXCEPT !.at = "fail"] \in Threads /\ [t EXCEPT !.at = "fail"].at = "fail"
    BY <1>4 DEF Threads, Busy
  <2>3. QED
    BY <1>3, <1>6, <2>1, <2>2 DEF Step
<1>7. CASE /\ decide(thread[g], gen = g) = "REAUTHENTICATE"
           /\ Step(g, "decide", [t EXCEPT !.at = "again",
                                          !.reauthenticationAttempted = TRUE])
  <2> DEFINE v == [t EXCEPT !.at = "again", !.reauthenticationAttempted = TRUE]
  <2>1. gen = g
    BY <1>5, <1>7
  <2>2. v \in Threads /\ v.at = "again"
    BY <1>4 DEF Threads, Busy
  <2>3. QED
    BY <1>3, <1>7, <2>1, <2>2 DEF Step
<1>8. QED
  BY <1>2, <1>6, <1>7 DEF Decide

LEMMA NotReleasedInv == ASSUME IInv, NEW g \in Generations, NotReleased(g) PROVE IInv'
<1> DEFINE t == [thread[g] EXCEPT !.at = "after", !.call.phase = "over",
                                  !.call.outcome = "failed"]
<1>1. /\ At(g) = "wait" /\ thread' = [thread EXCEPT ![g] = t]
      /\ UNCHANGED <<main, gen, worker, engine>>
  BY DEF NotReleased, Step, Quietly, caller, fields
<1>2. t \in Threads /\ t.at = "after"
  <2>1. thread[g] \in Threads /\ thread[g].call \in Calls
    BY ThreadTyped DEF IInv, Threads
  <2>2. [thread[g].call EXCEPT !.phase = "over", !.outcome = "failed"] \in Calls
    BY <2>1 DEF Calls, Outcomes
  <2>3. t = [thread[g] EXCEPT !.at = "after",
               !.call = [thread[g].call EXCEPT !.phase = "over", !.outcome = "failed"]]
    BY <2>1 DEF Threads, Calls
  <2>4. QED
    BY <2>1, <2>2, <2>3 DEF Threads, Busy
<1>3. QED
  BY <1>1, <1>2, WorkerGoesOn DEF Late

LEMMA WorkerInv ==
  ASSUME IInv, NEW g \in Generations, Moves(g) \/ Connects(g) \/ AwaitNetwork(g)
  PROVE  IInv'
<1> USE DEF Late
<1>1. CASE LoopHead(g)
  <2>1. UNCHANGED <<main, gen, worker, engine>>
    BY <1>1 DEF LoopHead, Quietly, caller, fields
  <2>2. CASE End(g)
    BY <2>1, <2>2, WorkerEnds
  <2>3. CASE Goto(g, "head", "make")
    BY <2>1, <2>3, WorkerGoes DEF Busy
  <2>4. QED
    BY <1>1, <2>2, <2>3 DEF LoopHead
<1>2. CASE Released(g)
  BY <1>2, WorkerGoes DEF Released, Quietly, caller, fields, Busy
<1>3. CASE Announce(g)
  BY <1>3, WorkerGoes DEF Announce, caller, fields, Busy
<1>4. CASE Fail(g)
  BY <1>4, WorkerGoes DEF Fail, caller, fields, Busy
<1>5. CASE Quit(g)
  BY <1>5, WorkerEnds DEF Quit, caller, fields
<1>6. CASE Again(g)
  BY <1>6, WorkerGoes DEF Again, caller, fields, Busy
<1>7. CASE PollStopped(g)
  BY <1>7, WorkerGoes DEF PollStopped, Quietly, caller, fields, Busy
<1>8. CASE AwaitNetwork(g)
  <2>1. UNCHANGED <<main, gen, worker, engine>>
    BY <1>8 DEF AwaitNetwork, Quietly, caller, fields
  <2>2. CASE Goto(g, "delay", "poll")
    BY <2>1, <2>2, WorkerGoes DEF Busy
  <2>3. CASE Goto(g, "poll", "head")
    BY <2>1, <2>3, WorkerGoes DEF Busy
  <2>4. QED
    BY <1>8, <2>2, <2>3 DEF AwaitNetwork
<1>9. CASE Uncaught(g)
  BY <1>9, DieInv DEF Uncaught
<1>10. QED
  BY <1>1, <1>2, <1>3, <1>4, <1>5, <1>6, <1>7, <1>8, <1>9, NotReleasedInv,
     ConnectsInv, MakeEngineInv, AfterInv, DecideInv
     DEF Moves

LEMMA NextInv == ASSUME IInv, [Next]_vars PROVE IInv'
<1>1. CASE UNCHANGED vars
  <2>1. UNCHANGED <<main, gen, worker, engine, thread>>
    BY <1>1 DEF vars, caller, fields
  <2>2. QED
    BY <2>1 DEF IInv, FieldTypes, CurrentInv, LateInv, StopReaches, At
<1>2. CASE SystemKill
  BY <1>2, DieInv DEF SystemKill
<1>3. QED
  BY <1>1, <1>2, UserInv, HandleInv, WorkerInv DEF Next

-----------------------------------------------------------------------------
(* The engine. *)

\* From onStartCommand's first stopConnection to the engine of a second
\* connect, the field engine of AnyConnectVpnService.kt is the one of the worker
\* that runs the current connection, whatever an older worker that the join gave
\* up on clears when it ends: a stop cancels the connection it is meant for.
THEOREM StopsFindEngine == Spec => []StopReaches
<1>1. Init => IInv
  BY InitInv
<1>2. IInv /\ [Next]_vars => IInv'
  BY NextInv
<1>3. IInv => StopReaches
  BY DEF IInv
<1>4. QED
  BY <1>1, <1>2, <1>3, PTL DEF Spec

-----------------------------------------------------------------------------
(* Induction over the numbers. *)

\* The smallest number of a set, in the form the provers can use: a relation
\* in the place of the library's predicate.
LEMMA Smallest ==
  ASSUME NEW T \in SUBSET Nat, T # {}
  PROVE  \E m \in T : \A k \in T : m <= k
<1>1. IsWellFoundedOn(OpToRel(<, Nat), Nat)
  BY NatLessThanWellFounded
<1>2. PICK m \in T : \A k \in T : ~(<<k, m>> \in OpToRel(<, Nat))
  BY <1>1, WFMin
<1>3. \A k \in T : ~(k < m)
  BY <1>2 DEF OpToRel
<1>4. QED
  BY <1>3

LEMMA InductiveSet ==
  ASSUME NEW T \in SUBSET Nat, 0 \in T, \A n \in T : n + 1 \in T
  PROVE  \A n \in Nat : n \in T
<1> SUFFICES ASSUME \E n \in Nat : n \notin T PROVE FALSE
  OBVIOUS
<1>1. PICK m \in Nat \ T : \A k \in Nat \ T : m <= k
  BY Smallest
<1>2. m # 0 /\ m - 1 \in T
  BY <1>1
<1>3. QED
  BY <1>1, <1>2

-----------------------------------------------------------------------------
(* The commands that the system delivers again. *)

Orders == {"connect", "disconnect", "restore", "destroy"}

\* The equation that unfinished solves, up to the n-th command.
KeptBy(q, f, m) ==
  f = [n \in 0..m |->
         IF n = 0 THEN <<>>
         ELSE IF q[n] \in UserCommands THEN Append(f[n - 1], q[n])
                                       ELSE f[n - 1]]

\* It has a solution, whatever the queue.
LEMMA KeptExists ==
  ASSUME NEW q
  PROVE  \A m \in Nat : \E f : KeptBy(q, f, m)
<1> DEFINE T == {m \in Nat : \E f : KeptBy(q, f, m)}
<1>1. 0 \in T
  <2>1. KeptBy(q, [n \in 0..0 |-> <<>>], 0)
    BY DEF KeptBy
  <2>2. QED
    BY <2>1
<1>2. ASSUME NEW m \in T PROVE m + 1 \in T
  <2>1. PICK f : KeptBy(q, f, m)
    OBVIOUS
  <2> DEFINE l == IF q[m + 1] \in UserCommands THEN Append(f[m], q[m + 1]) ELSE f[m]
             g == [n \in 0..(m + 1) |-> IF n = m + 1 THEN l ELSE f[n]]
  <2>2. \A n \in 0..m : g[n] = f[n]
    OBVIOUS
  <2>3. \A n \in 0..m :
          f[n] = IF n = 0 THEN <<>>
                 ELSE IF q[n] \in UserCommands THEN Append(f[n - 1], q[n])
                                               ELSE f[n - 1]
    BY <2>1 DEF KeptBy
  <2>4. \A n \in 0..(m + 1) :
          g[n] = IF n = 0 THEN <<>>
                 ELSE IF q[n] \in UserCommands THEN Append(g[n - 1], q[n])
                                               ELSE g[n - 1]
    <3> TAKE n \in 0..(m + 1)
    <3>1. CASE n = m + 1
      <4>1. g[n] = l /\ g[n - 1] = f[m] /\ n # 0
        BY <3>1, <2>2
      <4> HIDE DEF g
      <4>2. QED
        BY <3>1, <4>1
    <3>2. CASE n \in 0..m
      <4>1. n # 0 => n - 1 \in 0..m
        BY <3>2
      <4>2. QED
        BY <3>2, <4>1, <2>2, <2>3
    <3>3. QED
      BY <3>1, <3>2
  <2>5. KeptBy(q, g, m + 1)
    BY <2>4 DEF KeptBy
  <2>6. QED
    BY <2>5
<1>3. \A m \in Nat : m \in T
  <2>1. T \in SUBSET Nat
    OBVIOUS
  <2> HIDE DEF T
  <2>2. QED
    BY <1>1, <1>2, <2>1, InductiveSet
<1>4. QED
  BY <1>3

\* s is the part of the first m of q that consists of the user's commands, in
\* the same order.
Keeps(q, m, s) ==
  /\ s \in Seq(UserCommands)
  /\ \E h \in [1..Len(s) -> 1..m] :
       /\ \A k \in 1..Len(s) : s[k] = q[h[k]]
       /\ \A k, l \in 1..Len(s) : k < l => h[k] < h[l]
       /\ \A i \in 1..m : q[i] \in UserCommands => \E k \in 1..Len(s) : h[k] = i

LEMMA KeepsOneMore ==
  ASSUME NEW q, NEW m \in Nat, NEW s, Keeps(q, m, s)
  PROVE  Keeps(q, m + 1, IF q[m + 1] \in UserCommands THEN Append(s, q[m + 1]) ELSE s)
<1>1. PICK h \in [1..Len(s) -> 1..m] :
       /\ \A k \in 1..Len(s) : s[k] = q[h[k]]
       /\ \A k, l \in 1..Len(s) : k < l => h[k] < h[l]
       /\ \A i \in 1..m : q[i] \in UserCommands => \E k \in 1..Len(s) : h[k] = i
  BY DEF Keeps
<1>2. s \in Seq(UserCommands) /\ Len(s) \in Nat
  BY DEF Keeps
<1>3. CASE q[m + 1] \notin UserCommands
  <2>1. h \in [1..Len(s) -> 1..(m + 1)]
    OBVIOUS
  <2>2. Keeps(q, m + 1, s)
    <3> SUFFICES \E e \in [1..Len(s) -> 1..(m + 1)] :
          /\ \A k \in 1..Len(s) : s[k] = q[e[k]]
          /\ \A k, l \in 1..Len(s) : k < l => e[k] < e[l]
          /\ \A i \in 1..(m + 1) : q[i] \in UserCommands => \E k \in 1..Len(s) : e[k] = i
      BY <1>2 DEF Keeps
    <3> WITNESS h \in [1..Len(s) -> 1..(m + 1)]
    <3>1. \A i \in 1..(m + 1) : i \in 1..m \/ i = m + 1
      OBVIOUS
    <3>2. QED
      BY <1>1, <1>3, <3>1
  <2>3. QED
    BY <1>3, <2>2
<1>4. CASE q[m + 1] \in UserCommands
  <2> DEFINE t == Append(s, q[m + 1])
             g == [k \in 1..(Len(s) + 1) |-> IF k = Len(s) + 1 THEN m + 1 ELSE h[k]]
  <2>1. /\ t \in Seq(UserCommands) /\ Len(t) = Len(s) + 1 /\ t[Len(s) + 1] = q[m + 1]
        /\ \A k \in 1..Len(s) : t[k] = s[k]
    BY <1>2, <1>4
  <2>2. /\ g \in [1..(Len(s) + 1) -> 1..(m + 1)] /\ g[Len(s) + 1] = m + 1
        /\ \A k \in 1..Len(s) : g[k] = h[k] /\ g[k] \in 1..m
    BY <1>2
  <2> HIDE DEF t, g
  <2>3. \A k \in 1..(Len(s) + 1) : k \in 1..Len(s) \/ k = Len(s) + 1
    BY <1>2
  <2>4. \A k \in 1..(Len(s) + 1) : t[k] = q[g[k]]
    BY <1>1, <2>1, <2>2, <2>3
  <2>5. \A k, l \in 1..(Len(s) + 1) : k < l => g[k] < g[l]
    <3> SUFFICES ASSUME NEW k \in 1..(Len(s) + 1), NEW l \in 1..(Len(s) + 1), k < l
                 PROVE  g[k] < g[l]
      OBVIOUS
    <3>1. k \in 1..Len(s)
      BY <1>2
    <3>2. CASE l = Len(s) + 1
      BY <2>2, <3>1, <3>2
    <3>3. CASE l \in 1..Len(s)
      BY <1>1, <2>2, <3>1, <3>3
    <3>4. QED
      BY <2>3, <3>2, <3>3
  <2>6. \A i \in 1..(m + 1) : q[i] \in UserCommands => \E k \in 1..(Len(s) + 1) : g[k] = i
    <3> SUFFICES ASSUME NEW i \in 1..(m + 1), q[i] \in UserCommands
                 PROVE  \E k \in 1..(Len(s) + 1) : g[k] = i
      OBVIOUS
    <3>1. CASE i = m + 1
      BY <1>2, <2>2, <3>1
    <3>2. CASE i \in 1..m
      BY <1>1, <1>2, <2>2, <3>2
    <3>3. QED
      BY <3>1, <3>2
  <2>7. Keeps(q, m + 1, t)
    <3> SUFFICES \E e \in [1..Len(t) -> 1..(m + 1)] :
          /\ \A k \in 1..Len(t) : t[k] = q[e[k]]
          /\ \A k, l \in 1..Len(t) : k < l => e[k] < e[l]
          /\ \A i \in 1..(m + 1) : q[i] \in UserCommands => \E k \in 1..Len(t) : e[k] = i
      BY <2>1 DEF Keeps
    <3>1. g \in [1..Len(t) -> 1..(m + 1)]
      BY <2>1, <2>2
    <3> WITNESS g \in [1..Len(t) -> 1..(m + 1)]
    <3>2. QED
      BY <2>1, <2>4, <2>5, <2>6
  <2>8. QED
    BY <1>4, <2>7 DEF t
<1>5. QED
  BY <1>3, <1>4

\* The restarted service gets the user's commands that were pending, all of
\* them and in their order.
LEMMA UnfinishedKeeps ==
  ASSUME pending \in Seq(Orders)
  PROVE  Keeps(pending, Len(pending), unfinished)
<1> DEFINE f == CHOOSE g : KeptBy(pending, g, Len(pending))
<1>1. Len(pending) \in Nat
  OBVIOUS
<1>2. KeptBy(pending, f, Len(pending))
  BY <1>1, KeptExists
<1>3. unfinished = f[Len(pending)]
  BY DEF unfinished, KeptBy
<1> HIDE DEF f
<1>4. \A n \in 0..Len(pending) :
        f[n] = IF n = 0 THEN <<>>
               ELSE IF pending[n] \in UserCommands THEN Append(f[n - 1], pending[n])
                                             ELSE f[n - 1]
  BY <1>2 DEF KeptBy
<1> DEFINE T == {n \in Nat : n <= Len(pending) => Keeps(pending, n, f[n])}
<1>5. 0 \in T
  <2>1. f[0] = <<>>
    BY <1>1, <1>4
  <2>2. Keeps(pending, 0, f[0])
    <3>1. f[0] \in Seq(UserCommands) /\ Len(f[0]) = 0
      BY <2>1
    <3>2. 1..Len(f[0]) = {} /\ 1..0 = {}
      BY <3>1
    <3>3. [k \in {} |-> 1] \in [{} -> {}]
      OBVIOUS
    <3>4. \E h \in [1..Len(f[0]) -> 1..0] : TRUE
      BY <3>2, <3>3
    <3>5. QED
      BY <3>1, <3>2, <3>4 DEF Keeps
  <2>3. QED
    BY <2>1, <2>2
<1>6. ASSUME NEW n \in T PROVE n + 1 \in T
  <2> SUFFICES ASSUME n + 1 <= Len(pending) PROVE Keeps(pending, n + 1, f[n + 1])
    OBVIOUS
  <2>1. n \in Nat /\ n + 1 \in 0..Len(pending) /\ n + 1 # 0 /\ (n + 1) - 1 = n
    BY <1>1
  <2>2. Keeps(pending, n, f[n])
    BY <1>1, <2>1
  <2>3. f[n + 1] = IF pending[n + 1] \in UserCommands THEN Append(f[n], pending[n + 1])
                                                ELSE f[n]
    BY <1>4, <2>1
  <2>4. QED
    BY <2>1, <2>2, <2>3, KeepsOneMore
<1>7. \A n \in Nat : n \in T
  <2>1. T \in SUBSET Nat
    OBVIOUS
  <2> HIDE DEF T
  <2>2. QED
    BY <1>5, <1>6, <2>1, InductiveSet
<1>8. QED
  BY <1>1, <1>3, <1>7

-----------------------------------------------------------------------------
(* Types. *)

\* What Control says of one thread.
InPlace(t) ==
  /\ t.at = "done" => t = Idle
  /\ t.call.phase = "live" => t.at \in {"run", "announce"}

LEMMA Parts ==
  ASSUME TypeOK
  PROVE  /\ FieldTypes /\ pending \in Seq(Orders) /\ inbox \in Seq(Orders)
         /\ \A g \in Generations : InPlace(thread[g])
         /\ IF main = "idle" THEN pending = inbox
            ELSE pending = <<command>> \o inbox /\ command \in Orders
<1>1. FieldTypes /\ inbox \in Seq(Orders) /\ (main # "idle" => command \in Orders)
  BY DEF TypeOK, Values, Control, FieldTypes, Orders
<1>2. \A g \in Generations : InPlace(thread[g])
  BY DEF TypeOK, Control, InPlace, At
<1>3. CASE main = "idle"
  <2>1. pending = inbox
    BY <1>1, <1>3 DEF pending
  <2>2. QED
    BY <1>1, <1>2, <1>3, <2>1
<1>4. CASE main # "idle"
  <2>1. pending = <<command>> \o inbox
    BY <1>4 DEF pending
  <2>2. pending \in Seq(Orders)
    BY <1>1, <1>4, <2>1
  <2>3. QED
    BY <1>1, <1>2, <1>4, <2>1, <2>2
<1>5. QED
  BY <1>3, <1>4

Statuses == {"disconnected", "connecting", "connected", "failed"}

\* What the thread of g may do in a step, other than die with the process:
\* t is what it becomes.
Changes(g, t) ==
  /\ At(g) # "done" /\ thread' = [thread EXCEPT ![g] = t] /\ InPlace(t)
  /\ UNCHANGED <<inbox, exists, main, command, gen, worker, commands, faults, wanted>>
  /\ slips \subseteq slips' /\ slips' \subseteq {"stray", "silent", "overtaken"}
  \* The engine is a new one of its own, or its own is forgotten.
  /\ \/ engine' = engine
     \/ At(g) = "make" /\ engine' = g
     \/ At(g) = "after" /\ engine = g /\ engine' = 0
  \* Its call begins in its own generation, or the race has been noted.
  /\ t.call.up => t.call.phase = "live" \/ (Up(g) /\ thread[g].call.phase # "live")
  /\ t.call.phase = "live" /\ ~t.call.heard
       => \/ thread[g].call.phase = "live" /\ ~thread[g].call.heard
          \/ gen = g \/ "stray" \in slips'
  \* It publishes only while it is one that the main thread waits for.
  /\ status' \in Statuses /\ (status' # status => At(g) \notin Late \cup {"quit"})
  /\ t.at = "quit" => status' = "failed"
  \* Only the end of a failed worker stops the service; nothing else ends the
  \* worker of the current generation.
  /\ t.interrupted => thread[g].interrupted
  /\ At(g) \in Late /\ gen # g => t.at \in Late
  /\ \/ started' = started
     \/ /\ At(g) = "quit" /\ started' = FALSE /\ t.at = "done"
        /\ slips' = {} => gen = g /\ ~ConnectWaits
  /\ t.at = "done" /\ gen = g /\ slips' = {} => At(g) = "quit" \/ thread[g].interrupted

LEMMA GoesChanges ==
  ASSUME TypeOK, NEW g \in Generations, NEW from \in Busy, NEW to \in Busy,
         Goto(g, from, to),
         from \in {"run", "announce"} => to \in {"run", "announce"},
         from \in Late => gen = g \/ to \in Late,
         UNCHANGED <<inbox, exists, started, caller, fields, bounds, wanted, slips>>,
         status' \in Statuses, status' # status => from \notin Late \cup {"quit"},
         to = "quit" => status' = "failed"
  PROVE  \E t \in Threads : Changes(g, t)
<1> DEFINE t == [thread[g] EXCEPT !.at = to]
<1>1. FieldTypes /\ InPlace(thread[g]) /\ slips \subseteq {"stray", "silent", "overtaken"}
  BY Parts DEF TypeOK, Values
<1>2. /\ t \in Threads /\ t.at = to /\ t.call = thread[g].call
      /\ t.interrupted = thread[g].interrupted
  <2>1. thread[g] \in Threads
    BY <1>1 DEF FieldTypes
  <2>2. t \in Threads
    BY ZenonT(30), <1>1, ThreadTyped
  <2>3. QED
    BY <2>1, <2>2 DEF Threads
<1>3. At(g) = from /\ thread' = [thread EXCEPT ![g] = t] /\ from # "done" /\ to # "done"
  BY DEF Goto, Step, Busy
<1>4. InPlace(t)
  BY <1>1, <1>2, <1>3 DEF InPlace, At
<1> HIDE DEF t
<1>5. UNCHANGED <<main, command, gen, worker, engine, commands, faults>>
  BY DEF caller, fields, bounds
<1>6. Changes(g, t)
  BY <1>1, <1>2, <1>3, <1>4, <1>5 DEF Changes, Up
<1>7. QED
  BY <1>2, <1>6

\* A worker ends, for a reason.
LEMMA EndChanges ==
  ASSUME TypeOK, NEW g \in Generations, At(g) # "done", End(g),
         UNCHANGED <<inbox, exists, caller, gen, worker, bounds, wanted, status>>,
         slips \subseteq slips', slips' \subseteq {"stray", "silent", "overtaken"},
         engine' = engine \/ (At(g) = "after" /\ engine = g /\ engine' = 0),
         \/ started' = started
         \/ /\ At(g) = "quit" /\ started' = FALSE
            /\ slips' = {} => gen = g /\ ~ConnectWaits,
         gen = g /\ slips' = {} => At(g) = "quit" \/ thread[g].interrupted
  PROVE  \E t \in Threads : Changes(g, t)
<1>1. /\ Idle \in Threads /\ Idle.at = "done" /\ ~Idle.call.up
      /\ Idle.call.phase = "load" /\ ~Idle.interrupted
  BY IdleTyped DEF Idle, Fresh
<1>2. thread' = [thread EXCEPT ![g] = Idle]
  BY DEF End
<1>3. InPlace(Idle) /\ status \in Statuses
  BY <1>1 DEF InPlace, TypeOK, Values, Statuses
<1>4. UNCHANGED <<main, command, commands, faults>>
  BY DEF caller, bounds
<1>5. Changes(g, Idle)
  BY <1>1, <1>2, <1>3, <1>4 DEF Changes, Late
<1>6. QED
  BY <1>1, <1>5

LEMMA ConnectsChanges ==
  ASSUME TypeOK, NEW g \in Generations, Connects(g)
  PROVE  \E t \in Threads : Changes(g, t)
<1>1. PICK d \in Own(thread[g].call) :
        LET t == [thread[g] EXCEPT !.call = d,
                    !.at = IF d.phase = "over" THEN "after" ELSE "run"]
        IN /\ Step(g, "run", IF d.said /\ ~thread[g].call.said
                               THEN onConnected(g, t) ELSE t)
           /\ Slip("stray", d = Begun(thread[g].call) /\ gen # g)
  BY DEF Connects
<1> DEFINE c == thread[g].call
           t == [thread[g] EXCEPT !.call = d,
                   !.at = IF d.phase = "over" THEN "after" ELSE "run"]
           u == IF d.said /\ ~c.said THEN onConnected(g, t) ELSE t
<1>2. FieldTypes /\ slips \subseteq {"stray", "silent", "overtaken"} /\ status \in Statuses
  BY Parts DEF TypeOK, Values, Statuses
<1>3. thread[g] \in Threads /\ c \in Calls /\ d \in Calls
  BY <1>2, ThreadTyped, CallsTyped DEF Threads
<1>4. At(g) = "run" /\ thread' = [thread EXCEPT ![g] = u]
  BY <1>1 DEF Step
<1>5. /\ d.phase \in {"live", "over"}
      /\ d.up => d.phase = "live"
      /\ d.said /\ ~c.said => d.phase = "live"
      /\ d.phase = "live" /\ ~d.heard => (c.phase = "live" /\ ~c.heard) \/ d = Begun(c)
  <2>1. c.phase \in {"load", "live", "over"}
    BY <1>3 DEF Calls
  <2>2. CASE d = Begun(c)
    <3>1. /\ d.phase = "live" /\ d.up = c.up /\ d.said = c.said
      BY <1>3, <2>2 DEF Begun, Calls
    <3>2. QED
      BY <2>2, <3>1
  <2>3. CASE d \in Ended(c)
    <3>1. d.phase = "over" /\ d.up = FALSE /\ d.said = c.said
      BY <1>3, <2>3 DEF Ended, Calls
    <3>2. QED
      BY <3>1
  <2>4. CASE d \in Risen(c) /\ c.phase = "live"
    <3>1. d.phase = "live" /\ d.heard = c.heard
      BY ZenonT(30), <1>3, <2>4 DEF Risen, Calls
    <3>2. QED
      BY <2>4, <3>1
  <2>5. QED
    BY <1>1, <2>1, <2>2, <2>3, <2>4 DEF Own
<1>6. /\ t \in Threads /\ t.call = d /\ t.interrupted = thread[g].interrupted
      /\ t.at = IF d.phase = "over" THEN "after" ELSE "run"
  BY <1>3 DEF Threads, Busy
<1>7. /\ u \in Threads /\ u.call = d /\ u.interrupted = thread[g].interrupted
      /\ \/ u.at = t.at
         \/ u.at = "announce" /\ gen = g /\ d.phase = "live"
  <2>1. CASE u = t
    BY <1>6, <2>1
  <2>2. CASE u # t
    <3> DEFINE v == [t EXCEPT !.at = "announce", !.hasConnected = TRUE,
                              !.reauthenticationAttempted = FALSE]
    <3>1. u = v /\ gen = g /\ d.said /\ ~c.said
      BY <2>2 DEF onConnected
    <3> HIDE DEF t
    <3>2. /\ v \in Threads /\ v.at = "announce" /\ v.call = t.call
          /\ v.interrupted = t.interrupted
      BY <1>6 DEF Threads, Busy
    <3>3. QED
      BY <1>5, <1>6, <3>1, <3>2
  <2>3. QED
    BY <2>1, <2>2
<1>8. UNCHANGED <<inbox, started, exists, main, command, gen, worker, engine, commands,
                  faults, wanted, status>>
  BY DEF Connects, queue, caller, fields, bounds
<1>9. /\ slips \subseteq slips' /\ slips' \subseteq {"stray", "silent", "overtaken"}
      /\ d = Begun(c) => gen = g \/ "stray" \in slips'
  BY <1>1, <1>2 DEF Slip
<1> HIDE DEF t, u, c
<1>10. InPlace(u)
  BY <1>5, <1>6, <1>7 DEF InPlace
<1>11. Changes(g, u)
  <2>1. /\ u.at \in {"after", "run"} \/ (u.at = "announce" /\ gen = g)
        /\ u.at # "done" /\ u.at # "quit"
    BY <1>6, <1>7
  <2>2. u.call.phase = "live" /\ ~u.call.heard
          => \/ thread[g].call.phase = "live" /\ ~thread[g].call.heard
             \/ gen = g \/ "stray" \in slips'
    BY <1>5, <1>7, <1>9 DEF c
  <2>3. u.call.up => u.call.phase = "live"
    BY <1>5, <1>7
  <2>4. QED
    BY <1>2, <1>4, <1>7, <1>8, <1>9, <1>10, <2>1, <2>2, <2>3 DEF Changes, Late
<1>12. QED
  BY <1>7, <1>11

LEMMA DecideChanges ==
  ASSUME TypeOK, NEW g \in Generations, Decide(g)
  PROVE  \E t \in Threads : Changes(g, t)
<1> DEFINE t == [thread[g] EXCEPT !.call = Fresh]
<1>1. /\ FieldTypes /\ slips \subseteq {"stray", "silent", "overtaken"}
      /\ status \in Statuses
  BY Parts DEF TypeOK, Values, Statuses
<1>2. UNCHANGED <<inbox, started, exists, caller, gen, worker, engine, bounds, wanted,
                  status, slips>>
  BY DEF Decide, Quietly, queue, fields
<1>3. Fresh \in Calls /\ Fresh.phase = "load" /\ Fresh.up = FALSE
  BY CallsTyped DEF Fresh
<1>4. /\ thread[g] \in Threads /\ t \in Threads /\ t.call = Fresh
      /\ t.interrupted = thread[g].interrupted
  <2>1. thread[g] \in Threads
    BY <1>1, ThreadTyped
  <2>2. QED
    BY <1>3, <2>1 DEF Threads
<1>5. gen # g => decide(thread[g], gen = g) = "STOP"
  BY DEF decide
<1>6. gen = g => decide(thread[g], gen = g) # "STOP"
  BY DEF decide
<1>7. CASE decide(thread[g], gen = g) = "STOP" /\ At(g) = "decide" /\ End(g)
  BY <1>1, <1>2, <1>6, <1>7, EndChanges
<1>8. ASSUME NEW v \in Threads, v.at \in {"fail", "again"}, v.call = Fresh, gen = g,
             v.interrupted = thread[g].interrupted,
             At(g) = "decide", thread' = [thread EXCEPT ![g] = v]
      PROVE  Changes(g, v)
  <2>1. InPlace(v)
    BY <1>3, <1>8 DEF InPlace
  <2>2. UNCHANGED <<main, command, commands, faults>>
    BY <1>2 DEF caller, bounds
  <2>3. ~v.call.up /\ v.call.phase # "live" /\ v.at # "quit" /\ v.at # "done"
    BY <1>3, <1>8
  <2>4. QED
    BY <1>1, <1>2, <1>8, <2>1, <2>2, <2>3 DEF Changes
<1>9. CASE /\ decide(thread[g], gen = g) = "FAIL"
           /\ Step(g, "decide", [t EXCEPT !.at = "fail"])
  <2> DEFINE v == [t EXCEPT !.at = "fail"]
  <2> HIDE DEF t
  <2>1. /\ v \in Threads /\ v.at = "fail" /\ v.call = Fresh
        /\ v.interrupted = thread[g].interrupted
    BY <1>4 DEF Threads, Busy
  <2>2. At(g) = "decide" /\ thread' = [thread EXCEPT ![g] = v] /\ gen = g
    BY <1>5, <1>9 DEF Step
  <2>3. QED
    BY <1>8, <2>1, <2>2
<1>10. CASE /\ decide(thread[g], gen = g) = "REAUTHENTICATE"
            /\ Step(g, "decide", [t EXCEPT !.at = "again",
                                           !.reauthenticationAttempted = TRUE])
  <2> DEFINE v == [t EXCEPT !.at = "again", !.reauthenticationAttempted = TRUE]
  <2> HIDE DEF t
  <2>1. /\ v \in Threads /\ v.at = "again" /\ v.call = Fresh
        /\ v.interrupted = thread[g].interrupted
    BY <1>4 DEF Threads, Busy
  <2>2. At(g) = "decide" /\ thread' = [thread EXCEPT ![g] = v] /\ gen = g
    BY <1>5, <1>10 DEF Step
  <2>3. QED
    BY <1>8, <2>1, <2>2
<1>11. QED
  BY <1>7, <1>9, <1>10 DEF Decide

\* A worker gets a new engine, or gives up waiting for the old one's end.
LEMMA WaitChanges ==
  ASSUME TypeOK, NEW g \in Generations, MakeEngine(g) \/ NotReleased(g)
  PROVE  \E t \in Threads : Changes(g, t)
<1>1. /\ FieldTypes /\ slips \subseteq {"stray", "silent", "overtaken"}
      /\ status \in Statuses /\ InPlace(thread[g])
  BY Parts DEF TypeOK, Values, Statuses
<1>2. thread[g] \in Threads /\ thread[g].call \in Calls
  BY <1>1, ThreadTyped DEF Threads
<1>3. CASE MakeEngine(g)
  <2> DEFINE t == [thread[g] EXCEPT !.at = "wait", !.call = Fresh]
  <2>1. Fresh \in Calls /\ Fresh.phase = "load" /\ Fresh.up = FALSE
    BY CallsTyped DEF Fresh
  <2>2. /\ t \in Threads /\ t.at = "wait" /\ t.call = Fresh
        /\ t.interrupted = thread[g].interrupted
    BY <1>2, <2>1 DEF Threads, Busy
  <2>3. /\ At(g) = "make" /\ thread' = [thread EXCEPT ![g] = t] /\ engine' = g
        /\ UNCHANGED <<inbox, started, exists, main, command, gen, worker, commands,
                       faults, wanted, status, slips>>
    BY <1>3 DEF MakeEngine, Step, queue, caller, bounds
  <2> HIDE DEF t
  <2>4. Changes(g, t)
    BY <1>1, <2>1, <2>2, <2>3 DEF Changes, InPlace, Late
  <2>5. QED
    BY <2>2, <2>4
<1>4. CASE NotReleased(g)
  <2> DEFINE t == [thread[g] EXCEPT !.at = "after", !.call.phase = "over",
                                    !.call.outcome = "failed"]
             d == [thread[g].call EXCEPT !.phase = "over", !.outcome = "failed"]
  <2>1. d \in Calls /\ d.phase = "over" /\ d.up = Up(g)
    BY <1>2 DEF Calls, Outcomes, Up
  <2>2. t = [thread[g] EXCEPT !.at = "after", !.call = d]
    BY <1>2 DEF Threads, Calls
  <2> HIDE DEF d, t
  <2>3. /\ t \in Threads /\ t.at = "after" /\ t.call = d
        /\ t.interrupted = thread[g].interrupted
    BY <1>2, <2>1, <2>2 DEF Threads, Busy
  <2>4. /\ At(g) = "wait" /\ thread' = [thread EXCEPT ![g] = t]
        /\ UNCHANGED <<inbox, started, exists, main, command, gen, worker, engine,
                       commands, faults, wanted, status, slips>>
    BY <1>4 DEF NotReleased, Step, Quietly, queue, caller, fields, bounds, t
  <2>5. thread[g].call.phase # "live"
    BY <1>1, <2>4 DEF InPlace, At
  <2>6. Changes(g, t)
    BY <1>1, <2>1, <2>3, <2>4, <2>5 DEF Changes, InPlace, Late
  <2>7. QED
    BY <2>3, <2>6
<1>5. QED
  BY <1>3, <1>4

\* Every step of a worker is one of these, or the death of the process.
LEMMA WorkerChanges ==
  ASSUME IInv, TypeOK, NEW g \in Generations,
         Moves(g) \/ Connects(g) \/ AwaitNetwork(g)
  PROVE  Uncaught(g) \/ \E t \in Threads : Changes(g, t)
<1> USE DEF Late
<1>1. slips \subseteq {"stray", "silent", "overtaken"} /\ status \in Statuses
  BY DEF TypeOK, Values, Statuses
<1>2. ASSUME Quietly
      PROVE  UNCHANGED <<inbox, exists, started, caller, fields, gen, worker, engine,
                         bounds, wanted, slips, status>>
  BY <1>2 DEF Quietly, queue, fields
<1>3. CASE LoopHead(g)
  <2>1. CASE Goto(g, "head", "make")
    BY <1>1, <1>2, <1>3, <2>1, GoesChanges DEF LoopHead, Busy
  <2>2. CASE ~(gen = g /\ ~thread[g].interrupted) /\ End(g)
    BY <1>1, <1>2, <1>3, <2>2, EndChanges DEF LoopHead
  <2>3. QED
    BY <1>3, <2>1, <2>2 DEF LoopHead
<1>4. CASE Released(g)
  BY <1>1, <1>2, <1>4, GoesChanges DEF Released, Busy
<1>5. CASE Announce(g)
  BY <1>1, <1>5, GoesChanges DEF Announce, Busy, queue, Statuses
<1>6. CASE After(g)
  <2>1. /\ UNCHANGED <<inbox, exists, started, caller, gen, worker, bounds, wanted, status>>
        /\ slips \subseteq slips' /\ slips' \subseteq {"stray", "silent", "overtaken"}
        /\ engine' = engine \/ (At(g) = "after" /\ engine = g /\ engine' = 0)
    BY <1>1, <1>6 DEF After, queue, Slip
  <2>2. CASE thread[g].call.outcome = "quiet"
    <3>1. End(g) /\ At(g) # "done" /\ (gen = g => slips' # {})
      BY <1>6, <2>2 DEF After, Slip
    <3>2. QED
      BY <2>1, <3>1, EndChanges
  <2>3. CASE thread[g].call.outcome # "quiet"
    <3> DEFINE t == [thread[g] EXCEPT !.at = "decide"]
    <3>1. At(g) = "after" /\ thread' = [thread EXCEPT ![g] = t]
      BY <1>6, <2>3 DEF After, Goto, Step
    <3>2. FieldTypes /\ InPlace(thread[g])
      BY Parts
    <3>3. /\ t \in Threads /\ t.at = "decide" /\ t.call = thread[g].call
          /\ t.interrupted = thread[g].interrupted
      <4>1. thread[g] \in Threads
        BY <3>2, ThreadTyped
      <4>2. QED
        BY <4>1 DEF Threads, Busy
    <3>4. thread[g].call.phase # "live"
      BY <3>1, <3>2 DEF InPlace, At
    <3>5. UNCHANGED <<main, command, commands, faults>>
      BY <2>1 DEF caller, bounds
    <3> HIDE DEF t
    <3>6. Changes(g, t)
      BY <1>1, <2>1, <3>1, <3>3, <3>4, <3>5 DEF Changes, InPlace, Up
    <3>7. QED
      BY <3>3, <3>6
  <2>4. QED
    BY <2>2, <2>3
<1>7. CASE Fail(g)
  BY <1>1, <1>7, GoesChanges DEF Fail, Busy, queue, Statuses
<1>8. CASE Quit(g)
  BY <1>1, <1>8, EndChanges DEF Quit, fields, Slip
<1>9. CASE Again(g)
  BY <1>1, <1>9, GoesChanges DEF Again, Busy, queue, Statuses
<1>10. CASE PollStopped(g)
  BY <1>1, <1>2, <1>10, GoesChanges DEF PollStopped, Busy
<1>11. CASE AwaitNetwork(g)
  BY <1>1, <1>2, <1>11, GoesChanges DEF AwaitNetwork, Busy
<1>12. QED
  BY <1>3, <1>4, <1>5, <1>6, <1>7, <1>8, <1>9, <1>10, <1>11, WaitChanges,
     ConnectsChanges, DecideChanges
     DEF Moves

LEMMA InitTypes == Init => TypeOK
<1> SUFFICES ASSUME Init PROVE TypeOK
  OBVIOUS
<1>1. Idle \in Threads /\ Idle.at = "done" /\ Idle.call.phase = "load"
  BY IdleTyped DEF Idle, Fresh
<1>2. Values
  <2>1. thread \in [Generations -> Threads]
    BY <1>1 DEF Init
  <2>2. inbox \in Seq({"connect", "disconnect", "restore", "destroy"})
    BY DEF Init
  <2>3. commands \in 0..MaxCommands /\ faults \in 0..MaxFaults
    BY ServiceAssumption DEF Init
  <2>4. QED
    BY <2>1, <2>2, <2>3 DEF Init, Values
<1>3. Control
  BY <1>1 DEF Init, Control, At
<1>4. QED
  BY <1>2, <1>3 DEF TypeOK

\* The death of the process.
LEMMA DieTypes ==
  ASSUME TypeOK, Die, faults' \in 0..MaxFaults
  PROVE  TypeOK'
<1>1. Idle \in Threads /\ Idle.at = "done" /\ Idle.call.phase = "load"
  BY IdleTyped DEF Idle, Fresh
<1>2. inbox' \in Seq({"connect", "disconnect", "restore", "destroy"})
  <2>1. unfinished \in Seq(UserCommands)
    BY Parts, UnfinishedKeeps DEF Keeps
  <2>2. unfinished \in Seq(Orders) /\ <<"restore">> \in Seq(Orders)
    BY <2>1 DEF UserCommands, Orders
  <2>3. QED
    BY <2>2 DEF Die, Orders
<1>3. Values'
  <2>1. thread' \in [Generations -> Threads]
    BY <1>1 DEF Die
  <2>2. QED
    BY <1>2, <2>1 DEF Die, TypeOK, Values
<1>4. Control'
  BY <1>1 DEF Die, Control, At
<1>5. QED
  BY <1>3, <1>4 DEF TypeOK

\* The rest of Control, from what a step does to the threads.
LEMMA ControlKept ==
  ASSUME (command' = "none") <=> (main' = "idle"),
         IInv', \A g \in Generations : InPlace(thread'[g])
  PROVE  Control'
<1>1. gen' # 0 => gen' = worker' /\ main' = "idle"
  BY DEF IInv, CurrentInv
<1>2. QED
  BY <1>1 DEF Control, InPlace, At

LEMMA TypesKept ==
  ASSUME IInv, IInv', TypeOK, [Next]_vars
  PROVE  TypeOK'
<1>1. /\ FieldTypes /\ FieldTypes' /\ Values /\ Control
      /\ \A g \in Generations : InPlace(thread[g])
  BY Parts DEF TypeOK, IInv
<1>2. /\ {gen', engine', worker'} \subseteq Generations \cup {0}
      /\ main' \in {"idle", "cancel", "clear", "join", "finish"}
      /\ thread' \in [Generations -> Threads]
  BY <1>1 DEF FieldTypes
<1>3. (command = "none") <=> (main = "idle")
  BY <1>1 DEF Control
<1>4. CASE UNCHANGED vars
  <2>1. Values'
    BY <1>1, <1>4 DEF Values, vars, queue, caller, fields, bounds
  <2>2. Control'
    BY <1>1, <1>3, <1>4, ControlKept DEF vars, caller
  <2>3. QED
    BY <2>1, <2>2 DEF TypeOK
<1>5. CASE \E c \in UserCommands : Give(c)
  <2>1. PICK c \in UserCommands : Give(c)
    BY <1>5
  <2>2. inbox' \in Seq({"connect", "disconnect", "restore", "destroy"})
    BY <1>1, <2>1 DEF Give, Values, UserCommands
  <2>3. commands' \in 0..MaxCommands
    BY <1>1, <2>1, ServiceAssumption DEF Give, Values
  <2>4. started' \in BOOLEAN /\ wanted' \in BOOLEAN
    BY <2>1 DEF Give
  <2>5. UNCHANGED <<exists, main, command, thread, status, faults, slips>>
    BY <2>1 DEF Give, caller
  <2>6. Values'
    BY <1>1, <1>2, <2>2, <2>3, <2>4, <2>5 DEF Values
  <2>7. Control'
    BY <1>1, <1>3, <2>5, ControlKept
  <2>8. QED
    BY <2>6, <2>7 DEF TypeOK
<1>6. CASE BringDown
  <2>1. inbox' \in Seq({"connect", "disconnect", "restore", "destroy"})
    BY <1>1, <1>6 DEF BringDown, Values
  <2>2. /\ exists' = FALSE
        /\ UNCHANGED <<started, main, command, thread, status, commands, faults, wanted, slips>>
    BY <1>6 DEF BringDown, caller, bounds
  <2>3. Values'
    BY <1>1, <1>2, <2>1, <2>2 DEF Values
  <2>4. Control'
    BY <1>1, <1>3, <2>2, ControlKept
  <2>5. QED
    BY <2>3, <2>4 DEF TypeOK
<1>7. CASE SystemKill
  <2>1. faults' \in 0..MaxFaults
    BY <1>1, <1>7, ServiceAssumption DEF SystemKill, Values
  <2>2. QED
    BY <1>7, <2>1, DieTypes DEF SystemKill
<1>8. CASE Take
  <2>1. /\ Head(inbox) \in {"connect", "disconnect", "restore", "destroy"}
        /\ Tail(inbox) \in Seq({"connect", "disconnect", "restore", "destroy"})
    BY <1>1, <1>8 DEF Take, Values
  <2>2. /\ command' = Head(inbox) /\ inbox' = Tail(inbox) /\ exists' \in BOOLEAN
        /\ main' = "cancel"
        /\ UNCHANGED <<started, thread, status, commands, faults, wanted, slips>>
    BY <1>1, <1>8 DEF Take, bounds, Values
  <2>3. Values'
    BY <1>1, <1>2, <2>1, <2>2 DEF Values
  <2>4. Control'
    BY <1>1, <2>1, <2>2, ControlKept
  <2>5. QED
    BY <2>3, <2>4 DEF TypeOK
<1>9. CASE CancelEngine \/ Interrupt \/ Join
  <2>1. /\ main # "idle" /\ main' # "idle"
        /\ UNCHANGED <<inbox, started, exists, command, status, commands, wanted, slips>>
    BY <1>9 DEF CancelEngine, Interrupt, Join, queue, bounds
  <2>2. faults' \in 0..MaxFaults
    BY <1>1, <1>9, ServiceAssumption DEF CancelEngine, Interrupt, Join, bounds, Values
  <2>3. Values'
    BY <1>1, <1>2, <2>1, <2>2 DEF Values
  <2>4. \A g \in Generations : InPlace(thread'[g])
    <3>1. CASE UNCHANGED thread
      BY <1>1, <3>1
    <3>2. CASE CancelEngine /\ thread' # thread
      <4>1. engine \in Generations
        BY <1>1, <3>2 DEF CancelEngine, FieldTypes
      <4>2. PICK d \in Hears(thread[engine].call) :
                   thread' = [thread EXCEPT ![engine] = [thread[engine] EXCEPT !.call = d]]
        BY <3>2 DEF CancelEngine
      <4>3. thread[engine] \in Threads /\ thread[engine].call \in Calls
        BY <1>1, <4>1, ThreadTyped DEF Threads
      <4>4. thread[engine].call.phase = "live" /\ d.phase = "live"
        BY <4>2, <4>3 DEF Hears, Calls
      <4> DEFINE t == [thread[engine] EXCEPT !.call = d]
      <4>5. t.at = thread[engine].at /\ t.call = d
        BY <4>3 DEF Threads
      <4> HIDE DEF t
      <4>6. InPlace(thread[engine])
        BY <1>1, <4>1
      <4>7. InPlace(t)
        BY <4>4, <4>5, <4>6 DEF InPlace
      <4>8. thread' = [thread EXCEPT ![engine] = t]
        BY <4>2 DEF t
      <4>9. \A h \in Generations : thread'[h] = IF h = engine THEN t ELSE thread[h]
        BY <1>1, <4>8 DEF FieldTypes
      <4>10. QED
        BY <1>1, <4>7, <4>9
    <3>3. CASE Interrupt /\ thread' # thread
      <4>1. worker \in Generations /\ At(worker) # "done"
        BY <1>1, <3>3 DEF Interrupt, FieldTypes
      <4> DEFINE t == [thread[worker] EXCEPT !.interrupted = TRUE]
      <4>2. thread' = [thread EXCEPT ![worker] = t]
        BY <3>3 DEF Interrupt
      <4>3. thread[worker] \in Threads
        BY <1>1, <4>1, ThreadTyped
      <4>4. t.at = thread[worker].at /\ t.call = thread[worker].call
        BY <4>3 DEF Threads
      <4> HIDE DEF t
      <4>5. InPlace(thread[worker])
        BY <1>1, <4>1
      <4>6. InPlace(t)
        BY <4>1, <4>4, <4>5 DEF InPlace, At
      <4>7. \A h \in Generations : thread'[h] = IF h = worker THEN t ELSE thread[h]
        BY <1>1, <4>2 DEF FieldTypes
      <4>8. QED
        BY <1>1, <4>6, <4>7
    <3>4. CASE Join
      BY <1>1, <3>4 DEF Join
    <3>5. QED
      BY <1>9, <3>1, <3>2, <3>3, <3>4
  <2>5. Control'
    BY <1>3, <2>1, <2>4, ControlKept
  <2>6. QED
    BY <2>3, <2>5 DEF TypeOK
<1>10. CASE FinishDisconnect \/ FinishDestroy \/ FinishConnect
  <2>1. /\ main' = "idle" /\ command' = "none" /\ started' \in BOOLEAN
        /\ status' \in {"disconnected", "connecting", "connected", "failed"}
        /\ UNCHANGED <<inbox, exists, commands, faults, wanted>>
        /\ slips' \subseteq {"stray", "silent", "overtaken"}
    BY <1>1, <1>10 DEF FinishDisconnect, FinishDestroy, FinishConnect, Finish, queue,
       bounds, Slip, Values
  <2>2. Values'
    BY <1>1, <1>2, <2>1 DEF Values
  <2>3. \A g \in Generations : InPlace(thread'[g])
    <3>1. CASE UNCHANGED thread
      BY <1>1, <3>1
    <3>2. CASE FinishConnect
      <4>1. PICK g \in Generations :
              /\ thread[g] = Idle
              /\ thread' = [thread EXCEPT ![g] = [thread[g] EXCEPT !.at = "head"]]
        BY <3>2 DEF FinishConnect
      <4> DEFINE t == [thread[g] EXCEPT !.at = "head"]
      <4>2. t.at = "head" /\ t.call.phase = "load"
        BY <4>1 DEF Idle, Fresh
      <4> HIDE DEF t
      <4>3. thread' = [thread EXCEPT ![g] = t]
        BY <4>1 DEF t
      <4>4. \A h \in Generations : thread'[h] = IF h = g THEN t ELSE thread[h]
        BY <1>1, <4>3 DEF FieldTypes
      <4>5. QED
        BY <1>1, <4>2, <4>4 DEF InPlace
    <3>3. QED
      BY <1>10, <3>1, <3>2 DEF FinishDisconnect, FinishDestroy
  <2>4. Control'
    BY <2>1, <2>3, ControlKept
  <2>5. QED
    BY <2>2, <2>4 DEF TypeOK
<1>11. ASSUME NEW g \in Generations, Moves(g) \/ Connects(g) \/ AwaitNetwork(g)
       PROVE  TypeOK'
  <2>1. CASE Uncaught(g)
    BY <1>1, <2>1, DieTypes DEF Uncaught, Values
  <2>2. CASE \E t \in Threads : Changes(g, t)
    <3>1. PICK t \in Threads : Changes(g, t)
      BY <2>2
    <3>2. /\ UNCHANGED <<inbox, exists, main, command, commands, faults, wanted>>
          /\ slips' \subseteq {"stray", "silent", "overtaken"} /\ status' \in Statuses
          /\ started' \in BOOLEAN
      BY <1>1, <3>1 DEF Changes, Values
    <3>3. Values'
      BY <1>1, <1>2, <3>2 DEF Values, Statuses
    <3>4. \A h \in Generations : thread'[h] = IF h = g THEN t ELSE thread[h]
      BY <1>1, <3>1 DEF FieldTypes, Changes
    <3>5. Control'
      BY <1>1, <1>3, <3>1, <3>2, <3>4, ControlKept DEF Changes
    <3>6. QED
      BY <3>3, <3>5 DEF TypeOK
  <2>3. QED
    BY <1>11, <2>1, <2>2, WorkerChanges
<1>12. QED
  BY <1>4, <1>5, <1>6, <1>7, <1>8, <1>9, <1>10, <1>11 DEF Next, Handle

\* Every thread, field and order of AnyConnectVpnService.kt keeps its type; a
\* generation is current only while the main thread is at rest, and a call is
\* live only while its worker is inside connect.
THEOREM TypeCorrect == Spec => []TypeOK
<1>1. Init => IInv /\ TypeOK
  BY InitInv, InitTypes
<1>2. IInv /\ TypeOK /\ [Next]_vars => IInv' /\ TypeOK'
  BY NextInv, TypesKept
<1>3. QED
  BY <1>1, <1>2, PTL DEF Spec

-----------------------------------------------------------------------------
(* What is pending. *)

Has(S) == \E i \in 1..Len(pending) : pending[i] \in S

LEMMA PendingStays ==
  ASSUME \/ UNCHANGED <<inbox, main, command>>
         \/ main # "idle" /\ main' # "idle" /\ UNCHANGED <<inbox, command>>
  PROVE  pending' = pending
  BY DEF pending

\* A command that is taken is pending until the main thread has finished it.
LEMMA PendingTaken == ASSUME TypeOK, Take PROVE pending' = pending
<1>1. inbox \in Seq(Orders) /\ inbox # <<>>
  BY Parts DEF Take
<1>2. pending = inbox /\ pending' = <<Head(inbox)>> \o Tail(inbox)
  BY DEF Take, pending
<1>3. inbox = <<Head(inbox)>> \o Tail(inbox)
  BY <1>1
<1>4. QED
  BY <1>2, <1>3

LEMMA PendingFinished ==
  ASSUME TypeOK, main = "finish", main' = "idle", inbox' = inbox
  PROVE  /\ Len(pending) = Len(pending') + 1 /\ Len(pending') \in Nat
         /\ pending[1] = command /\ pending' = inbox
         /\ \A i \in 1..Len(pending') : pending'[i] = pending[i + 1]
<1>1. inbox \in Seq(Orders) /\ pending = <<command>> \o inbox /\ command \in Orders
  BY Parts
<1>2. pending' = inbox
  BY DEF pending
<1>3. QED
  BY <1>1, <1>2

LEMMA PendingMore ==
  ASSUME TypeOK, NEW c \in Orders, inbox' = Append(inbox, c),
         UNCHANGED <<main, command>>
  PROVE  /\ Len(pending) \in Nat /\ Len(pending') = Len(pending) + 1
         /\ pending'[Len(pending) + 1] = c
         /\ \A i \in 1..Len(pending) : pending'[i] = pending[i]
<1>1. pending \in Seq(Orders) /\ inbox \in Seq(Orders)
  BY Parts
<1>2. pending' = Append(pending, c)
  <2>1. CASE main = "idle"
    BY <2>1 DEF pending
  <2>2. CASE main # "idle"
    <3>1. pending = <<command>> \o inbox /\ command \in Orders
      BY <2>2, Parts
    <3>2. pending' = <<command>> \o Append(inbox, c)
      BY <2>2 DEF pending
    <3>3. QED
      BY <1>1, <3>1, <3>2
  <2>3. QED
    BY <2>1, <2>2
<1>3. QED
  BY <1>1, <1>2

\* After the death of the process: the user's commands or, when the service is
\* still started without one, the null intent.
LEMMA PendingAfterDeath ==
  ASSUME TypeOK, Die
  PROVE  \/ Keeps(pending, Len(pending), pending')
         \/ pending' = <<"restore">> /\ started /\ ~Has(UserCommands)
<1>1. Keeps(pending, Len(pending), unfinished) /\ Len(pending) \in Nat
  BY Parts, UnfinishedKeeps
<1>2. pending' = IF unfinished = <<>> /\ started THEN <<"restore">> ELSE unfinished
  BY DEF Die, pending
<1>3. unfinished = <<>> => ~Has(UserCommands)
  BY <1>1 DEF Keeps, Has
<1>4. QED
  BY <1>1, <1>2, <1>3

\* What a stop does to the threads: it moves none.
LEMMA StopMoves ==
  ASSUME FieldTypes, CancelEngine \/ Interrupt \/ Join
  PROVE  \A h \in Generations :
           /\ At(h)' = At(h) /\ Up(h)' = Up(h)
           /\ thread'[h].call.phase = thread[h].call.phase
           /\ thread[h].call.heard => thread'[h].call.heard
           /\ CancelEngine /\ engine = h /\ thread[h].call.phase = "live"
                => thread'[h].call.heard
           /\ thread'[h].interrupted => thread[h].interrupted \/ Interrupt
<1> SUFFICES ASSUME NEW h \in Generations
             PROVE  /\ At(h)' = At(h) /\ Up(h)' = Up(h)
                    /\ thread'[h].call.phase = thread[h].call.phase
                    /\ thread[h].call.heard => thread'[h].call.heard
                    /\ CancelEngine /\ engine = h /\ thread[h].call.phase = "live"
                         => thread'[h].call.heard
                    /\ thread'[h].interrupted => thread[h].interrupted \/ Interrupt
  OBVIOUS
<1>1. CASE CancelEngine
  <2>1. CASE engine # 0 /\ Hears(thread[engine].call) # {}
    <3>1. engine \in Generations
      BY <2>1 DEF FieldTypes
    <3>2. PICK d \in Hears(thread[engine].call) :
                 thread' = [thread EXCEPT ![engine] = [thread[engine] EXCEPT !.call = d]]
      BY <1>1, <2>1 DEF CancelEngine
    <3>3. thread[engine] \in Threads /\ thread[engine].call \in Calls
      BY <3>1, ThreadTyped DEF Threads
    <3>4. /\ d.phase = thread[engine].call.phase /\ d.up = thread[engine].call.up
          /\ d.heard
      BY <3>2, <3>3 DEF Hears, Calls
    <3> DEFINE t == [thread[engine] EXCEPT !.call = d]
    <3>5. t.at = thread[engine].at /\ t.call = d /\ t.interrupted = thread[engine].interrupted
      BY <3>3 DEF Threads
    <3> HIDE DEF t
    <3>6. thread'[h] = IF h = engine THEN t ELSE thread[h]
      BY <3>2 DEF t, FieldTypes
    <3>7. QED
      BY <3>4, <3>5, <3>6 DEF At, Up
  <2>2. CASE engine = 0 \/ Hears(thread[engine].call) = {}
    <3>1. UNCHANGED thread
      BY <1>1, <2>2 DEF CancelEngine
    <3>2. h # 0
      BY DEF Generations
    <3>3. thread[h].call.phase = "live" => Hears(thread[h].call) # {}
      BY DEF Hears
    <3>4. engine = h => thread[h].call.phase # "live"
      BY <2>2, <3>2, <3>3
    <3>5. QED
      BY <3>1, <3>4 DEF At, Up
  <2>3. QED
    BY <2>1, <2>2
<1>2. CASE Interrupt
  <2>1. CASE UNCHANGED thread
    BY <1>2, <2>1 DEF At, Up, CancelEngine, Interrupt
  <2>2. CASE thread' # thread
    <3>1. worker \in Generations
      BY <1>2, <2>2 DEF Interrupt, FieldTypes
    <3> DEFINE t == [thread[worker] EXCEPT !.interrupted = TRUE]
    <3>2. thread[worker] \in Threads
      BY <3>1, ThreadTyped
    <3>3. t.at = thread[worker].at /\ t.call = thread[worker].call
      BY <3>2 DEF Threads
    <3>4. thread' = [thread EXCEPT ![worker] = t]
      BY <1>2, <2>2 DEF Interrupt
    <3> HIDE DEF t
    <3>5. thread'[h] = IF h = worker THEN t ELSE thread[h]
      BY <3>4 DEF FieldTypes
    <3>6. QED
      BY <1>2, <3>3, <3>5 DEF At, Up, CancelEngine, Interrupt
  <2>3. QED
    BY <2>1, <2>2
<1>3. CASE Join
  BY <1>3 DEF Join, At, Up, CancelEngine
<1>4. QED
  BY <1>1, <1>2, <1>3

-----------------------------------------------------------------------------
(* A disconnect holds. *)

\* A null intent comes first, to a process in which nothing runs.
RestoreInv ==
  \A i \in 1..Len(pending) :
    pending[i] = "restore" => i = 1 /\ worker = 0 /\ \A g \in Generations : At(g) = "done"

\* What is live is of the current generation, or has been told to end, or is
\* what the main thread is about to tell.
CallInv ==
  \A g \in Generations :
    /\ Up(g) => thread[g].call.phase = "live"
    /\ thread[g].call.phase = "live" /\ ~thread[g].call.heard /\ "stray" \notin slips
         => gen = g \/ (main = "cancel" /\ engine = g /\ worker = g)

\* When the user's last command was a disconnect, it is still to be handled,
\* after everything that connects, or nothing is left that could connect.
LastInv ==
  ~wanted =>
    /\ gen # 0 \/ started => Has({"disconnect"})
    /\ \A i \in 1..Len(pending) :
         pending[i] \in {"connect", "restore"}
           => \E j \in (i + 1)..Len(pending) : pending[j] = "disconnect"

HoldInv == RestoreInv /\ CallInv /\ LastInv

LEMMA InitHolds == Init => HoldInv
<1> SUFFICES ASSUME Init PROVE HoldInv
  OBVIOUS
<1>1. pending = <<>>
  BY DEF Init, pending
<1>2. RestoreInv /\ LastInv
  BY <1>1 DEF Init, RestoreInv, LastInv
<1>3. CallInv
  BY DEF Init, CallInv, Up, Idle, Fresh
<1>4. QED
  BY <1>2, <1>3 DEF HoldInv

\* Nothing the invariant reads changes but for what the queue gets at its end.
LEMMA DieHolds == ASSUME TypeOK, HoldInv, Die PROVE HoldInv'
<1>1. /\ gen' = 0 /\ worker' = 0 /\ started' = started /\ wanted' = wanted
      /\ \A g \in Generations : thread'[g] = Idle
  BY DEF Die
<1>2. CallInv'
  BY <1>1 DEF CallInv, Up, Idle, Fresh
<1>3. CASE Keeps(pending, Len(pending), pending')
  <2>1. PICK h \in [1..Len(pending') -> 1..Len(pending)] :
          /\ \A k \in 1..Len(pending') : pending'[k] = pending[h[k]]
          /\ \A k, l \in 1..Len(pending') : k < l => h[k] < h[l]
          /\ \A i \in 1..Len(pending) : pending[i] \in UserCommands
                                          => \E k \in 1..Len(pending') : h[k] = i
    BY <1>3 DEF Keeps
  <2>2. pending' \in Seq(UserCommands) /\ Len(pending') \in Nat
    BY <1>3 DEF Keeps
  <2>3. \A k \in 1..Len(pending') : pending'[k] \in UserCommands
    BY <2>2
  <2>4. RestoreInv'
    BY <2>3 DEF RestoreInv, UserCommands
  <2>5. LastInv'
    <3> SUFFICES ASSUME ~wanted
                 PROVE  /\ started => Has({"disconnect"})'
                        /\ \A k \in 1..Len(pending') :
                             pending'[k] \in {"connect", "restore"}
                               => \E l \in (k + 1)..Len(pending') : pending'[l] = "disconnect"
      BY <1>1 DEF LastInv
    <3>1. ASSUME NEW i \in 1..Len(pending), pending[i] = "disconnect"
          PROVE  \E k \in 1..Len(pending') : h[k] = i /\ pending'[k] = "disconnect"
      <4>1. PICK k \in 1..Len(pending') : h[k] = i
        BY <2>1, <3>1 DEF UserCommands
      <4>2. QED
        BY <2>1, <3>1, <4>1
    <3>2. started => Has({"disconnect"})'
      <4> SUFFICES ASSUME started PROVE Has({"disconnect"})'
        OBVIOUS
      <4>1. PICK i \in 1..Len(pending) : pending[i] = "disconnect"
        BY DEF HoldInv, LastInv, Has
      <4>2. QED
        BY <3>1, <4>1 DEF Has
    <3>3. ASSUME NEW k \in 1..Len(pending'), pending'[k] \in {"connect", "restore"}
          PROVE  \E l \in (k + 1)..Len(pending') : pending'[l] = "disconnect"
      <4>1. h[k] \in 1..Len(pending) /\ pending[h[k]] \in {"connect", "restore"}
        BY <2>1, <3>3
      <4>2. PICK j \in (h[k] + 1)..Len(pending) : pending[j] = "disconnect"
        BY <4>1 DEF HoldInv, LastInv
      <4>3. j \in 1..Len(pending) /\ h[k] < j
        BY <4>1, <4>2
      <4>4. PICK l \in 1..Len(pending') : h[l] = j /\ pending'[l] = "disconnect"
        BY <3>1, <4>2, <4>3
      <4>5. h[l] \in 1..Len(pending)
        BY <2>1, <4>4
      <4>6. k < l
        <5>1. l # k
          BY <4>3, <4>4
        <5>2. ~(l < k)
          BY <2>1, <4>1, <4>3, <4>4
        <5>3. QED
          BY <5>1, <5>2, <2>2
      <4>7. QED
        BY <2>2, <4>4, <4>6
    <3>4. QED
      BY <3>2, <3>3
  <2>6. QED
    BY <1>2, <2>4, <2>5 DEF HoldInv
<1>4. CASE pending' = <<"restore">> /\ started /\ ~Has(UserCommands)
  <2>1. Len(pending') = 1
    BY <1>4
  <2>2. RestoreInv'
    <3>1. \A g \in Generations : At(g)' = "done"
      BY <1>1 DEF At, Idle
    <3>2. QED
      BY <1>1, <2>1, <3>1 DEF RestoreInv
  <2>3. wanted
    BY <1>4 DEF HoldInv, LastInv, Has, UserCommands
  <2>4. QED
    BY <1>1, <1>2, <2>2, <2>3 DEF HoldInv, LastInv
<1>5. QED
  BY <1>3, <1>4, PendingAfterDeath

LEMMA WorkerHolds ==
  ASSUME IInv, TypeOK, HoldInv, NEW g \in Generations, NEW t \in Threads, Changes(g, t)
  PROVE  HoldInv'
<1>1. pending' = pending
  BY PendingStays DEF Changes
<1>2. FieldTypes /\ \A h \in Generations : InPlace(thread[h])
  BY Parts
<1>3. \A h \in Generations : thread'[h] = IF h = g THEN t ELSE thread[h]
  BY <1>2 DEF FieldTypes, Changes
<1>4. RestoreInv'
  <2>1. \A i \in 1..Len(pending) : pending[i] # "restore"
    BY DEF HoldInv, RestoreInv, Changes
  <2>2. QED
    BY <1>1, <2>1 DEF RestoreInv
<1>5. CallInv'
  <2> SUFFICES ASSUME NEW h \in Generations
               PROVE  /\ Up(h)' => thread'[h].call.phase = "live"
                      /\ thread'[h].call.phase = "live" /\ ~thread'[h].call.heard
                         /\ "stray" \notin slips'
                           => gen' = h \/ (main' = "cancel" /\ engine' = h /\ worker' = h)
    BY DEF CallInv
  <2>1. gen' = gen /\ main' = main /\ worker' = worker /\ slips \subseteq slips'
    BY DEF Changes
  <2>2. thread[h].call.phase = "live" => At(h) \in {"run", "announce"}
    BY <1>2 DEF InPlace, At
  <2>3. ASSUME thread[h].call.phase = "live", main = "cancel", engine = h, worker = h
        PROVE  engine' = h
    <3>1. At(g) = "make" => g = h
      BY <2>3 DEF IInv, LateInv, Late
    <3>2. At(g) = "make" \/ (At(g) = "after" /\ engine = g) => FALSE
      BY <2>2, <2>3, <3>1
    <3>3. QED
      BY <2>3, <3>2 DEF Changes
  <2>4. CASE h # g
    BY <1>3, <2>1, <2>3, <2>4 DEF HoldInv, CallInv, Up
  <2>5. CASE h = g
    <3>1. thread'[h] = t
      BY <1>3, <2>5
    <3>2. Up(h) => thread[h].call.phase = "live"
      BY DEF HoldInv, CallInv
    <3>3. Up(h)' => thread'[h].call.phase = "live"
      BY <2>5, <3>1, <3>2 DEF Changes, Up
    <3>4. QED
      BY <2>1, <2>3, <2>5, <3>1, <3>3 DEF HoldInv, CallInv, Changes
  <2>6. QED
    BY <2>4, <2>5
<1>6. LastInv'
  <2>1. gen' = gen /\ wanted' = wanted /\ (started' => started)
    BY DEF Changes
  <2>2. QED
    BY <1>1, <2>1 DEF HoldInv, LastInv, Has
<1>7. QED
  BY <1>4, <1>5, <1>6 DEF HoldInv

LEMMA StepHolds == ASSUME IInv, TypeOK, HoldInv, [Next]_vars PROVE HoldInv'
<1>1. FieldTypes /\ \A g \in Generations : InPlace(thread[g]) /\ g # 0
  BY Parts DEF Generations
<1>2. ASSUME UNCHANGED <<main, command, inbox, gen, engine, worker, thread, started, slips>>,
             wanted' = wanted
      PROVE  HoldInv'
  <2>1. pending' = pending
    BY <1>2, PendingStays
  <2>2. QED
    BY <1>2, <2>1 DEF HoldInv, RestoreInv, CallInv, LastInv, Has, At, Up
<1>3. CASE UNCHANGED vars
  BY <1>2, <1>3 DEF vars, queue, caller, fields
\* The queue gets one more at its end.
<1>4. ASSUME NEW c \in Orders, c # "restore", inbox' = Append(inbox, c),
             UNCHANGED <<main, command, gen, engine, worker, thread, slips>>,
             \/ wanted' = wanted /\ started' = started
             \/ wanted' = TRUE
             \/ c = "disconnect",
             c = "connect" => wanted'
      PROVE  HoldInv'
  <2>1. /\ Len(pending) \in Nat /\ Len(pending') = Len(pending) + 1
        /\ pending'[Len(pending) + 1] = c
        /\ \A i \in 1..Len(pending) : pending'[i] = pending[i]
    BY <1>4, PendingMore
  <2>2. \A i \in 1..Len(pending') : i \in 1..Len(pending) \/ i = Len(pending) + 1
    BY <2>1
  <2>3. RestoreInv'
    BY <1>4, <2>1, <2>2 DEF HoldInv, RestoreInv, At
  <2>4. CallInv'
    BY <1>4 DEF HoldInv, CallInv, Up
  <2>5. LastInv'
    <3> SUFFICES ASSUME ~wanted'
                 PROVE  /\ gen # 0 \/ started' => Has({"disconnect"})'
                        /\ \A i \in 1..Len(pending') :
                             pending'[i] \in {"connect", "restore"}
                               => \E j \in (i + 1)..Len(pending') : pending'[j] = "disconnect"
      BY <1>4 DEF LastInv
    <3>1. CASE c = "disconnect"
      <4>1. Has({"disconnect"})'
        BY <2>1, <3>1 DEF Has
      <4>2. ASSUME NEW i \in 1..Len(pending'), pending'[i] \in {"connect", "restore"}
            PROVE  \E j \in (i + 1)..Len(pending') : pending'[j] = "disconnect"
        <5>1. i \in 1..Len(pending)
          BY <2>1, <2>2, <3>1, <4>2
        <5>2. Len(pending) + 1 \in (i + 1)..Len(pending')
          BY <2>1, <5>1
        <5>3. QED
          BY <2>1, <3>1, <5>2
      <4>3. QED
        BY <4>1, <4>2
    <3>2. CASE c # "disconnect"
      <4>1. ~wanted /\ started' = started /\ c # "connect"
        BY <1>4, <3>2
      <4>2. gen # 0 \/ started' => Has({"disconnect"})'
        <5>1. SUFFICES ASSUME gen # 0 \/ started PROVE Has({"disconnect"})'
          BY <4>1
        <5>2. PICK i \in 1..Len(pending) : pending[i] = "disconnect"
          BY <4>1, <5>1 DEF HoldInv, LastInv, Has
        <5>3. i \in 1..Len(pending') /\ pending'[i] = "disconnect"
          BY <2>1, <5>2
        <5>4. QED
          BY <5>3 DEF Has
      <4>3. ASSUME NEW i \in 1..Len(pending'), pending'[i] \in {"connect", "restore"}
            PROVE  \E j \in (i + 1)..Len(pending') : pending'[j] = "disconnect"
        <5>1. i \in 1..Len(pending) /\ pending[i] \in {"connect", "restore"}
          BY <1>4, <2>1, <2>2, <4>1, <4>3
        <5>2. PICK j \in (i + 1)..Len(pending) : pending[j] = "disconnect"
          BY <4>1, <5>1 DEF HoldInv, LastInv
        <5>3. j \in (i + 1)..Len(pending') /\ j \in 1..Len(pending)
          BY <2>1, <5>1, <5>2
        <5>4. QED
          BY <2>1, <5>2, <5>3
      <4>4. QED
        BY <4>2, <4>3
    <3>3. QED
      BY <3>1, <3>2
  <2>6. QED
    BY <2>3, <2>4, <2>5 DEF HoldInv
<1>5. CASE \E c \in UserCommands : Give(c)
  <2>1. PICK c \in UserCommands : Give(c)
    BY <1>5
  <2>2. c \in Orders /\ c # "restore"
    BY DEF UserCommands, Orders
  <2>3. QED
    BY <1>4, <2>1, <2>2 DEF Give, caller, fields, UserCommands
<1>6. CASE BringDown
  BY <1>4, <1>6 DEF BringDown, caller, fields, Orders
<1>7. CASE SystemKill
  BY <1>7, DieHolds DEF SystemKill
<1>8. CASE Take
  <2>1. pending' = pending
    BY <1>8, PendingTaken
  <2>2. /\ gen' = 0 /\ main' = "cancel" /\ main = "idle"
        /\ UNCHANGED <<started, engine, worker, thread, wanted, slips>>
    BY <1>8 DEF Take
  <2>3. RestoreInv' /\ LastInv'
    BY <2>1, <2>2 DEF HoldInv, RestoreInv, LastInv, Has, At
  <2>4. CallInv'
    <3> SUFFICES ASSUME NEW g \in Generations, thread[g].call.phase = "live",
                        ~thread[g].call.heard, "stray" \notin slips
                 PROVE  engine = g /\ worker = g
      BY <2>2 DEF HoldInv, CallInv, Up
    <3>1. gen = g
      BY <2>2 DEF HoldInv, CallInv
    <3>2. At(g) \in {"run", "announce"}
      BY <1>1 DEF InPlace, At
    <3>3. QED
      BY <1>1, <2>2, <3>1, <3>2 DEF IInv, StopReaches, CurrentInv
  <2>5. QED
    BY <2>3, <2>4 DEF HoldInv
<1>9. CASE CancelEngine \/ Interrupt \/ Join
  <2>1. /\ main # "idle" /\ main' # "idle" /\ main' # "cancel"
        /\ UNCHANGED <<inbox, started, command, gen, worker, wanted, slips>>
        /\ main = "cancel" => CancelEngine
    BY <1>9 DEF CancelEngine, Interrupt, Join, queue, fields
  <2>2. pending' = pending
    BY <2>1, PendingStays
  <2>3. \A h \in Generations :
           /\ At(h)' = At(h) /\ Up(h)' = Up(h)
           /\ thread'[h].call.phase = thread[h].call.phase
           /\ thread[h].call.heard => thread'[h].call.heard
           /\ CancelEngine /\ engine = h /\ thread[h].call.phase = "live"
                => thread'[h].call.heard
    BY <1>1, <1>9, StopMoves
  <2>4. RestoreInv'
    BY <2>1, <2>2, <2>3 DEF HoldInv, RestoreInv
  <2>5. LastInv'
    BY <2>1, <2>2 DEF HoldInv, LastInv, Has
  <2>6. CallInv'
    <3> SUFFICES ASSUME NEW h \in Generations
                 PROVE  /\ Up(h)' => thread'[h].call.phase = "live"
                        /\ thread'[h].call.phase = "live" /\ ~thread'[h].call.heard
                           /\ "stray" \notin slips
                             => gen = h
      BY <2>1 DEF CallInv
    <3>1. /\ Up(h) => thread[h].call.phase = "live"
          /\ thread[h].call.phase = "live" /\ ~thread[h].call.heard /\ "stray" \notin slips
               => gen = h \/ (main = "cancel" /\ engine = h /\ worker = h)
      BY DEF HoldInv, CallInv
    <3>2. QED
      BY <2>1, <2>3, <3>1
  <2>7. QED
    BY <2>4, <2>5, <2>6 DEF HoldInv
<1>10. CASE FinishDisconnect \/ FinishDestroy \/ FinishConnect
  <2>1. main = "finish" /\ main' = "idle" /\ inbox' = inbox /\ wanted' = wanted
    BY <1>10 DEF FinishDisconnect, FinishDestroy, FinishConnect, Finish, queue
  <2>2. /\ Len(pending) = Len(pending') + 1 /\ Len(pending') \in Nat
        /\ pending[1] = command
        /\ \A i \in 1..Len(pending') : pending'[i] = pending[i + 1]
    BY <2>1, PendingFinished
  <2>3. gen = 0
    BY <2>1 DEF IInv, CurrentInv
  <2>4. \A i \in 1..Len(pending') : i + 1 \in 1..Len(pending) /\ i + 1 # 1
    BY <2>2
  <2>5. \A i \in 1..Len(pending) : i = 1 \/ (i - 1 \in 1..Len(pending') /\ pending'[i - 1] = pending[i])
    <3> SUFFICES ASSUME NEW i \in 1..Len(pending), i # 1
                 PROVE  i - 1 \in 1..Len(pending') /\ pending'[i - 1] = pending[i]
      OBVIOUS
    <3>1. i - 1 \in 1..Len(pending') /\ (i - 1) + 1 = i
      BY <2>2
    <3>2. QED
      BY <2>2, <3>1
  <2>6. RestoreInv'
    BY <2>2, <2>4 DEF HoldInv, RestoreInv
  <2>7. LastInv'
    <3> SUFFICES ASSUME ~wanted
                 PROVE  /\ gen' # 0 \/ started' => Has({"disconnect"})'
                        /\ \A i \in 1..Len(pending') :
                             pending'[i] \in {"connect", "restore"}
                               => \E j \in (i + 1)..Len(pending') : pending'[j] = "disconnect"
      BY <2>1 DEF LastInv
    <3>1. ASSUME NEW i \in 1..Len(pending'), pending'[i] \in {"connect", "restore"}
          PROVE  \E j \in (i + 1)..Len(pending') : pending'[j] = "disconnect"
      <4>1. i + 1 \in 1..Len(pending) /\ pending[i + 1] \in {"connect", "restore"}
        BY <2>2, <2>4, <3>1
      <4>2. PICK j \in ((i + 1) + 1)..Len(pending) : pending[j] = "disconnect"
        BY <4>1 DEF HoldInv, LastInv
      <4>3. j \in 1..Len(pending) /\ j # 1 /\ j - 1 \in (i + 1)..Len(pending')
        BY <2>2, <4>1, <4>2
      <4>4. QED
        BY <2>5, <4>2, <4>3
    <3>2. gen' # 0 \/ started' => Has({"disconnect"})'
      <4>1. CASE FinishDisconnect
        BY <2>3, <4>1 DEF FinishDisconnect
      <4>2. CASE FinishDestroy
        <5>1. gen' = gen /\ started' = started /\ command = "destroy"
          BY <4>2 DEF FinishDestroy, queue, Finish
        <5> SUFFICES ASSUME started PROVE Has({"disconnect"})'
          BY <2>3, <5>1
        <5>2. PICK i \in 1..Len(pending) : pending[i] = "disconnect"
          BY DEF HoldInv, LastInv, Has
        <5>3. i # 1
          BY <2>2, <5>1, <5>2
        <5>4. QED
          BY <2>5, <5>2, <5>3 DEF Has
      <4>3. CASE FinishConnect
        <5>1. command \in {"connect", "restore"}
          BY <4>3 DEF FinishConnect, Finish
        <5>2. 1 \in 1..Len(pending) /\ pending[1] \in {"connect", "restore"}
          BY <2>2, <5>1
        <5>3. PICK j \in (1 + 1)..Len(pending) : pending[j] = "disconnect"
          BY <5>2 DEF HoldInv, LastInv
        <5>4. j \in 1..Len(pending) /\ j # 1
          BY <2>2, <5>3
        <5>5. QED
          BY <2>5, <5>3, <5>4 DEF Has
      <4>4. QED
        BY <1>10, <4>1, <4>2, <4>3
    <3>3. QED
      BY <3>1, <3>2
  <2>8. CallInv'
    <3>1. slips \subseteq slips'
      BY <1>10 DEF FinishDisconnect, FinishDestroy, FinishConnect, Slip
    <3>2. \A h \in Generations : Up(h)' = Up(h) /\ thread'[h].call = thread[h].call
      <4>1. CASE UNCHANGED thread
        BY <4>1 DEF Up
      <4>2. CASE FinishConnect
        <5>1. PICK g \in Generations :
                thread' = [thread EXCEPT ![g] = [thread[g] EXCEPT !.at = "head"]]
          BY <4>2 DEF FinishConnect
        <5> DEFINE t == [thread[g] EXCEPT !.at = "head"]
        <5>2. thread[g] \in Threads
          BY <1>1, ThreadTyped
        <5>3. t.call = thread[g].call
          BY <5>2 DEF Threads
        <5> HIDE DEF t
        <5>4. \A h \in Generations : thread'[h] = IF h = g THEN t ELSE thread[h]
          BY <1>1, <5>1 DEF t, FieldTypes
        <5>5. QED
          BY <5>3, <5>4 DEF Up
      <4>3. QED
        BY <1>10, <4>1, <4>2 DEF FinishDisconnect, FinishDestroy
    <3>3. QED
      BY <2>1, <2>3, <3>1, <3>2, <1>1 DEF HoldInv, CallInv
  <2>9. QED
    BY <2>6, <2>7, <2>8 DEF HoldInv
<1>11. ASSUME NEW g \in Generations, Moves(g) \/ Connects(g) \/ AwaitNetwork(g)
       PROVE  HoldInv'
  <2>1. CASE Uncaught(g)
    BY <2>1, DieHolds DEF Uncaught
  <2>2. QED
    BY <1>11, <2>1, WorkerChanges, WorkerHolds
<1>12. QED
  BY <1>3, <1>5, <1>6, <1>7, <1>8, <1>9, <1>10, <1>11 DEF Next, Handle

\* With nothing to handle the user's last command, if it was a disconnect, has
\* been obeyed: no generation is current, after whatever kills and restarts of
\* the process, and an interface that is still up belongs to a call that has
\* been told to end (AnyConnectVpnService.stopConnection, onStartCommand).
THEOREM DisconnectIsFinal == Spec => []DisconnectHolds
<1>1. Init => IInv /\ TypeOK /\ HoldInv
  BY InitInv, InitTypes, InitHolds
<1>2. IInv /\ TypeOK /\ HoldInv /\ [Next]_vars => IInv' /\ TypeOK' /\ HoldInv'
  BY NextInv, TypesKept, StepHolds
<1>3. TypeOK /\ HoldInv => DisconnectHolds
  <2> SUFFICES ASSUME TypeOK, HoldInv, Settled, ~wanted, "stray" \notin slips
               PROVE  gen = 0 /\ \A g \in Generations : Up(g) => thread[g].call.heard
    BY DEF DisconnectHolds
  <2>1. pending = <<>> /\ main = "idle"
    BY DEF Settled, pending
  <2>2. ~Has({"disconnect"})
    BY <2>1 DEF Has
  <2>3. gen = 0
    BY <2>2 DEF HoldInv, LastInv
  <2>4. \A g \in Generations : g # 0
    BY DEF Generations
  <2>5. QED
    BY <2>1, <2>3, <2>4 DEF HoldInv, CallInv
<1>4. QED
  BY <1>1, <1>2, <1>3, PTL DEF Spec

-----------------------------------------------------------------------------
(* The status is true. *)

Active == {"connecting", "connected"}

\* No worker is of the current generation, and those that are left are on their
\* way out.
Quiet ==
  /\ \A g \in Generations : At(g) \in Late
  /\ gen = 0 \/ At(gen) = "done"

QuitInv == \A g \in Generations : At(g) = "quit" => status = "failed"

FreshInv == gen # 0 => ~thread[gen].interrupted

\* A service that nobody keeps started has nothing to connect, and says so.
StoppedInv ==
  slips = {} /\ ~started => status \notin Active /\ Quiet /\ ~Has({"connect", "restore"})

\* So has one whose end is pending, up to that end.
DestroyInv ==
  slips = {} =>
    \A i \in 1..Len(pending) :
      pending[i] = "destroy"
        => /\ status \notin Active /\ Quiet
           /\ \A j \in 1..(i - 1) : pending[j] \notin {"connect", "restore"}

\* What an active status rests on: a worker, or a command that will set it anew.
StatusInv ==
  slips = {} /\ status \in Active
    => (gen # 0 /\ At(gen) # "done") \/ Has({"connect", "disconnect", "restore"})

TruthInv == QuitInv /\ FreshInv /\ StoppedInv /\ DestroyInv /\ StatusInv

LEMMA InitTruth == Init => TruthInv
<1> SUFFICES ASSUME Init PROVE TruthInv
  OBVIOUS
<1>1. pending = <<>> /\ \A g \in Generations : At(g) = "done"
  BY DEF Init, pending, At, Idle
<1>2. QED
  BY <1>1 DEF Init, TruthInv, QuitInv, FreshInv, StoppedInv, DestroyInv, StatusInv, Has,
     Quiet, Late, Active

LEMMA DieTruth == ASSUME TypeOK, TruthInv, Die PROVE TruthInv'
<1>1. /\ gen' = 0 /\ started' = started /\ status' = status /\ slips' = slips
      /\ \A g \in Generations : At(g)' = "done"
  BY DEF Die, At, Idle
<1>2. Quiet'
  BY <1>1 DEF Quiet, Late
<1>3. QuitInv' /\ FreshInv'
  BY <1>1 DEF QuitInv, FreshInv
<1>4. CASE Keeps(pending, Len(pending), pending')
  <2>1. PICK h \in [1..Len(pending') -> 1..Len(pending)] :
          /\ \A k \in 1..Len(pending') : pending'[k] = pending[h[k]]
          /\ \A i \in 1..Len(pending) : pending[i] \in UserCommands
                                          => \E k \in 1..Len(pending') : h[k] = i
    BY <1>4 DEF Keeps
  <2>2. \A k \in 1..Len(pending') : pending'[k] \in UserCommands
    BY <1>4 DEF Keeps
  <2>3. StoppedInv'
    <3> SUFFICES ASSUME slips = {}, ~started
                 PROVE  status \notin Active /\ ~Has({"connect", "restore"})'
      BY <1>1, <1>2 DEF StoppedInv
    <3>1. status \notin Active /\ ~Has({"connect", "restore"})
      BY DEF TruthInv, StoppedInv
    <3>2. QED
      BY <2>1, <3>1 DEF Has
  <2>4. DestroyInv'
    BY <2>2 DEF DestroyInv, UserCommands
  <2>5. StatusInv'
    <3> SUFFICES ASSUME slips = {}, status \in Active
                 PROVE  Has({"connect", "disconnect", "restore"})'
      BY <1>1 DEF StatusInv
    <3>1. CASE Has(UserCommands)
      <4>1. PICK i \in 1..Len(pending) : pending[i] \in UserCommands
        BY <3>1 DEF Has
      <4>2. PICK k \in 1..Len(pending') : h[k] = i
        BY <2>1, <4>1
      <4>3. QED
        BY <2>2, <4>2 DEF Has, UserCommands
    <3>2. CASE ~Has(UserCommands)
      <4>1. started
        BY DEF TruthInv, StoppedInv
      <4>2. unfinished = <<>>
        <5>1. Keeps(pending, Len(pending), unfinished)
          BY Parts, UnfinishedKeeps
        <5>2. PICK e \in [1..Len(unfinished) -> 1..Len(pending)] :
                     \A k \in 1..Len(unfinished) : unfinished[k] = pending[e[k]]
          BY <5>1 DEF Keeps
        <5>3. unfinished \in Seq(UserCommands)
          BY <5>1 DEF Keeps
        <5>4. \A k \in 1..Len(unfinished) : FALSE
          BY <3>2, <5>2, <5>3 DEF Has
        <5>5. QED
          BY <5>3, <5>4
      <4>3. pending' = <<"restore">>
        BY <4>1, <4>2 DEF Die, pending
      <4>4. QED
        BY <2>2, <4>3 DEF UserCommands
    <3>3. QED
      BY <3>1, <3>2
  <2>6. QED
    BY <1>3, <2>3, <2>4, <2>5 DEF TruthInv
<1>5. CASE pending' = <<"restore">> /\ started /\ ~Has(UserCommands)
  <2>1. Len(pending') = 1 /\ pending'[1] = "restore"
    BY <1>5
  <2>2. StoppedInv' /\ DestroyInv' /\ StatusInv'
    BY <1>1, <1>5, <2>1 DEF StoppedInv, DestroyInv, StatusInv, Has
  <2>3. QED
    BY <1>3, <2>2 DEF TruthInv
<1>6. QED
  BY <1>4, <1>5, PendingAfterDeath

LEMMA WorkerTruth ==
  ASSUME IInv, IInv', TypeOK, HoldInv, TruthInv,
         NEW g \in Generations, NEW t \in Threads, Changes(g, t)
  PROVE  TruthInv'
<1>1. pending' = pending
  BY PendingStays DEF Changes
<1>2. FieldTypes /\ gen \in Generations \cup {0}
  BY Parts DEF FieldTypes
<1>3. \A h \in Generations : thread'[h] = IF h = g THEN t ELSE thread[h]
  BY <1>2 DEF FieldTypes, Changes
<1>4. \A h \in Generations : At(h)' = IF h = g THEN t.at ELSE At(h)
  BY <1>3 DEF At
<1>5. gen' = gen /\ slips \subseteq slips' /\ At(g) # "done"
  BY DEF Changes
<1>6. \A h \in Generations : At(h) \notin Late => h = worker
  BY DEF IInv, LateInv
<1>7. QuitInv'
  <2> SUFFICES ASSUME NEW h \in Generations, At(h)' = "quit" PROVE status' = "failed"
    BY DEF QuitInv
  <2>1. CASE h = g
    BY <1>4, <2>1 DEF Changes
  <2>2. CASE h # g
    <3>1. At(h) = "quit" /\ status = "failed"
      BY <1>4, <2>2 DEF TruthInv, QuitInv
    <3>2. At(g) \in Late
      BY <1>6, <2>2, <3>1 DEF Late
    <3>3. QED
      BY <3>1, <3>2 DEF Changes
  <2>3. QED
    BY <2>1, <2>2
<1>8. FreshInv'
  BY <1>2, <1>3, <1>5 DEF TruthInv, FreshInv, Changes
\* A worker on its way out goes on, publishes nothing and starts nothing.
<1>9. ASSUME Quiet PROVE Quiet' /\ status' = status
  <2>1. At(g) \in Late /\ gen # g
    BY <1>2, <1>5, <1>9 DEF Quiet, Generations
  <2>2. QED
    BY <1>2, <1>4, <1>5, <1>9, <2>1 DEF Quiet, Changes
<1>10. StoppedInv'
  <2> SUFFICES ASSUME slips' = {}, ~started'
               PROVE  status' \notin Active /\ Quiet' /\ ~Has({"connect", "restore"})'
    BY DEF StoppedInv
  <2>1. slips = {}
    BY <1>5
  <2>2. CASE started' = started
    BY <1>1, <1>9, <2>1, <2>2 DEF TruthInv, StoppedInv, Has
  <2>3. CASE started' # started
    <3>1. At(g) = "quit" /\ t.at = "done" /\ gen = g /\ ~ConnectWaits
      BY <2>3 DEF Changes
    <3>2. status = "failed" /\ status' = "failed"
      <4>1. status = "failed"
        BY <3>1 DEF TruthInv, QuitInv
      <4>2. t.at # "quit" /\ At(g) = "quit"
        BY <3>1
      <4>3. started' = FALSE /\ started = TRUE
        BY <2>3 DEF TypeOK, Values, Changes
      <4>4. QED
        BY <4>1, <2>3 DEF Changes
    <3>3. Quiet'
      <4>1. \A h \in Generations : h # g => At(h) \in Late
        BY <1>6, <3>1 DEF Late
      <4>2. QED
        BY <1>4, <1>5, <3>1, <4>1 DEF Quiet, Late
    <3>4. main = "idle"
      BY <3>1 DEF IInv, CurrentInv, Generations
    <3>5. pending = inbox
      BY <3>4, Parts
    <3>6. ~Has({"connect", "restore"})
      <4>1. \A i \in 1..Len(pending) : pending[i] # "restore"
        BY <3>1 DEF HoldInv, RestoreInv
      <4>2. \A i \in 1..Len(pending) : pending[i] # "connect"
        BY <3>1, <3>5 DEF ConnectWaits
      <4>3. QED
        BY <4>1, <4>2 DEF Has
    <3>7. QED
      BY <1>1, <3>2, <3>3, <3>6 DEF Active, Has
  <2>4. QED
    BY <2>2, <2>3
<1>11. DestroyInv'
  BY <1>1, <1>5, <1>9 DEF TruthInv, DestroyInv
<1>12. StatusInv'
  <2> SUFFICES ASSUME slips' = {}, status' \in Active
               PROVE  \/ gen # 0 /\ At(gen)' # "done"
                      \/ Has({"connect", "disconnect", "restore"})
    BY <1>1, <1>5 DEF StatusInv, Has
  <2>1. slips = {}
    BY <1>5
  <2>2. CASE gen # 0 /\ At(gen) # "done"
    <3>1. CASE gen # g
      BY <1>2, <1>4, <1>5, <2>2, <3>1
    <3>2. CASE gen = g
      <4>1. At(g) # "quit"
        BY DEF TruthInv, QuitInv, Changes, Active
      <4>2. ~thread[g].interrupted
        BY <2>2, <3>2 DEF TruthInv, FreshInv
      <4>3. t.at # "done"
        BY <3>2, <4>1, <4>2 DEF Changes
      <4>4. QED
        BY <1>4, <1>5, <2>2, <3>2, <4>3
    <3>3. QED
      BY <3>1, <3>2
  <2>3. CASE ~(gen # 0 /\ At(gen) # "done") /\ status' = status
    BY <2>1, <2>3 DEF TruthInv, StatusInv
  \* What publishes is the worker of the current generation, or one that the
  \* command in hand is about to stop.
  <2>4. CASE ~(gen # 0 /\ At(gen) # "done") /\ status' # status
    <3>1. At(g) \notin Late
      BY <2>4 DEF Changes
    <3>2. g = worker /\ g # 0
      BY <1>6, <3>1 DEF Generations
    <3>3. main # "idle" /\ gen = 0
      BY <1>5, <2>4, <3>2 DEF IInv, CurrentInv
    <3>4. pending = <<command>> \o inbox /\ command \in Orders /\ inbox \in Seq(Orders)
      BY <3>3, Parts
    <3>5. 1 \in 1..Len(pending) /\ pending[1] = command
      BY <3>4
    <3>6. command # "destroy"
      BY <2>1, <3>1, <3>5 DEF TruthInv, DestroyInv, Quiet
    <3>7. QED
      BY <3>4, <3>5, <3>6 DEF Has, Orders
  <2>5. QED
    BY <2>2, <2>3, <2>4
<1>13. QED
  BY <1>7, <1>8, <1>10, <1>11, <1>12 DEF TruthInv

\* The command in hand is the first that is pending.
LEMMA InHand ==
  ASSUME TypeOK, main # "idle"
  PROVE  /\ pending = <<command>> \o inbox /\ command \in Orders
         /\ 1 \in 1..Len(pending) /\ pending[1] = command
<1>1. pending = <<command>> \o inbox /\ command \in Orders /\ inbox \in Seq(Orders)
  BY Parts
<1>2. QED
  BY <1>1

\* The queue gets one more at its end: it starts the service, or it is the end
\* of one that is not started.
LEMMA MoreTruth ==
  ASSUME TypeOK, TruthInv, NEW c \in Orders, inbox' = Append(inbox, c),
         UNCHANGED <<main, command, gen, thread, status, slips>>,
         \/ started' = TRUE /\ c # "destroy"
         \/ started' = started /\ ~started /\ c = "destroy"
  PROVE  TruthInv'
<1>1. /\ Len(pending) \in Nat /\ Len(pending') = Len(pending) + 1
      /\ pending'[Len(pending) + 1] = c
      /\ \A i \in 1..Len(pending) : pending'[i] = pending[i]
  BY PendingMore
<1>2. \A i \in 1..Len(pending') : i \in 1..Len(pending) \/ i = Len(pending) + 1
  BY <1>1
<1>3. Quiet' <=> Quiet
  BY DEF Quiet, At
<1>4. QuitInv' /\ FreshInv'
  BY DEF TruthInv, QuitInv, FreshInv, At
<1>5. StoppedInv'
  <2> SUFFICES ASSUME slips = {}, ~started'
               PROVE  status \notin Active /\ Quiet /\ ~Has({"connect", "restore"})'
    BY <1>3 DEF StoppedInv
  <2>1. ~started /\ c = "destroy"
    OBVIOUS
  <2>2. status \notin Active /\ Quiet /\ ~Has({"connect", "restore"})
    BY <2>1 DEF TruthInv, StoppedInv
  <2>3. QED
    BY <1>1, <1>2, <2>1, <2>2 DEF Has
<1>6. DestroyInv'
  <2> SUFFICES ASSUME slips = {}, NEW i \in 1..Len(pending'), pending'[i] = "destroy"
               PROVE  /\ status \notin Active /\ Quiet
                      /\ \A j \in 1..(i - 1) : pending'[j] \notin {"connect", "restore"}
    BY <1>3 DEF DestroyInv
  <2>1. CASE i \in 1..Len(pending)
    <3>1. pending[i] = "destroy" /\ \A j \in 1..(i - 1) : j \in 1..Len(pending)
      BY <1>1, <2>1
    <3>2. QED
      BY <1>1, <2>1, <3>1 DEF TruthInv, DestroyInv
  <2>2. CASE i = Len(pending) + 1
    <3>1. ~started /\ c = "destroy"
      BY <1>1, <2>2
    <3>2. status \notin Active /\ Quiet /\ ~Has({"connect", "restore"})
      BY <3>1 DEF TruthInv, StoppedInv
    <3>3. \A j \in 1..(i - 1) : j \in 1..Len(pending)
      BY <1>1, <2>2
    <3>4. QED
      BY <1>1, <3>2, <3>3 DEF Has
  <2>3. QED
    BY <1>2, <2>1, <2>2
<1>7. StatusInv'
  <2> SUFFICES ASSUME slips = {}, status \in Active, ~(gen # 0 /\ At(gen) # "done")
               PROVE  Has({"connect", "disconnect", "restore"})'
    BY DEF StatusInv, At
  <2>1. PICK i \in 1..Len(pending) : pending[i] \in {"connect", "disconnect", "restore"}
    BY DEF TruthInv, StatusInv, Has
  <2>2. i \in 1..Len(pending') /\ pending'[i] = pending[i]
    BY <1>1, <2>1
  <2>3. QED
    BY <2>1, <2>2 DEF Has
<1>8. QED
  BY <1>4, <1>5, <1>6, <1>7 DEF TruthInv

\* The main thread begins with a command.
LEMMA TakeTruth == ASSUME TypeOK, TruthInv, Take PROVE TruthInv'
<1>1. pending' = pending
  BY PendingTaken
<1>2. /\ gen' = 0 /\ UNCHANGED <<started, thread, status, slips>>
      /\ command' = Head(inbox) /\ main' = "cancel"
  BY DEF Take
<1>3. Quiet => Quiet'
  BY <1>2 DEF Quiet, At
<1>4. QuitInv' /\ FreshInv' /\ StoppedInv' /\ DestroyInv'
  BY <1>1, <1>2, <1>3 DEF TruthInv, QuitInv, FreshInv, StoppedInv, DestroyInv, Has, At
<1>5. StatusInv'
  <2> SUFFICES ASSUME slips = {}, status \in Active
               PROVE  Has({"connect", "disconnect", "restore"})
    BY <1>1, <1>2 DEF StatusInv, Has
  <2>1. inbox \in Seq(Orders) /\ inbox # <<>> /\ pending = inbox
    BY Parts DEF Take
  <2>2. 1 \in 1..Len(pending) /\ pending[1] \in Orders
    BY <2>1
  <2>3. pending[1] # "destroy"
    BY <2>2 DEF TruthInv, DestroyInv
  <2>4. QED
    BY <2>2, <2>3 DEF Has, Orders
<1>6. QED
  BY <1>4, <1>5 DEF TruthInv

\* The stop of the last connection moves nobody.
LEMMA StopTruth ==
  ASSUME IInv, TypeOK, TruthInv, CancelEngine \/ Interrupt \/ Join
  PROVE  TruthInv'
<1>1. FieldTypes /\ gen = 0
  BY Parts DEF IInv, CurrentInv, CancelEngine, Interrupt, Join
<1>2. /\ main # "idle" /\ main' # "idle"
      /\ UNCHANGED <<inbox, started, command, gen, status, slips>>
  BY DEF CancelEngine, Interrupt, Join, queue, fields
<1>3. pending' = pending
  BY <1>2, PendingStays
<1>4. \A h \in Generations : At(h)' = At(h)
  BY <1>1, StopMoves
<1>5. Quiet' <=> Quiet
  BY <1>1, <1>2, <1>4 DEF Quiet
<1>6. QED
  BY <1>1, <1>2, <1>3, <1>4, <1>5 DEF TruthInv, QuitInv, FreshInv, StoppedInv, DestroyInv,
     StatusInv, Has

LEMMA FinishTruth ==
  ASSUME IInv, TypeOK, HoldInv, TruthInv,
         FinishDisconnect \/ FinishDestroy \/ FinishConnect
  PROVE  TruthInv'
<1>1. FieldTypes /\ \A g \in Generations : g # 0
  BY Parts DEF Generations
<1>2. main = "finish" /\ main' = "idle" /\ inbox' = inbox
  BY DEF FinishDisconnect, FinishDestroy, FinishConnect, Finish, queue
<1>3. gen = 0 /\ \A g \in Generations : At(g) \in Late
  BY <1>2 DEF IInv, CurrentInv, LateInv
<1>4. Quiet
  BY <1>3 DEF Quiet
<1>5. /\ Len(pending) = Len(pending') + 1 /\ Len(pending') \in Nat
      /\ pending[1] = command /\ pending' = inbox
      /\ \A i \in 1..Len(pending') : pending'[i] = pending[i + 1]
  BY <1>2, PendingFinished
<1>6. 1 \in 1..Len(pending) /\ command \in Orders
  BY <1>2, InHand
<1>7. \A i \in 1..Len(pending') : i + 1 \in 1..Len(pending) /\ i + 1 # 1
  BY <1>5
<1>8. ASSUME NEW i \in 1..Len(pending), i # 1
      PROVE  i - 1 \in 1..Len(pending') /\ pending'[i - 1] = pending[i]
  <2>1. i - 1 \in 1..Len(pending') /\ (i - 1) + 1 = i
    BY <1>5, <1>8
  <2>2. QED
    BY <1>5, <2>1
\* A null intent is never behind a command.
<1>9. \A i \in 1..Len(pending') : pending'[i] # "restore"
  BY <1>5, <1>7 DEF HoldInv, RestoreInv
<1>10. CASE FinishDisconnect
  <2>1. /\ UNCHANGED <<gen, thread>> /\ status' = "disconnected" /\ started' = FALSE
        /\ slips' = IF ConnectWaits THEN slips \cup {"overtaken"} ELSE slips
    BY <1>10 DEF FinishDisconnect, Slip
  <2>2. Quiet' /\ status' \notin Active
    BY <1>4, <2>1 DEF Quiet, At, Active
  <2>3. slips' = {} => ~Has({"connect", "restore"})'
    <3> SUFFICES ASSUME slips' = {} PROVE ~Has({"connect", "restore"})'
      OBVIOUS
    <3>1. ~ConnectWaits
      BY <2>1
    <3>2. QED
      BY <1>5, <1>9, <3>1 DEF ConnectWaits, Has
  <2>4. \A g \in Generations : At(g)' # "quit"
    BY <1>3, <2>1 DEF At, Late
  <2>5. DestroyInv'
    <3> SUFFICES ASSUME slips' = {}, NEW i \in 1..Len(pending'),
                        NEW j \in 1..(i - 1)
                 PROVE  pending'[j] \notin {"connect", "restore"}
      BY <2>2 DEF DestroyInv
    <3>1. j \in 1..Len(pending')
      BY <1>5
    <3>2. QED
      BY <2>3, <3>1 DEF Has
  <2>6. QED
    BY <1>3, <2>1, <2>2, <2>3, <2>4, <2>5 DEF TruthInv, QuitInv, FreshInv, StoppedInv,
       StatusInv
<1>11. CASE FinishDestroy
  <2>1. UNCHANGED <<gen, thread, status, started, slips>> /\ command = "destroy"
    BY <1>11 DEF FinishDestroy, queue, Finish
  <2>2. Quiet' /\ (slips = {} => status \notin Active)
    BY <1>4, <1>5, <1>6, <2>1 DEF Quiet, At, TruthInv, DestroyInv
  <2>3. StoppedInv'
    <3> SUFFICES ASSUME slips = {}, ~started PROVE ~Has({"connect", "restore"})'
      BY <2>1, <2>2 DEF StoppedInv
    <3>1. ~Has({"connect", "restore"})
      BY DEF TruthInv, StoppedInv
    <3>2. QED
      BY <1>5, <1>7, <3>1 DEF Has
  <2>4. DestroyInv'
    <3> SUFFICES ASSUME slips = {}, NEW i \in 1..Len(pending'), pending'[i] = "destroy",
                        NEW j \in 1..(i - 1)
                 PROVE  pending'[j] \notin {"connect", "restore"}
      BY <2>1, <2>2 DEF DestroyInv
    <3>1. /\ i + 1 \in 1..Len(pending) /\ pending[i + 1] = "destroy"
          /\ j \in 1..Len(pending') /\ j + 1 \in 1..((i + 1) - 1)
      BY <1>5
    <3>2. pending[j + 1] \notin {"connect", "restore"}
      BY <3>1 DEF TruthInv, DestroyInv
    <3>3. QED
      BY <1>5, <3>1, <3>2
  <2>5. QED
    BY <1>3, <2>1, <2>2, <2>3, <2>4 DEF TruthInv, QuitInv, FreshInv, StatusInv, Late, At
<1>12. CASE FinishConnect
  <2>1. command \in {"connect", "restore"} /\ UNCHANGED <<started, slips>>
    BY <1>12 DEF FinishConnect, Finish, queue
  <2>2. status' = "connecting"
    BY <1>12 DEF FinishConnect
  <2>3. PICK g \in Generations :
          /\ thread[g] = Idle /\ gen' = g
          /\ thread' = [thread EXCEPT ![g] = [thread[g] EXCEPT !.at = "head"]]
    BY <1>12 DEF FinishConnect
  <2> DEFINE t == [thread[g] EXCEPT !.at = "head"]
  <2>4. t.at = "head" /\ ~t.interrupted
    BY <2>3 DEF Idle
  <2> HIDE DEF t
  <2>5. thread' = [thread EXCEPT ![g] = t]
    BY <2>3 DEF t
  <2>6. \A h \in Generations : thread'[h] = IF h = g THEN t ELSE thread[h]
    BY <1>1, <2>5 DEF FieldTypes
  <2>7. QuitInv' /\ FreshInv' /\ StatusInv'
    BY <1>1, <1>3, <2>3, <2>4, <2>6 DEF QuitInv, FreshInv, StatusInv, At, Late
  <2>8. slips = {} => started
    BY <1>5, <1>6, <2>1 DEF TruthInv, StoppedInv, Has
  <2>9. ASSUME slips = {}, NEW i \in 1..Len(pending') PROVE pending'[i] # "destroy"
    <3>1. i + 1 \in 1..Len(pending) /\ pending'[i] = pending[i + 1] /\ 1 \in 1..((i + 1) - 1)
      BY <1>5
    <3>2. QED
      BY <1>5, <2>1, <2>9, <3>1 DEF TruthInv, DestroyInv
  <2>10. StoppedInv' /\ DestroyInv'
    BY <2>1, <2>8, <2>9 DEF StoppedInv, DestroyInv
  <2>11. QED
    BY <2>7, <2>10 DEF TruthInv
<1>13. QED
  BY <1>10, <1>11, <1>12

LEMMA StepTruth ==
  ASSUME IInv, IInv', TypeOK, HoldInv, TruthInv, [Next]_vars
  PROVE  TruthInv'
<1>1. CASE UNCHANGED vars
  <2>1. UNCHANGED <<inbox, started, main, command, gen, thread, status, slips>>
    BY <1>1 DEF vars, queue, caller, fields
  <2>2. pending' = pending
    BY <2>1, PendingStays
  <2>3. QED
    BY <2>1, <2>2 DEF TruthInv, QuitInv, FreshInv, StoppedInv, DestroyInv, StatusInv,
       Quiet, Has, At
<1>2. CASE \E c \in UserCommands : Give(c)
  <2>1. PICK c \in UserCommands : Give(c)
    BY <1>2
  <2>2. c \in Orders /\ c # "destroy"
    BY DEF UserCommands, Orders
  <2>3. QED
    BY <2>1, <2>2, MoreTruth DEF Give, caller, fields
<1>3. CASE BringDown
  BY <1>3, MoreTruth DEF BringDown, caller, fields, Orders
<1>4. CASE SystemKill
  BY <1>4, DieTruth DEF SystemKill
<1>5. ASSUME NEW g \in Generations, Moves(g) \/ Connects(g) \/ AwaitNetwork(g)
      PROVE  TruthInv'
  <2>1. CASE Uncaught(g)
    BY <2>1, DieTruth DEF Uncaught
  <2>2. QED
    BY <1>5, <2>1, WorkerChanges, WorkerTruth
<1>6. QED
  BY <1>1, <1>2, <1>3, <1>4, <1>5, TakeTruth, StopTruth, FinishTruth DEF Next, Handle

\* With nothing to handle and none of the races the history notes, the page
\* shows "connecting" or "connected" only while the worker of the current
\* generation is at work, across kills and restarts of the process
\* (AnyConnectVpnService.publishStatus, connectLoop, stopConnection).
THEOREM StatusIsTrue == Spec => []StatusTruthful
<1>1. Init => IInv /\ TypeOK /\ HoldInv /\ TruthInv
  BY InitInv, InitTypes, InitHolds, InitTruth
<1>2. IInv /\ TypeOK /\ HoldInv /\ TruthInv /\ [Next]_vars
        => IInv' /\ TypeOK' /\ HoldInv' /\ TruthInv'
  BY NextInv, TypesKept, StepHolds, StepTruth
<1>3. TruthInv => StatusTruthful
  <2> SUFFICES ASSUME TruthInv, Settled, status \in Active, slips = {}
               PROVE  gen # 0 /\ At(gen) # "done"
    BY DEF StatusTruthful, Active
  <2>1. pending = <<>>
    BY DEF Settled, pending
  <2>2. ~Has({"connect", "disconnect", "restore"})
    BY <2>1 DEF Has
  <2>3. QED
    BY <2>2 DEF TruthInv, StatusInv
<1>4. QED
  BY <1>1, <1>2, <1>3, PTL DEF Spec

=============================================================================
