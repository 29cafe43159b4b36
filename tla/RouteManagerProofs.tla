-------------------------- MODULE RouteManagerProofs --------------------------
(***************************************************************************)
(* Proofs about RouteManager for every set of prefixes, gateways and       *)
(* faults, every size of a batch and of a sample.                          *)
(***************************************************************************)
EXTENDS RouteManager, FiniteSetTheorems, TLAPS

\* Each kind of route stays with its own lists, batches and gateway.
KindInv ==
  /\ gateway["bypass"] \in Gateways /\ gateway["vpn"] \in {"none", "vpn"}
  /\ tracked["bypass"] \subseteq Bypass /\ tracked["vpn"] \subseteq Foreign
  /\ saved["bypass"] \subseteq Bypass /\ saved["vpn"] \subseteq Foreign
  /\ todo \subseteq CidrsOf(kind) /\ left \subseteq CidrsOf(kind)
  /\ chunk \subseteq CidrsOf(kind)
  /\ job = "add" \/ chunk # {} \/ todo # {} => Known(kind)
  /\ \A r \in table : \/ r[1] \in Bypass /\ r[2] \in Gateways
                      \/ r[1] \in Foreign /\ r[2] = "vpn"

\* The program starts again only after a crash, alone and uninterrupted; then
\* lists and records agree at once.
StartInv ==
  /\ boot # "up" => "crash" \in past /\ ctx = "background" /\ job # "add"
  /\ boot \in {"start", "forget"} => job = "free"
  /\ boot = "start" => tracked["bypass"] = {}
  /\ boot = "stale" => job = "remove"
  /\ boot = "up" => /\ saved["bypass"] = tracked["bypass"]
                    /\ "crash" \notin past => saved["vpn"] = tracked["vpn"]

\* When scripts do not fail and the network stays: a removal has deleted what
\* it is done with, and a start has deleted all that was on record.
StoppedInv ==
  Stopped =>
    /\ result # "failed"
    /\ \A r \in table : r[1] \in Bypass => r[2] = gateway["bypass"]
    /\ job = "remove" /\ kind = "bypass" =>
         /\ left = {}
         /\ \A r \in table : r[1] \in saved["bypass"] => r[1] \in todo
    /\ boot \in {"staleVpn", "forget"} => saved["bypass"] = {}
    /\ boot = "stale" /\ kind = "vpn" => saved["bypass"] = {}

\* Without a fault what is in the table is listed, or in the batch of an
\* addition, and a removal has yet to come to what it does not give back.
FaultlessInv ==
  past = {} =>
    /\ ctx # "cancelled"
    /\ \A r \in table : \/ r[1] \in OnRecord(tracked)
                        \/ job = "add" /\ r[1] \in chunk
    /\ \A r \in table : r[1] \in Foreign => Known("vpn")
    /\ job = "remove" =>
         \A r \in table : r[1] \in tracked[kind] => r[1] \in todo \cup left

IInv == TypeOK /\ KindInv /\ StartInv /\ StoppedInv /\ FaultlessInv

LEMMA FaultTyped ==
  ASSUME TypeOK, NEW f, Fault(f) \/ NoFault
  PROVE  faults' \in 0..MaxFaults /\ past' \subseteq Faults
<1>1. faults' \in 0..MaxFaults
  BY RouteAssumption DEF TypeOK, Fault, NoFault
<1>2. past' \subseteq Faults
  BY DEF TypeOK, Fault, NoFault
<1>3. QED
  BY <1>1, <1>2

LEMMA TypesKept == IInv /\ [Next]_vars => TypeOK'
<1> SUFFICES ASSUME IInv, [Next]_vars PROVE TypeOK'
    OBVIOUS
<1> USE RouteAssumption DEF IInv, TypeOK, KindInv, Kinds, CidrsOf, Prefixes
<1>1. CASE RunAdd
  <2>1. table' \subseteq Prefixes \X (Gateways \cup {"vpn"})
    BY <1>1 DEF RunAdd, Known, Routes, Prefixes
  <2>2. chunk' \subseteq Prefixes /\ todo' \subseteq Prefixes
    BY <1>1 DEF RunAdd
  <2>3. result' \in {"none", "ok", "known", "failed"}
    BY <1>1 DEF RunAdd
  <2>4. faults' \in 0..MaxFaults /\ past' \subseteq Faults
    BY <1>1, FaultTyped DEF RunAdd
  <2>5. QED
    BY <1>1, <2>1, <2>2, <2>3, <2>4 DEF RunAdd
<1>2. CASE KillAdd
  <2>1. table' \subseteq Prefixes \X (Gateways \cup {"vpn"})
    BY <1>2 DEF KillAdd, Known, Routes, Prefixes
  <2>2. saved' \in [Kinds -> SUBSET Prefixes]
    BY <1>2 DEF KillAdd
  <2>3. QED
    BY <1>2, <2>1, <2>2 DEF KillAdd, Fault, End
<1>3. CASE RecordAdd
  <2>1. table' \subseteq Prefixes \X (Gateways \cup {"vpn"})
    BY <1>3 DEF RecordAdd, Known, Routes, Prefixes, Killed
  <2>2. tracked' \in [Kinds -> SUBSET Prefixes]
    BY <1>3 DEF RecordAdd
  <2>3. saved' \in [Kinds -> SUBSET Prefixes]
    BY <1>3, <2>2 DEF RecordAdd, Save
  <2>4. faults' \in 0..MaxFaults /\ past' \subseteq Faults
    BY <1>3, FaultTyped DEF RecordAdd, Retry
  <2>5. QED
    BY <1>3, <2>1, <2>2, <2>3, <2>4 DEF RecordAdd
<1>4. CASE EndAdd
  BY <1>4 DEF EndAdd, End, bounds
<1>5. CASE RunDelete
  <2>1. table' \subseteq table
    BY <1>5 DEF RunDelete
  <2>2. chunk' \subseteq Prefixes /\ todo' \subseteq Prefixes
    BY <1>5 DEF RunDelete
  <2>3. result' \in {"none", "ok", "known", "failed"}
    BY <1>5 DEF RunDelete
  <2>4. faults' \in 0..MaxFaults /\ past' \subseteq Faults
    BY <1>5, FaultTyped DEF RunDelete
  <2>5. QED
    BY <1>5, <2>1, <2>2, <2>3, <2>4 DEF RunDelete
<1>6. CASE KillDelete
  BY <1>6 DEF KillDelete, Fault
<1>7. CASE RecordDelete
  <2>1. table' \subseteq table
    BY <1>7 DEF RecordDelete
  <2>2. left' \subseteq Prefixes
    BY <1>7 DEF RecordDelete
  <2>3. faults' \in 0..MaxFaults /\ past' \subseteq Faults
    BY <1>7, FaultTyped DEF RecordDelete, Retry
  <2>4. QED
    BY <1>7, <2>1, <2>2, <2>3 DEF RecordDelete
<1>8. CASE EndDelete
  BY <1>8 DEF EndDelete, Save, Removal, Begin, End, bounds
<1>9. CASE Reuse
  BY <1>9 DEF Reuse, SavedRoutesCover, Sample, work, bounds
<1>10. CASE CleanupStale
  BY <1>10 DEF CleanupStale, Removal, Begin, work, bounds
<1>11. CASE CleanupStaleVpn
  BY <1>11 DEF CleanupStaleVpn, Removal, Begin, work, bounds
<1>12. CASE ForgetAppliedRoutes
  BY <1>12 DEF ForgetAppliedRoutes, work, bounds
<1>13. CASE StartRemoveAll
  BY <1>13 DEF StartRemoveAll, Job, Removal, Begin
<1>14. CASE SetVPNRouteTarget
  BY <1>14 DEF SetVPNRouteTarget, work, bounds
<1>15. CASE SetLocalRoute
  BY <1>15 DEF SetLocalRoute, Fault, work
<1>16. CASE Cancel
  BY <1>16 DEF Cancel, Fault
<1>17. CASE Crash
  BY <1>17 DEF Crash, Fault, End
<1>18. CASE \E k \in Kinds : StartAdd(k)
  BY <1>18 DEF StartAdd, Job, Begin, work
<1>19. CASE UNCHANGED vars
  BY <1>19 DEF vars, work, bounds
<1>20. QED
  BY <1>1, <1>2, <1>3, <1>4, <1>5, <1>6, <1>7, <1>8, <1>9, <1>10, <1>11,
     <1>12, <1>13, <1>14, <1>15, <1>16, <1>17, <1>18, <1>19 DEF Next, Work

LEMMA KindKept == IInv /\ [Next]_vars => KindInv'
<1> SUFFICES ASSUME IInv, [Next]_vars PROVE KindInv'
    OBVIOUS
<1> USE RouteAssumption DEF IInv, TypeOK, KindInv, Kinds, CidrsOf, Known,
  Routes
<1>1. CASE RunAdd
  BY <1>1 DEF RunAdd, Fault, NoFault
<1>2. CASE KillAdd
  BY <1>2 DEF KillAdd, Fault, End
<1>3. CASE RecordAdd
  BY <1>3 DEF RecordAdd, Retry, Killed, Save, Fault, NoFault
<1>4. CASE EndAdd
  BY <1>4 DEF EndAdd, End, bounds
<1>5. CASE RunDelete
  <2>1. chunk' \subseteq CidrsOf(kind) /\ todo' \subseteq CidrsOf(kind)
    BY <1>5 DEF RunDelete
  <2>2. table' \subseteq table
    BY <1>5 DEF RunDelete
  <2>3. Known(kind)
    BY <1>5 DEF RunDelete
  <2>4. QED
    BY <1>5, <2>1, <2>2, <2>3 DEF RunDelete
<1>6. CASE KillDelete
  BY <1>6 DEF KillDelete, Fault
<1>7. CASE RecordDelete
  BY <1>7 DEF RecordDelete, Retry, Killed, Fault, NoFault
<1>8. CASE EndDelete
  BY <1>8 DEF EndDelete, Save, Removal, Begin, End, bounds
<1>9. CASE Reuse
  BY <1>9 DEF Reuse, SavedRoutesCover, Sample, work, bounds
<1>10. CASE CleanupStale
  BY <1>10 DEF CleanupStale, Removal, Begin, work, bounds
<1>11. CASE CleanupStaleVpn
  BY <1>11 DEF CleanupStaleVpn, Removal, Begin, work, bounds
<1>12. CASE ForgetAppliedRoutes
  BY <1>12 DEF ForgetAppliedRoutes, work, bounds
<1>13. CASE StartRemoveAll
  BY <1>13 DEF StartRemoveAll, Job, Removal, Begin
<1>14. CASE SetVPNRouteTarget
  BY <1>14 DEF SetVPNRouteTarget, work, bounds
<1>15. CASE SetLocalRoute
  BY <1>15 DEF SetLocalRoute, Fault, work
<1>16. CASE Cancel
  BY <1>16 DEF Cancel, Fault
<1>17. CASE Crash
  BY <1>17 DEF Crash, Fault, End
<1>18. CASE \E k \in Kinds : StartAdd(k)
  BY <1>18 DEF StartAdd, Job, Begin, work
<1>19. CASE UNCHANGED vars
  BY <1>19 DEF vars, work, bounds
<1>20. QED
  BY <1>1, <1>2, <1>3, <1>4, <1>5, <1>6, <1>7, <1>8, <1>9, <1>10, <1>11,
     <1>12, <1>13, <1>14, <1>15, <1>16, <1>17, <1>18, <1>19 DEF Next, Work

LEMMA StartKept == IInv /\ [Next]_vars => StartInv'
<1> SUFFICES ASSUME IInv, [Next]_vars PROVE StartInv'
    OBVIOUS
<1> USE RouteAssumption DEF IInv, TypeOK, StartInv, Kinds
<1>1. CASE RunAdd
  BY <1>1 DEF RunAdd, Fault, NoFault
<1>2. CASE KillAdd
  BY <1>2 DEF KillAdd, Fault, End
<1>3. CASE RecordAdd
  BY <1>3 DEF RecordAdd, Retry, Killed, Save, Fault, NoFault
<1>4. CASE EndAdd
  BY <1>4 DEF EndAdd, End, bounds
<1>5. CASE RunDelete
  BY <1>5 DEF RunDelete, Fault, NoFault
<1>6. CASE KillDelete
  BY <1>6 DEF KillDelete, Fault
<1>7. CASE RecordDelete
  BY <1>7 DEF RecordDelete, Retry, Killed, Fault, NoFault
<1>8. CASE EndDelete
  BY <1>8 DEF EndDelete, Save, Removal, Begin, End, bounds
<1>9. CASE Reuse
  BY <1>9 DEF Reuse, SavedRoutesCover, Sample, work, bounds
<1>10. CASE CleanupStale
  BY <1>10 DEF CleanupStale, Removal, Begin, work, bounds
<1>11. CASE CleanupStaleVpn
  BY <1>11 DEF CleanupStaleVpn, Removal, Begin, work, bounds
<1>12. CASE ForgetAppliedRoutes
  BY <1>12 DEF ForgetAppliedRoutes, work, bounds
<1>13. CASE StartRemoveAll
  BY <1>13 DEF StartRemoveAll, Job, Removal, Begin
<1>14. CASE SetVPNRouteTarget
  BY <1>14 DEF SetVPNRouteTarget, work, bounds
<1>15. CASE SetLocalRoute
  BY <1>15 DEF SetLocalRoute, Fault, work
<1>16. CASE Cancel
  BY <1>16 DEF Cancel, Fault
<1>17. CASE Crash
  BY <1>17 DEF Crash, Fault, End
<1>18. CASE \E k \in Kinds : StartAdd(k)
  BY <1>18 DEF StartAdd, Job, Begin, work
<1>19. CASE UNCHANGED vars
  BY <1>19 DEF vars, work, bounds
<1>20. QED
  BY <1>1, <1>2, <1>3, <1>4, <1>5, <1>6, <1>7, <1>8, <1>9, <1>10, <1>11,
     <1>12, <1>13, <1>14, <1>15, <1>16, <1>17, <1>18, <1>19 DEF Next, Work

LEMMA StoppedKept == IInv /\ [Next]_vars => StoppedInv'
<1> SUFFICES ASSUME IInv, [Next]_vars PROVE StoppedInv'
    OBVIOUS
<1> USE RouteAssumption DEF IInv, TypeOK, KindInv, StartInv, StoppedInv,
  Stopped, Kinds, CidrsOf, Known, Routes
<1>1. CASE RunAdd
  BY <1>1 DEF RunAdd, Fault, NoFault
<1>2. CASE KillAdd
  BY <1>2 DEF KillAdd, Fault, End
<1>3. CASE RecordAdd
  BY <1>3 DEF RecordAdd, Retry, Killed, Save, Fault, NoFault
<1>4. CASE EndAdd
  BY <1>4 DEF EndAdd, End, bounds
<1>5. CASE RunDelete
  BY <1>5 DEF RunDelete, Fault, NoFault
<1>6. CASE KillDelete
  BY <1>6 DEF KillDelete, Fault
<1>7. CASE RecordDelete
  BY <1>7 DEF RecordDelete, Retry, Killed, Fault, NoFault
<1>8. CASE EndDelete
  BY <1>8 DEF EndDelete, Save, Removal, Begin, End, bounds
<1>9. CASE Reuse
  BY <1>9 DEF Reuse, SavedRoutesCover, Sample, work, bounds
<1>10. CASE CleanupStale
  BY <1>10 DEF CleanupStale, Removal, Begin, work, bounds
<1>11. CASE CleanupStaleVpn
  BY <1>11 DEF CleanupStaleVpn, Removal, Begin, work, bounds
<1>12. CASE ForgetAppliedRoutes
  BY <1>12 DEF ForgetAppliedRoutes, work, bounds
<1>13. CASE StartRemoveAll
  BY <1>13 DEF StartRemoveAll, Job, Removal, Begin
<1>14. CASE SetVPNRouteTarget
  BY <1>14 DEF SetVPNRouteTarget, work, bounds
<1>15. CASE SetLocalRoute
  BY <1>15 DEF SetLocalRoute, Fault, work
<1>16. CASE Cancel
  BY <1>16 DEF Cancel, Fault
<1>17. CASE Crash
  BY <1>17 DEF Crash, Fault, End
<1>18. CASE \E k \in Kinds : StartAdd(k)
  BY <1>18 DEF StartAdd, Job, Begin, work
<1>19. CASE UNCHANGED vars
  BY <1>19 DEF vars, work, bounds
<1>20. QED
  BY <1>1, <1>2, <1>3, <1>4, <1>5, <1>6, <1>7, <1>8, <1>9, <1>10, <1>11,
     <1>12, <1>13, <1>14, <1>15, <1>16, <1>17, <1>18, <1>19 DEF Next, Work

LEMMA FaultlessKept == IInv /\ [Next]_vars => FaultlessInv'
<1> SUFFICES ASSUME IInv, [Next]_vars PROVE FaultlessInv'
    OBVIOUS
<1> USE RouteAssumption DEF IInv, TypeOK, KindInv, StartInv, StoppedInv,
  Stopped, FaultlessInv, OnRecord, Kinds, CidrsOf, Known, Routes
<1>1. CASE RunAdd
  BY <1>1 DEF RunAdd, Fault, NoFault
<1>2. CASE KillAdd
  BY <1>2 DEF KillAdd, Fault, End
<1>3. CASE RecordAdd
  BY <1>3 DEF RecordAdd, Retry, Killed, Save, Fault, NoFault
<1>4. CASE EndAdd
  BY <1>4 DEF EndAdd, End, bounds
<1>5. CASE RunDelete
  BY <1>5 DEF RunDelete, Fault, NoFault
<1>6. CASE KillDelete
  BY <1>6 DEF KillDelete, Fault
<1>7. CASE RecordDelete
  BY <1>7 DEF RecordDelete, Retry, Killed, Fault, NoFault
<1>8. CASE EndDelete
  BY <1>8 DEF EndDelete, Save, Removal, Begin, End, bounds
<1>9. CASE Reuse
  BY <1>9 DEF Reuse, SavedRoutesCover, Sample, work, bounds
<1>10. CASE CleanupStale
  BY <1>10 DEF CleanupStale, Removal, Begin, work, bounds
<1>11. CASE CleanupStaleVpn
  BY <1>11 DEF CleanupStaleVpn, Removal, Begin, work, bounds
<1>12. CASE ForgetAppliedRoutes
  BY <1>12 DEF ForgetAppliedRoutes, work, bounds
<1>13. CASE StartRemoveAll
  BY <1>13 DEF StartRemoveAll, Job, Removal, Begin
<1>14. CASE SetVPNRouteTarget
  BY <1>14 DEF SetVPNRouteTarget, work, bounds
<1>15. CASE SetLocalRoute
  BY <1>15 DEF SetLocalRoute, Fault, work
<1>16. CASE Cancel
  BY <1>16 DEF Cancel, Fault
<1>17. CASE Crash
  BY <1>17 DEF Crash, Fault, End
<1>18. CASE \E k \in Kinds : StartAdd(k)
  BY <1>18 DEF StartAdd, Job, Begin, work
<1>19. CASE UNCHANGED vars
  BY <1>19 DEF vars, work, bounds
<1>20. QED
  BY <1>1, <1>2, <1>3, <1>4, <1>5, <1>6, <1>7, <1>8, <1>9, <1>10, <1>11,
     <1>12, <1>13, <1>14, <1>15, <1>16, <1>17, <1>18, <1>19 DEF Next, Work

LEMMA InitInv == Init => IInv
<1> SUFFICES ASSUME Init PROVE IInv
    OBVIOUS
<1> USE RouteAssumption DEF Init, Kinds
<1>1. TypeOK
  BY DEF TypeOK
<1>2. KindInv /\ StartInv
  BY DEF KindInv, StartInv
<1>3. StoppedInv /\ FaultlessInv
  BY DEF StoppedInv, FaultlessInv
<1>4. QED
  BY <1>1, <1>2, <1>3 DEF IInv

LEMMA InvKept == IInv /\ [Next]_vars => IInv'
  BY TypesKept, KindKept, StartKept, StoppedKept, FaultlessKept DEF IInv

LEMMA Inductive == Spec => []IInv
  BY InitInv, InvKept, PTL DEF Spec

LEMMA RecordStep ==
  IInv /\ [Next]_vars /\ Stopped' =>
    \A c \in saved["bypass"] \ saved'["bypass"] : c \notin {r[1] : r \in table'}
<1> SUFFICES ASSUME IInv, [Next]_vars, Stopped',
                    NEW c \in saved["bypass"] \ saved'["bypass"]
             PROVE  c \notin {r[1] : r \in table'}
    OBVIOUS
<1> USE RouteAssumption DEF IInv, TypeOK, KindInv, StartInv, StoppedInv,
  Stopped, Kinds
<1>1. CASE RunAdd
  BY <1>1 DEF RunAdd, Fault, NoFault
<1>2. CASE KillAdd
  BY <1>2 DEF KillAdd, Fault, End
<1>3. CASE RecordAdd
  BY <1>3 DEF RecordAdd, Retry, Killed, Save, Fault, NoFault
<1>4. CASE EndAdd
  BY <1>4 DEF EndAdd, End, bounds
<1>5. CASE RunDelete
  BY <1>5 DEF RunDelete, Fault, NoFault
<1>6. CASE KillDelete
  BY <1>6 DEF KillDelete, Fault
<1>7. CASE RecordDelete
  BY <1>7 DEF RecordDelete, Retry, Killed, Fault, NoFault
<1>8. CASE EndDelete
  BY <1>8 DEF EndDelete, Save, Removal, Begin, End, bounds
<1>9. CASE Reuse
  BY <1>9 DEF Reuse, SavedRoutesCover, Sample, work, bounds
<1>10. CASE CleanupStale
  BY <1>10 DEF CleanupStale, Removal, Begin, work, bounds
<1>11. CASE CleanupStaleVpn
  BY <1>11 DEF CleanupStaleVpn, Removal, Begin, work, bounds
<1>12. CASE ForgetAppliedRoutes
  BY <1>12 DEF ForgetAppliedRoutes, work, bounds
<1>13. CASE StartRemoveAll
  BY <1>13 DEF StartRemoveAll, Job, Removal, Begin
<1>14. CASE SetVPNRouteTarget
  BY <1>14 DEF SetVPNRouteTarget, work, bounds
<1>15. CASE SetLocalRoute
  BY <1>15 DEF SetLocalRoute, Fault, work
<1>16. CASE Cancel
  BY <1>16 DEF Cancel, Fault
<1>17. CASE Crash
  BY <1>17 DEF Crash, Fault, End
<1>18. CASE \E k \in Kinds : StartAdd(k)
  BY <1>18 DEF StartAdd, Job, Begin, work
<1>19. CASE UNCHANGED vars
  BY <1>19 DEF vars, work, bounds
<1>20. QED
  BY <1>1, <1>2, <1>3, <1>4, <1>5, <1>6, <1>7, <1>8, <1>9, <1>10, <1>11,
     <1>12, <1>13, <1>14, <1>15, <1>16, <1>17, <1>18, <1>19 DEF Next, Work

-----------------------------------------------------------------------------
(* How many routes a fault can lose.                                        *)

\* The bypass prefixes in the table that the record does not have, and those
\* of them that are not in the batch at hand either.
Lost == {c \in Bypass \ saved["bypass"] : <<c, gateway["bypass"]>> \in table}
Unsaved == Lost \ (IF job = "add" THEN chunk ELSE {})

LossInv ==
  /\ IsFiniteSet(chunk) /\ Cardinality(chunk) <= Batch
  /\ Stopped => Cardinality(Unsaved) <= Batch * faults

LEMMA BatchKept == IInv /\ LossInv /\ [Next]_vars =>
                     IsFiniteSet(chunk') /\ Cardinality(chunk') <= Batch
<1> SUFFICES ASSUME IInv, LossInv, [Next]_vars
             PROVE  IsFiniteSet(chunk') /\ Cardinality(chunk') <= Batch
    OBVIOUS
<1> USE RouteAssumption
<1>1. \A C \in SUBSET todo : IsFiniteSet(C) /\ Cardinality(C) \in Nat
  <2>1. IsFiniteSet(todo)
    BY FS_Subset DEF IInv, KindInv, CidrsOf
  <2>2. QED
    BY <2>1, FS_Subset, FS_CardinalityType
<1>2. CASE chunk' \in {chunk, {}}
  BY <1>2, FS_EmptySet DEF LossInv
<1>3. CASE RunAdd
  <2>1. PICK C \in SUBSET todo :
          /\ Cardinality(C) = IF Cardinality(todo) < Batch
                              THEN Cardinality(todo) ELSE Batch
          /\ chunk' = C
    BY <1>3 DEF RunAdd
  <2>2. QED
    BY <1>1, <2>1
<1>4. CASE RunDelete
  <2>1. PICK C \in SUBSET todo :
          /\ Cardinality(C) = IF Cardinality(todo) < Batch
                              THEN Cardinality(todo) ELSE Batch
          /\ chunk' = C
    BY <1>4 DEF RunDelete
  <2>2. QED
    BY <1>1, <2>1
<1>5. ASSUME [Next]_vars PROVE chunk' \in {chunk, {}} \/ RunAdd \/ RunDelete
  BY <1>5 DEF Next, Work, vars, work, bounds, KillAdd, RecordAdd, EndAdd,
     KillDelete, RecordDelete, EndDelete, Reuse, CleanupStale,
     CleanupStaleVpn, ForgetAppliedRoutes, StartRemoveAll, SetVPNRouteTarget,
     SetLocalRoute, Cancel, Crash, StartAdd, Begin, End, Removal
<1>6. QED
  BY <1>2, <1>3, <1>4, <1>5

LEMMA LostFinite == IInv =>
  /\ IsFiniteSet(Lost) /\ IsFiniteSet(Unsaved)
  /\ Cardinality(Lost) \in Nat /\ Cardinality(Unsaved) \in Nat
<1>1. IsFiniteSet(Lost) /\ IsFiniteSet(Unsaved)
  <2>1. Lost \in SUBSET Bypass /\ Unsaved \in SUBSET Bypass
    BY DEF Lost, Unsaved
  <2>2. QED
    BY <2>1, RouteAssumption, FS_Subset
<1>2. QED
  BY <1>1, FS_CardinalityType

LEMMA UnionBound ==
  ASSUME NEW S, IsFiniteSet(S), NEW T, IsFiniteSet(T),
         NEW U \in SUBSET (S \cup T)
  PROVE  /\ Cardinality(U) \in Nat
         /\ Cardinality(U) <= Cardinality(S) + Cardinality(T)
<1>1. IsFiniteSet(S \cup T) /\ IsFiniteSet(S \cap T)
  <2>1. S \cap T \in SUBSET S
    OBVIOUS
  <2>2. QED
    BY <2>1, FS_Union, FS_Subset
<1>2. IsFiniteSet(U) /\ Cardinality(U) <= Cardinality(S \cup T)
  BY <1>1, FS_Subset
<1>3. /\ Cardinality(S) \in Nat /\ Cardinality(T) \in Nat
      /\ Cardinality(S \cap T) \in Nat /\ Cardinality(U) \in Nat
      /\ Cardinality(S \cup T) \in Nat
  BY <1>1, <1>2, FS_CardinalityType
<1>4. Cardinality(S \cup T)
        = Cardinality(S) + Cardinality(T) - Cardinality(S \cap T)
  BY FS_Union
<1>5. QED
  BY <1>2, <1>3, <1>4

LEMMA PastGrows == [Next]_vars => past \subseteq past'
  BY DEF Next, Work, vars, work, bounds, RunAdd, KillAdd, RecordAdd, EndAdd,
     RunDelete, KillDelete, RecordDelete, EndDelete, Reuse, CleanupStale,
     CleanupStaleVpn, ForgetAppliedRoutes, StartRemoveAll, SetVPNRouteTarget,
     SetLocalRoute, Cancel, Crash, StartAdd, Retry, Fault, NoFault

LEMMA FaultsGrow == [Next]_vars => faults' \in {faults, faults + 1}
  BY DEF Next, Work, vars, work, bounds, RunAdd, KillAdd, RecordAdd, EndAdd,
     RunDelete, KillDelete, RecordDelete, EndDelete, Reuse, CleanupStale,
     CleanupStaleVpn, ForgetAppliedRoutes, StartRemoveAll, SetVPNRouteTarget,
     SetLocalRoute, Cancel, Crash, StartAdd, Retry, Fault, NoFault

\* One fault more can lose one batch more, and nothing else loses a route.
Losing == \E C \in SUBSET Bypass :
  /\ IsFiniteSet(C) /\ Cardinality(C) <= Batch
  /\ Unsaved' \subseteq Unsaved \cup C

LEMMA LossStep ==
  ASSUME IInv, LossInv, [Next]_vars, Stopped'
  PROVE  \/ Unsaved' \subseteq Unsaved
         \/ Losing /\ faults' = faults + 1
<1>a. \A c \in Unsaved' : c \in Bypass \ saved["bypass"]
  <2>1. SUFFICES ASSUME NEW c \in Unsaved', c \in saved["bypass"]
                 PROVE  FALSE
    BY DEF Unsaved, Lost
  <2>2. c \notin saved'["bypass"] /\ <<c, gateway'["bypass"]>> \in table'
    BY <2>1 DEF Unsaved, Lost
  <2>3. c \in {r[1] : r \in table'}
    BY <2>2
  <2>4. QED
    BY <2>1, <2>2, <2>3, RecordStep
<1> USE RouteAssumption DEF IInv, TypeOK, KindInv, StartInv, StoppedInv,
  Stopped, Kinds, CidrsOf, Known, Routes, Unsaved, Lost
<1>1. CASE RunAdd
  BY <1>1, <1>a DEF RunAdd, Fault, NoFault
<1>2. CASE KillAdd
  <2>1. PICK C \in SUBSET todo :
          /\ Cardinality(C) <= Batch
          /\ table' = table \cup Routes(C, gateway[kind])
    BY <1>2 DEF KillAdd
  <2>2. job' = "free" /\ chunk = {} /\ faults' = faults + 1 /\ UNCHANGED gateway
    BY <1>2 DEF KillAdd, Fault, End
  <2>3. CASE kind = "bypass"
    <3>1. C \subseteq Bypass /\ IsFiniteSet(C)
      BY <2>3, FS_Subset
    <3>2. Unsaved' \subseteq Unsaved \cup C
      BY <1>a, <2>1, <2>2, <2>3
    <3>3. QED
      BY <2>1, <2>2, <3>1, <3>2 DEF Losing
  <2>4. CASE kind = "vpn"
    <3>1. Unsaved' \subseteq Unsaved
      BY <1>a, <2>1, <2>2, <2>4
    <3>2. QED
      BY <2>2, <3>1
  <2>5. QED
    BY <2>3, <2>4
<1>3. CASE RecordAdd
  BY <1>3, <1>a DEF RecordAdd, Retry, Killed, Save, Fault, NoFault
<1>4. CASE EndAdd
  BY <1>4, <1>a DEF EndAdd, End, bounds
<1>5. CASE RunDelete
  BY <1>5, <1>a DEF RunDelete, Fault, NoFault
<1>6. CASE KillDelete
  BY <1>6, <1>a DEF KillDelete, Fault
<1>7. CASE RecordDelete
  BY <1>7, <1>a DEF RecordDelete, Retry, Killed, Fault, NoFault
<1>8. CASE EndDelete
  BY <1>8, <1>a DEF EndDelete, Save, Removal, Begin, End, bounds
<1>9. CASE Reuse
  BY <1>9, <1>a DEF Reuse, SavedRoutesCover, Sample, work, bounds
<1>10. CASE CleanupStale
  BY <1>10, <1>a DEF CleanupStale, Removal, Begin, work, bounds
<1>11. CASE CleanupStaleVpn
  BY <1>11, <1>a DEF CleanupStaleVpn, Removal, Begin, work, bounds
<1>12. CASE ForgetAppliedRoutes
  BY <1>12, <1>a DEF ForgetAppliedRoutes, work, bounds
<1>13. CASE StartRemoveAll
  BY <1>13, <1>a DEF StartRemoveAll, Job, Removal, Begin
<1>14. CASE SetVPNRouteTarget
  BY <1>14, <1>a DEF SetVPNRouteTarget, work, bounds
<1>15. CASE SetLocalRoute
  BY <1>15, <1>a DEF SetLocalRoute, Fault, work
<1>16. CASE Cancel
  BY <1>16, <1>a DEF Cancel, Fault
<1>17. CASE Crash
  <2>1. /\ job' = "free" /\ faults' = faults + 1
        /\ UNCHANGED <<table, saved>> /\ gateway'["bypass"] = gateway["bypass"]
    BY <1>17 DEF Crash, Fault, End
  <2>2. Unsaved' \subseteq Unsaved \cup (chunk \cap Bypass)
    BY <2>1
  <2>3. /\ IsFiniteSet(chunk \cap Bypass)
        /\ Cardinality(chunk \cap Bypass) <= Batch
    <3>1. chunk \cap Bypass \in SUBSET chunk
      OBVIOUS
    <3>2. QED
      BY <3>1, FS_Subset, FS_CardinalityType DEF LossInv
  <2>4. QED
    BY <2>1, <2>2, <2>3 DEF Losing
<1>18. CASE \E k \in Kinds : StartAdd(k)
  BY <1>18, <1>a DEF StartAdd, Job, Begin, work
<1>19. CASE UNCHANGED vars
  BY <1>19 DEF vars, work, bounds
<1>20. QED
  BY <1>1, <1>2, <1>3, <1>4, <1>5, <1>6, <1>7, <1>8, <1>9, <1>10, <1>11,
     <1>12, <1>13, <1>14, <1>15, <1>16, <1>17, <1>18, <1>19 DEF Next, Work

LEMMA LossKept == IInv /\ LossInv /\ [Next]_vars => LossInv'
<1> SUFFICES ASSUME IInv, LossInv, [Next]_vars, Stopped'
             PROVE  Cardinality(Unsaved') <= Batch * faults'
    BY BatchKept DEF LossInv
<1>1. Stopped
  BY PastGrows DEF Stopped
<1>2. Batch \in Nat /\ faults \in Nat /\ faults' \in Nat
  BY InvKept, RouteAssumption DEF IInv, TypeOK
<1>3. /\ IsFiniteSet(Unsaved) /\ Cardinality(Unsaved) \in Nat
      /\ Cardinality(Unsaved) <= Batch * faults
  BY <1>1, LostFinite DEF LossInv
<1> DEFINE P == Batch * faults
           Q == Batch * faults'
<1>4. P \in Nat /\ Batch * (faults + 1) = P + Batch
  BY <1>2
<1>5. Q = P \/ Q = P + Batch
  BY <1>4, FaultsGrow
<1>6. Cardinality(Unsaved) <= P
  BY <1>3
<1> SUFFICES Cardinality(Unsaved') <= Q
    OBVIOUS
<1> HIDE DEF P, Q
<1>7. CASE Unsaved' \subseteq Unsaved
  <2>1. /\ Cardinality(Unsaved') \in Nat
        /\ Cardinality(Unsaved') <= Cardinality(Unsaved)
    BY <1>3, <1>7, FS_Subset, FS_CardinalityType
  <2>2. QED
    BY <1>2, <1>3, <1>4, <1>5, <1>6, <2>1
<1>8. CASE Losing /\ faults' = faults + 1
  <2>1. PICK C \in SUBSET Bypass :
          /\ IsFiniteSet(C) /\ Cardinality(C) <= Batch
          /\ Unsaved' \subseteq Unsaved \cup C
    BY <1>8 DEF Losing
  <2>2. Q = P + Batch
    BY <1>4, <1>8 DEF Q
  <2>3. /\ Cardinality(Unsaved') \in Nat /\ Cardinality(C) \in Nat
        /\ Cardinality(Unsaved') <= Cardinality(Unsaved) + Cardinality(C)
    BY <1>3, <2>1, UnionBound, FS_CardinalityType
  <2>4. QED
    BY <1>2, <1>3, <1>4, <1>6, <2>1, <2>2, <2>3
<1>9. QED
  BY <1>7, <1>8, LossStep

\* Lists, records, batches and counters keep their types.
THEOREM TypeCorrect == Spec => []TypeOK
<1>1. IInv => TypeOK
  BY DEF IInv
<1>2. QED
  BY <1>1, Inductive, PTL

\* Between jobs the records are what the manager believes.
THEOREM RecordsTrusted == Spec => []RecordsAgree
<1>1. IInv => RecordsAgree
  BY DEF IInv, StartInv, RecordsAgree, Idle
<1>2. QED
  BY <1>1, Inductive, PTL

\* Without a fault the manager knows all its routes.
THEOREM AllRoutesKnown == Spec => []NothingUnknown
<1>1. IInv => NothingUnknown
  BY DEF IInv, FaultlessInv, NothingUnknown, Idle, Present
<1>2. QED
  BY <1>1, Inductive, PTL

\* A bypass route leaves the table before it leaves the record.
THEOREM TableBeforeRecord == Spec => RecordOutlivesRoute
<1>1. IInv /\ [Next]_vars =>
        [Stopped' => \A c \in saved["bypass"] \ saved'["bypass"] :
                       c \notin {r[1] : r \in table'}]_vars
  BY RecordStep
<1>2. QED
  BY <1>1, Inductive, PTL DEF Spec, RecordOutlivesRoute

\* A crash or a cancellation loses sight of one batch at most.
THEOREM FaultBound == Spec => []FaultLosesOneBatch
<1>1. Init => LossInv
  <2>1. ASSUME Init PROVE chunk = {} /\ Unsaved = {} /\ faults = 0
    BY <2>1 DEF Init, Unsaved, Lost
  <2>2. QED
    BY <2>1, FS_EmptySet, RouteAssumption DEF LossInv
<1>2. IInv /\ LossInv => FaultLosesOneBatch
  <2> SUFFICES ASSUME IInv, LossInv, Stopped
               PROVE  Cardinality(Unrecorded) <= Batch * (faults + 1)
      BY DEF FaultLosesOneBatch
  <2>1. /\ Cardinality(Unrecorded) \in Nat
        /\ Cardinality(Unrecorded) <= Cardinality(Lost)
    <3> DEFINE f == [c \in Lost |-> <<c, gateway["bypass"]>>]
    <3>1. Unrecorded = {<<c, gateway["bypass"]>> : c \in Lost}
      <4>1. \A r \in table : r = <<r[1], r[2]>>
        BY DEF IInv, TypeOK
      <4>2. \A r \in table : r[1] \in Bypass => r[2] = gateway["bypass"]
        BY DEF IInv, StoppedInv
      <4>3. QED
        BY <4>1, <4>2 DEF Unrecorded, Lost
    <3>2. f \in Surjection(Lost, Unrecorded)
      BY <3>1 DEF Surjection
    <3>3. QED
      BY <3>2, LostFinite, FS_Surjection, FS_CardinalityType
  <2>2. Lost \in SUBSET (Unsaved \cup chunk)
    BY DEF Unsaved
  <2>3. Cardinality(Lost) <= Cardinality(Unsaved) + Cardinality(chunk)
    BY <2>2, LostFinite, UnionBound DEF LossInv
  <2>4. Batch \in Nat /\ faults \in Nat
    BY RouteAssumption DEF IInv, TypeOK
  <2>5. Batch * (faults + 1) = Batch * faults + Batch /\ Batch * faults \in Nat
    BY <2>4
  <2>6. /\ Cardinality(Lost) \in Nat /\ Cardinality(Unsaved) \in Nat
        /\ Cardinality(chunk) \in Nat
    BY LostFinite, FS_CardinalityType DEF LossInv
  <2>7. QED
    BY <2>1, <2>3, <2>4, <2>5, <2>6 DEF LossInv
<1>3. QED
  BY <1>1, <1>2, LossKept, Inductive, PTL DEF Spec
=============================================================================
