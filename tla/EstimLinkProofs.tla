-------------------------- MODULE EstimLinkProofs --------------------------
(***************************************************************************)
(* The safety of the device link for every number of sessions, settings    *)
(* goroutines and levels.                                                  *)
(***************************************************************************)
EXTENDS EstimLink, TLAPS

\* Which window and unit a goroutine inside Runtime.dev can count on, and
\* what a ramp still has above it.
Control ==
  /\ RampOwnsUnit
  /\ pc["arm"] = "hold" => held
  /\ deadline # "none" => held
  /\ pc["command"] \in {"check", "write"} => level < goal /\ goal <= LevelTop

\* The latch is polled between two writes, so a write that has yet to be
\* made finds none counted.
Latched ==
  /\ OneRiseAfterLatch
  /\ pc["command"] = "write" => risen = 0
  /\ ~cancel => risen = 0

\* Run's goroutine only ever closes for good.
Closing ==
  /\ StoppedHoldsNothing
  /\ pc["runtime"] \in {"close", "stopped"} => stop
  /\ pc["runtime"] \in {"idle", "open", "expiry", "latch", "run", "close", "stopped"}

IInv == TypeOK /\ Control /\ Latched /\ NoDriveWithoutWindow /\ Closing

-----------------------------------------------------------------------------
(* Type correctness. *)

\* Zero is one of the unit's levels.
LEMMA ZeroLevel == 0 \in Levels
  BY LinkAssumption DEF Levels

\* Every variable starts within its type.
LEMMA InitType == Init => TypeOK
<1> SUFFICES ASSUME Init PROVE TypeOK
  OBVIOUS
<1>1. pc \in [Procs -> Locations]
  BY DEF Init, Locations
<1>2. req \in [Workers -> Requests]
  BY LinkAssumption DEF Init, Requests
<1> QED
  BY <1>1, <1>2, LinkAssumption, ZeroLevel DEF Init, TypeOK

\* No step of any goroutine takes a variable out of its type.
LEMMA TypeStep == TypeOK /\ Control /\ [Next]_vars => TypeOK'
<1> SUFFICES ASSUME TypeOK, Control, [Next]_vars PROVE TypeOK'
  OBVIOUS
<1> USE LinkAssumption DEF TypeOK, sess, rt, unit, locals, history
<1>1. CASE Service
  <2>1. ASSUME NEW s \in Sessions, ServiceAttach(s) PROVE TypeOK'
    <3>1. pc' \in [Procs -> Locations]
      BY <2>1 DEF ServiceAttach, Goto, AutoArm, Procs, Threads, Locations
    <3> QED
      BY <2>1, <3>1 DEF ServiceAttach
  <2>2. ASSUME NEW s \in Sessions \cup {NoSession}, ServiceAck(s) PROVE TypeOK'
    <3>1. pc' \in [Procs -> Locations]
      BY <2>2 DEF ServiceAck, Goto, AutoArm, Procs, Threads, Locations
    <3> QED
      BY <2>2, <3>1 DEF ServiceAck
  <2>8. ASSUME NEW s \in Sessions \cup {NoSession}, ServiceDetach(s) PROVE TypeOK'
    <3>1. pc' \in [Procs -> Locations]
      BY <2>8 DEF ServiceDetach, Goto, AutoArm, Procs, Threads, Locations
    <3> QED
      BY <2>8, <3>1 DEF ServiceDetach
  <2>3. ASSUME NEW st \in Offered, NEW w \in Workers, ServiceSettings(st, w) PROVE TypeOK'
    <3>1. asked' \in AllSettings /\ req' \in [Workers -> Requests]
      BY <2>3 DEF ServiceSettings, Requests
    <3>2. pc' \in [Procs -> Locations]
      BY <2>3 DEF ServiceSettings, Goto, Procs, Locations
    <3> QED
      BY <2>3, <3>1, <3>2 DEF ServiceSettings
  <2>4. ASSUME NEW n \in Targets, ServiceCommand(n) PROVE TypeOK'
    <3>1. pc' \in [Procs -> Locations]
      BY <2>4 DEF ServiceCommand, Goto, AutoArm, Procs, Threads, Locations
    <3> QED
      BY <2>4, <3>1 DEF ServiceCommand
  <2>5. CASE ServiceHello
    <3>1. pc' \in [Procs -> Locations]
      BY <2>5 DEF ServiceHello, Goto, AutoArm, Procs, Threads, Locations
    <3> QED
      BY <2>5, <3>1 DEF ServiceHello
  <2>6. CASE ServiceStatus
    <3>1. pc' \in [Procs -> Locations]
      BY <2>6 DEF ServiceStatus, Goto, AutoArm, Procs, Threads, Locations
    <3> QED
      BY <2>6, <3>1 DEF ServiceStatus
  <2>7. CASE ServiceRelease
    <3>1. pc' \in [Procs -> Locations]
      BY <2>7 DEF ServiceRelease, Goto, AutoArm, Procs, Threads, Locations
    <3> QED
      BY <2>7, <3>1 DEF ServiceRelease
  <2> QED
    BY <1>1, <2>1, <2>2, <2>3, <2>4, <2>5, <2>6, <2>7, <2>8 DEF Service
<1>2. ASSUME NEW p \in Pickers, Select(p) PROVE TypeOK'
  BY <1>2 DEF Select, Goto, AutoArm, Requests, Procs, Threads, Locations
<1>3. ASSUME NEW p \in Procs, Shared(p) PROVE TypeOK'
  <2>1. CASE DetachMark(p)
    <3>1. pc' \in [Procs -> Locations]
      BY <2>1 DEF DetachMark, Goto, AutoArm, Procs, Threads, Locations
    <3> QED
      BY <2>1, <3>1 DEF DetachMark
  <2>7. CASE DetachCancel(p)
    <3>1. pc' \in [Procs -> Locations]
      BY <2>7 DEF DetachCancel, Goto, AutoArm, Procs, Threads, Locations
    <3> QED
      BY <2>7, <3>1 DEF DetachCancel
  <2>8. CASE ReleaseLatch(p)
    <3>1. pc' \in [Procs -> Locations]
      BY <2>8 DEF ReleaseLatch, Goto, AutoArm, Procs, Threads, Locations
    <3> QED
      BY <2>8, <3>1 DEF ReleaseLatch
  <2>9. CASE DetachReset(p)
    <3>1. pc' \in [Procs -> Locations]
      BY <2>9 DEF DetachReset, Goto, AutoArm, Procs, Threads, Locations
    <3> QED
      BY <2>9, <3>1 DEF DetachReset
  <2>10. CASE SelectUnit(p)
    <3>1. pc' \in [Procs -> Locations]
      BY <2>10 DEF SelectUnit, Goto, AutoArm, Procs, Threads, Locations
    <3> QED
      BY <2>10, <3>1 DEF SelectUnit
  <2>5. CASE ApplySettings(p)
    <3>1. req[p].settings \in AllSettings
      BY <2>5 DEF ApplySettings, Requests
    <3>2. pc' \in [Procs -> Locations]
      BY <2>5 DEF ApplySettings, Goto, Procs, Locations
    <3> QED
      BY <2>5, <3>1, <3>2 DEF ApplySettings
  <2>6. CASE RearmAfterSettings(p)
    <3>1. pc' \in [Procs -> Locations]
      BY <2>6 DEF RearmAfterSettings, Goto, AutoArm, Procs, Threads, Locations
    <3> QED
      BY <2>6, <3>1 DEF RearmAfterSettings
  <2>2. CASE ReleaseRun(p)
    <3>1. pc' \in [Procs -> Locations]
      BY <2>2 DEF ReleaseRun, Goto, AutoArm, AfterRelease, Procs, Threads, Locations
    <3>2. level' \in Levels /\ seen' \in Levels
      BY <2>2, ZeroLevel DEF ReleaseRun, Fault, LevelAfterFailure, UnitReleased
    <3>3. /\ held' \in BOOLEAN /\ cancel' \in BOOLEAN /\ deadline' \in {"none", "live", "expired"}
          /\ range' \in Ranges /\ armRange' \in Ranges /\ settings' \in AllSettings /\ risen' \in Nat
      BY <2>2 DEF ReleaseRun, Fault, UnitReleased, LevelAfterFailure, Levels, AllSettings
    <3> QED
      BY <2>2, <3>1, <3>2, <3>3 DEF ReleaseRun
  <2>3. CASE OpenRun(p)
    <3>1. pc' \in [Procs -> Locations]
      BY <2>3 DEF OpenRun, Goto, AutoArm, AfterRelease, Procs, Threads, Locations
    <3>2. level' \in Levels /\ seen' \in Levels
      BY <2>3, ZeroLevel DEF OpenRun, Fault, LevelAfterFailure, UnitReleased
    <3>3. /\ held' \in BOOLEAN /\ cancel' \in BOOLEAN /\ deadline' \in {"none", "live", "expired"}
          /\ range' \in Ranges /\ armRange' \in Ranges /\ settings' \in AllSettings /\ risen' \in Nat
      BY <2>3 DEF OpenRun, Fault, UnitReleased, LevelAfterFailure, Levels, AllSettings
    <3> QED
      BY <2>3, <3>1, <3>2, <3>3 DEF OpenRun
  <2>4. CASE CloseRun(p)
    <3>1. pc' \in [Procs -> Locations]
      BY <2>4 DEF CloseRun, Goto, AutoArm, AfterRelease, Procs, Threads, Locations
    <3>2. level' \in Levels /\ seen' \in Levels
      BY <2>4, ZeroLevel DEF CloseRun, Fault, LevelAfterFailure, UnitReleased
    <3>3. /\ held' \in BOOLEAN /\ cancel' \in BOOLEAN /\ deadline' \in {"none", "live", "expired"}
          /\ range' \in Ranges /\ armRange' \in Ranges /\ settings' \in AllSettings /\ risen' \in Nat
      BY <2>4 DEF CloseRun, Fault, UnitReleased, LevelAfterFailure, Levels, AllSettings
    <3> QED
      BY <2>4, <3>1, <3>2, <3>3 DEF CloseRun
  <2> QED
    BY <1>3, <2>1, <2>2, <2>3, <2>4, <2>5, <2>6, <2>7, <2>8, <2>9, <2>10 DEF Shared
<1>4. ASSUME NEW p \in Procs, Own(p) PROVE TypeOK'
  <2>1. CASE AttachFresh
    <3>1. pc' \in [Procs -> Locations]
      BY <2>1 DEF AttachFresh, Goto, AutoArm, Procs, Threads, Locations
    <3> QED
      BY <2>1, <3>1 DEF AttachFresh
  <2>8. CASE AttachGreet
    <3>1. pc' \in [Procs -> Locations]
      BY <2>8 DEF AttachGreet, Goto, AutoArm, Procs, Threads, Locations
    <3> QED
      BY <2>8, <3>1 DEF AttachGreet
  <2>9. CASE HeartbeatStale
    <3>1. pc' \in [Procs -> Locations]
      BY <2>9 DEF HeartbeatStale, Goto, AutoArm, Procs, Threads, Locations
    <3> QED
      BY <2>9, <3>1 DEF HeartbeatStale
  <2>10. CASE SessionStop
    <3>1. pc' \in [Procs -> Locations]
      BY <2>10 DEF SessionStop, Goto, AutoArm, Procs, Threads, Locations
    <3> QED
      BY <2>10, <3>1 DEF SessionStop
  <2>11. CASE SessionWait
    <3>1. pc' \in [Procs -> Locations]
      BY <2>11 DEF SessionWait, Goto, AutoArm, Procs, Threads, Locations
    <3> QED
      BY <2>11, <3>1 DEF SessionWait
  <2>12. CASE ExpiryTick
    <3>1. pc' \in [Procs -> Locations]
      BY <2>12 DEF ExpiryTick, Goto, AutoArm, Procs, Threads, Locations
    <3> QED
      BY <2>12, <3>1 DEF ExpiryTick
  <2>13. CASE RuntimeStop
    <3>1. pc' \in [Procs -> Locations]
      BY <2>13 DEF RuntimeStop, Goto, AutoArm, Procs, Threads, Locations
    <3> QED
      BY <2>13, <3>1 DEF RuntimeStop
  <2>14. CASE ArmDeferred
    <3>1. pc' \in [Procs -> Locations]
      BY <2>14 DEF ArmDeferred, Goto, AutoArm, Procs, Threads, Locations
    <3> QED
      BY <2>14, <3>1 DEF ArmDeferred
  <2>15. CASE StatusRun
    <3>1. pc' \in [Procs -> Locations]
      BY <2>15 DEF StatusRun, Goto, AutoArm, Procs, Threads, Locations
    <3> QED
      BY <2>15, <3>1 DEF StatusRun
  <2>16. CASE CommandRefused
    <3>1. pc' \in [Procs -> Locations]
      BY <2>16 DEF CommandRefused, Goto, AutoArm, Procs, Threads, Locations
    <3> QED
      BY <2>16, <3>1 DEF CommandRefused
  <2>17. CASE RampBegin
    <3>1. pc' \in [Procs -> Locations]
      BY <2>17 DEF RampBegin, Goto, AutoArm, Procs, Threads, Locations
    <3> QED
      BY <2>17, <3>1 DEF RampBegin
  <2>18. CASE RampCheck
    <3>1. pc' \in [Procs -> Locations]
      BY <2>18 DEF RampCheck, Goto, AutoArm, Procs, Threads, Locations
    <3> QED
      BY <2>18, <3>1 DEF RampCheck
  <2>2. CASE HealthTick
    <3>1. pc' \in [Procs -> Locations]
      BY <2>2 DEF HealthTick, Goto, AutoArm, AfterRelease, Procs, Threads, Locations
    <3>2. level' \in Levels /\ seen' \in Levels
      BY <2>2, ZeroLevel DEF HealthTick, Fault, LevelAfterFailure, UnitReleased
    <3>3. /\ held' \in BOOLEAN /\ cancel' \in BOOLEAN /\ deadline' \in {"none", "live", "expired"}
          /\ range' \in Ranges /\ armRange' \in Ranges /\ settings' \in AllSettings /\ risen' \in Nat
      BY <2>2 DEF HealthTick, Fault, UnitReleased, LevelAfterFailure, Levels, AllSettings
    <3> QED
      BY <2>2, <3>1, <3>2, <3>3 DEF HealthTick
  <2>3. CASE ArmBegin
    <3>1. pc' \in [Procs -> Locations]
      BY <2>3 DEF ArmBegin, Goto, AutoArm, AfterRelease, Procs, Threads, Locations
    <3>2. level' \in Levels /\ seen' \in Levels
      BY <2>3, ZeroLevel DEF ArmBegin, Fault, LevelAfterFailure, UnitReleased
    <3>3. /\ held' \in BOOLEAN /\ cancel' \in BOOLEAN /\ deadline' \in {"none", "live", "expired"}
          /\ range' \in Ranges /\ armRange' \in Ranges /\ settings' \in AllSettings /\ risen' \in Nat
      BY <2>3 DEF ArmBegin, Fault, UnitReleased, LevelAfterFailure, Levels, AllSettings
    <3> QED
      BY <2>3, <3>1, <3>2, <3>3 DEF ArmBegin
  <2>4. CASE ArmEnd
    <3>1. pc' \in [Procs -> Locations]
      BY <2>4 DEF ArmEnd, Goto, AutoArm, AfterRelease, Procs, Threads, Locations
    <3>2. level' \in Levels /\ seen' \in Levels
      BY <2>4, ZeroLevel DEF ArmEnd, Fault, LevelAfterFailure, UnitReleased
    <3>3. /\ held' \in BOOLEAN /\ cancel' \in BOOLEAN /\ deadline' \in {"none", "live", "expired"}
          /\ range' \in Ranges /\ armRange' \in Ranges /\ settings' \in AllSettings /\ risen' \in Nat
      BY <2>4 DEF ArmEnd, Fault, UnitReleased, LevelAfterFailure, Levels, AllSettings
    <3> QED
      BY <2>4, <3>1, <3>2, <3>3 DEF ArmEnd
  <2>5. CASE ExecuteRelease
    <3>1. pc' \in [Procs -> Locations]
      BY <2>5 DEF ExecuteRelease, Goto, AutoArm, AfterRelease, Procs, Threads, Locations
    <3>2. level' \in Levels /\ seen' \in Levels
      BY <2>5, ZeroLevel DEF ExecuteRelease, Fault, LevelAfterFailure, UnitReleased
    <3>3. /\ held' \in BOOLEAN /\ cancel' \in BOOLEAN /\ deadline' \in {"none", "live", "expired"}
          /\ range' \in Ranges /\ armRange' \in Ranges /\ settings' \in AllSettings /\ risen' \in Nat
      BY <2>5 DEF ExecuteRelease, Fault, UnitReleased, LevelAfterFailure, Levels, AllSettings
    <3> QED
      BY <2>5, <3>1, <3>2, <3>3 DEF ExecuteRelease
  <2>6. CASE LowerLevel
    <3>1. pc' \in [Procs -> Locations]
      BY <2>6 DEF LowerLevel, Goto, AutoArm, AfterRelease, Procs, Threads, Locations
    <3>2. level' \in Levels /\ seen' \in Levels
      BY <2>6, ZeroLevel DEF LowerLevel, Fault, LevelAfterFailure, UnitReleased, Levels
    <3>3. /\ held' \in BOOLEAN /\ cancel' \in BOOLEAN /\ deadline' \in {"none", "live", "expired"}
          /\ range' \in Ranges /\ armRange' \in Ranges /\ settings' \in AllSettings /\ risen' \in Nat
      BY <2>6 DEF LowerLevel, Fault, UnitReleased, LevelAfterFailure, Levels, AllSettings
    <3> QED
      BY <2>6, <3>1, <3>2, <3>3 DEF LowerLevel
  <2>7. CASE RampWrite
    <3>1. pc' \in [Procs -> Locations]
      BY <2>7 DEF RampWrite, Goto, AutoArm, AfterRelease, Procs, Threads, Locations
    <3>2. level' \in Levels /\ seen' \in Levels
      BY <2>7, ZeroLevel DEF RampWrite, Fault, LevelAfterFailure, UnitReleased, Control, Levels, Goto
    <3>3. /\ held' \in BOOLEAN /\ cancel' \in BOOLEAN /\ deadline' \in {"none", "live", "expired"}
          /\ range' \in Ranges /\ armRange' \in Ranges /\ settings' \in AllSettings /\ risen' \in Nat
      BY <2>7 DEF RampWrite, Fault, UnitReleased, LevelAfterFailure, Levels, AllSettings
    <3> QED
      BY <2>7, <3>1, <3>2, <3>3 DEF RampWrite
  <2> QED
    BY <1>4, <2>1, <2>2, <2>3, <2>4, <2>5, <2>6, <2>7, <2>8, <2>9, <2>10, <2>11,
      <2>12, <2>13, <2>14, <2>15, <2>16, <2>17, <2>18 DEF Own
<1>5. CASE World
  <2>1. CASE FlushGone
    <3>1. pc' \in [Procs -> Locations]
      BY <2>1 DEF FlushGone, Goto, Procs, Threads, Locations
    <3> QED
      BY <2>1, <3>1 DEF FlushGone
  <2>2. CASE AckLapses
    BY <2>2 DEF AckLapses
  <2>3. CASE WindowRunsOut
    BY <2>3 DEF WindowRunsOut
  <2>4. CASE Stop
    BY <2>4 DEF Stop
  <2> QED
    BY <1>5, <2>1, <2>2, <2>3, <2>4 DEF World
<1>6. CASE UNCHANGED vars
  BY <1>6 DEF vars
<1> QED
  BY <1>1, <1>2, <1>3, <1>4, <1>5, <1>6 DEF Next

-----------------------------------------------------------------------------
(* Who has the unit to itself. *)

\* No step lets a second goroutine at the unit while a ramp has it, or
\* moves a goroutine to where its handler cannot be.
LEMMA ControlStep == TypeOK /\ Control /\ [Next]_vars => Control'
<1> SUFFICES ASSUME TypeOK, Control, [Next]_vars PROVE Control'
  OBVIOUS
<1> USE LinkAssumption DEF TypeOK, Control, RampOwnsUnit, Goto, AutoArm, Procs, Threads,
        sess, rt, unit, locals, history
<1>1. CASE Service
  BY <1>1 DEF Service, ServiceAttach, ServiceAck, ServiceHello, ServiceDetach, ServiceSettings,
      ServiceCommand, ServiceStatus, ServiceRelease
<1>2. ASSUME NEW p \in Pickers, Select(p) PROVE Control'
  BY <1>2 DEF Select
<1>3. ASSUME NEW p \in Procs, Shared(p) PROVE Control'
  <2>1. CASE DetachMark(p) \/ DetachCancel(p) \/ ReleaseLatch(p) \/ DetachReset(p)
           \/ SelectUnit(p) \/ ApplySettings(p) \/ RearmAfterSettings(p)
    BY <2>1 DEF DetachMark, DetachCancel, ReleaseLatch, DetachReset, SelectUnit,
      ApplySettings, RearmAfterSettings
  <2>2. CASE ReleaseRun(p)
    BY <2>2 DEF ReleaseRun, AfterRelease, DevFree, Fault, LevelAfterFailure, UnitReleased
  <2>3. CASE OpenRun(p)
    BY <2>3 DEF OpenRun, DevFree, UnitReleased
  <2>4. CASE CloseRun(p)
    BY <2>4 DEF CloseRun, DevFree, LevelAfterFailure
  <2> QED
    BY <1>3, <2>1, <2>2, <2>3, <2>4 DEF Shared
<1>4. ASSUME NEW p \in Procs, Own(p) PROVE Control'
  <2>1. CASE AttachFresh \/ AttachGreet \/ HeartbeatStale \/ SessionStop \/ SessionWait
    BY <2>1 DEF AttachFresh, AttachGreet, HeartbeatStale, SessionStop, SessionWait
  <2>6. CASE ExpiryTick \/ RuntimeStop
    BY <2>6 DEF ExpiryTick, RuntimeStop
  <2>8. CASE ArmDeferred \/ StatusRun
    BY <2>8 DEF ArmDeferred, StatusRun
  <2>7. CASE CommandRefused \/ RampCheck
    BY <2>7 DEF CommandRefused, RampCheck, DevFree
  <2>9. CASE RampBegin
    <3>1. Cap \in Nat /\ Cap <= LevelTop
      BY DEF Cap, AllSettings
    <3>2. level < goal /\ goal <= LevelTop
      BY <2>9, <3>1 DEF RampBegin, Levels
    <3> QED
      BY <2>9, <3>2 DEF RampBegin, DevFree, Armed
  <2>2. CASE HealthTick
    BY <2>2 DEF HealthTick, DevFree, Fault, LevelAfterFailure
  <2>3. CASE ArmBegin \/ ArmEnd
    BY <2>3 DEF ArmBegin, ArmEnd, DevFree, LevelAfterFailure
  <2>4. CASE ExecuteRelease
    BY <2>4 DEF ExecuteRelease, DevFree, UnitReleased, LevelAfterFailure
  <2>5. CASE LowerLevel \/ RampWrite
    BY <2>5 DEF LowerLevel, RampWrite, DevFree, Armed, Levels
  <2> QED
    BY <1>4, <2>1, <2>2, <2>3, <2>4, <2>5, <2>6, <2>7, <2>8, <2>9 DEF Own
<1>5. CASE World
  BY <1>5 DEF World, FlushGone, AckLapses, WindowRunsOut, Stop
<1>6. CASE UNCHANGED vars
  BY <1>6 DEF vars
<1> QED
  BY <1>1, <1>2, <1>3, <1>4, <1>5, <1>6 DEF Next


-----------------------------------------------------------------------------
(* The latch and the ramp. *)

\* No step lets a ramp rise more than once after the latch is set.
LEMMA LatchedStep == TypeOK /\ Latched /\ [Next]_vars => Latched'
<1> SUFFICES ASSUME TypeOK, Latched, [Next]_vars PROVE Latched'
  OBVIOUS
<1> USE LinkAssumption DEF TypeOK, Latched, OneRiseAfterLatch, Goto, AutoArm, Procs, Threads,
        sess, rt, unit, locals, history
<1>1. CASE Service
  BY <1>1 DEF Service, ServiceAttach, ServiceAck, ServiceHello, ServiceDetach, ServiceSettings,
      ServiceCommand, ServiceStatus, ServiceRelease
<1>2. ASSUME NEW p \in Pickers, Select(p) PROVE Latched'
  BY <1>2 DEF Select
<1>3. ASSUME NEW p \in Procs, Shared(p) PROVE Latched'
  <2>1. CASE DetachMark(p) \/ DetachCancel(p) \/ ReleaseLatch(p) \/ DetachReset(p)
           \/ SelectUnit(p) \/ ApplySettings(p) \/ RearmAfterSettings(p)
    BY <2>1 DEF DetachMark, DetachCancel, ReleaseLatch, DetachReset, SelectUnit,
      ApplySettings, RearmAfterSettings
  <2>2. CASE ReleaseRun(p)
    BY <2>2 DEF ReleaseRun, AfterRelease, DevFree, Fault, LevelAfterFailure, UnitReleased
  <2>3. CASE OpenRun(p)
    BY <2>3 DEF OpenRun, DevFree, UnitReleased
  <2>4. CASE CloseRun(p)
    BY <2>4 DEF CloseRun, DevFree, LevelAfterFailure
  <2> QED
    BY <1>3, <2>1, <2>2, <2>3, <2>4 DEF Shared
<1>4. ASSUME NEW p \in Procs, Own(p) PROVE Latched'
  <2>1. CASE AttachFresh \/ AttachGreet \/ HeartbeatStale \/ SessionStop \/ SessionWait
    BY <2>1 DEF AttachFresh, AttachGreet, HeartbeatStale, SessionStop, SessionWait
  <2>6. CASE ExpiryTick \/ RuntimeStop
    BY <2>6 DEF ExpiryTick, RuntimeStop
  <2>8. CASE ArmDeferred \/ StatusRun
    BY <2>8 DEF ArmDeferred, StatusRun
  <2>7. CASE CommandRefused \/ RampBegin \/ RampCheck
    BY <2>7 DEF CommandRefused, RampBegin, RampCheck, DevFree, Armed, Cap
  <2>2. CASE HealthTick
    BY <2>2 DEF HealthTick, DevFree, Fault, LevelAfterFailure
  <2>3. CASE ArmBegin \/ ArmEnd
    BY <2>3 DEF ArmBegin, ArmEnd, DevFree, LevelAfterFailure
  <2>4. CASE ExecuteRelease
    BY <2>4 DEF ExecuteRelease, DevFree, UnitReleased, LevelAfterFailure
  <2>5. CASE LowerLevel \/ RampWrite
    BY <2>5 DEF LowerLevel, RampWrite, DevFree, Armed, Levels
  <2> QED
    BY <1>4, <2>1, <2>2, <2>3, <2>4, <2>5, <2>6, <2>7, <2>8 DEF Own
<1>5. CASE World
  BY <1>5 DEF World, FlushGone, AckLapses, WindowRunsOut, Stop
<1>6. CASE UNCHANGED vars
  BY <1>6 DEF vars
<1> QED
  BY <1>1, <1>2, <1>3, <1>4, <1>5, <1>6 DEF Next


-----------------------------------------------------------------------------
(* Nothing driven without a window. *)

\* No step leaves the unit driven with neither a window nor a release.
LEMMA DriveStep == TypeOK /\ Control /\ NoDriveWithoutWindow /\ [Next]_vars => NoDriveWithoutWindow'
<1> SUFFICES ASSUME TypeOK, Control, NoDriveWithoutWindow, [Next]_vars PROVE NoDriveWithoutWindow'
  OBVIOUS
<1> USE LinkAssumption DEF TypeOK, Control, RampOwnsUnit, NoDriveWithoutWindow, Goto, AutoArm, Procs, Threads,
        sess, rt, unit, locals, history
<1>1. CASE Service
  BY <1>1 DEF Service, ServiceAttach, ServiceAck, ServiceHello, ServiceDetach, ServiceSettings,
      ServiceCommand, ServiceStatus, ServiceRelease
<1>2. ASSUME NEW p \in Pickers, Select(p) PROVE NoDriveWithoutWindow'
  BY <1>2 DEF Select
<1>3. ASSUME NEW p \in Procs, Shared(p) PROVE NoDriveWithoutWindow'
  <2>1. CASE DetachMark(p) \/ DetachCancel(p) \/ ReleaseLatch(p) \/ DetachReset(p)
           \/ SelectUnit(p) \/ ApplySettings(p) \/ RearmAfterSettings(p)
    BY <2>1 DEF DetachMark, DetachCancel, ReleaseLatch, DetachReset, SelectUnit,
      ApplySettings, RearmAfterSettings
  <2>2. CASE ReleaseRun(p)
    <3>1. ~held' \/ level' = 0 \/ stop'
      BY <2>2 DEF ReleaseRun, Fault, LevelAfterFailure, UnitReleased
    <3> QED
      BY <3>1
  <2>3. CASE OpenRun(p)
    <3>1. CASE level' = 0
      BY <3>1
    <3>2. CASE UNCHANGED <<held, level>>
      BY <2>3, <3>2 DEF OpenRun
    <3> QED
      BY <2>3, <3>1, <3>2 DEF OpenRun, UnitReleased
  <2>4. CASE CloseRun(p)
    BY <2>4 DEF CloseRun, DevFree, LevelAfterFailure
  <2> QED
    BY <1>3, <2>1, <2>2, <2>3, <2>4 DEF Shared
<1>4. ASSUME NEW p \in Procs, Own(p) PROVE NoDriveWithoutWindow'
  <2>1. CASE AttachFresh \/ AttachGreet \/ HeartbeatStale \/ SessionStop \/ SessionWait
    BY <2>1 DEF AttachFresh, AttachGreet, HeartbeatStale, SessionStop, SessionWait
  <2>6. CASE ExpiryTick \/ RuntimeStop
    BY <2>6 DEF ExpiryTick, RuntimeStop
  <2>8. CASE ArmDeferred \/ StatusRun
    BY <2>8 DEF ArmDeferred, StatusRun
  <2>7. CASE CommandRefused \/ RampBegin \/ RampCheck
    BY <2>7 DEF CommandRefused, RampBegin, RampCheck, DevFree, Armed, Cap
  <2>2. CASE HealthTick
    BY <2>2 DEF HealthTick, DevFree, Fault, LevelAfterFailure
  <2>3. CASE ArmBegin \/ ArmEnd
    BY <2>3 DEF ArmBegin, ArmEnd, DevFree, LevelAfterFailure
  <2>4. CASE ExecuteRelease
    BY <2>4 DEF ExecuteRelease, DevFree, UnitReleased, LevelAfterFailure
  <2>5. CASE LowerLevel \/ RampWrite
    BY <2>5 DEF LowerLevel, RampWrite, DevFree, Armed, Levels
  <2> QED
    BY <1>4, <2>1, <2>2, <2>3, <2>4, <2>5, <2>6, <2>7, <2>8 DEF Own
<1>5. CASE World
  BY <1>5 DEF World, FlushGone, AckLapses, WindowRunsOut, Stop
<1>6. CASE UNCHANGED vars
  BY <1>6 DEF vars
<1> QED
  BY <1>1, <1>2, <1>3, <1>4, <1>5, <1>6 DEF Next


-----------------------------------------------------------------------------
(* The end of Run. *)

\* No step gives a unit back to a Run that is on its way out.
LEMMA ClosingStep == TypeOK /\ Closing /\ [Next]_vars => Closing'
<1> SUFFICES ASSUME TypeOK, Closing, [Next]_vars PROVE Closing'
  OBVIOUS
<1> USE LinkAssumption DEF TypeOK, Closing, StoppedHoldsNothing, Goto, AutoArm, Procs, Threads,
        sess, rt, unit, locals, history
<1>1. CASE Service
  BY <1>1 DEF Service, ServiceAttach, ServiceAck, ServiceHello, ServiceDetach, ServiceSettings,
      ServiceCommand, ServiceStatus, ServiceRelease
<1>2. ASSUME NEW p \in Pickers, Select(p) PROVE Closing'
  BY <1>2 DEF Select
<1>3. ASSUME NEW p \in Procs, Shared(p) PROVE Closing'
  <2>1. CASE DetachMark(p) \/ DetachCancel(p) \/ ReleaseLatch(p) \/ DetachReset(p)
           \/ SelectUnit(p) \/ ApplySettings(p) \/ RearmAfterSettings(p)
    BY <2>1 DEF DetachMark, DetachCancel, ReleaseLatch, DetachReset, SelectUnit,
      ApplySettings, RearmAfterSettings
  <2>2. CASE ReleaseRun(p)
    BY <2>2 DEF ReleaseRun, AfterRelease, DevFree, Fault, LevelAfterFailure, UnitReleased
  <2>3. CASE OpenRun(p)
    BY <2>3 DEF OpenRun, DevFree, UnitReleased
  <2>4. CASE CloseRun(p)
    BY <2>4 DEF CloseRun, DevFree, LevelAfterFailure
  <2> QED
    BY <1>3, <2>1, <2>2, <2>3, <2>4 DEF Shared
<1>4. ASSUME NEW p \in Procs, Own(p) PROVE Closing'
  <2>1. CASE AttachFresh \/ AttachGreet \/ HeartbeatStale \/ SessionStop \/ SessionWait
    BY <2>1 DEF AttachFresh, AttachGreet, HeartbeatStale, SessionStop, SessionWait
  <2>6. CASE ExpiryTick \/ RuntimeStop
    BY <2>6 DEF ExpiryTick, RuntimeStop
  <2>8. CASE ArmDeferred \/ StatusRun
    BY <2>8 DEF ArmDeferred, StatusRun
  <2>7. CASE CommandRefused \/ RampBegin \/ RampCheck
    BY <2>7 DEF CommandRefused, RampBegin, RampCheck, DevFree, Armed, Cap
  <2>2. CASE HealthTick
    BY <2>2 DEF HealthTick, DevFree, Fault, LevelAfterFailure
  <2>3. CASE ArmBegin \/ ArmEnd
    BY <2>3 DEF ArmBegin, ArmEnd, DevFree, LevelAfterFailure
  <2>4. CASE ExecuteRelease
    BY <2>4 DEF ExecuteRelease, DevFree, UnitReleased, LevelAfterFailure
  <2>5. CASE LowerLevel \/ RampWrite
    BY <2>5 DEF LowerLevel, RampWrite, DevFree, Armed, Levels
  <2> QED
    BY <1>4, <2>1, <2>2, <2>3, <2>4, <2>5, <2>6, <2>7, <2>8 DEF Own
<1>5. CASE World
  BY <1>5 DEF World, FlushGone, AckLapses, WindowRunsOut, Stop
<1>6. CASE UNCHANGED vars
  BY <1>6 DEF vars
<1> QED
  BY <1>1, <1>2, <1>3, <1>4, <1>5, <1>6 DEF Next

-----------------------------------------------------------------------------
(* The unit's lifecycle. *)

\* An action that touches neither the unit held, nor its window, nor its
\* level is none of the unit's.
LEMMA UnitStutter == UNCHANGED <<held, deadline, level>> => UNCHANGED Unit!vars
  BY DEF Unit!vars, Phase

\* Every step of the link is one of the unit's lifecycle, or none of it.
LEMMA UnitStep == TypeOK /\ Control /\ [Next]_vars => [Unit!Next]_(Unit!vars)
<1> SUFFICES ASSUME TypeOK, Control, [Next]_vars PROVE [Unit!Next]_(Unit!vars)
  OBVIOUS
<1> USE DEF sess, rt, unit, locals, history
<1> DEFINE Quiescent == UNCHANGED <<held, deadline, level>>
<1>1. CASE Service
  <2>1. Quiescent
    BY <1>1 DEF Service, ServiceAttach, ServiceAck, ServiceHello, ServiceDetach, ServiceSettings,
      ServiceCommand, ServiceStatus, ServiceRelease
  <2> QED
    BY <2>1, UnitStutter
<1>2. ASSUME NEW p \in Pickers, Select(p) PROVE [Unit!Next]_(Unit!vars)
  BY <1>2, UnitStutter DEF Select
<1>3. ASSUME NEW p \in Procs, Shared(p) PROVE [Unit!Next]_(Unit!vars)
  <2>1. CASE DetachMark(p) \/ DetachCancel(p) \/ ReleaseLatch(p) \/ DetachReset(p)
           \/ SelectUnit(p) \/ ApplySettings(p) \/ RearmAfterSettings(p)
    <3>1. Quiescent
      BY <2>1 DEF DetachMark, DetachCancel, ReleaseLatch, DetachReset, SelectUnit,
        ApplySettings, RearmAfterSettings
    <3> QED
      BY <3>1, UnitStutter
  <2>2. CASE ReleaseRun(p)
    <3>1. Quiescent \/ Unit!Shut \/ Unit!Drop
      BY <2>2 DEF ReleaseRun, Fault, LevelAfterFailure, UnitReleased, Control, TypeOK,
        Unit!Shut, Unit!Drop, Phase
    <3> QED
      BY <3>1, UnitStutter DEF Unit!Next
  <2>3. CASE OpenRun(p)
    <3>1. Quiescent \/ Unit!Take
      BY <2>3 DEF OpenRun, UnitReleased, Control, Unit!Take, Phase
    <3> QED
      BY <3>1, UnitStutter DEF Unit!Next
  <2>4. CASE CloseRun(p)
    <3>1. Quiescent \/ Unit!Drop
      BY <2>4 DEF CloseRun, LevelAfterFailure, Unit!Drop, Phase
    <3> QED
      BY <3>1, UnitStutter DEF Unit!Next
  <2> QED
    BY <1>3, <2>1, <2>2, <2>3, <2>4 DEF Shared
<1>4. ASSUME NEW p \in Procs, Own(p) PROVE [Unit!Next]_(Unit!vars)
  <2>1. CASE AttachFresh \/ AttachGreet \/ HeartbeatStale \/ SessionStop \/ SessionWait
    <3>1. Quiescent
      BY <2>1 DEF AttachFresh, AttachGreet, HeartbeatStale, SessionStop, SessionWait
    <3> QED
      BY <3>1, UnitStutter
  <2>2. CASE \/ ExpiryTick \/ RuntimeStop \/ ArmDeferred \/ ArmBegin
             \/ StatusRun \/ CommandRefused \/ RampBegin \/ RampCheck
    <3>1. Quiescent
      BY <2>2 DEF ExpiryTick, RuntimeStop, ArmDeferred, ArmBegin, StatusRun, CommandRefused,
        RampBegin, RampCheck
    <3> QED
      BY <3>1, UnitStutter
  <2>3. CASE HealthTick
    <3>1. Quiescent \/ Unit!Drop
      BY <2>3 DEF HealthTick, Fault, LevelAfterFailure, Unit!Drop, Phase
    <3> QED
      BY <3>1, UnitStutter DEF Unit!Next
  <2>4. CASE ArmEnd
    <3>1. held
      BY <2>4 DEF ArmEnd, Goto, Control
    <3>2. Unit!Open \/ Unit!Shut
      BY <2>4, <3>1 DEF ArmEnd, LevelAfterFailure, Unit!Open, Unit!Shut, Phase
    <3> QED
      BY <3>2 DEF Unit!Next
  <2>5. CASE ExecuteRelease
    <3>1. Quiescent \/ Unit!Shut
      BY <2>5 DEF ExecuteRelease, LevelAfterFailure, UnitReleased, Unit!Shut, Phase
    <3> QED
      BY <3>1, UnitStutter DEF Unit!Next
  <2>6. CASE LowerLevel
    <3>1. level' \in 0 .. level
      BY <2>6 DEF LowerLevel, TypeOK, Levels
    <3>2. Unit!Lower
      BY <2>6, <3>1 DEF LowerLevel, Armed, Unit!Lower, Phase
    <3> QED
      BY <3>2 DEF Unit!Next
  <2>7. CASE RampWrite
    <3>1. held /\ deadline # "none" /\ level < LevelTop
      BY <2>7, LinkAssumption DEF RampWrite, Goto, Control, RampOwnsUnit, TypeOK, Levels
    <3>2. Quiescent \/ Unit!Raise
      BY <2>7, <3>1 DEF RampWrite, Unit!Raise, Phase
    <3> QED
      BY <3>2, UnitStutter DEF Unit!Next
  <2> QED
    BY <1>4, <2>1, <2>2, <2>3, <2>4, <2>5, <2>6, <2>7 DEF Own
<1>5. CASE World
  <2>1. CASE Quiescent
    BY <2>1, UnitStutter
  <2>2. CASE WindowRunsOut
    BY <2>2 DEF WindowRunsOut, Unit!vars, Phase
  <2> QED
    BY <1>5, <2>1, <2>2 DEF World, FlushGone, AckLapses, Stop
<1>6. CASE UNCHANGED vars
  BY <1>6, UnitStutter DEF vars
<1> QED
  BY <1>1, <1>2, <1>3, <1>4, <1>5, <1>6 DEF Next

-----------------------------------------------------------------------------
(* What holds of every behaviour. *)

\* The inductive invariant holds at the start.
LEMMA InitInv == Init => IInv
<1> SUFFICES ASSUME Init PROVE IInv
  OBVIOUS
<1>1. TypeOK
  BY InitType
<1>2. Control /\ Latched /\ NoDriveWithoutWindow /\ Closing
  BY DEF Init, Control, Latched, NoDriveWithoutWindow, Closing, RampOwnsUnit,
    OneRiseAfterLatch, StoppedHoldsNothing, Procs, Threads
<1> QED
  BY <1>1, <1>2 DEF IInv

\* Every step of every goroutine keeps the inductive invariant.
LEMMA InvStep == IInv /\ [Next]_vars => IInv'
  BY TypeStep, ControlStep, LatchedStep, DriveStep, ClosingStep DEF IInv

\* The inductive invariant of the link: who holds the unit, what a latched
\* ramp has left, what drives the unit, and how Run ends.
THEOREM LinkInvariant == Spec => []IInv
  BY InitInv, InvStep, PTL DEF Spec

\* Every variable keeps its type; in particular the level never leaves the
\* unit's own range, however a ramp is interrupted or fails.
THEOREM TypeCorrect == Spec => []TypeOK
<1>1. IInv => TypeOK
  BY DEF IInv
<1> QED
  BY <1>1, LinkInvariant, PTL

\* Release, health check, close and arming all wait for a ramp.
THEOREM RampExclusive == Spec => []RampOwnsUnit
<1>1. IInv => RampOwnsUnit
  BY DEF IInv, Control
<1> QED
  BY <1>1, LinkInvariant, PTL

\* A latch set by anyone stops a running ramp after at most one more step.
THEOREM LatchStopsRamp == Spec => []OneRiseAfterLatch
<1>1. IInv => OneRiseAfterLatch
  BY DEF IInv, Latched
<1> QED
  BY <1>1, LinkInvariant, PTL

\* A unit above zero without a window has its latch set or its release
\* under way.
THEOREM DriveNeedsWindow == Spec => []NoDriveWithoutWindow
<1>1. IInv => NoDriveWithoutWindow
  BY DEF IInv
<1> QED
  BY <1>1, LinkInvariant, PTL

\* After Run has returned no unit is held.
THEOREM StopReleases == Spec => []StoppedHoldsNothing
<1>1. IInv => StoppedHoldsNothing
  BY DEF IInv, Closing
<1> QED
  BY <1>1, LinkInvariant, PTL

\* The link with all its goroutines implements the lifecycle of one unit:
\* every step is one of the unit's, or leaves the unit alone.
THEOREM LinkImplementsUnit == Spec => UnitSafe
<1>1. Init => Unit!Init
  BY DEF Init, Unit!Init, Phase
<1>2. IInv /\ [Next]_vars => [Unit!Next]_(Unit!vars)
  BY UnitStep DEF IInv
<1> QED
  BY <1>1, <1>2, LinkInvariant, PTL DEF Spec, UnitSafe, Unit!Spec
=============================================================================
