--------------------------- MODULE StartupProofs ----------------------------
(***************************************************************************)
(* Proofs about Lifecycle, for any number of health connections, and about *)
(* Startup, for any views and any configuration.                           *)
(***************************************************************************)
EXTENDS Startup, TLAPS

-----------------------------------------------------------------------------
(* The process of Lifecycle.                                               *)

\* Only accepted connections are counted.
LEMMA ConnsStayBounded == ConnsBounded /\ [Next]_vars => ConnsBounded'
<1> SUFFICES ASSUME ConnsBounded, [Next]_vars PROVE ConnsBounded'
  OBVIOUS
<1> USE DEF ConnsBounded
<1>1. CASE Connect
  BY <1>1, ConnsAssumption DEF Connect
<1>2. CASE Disconnect
  BY <1>2, ConnsAssumption DEF Disconnect
<1>3. CASE UNCHANGED conns
  BY <1>3
<1>4. MainStep => UNCHANGED conns
  BY DEF MainStep, Initialise, InitialiseFails, Start, StartFails, SelectSignal,
         SelectError, StoreNotReady, CloseHealth, Drained, DrainTimesOut, healthVars
<1>5. WatcherStep \/ APIListens \/ APIFatal \/ HealthFails \/ Signal
        => UNCHANGED conns
  BY DEF WatcherStep, WatcherStarted, WatcherCancelled, StoreReady, APIListens,
         APIFatal, HealthFails, Signal, healthVars
<1>6. UNCHANGED vars => UNCHANGED conns
  BY DEF vars
<1> QED
  BY <1>1, <1>2, <1>3, <1>4, <1>5, <1>6 DEF Next

\* The process starts with the invariant.
LEMMA InitIInv == Init => IInv
<1>1. Init => ConnsBounded
  BY ConnsAssumption DEF Init, ConnsBounded
<1>2. Init => StartIsTold /\ StopHasReason /\ CleanExitOnlyOnSignal
  BY DEF Init, StartIsTold, StopHasReason, CleanExitOnlyOnSignal
<1> QED
  BY <1>1, <1>2 DEF Init, IInv, TypeOK

\* Every step keeps the types.
LEMMA TypeKept == TypeOK /\ [Next]_vars => TypeOK'
<1> SUFFICES ASSUME TypeOK, [Next]_vars PROVE TypeOK'
  OBVIOUS
<1> USE DEF TypeOK, At, Running, healthVars, apiVars
<1>1. CASE Initialise \/ InitialiseFails \/ Start \/ StartFails
  BY ConnsStayBounded, <1>1 DEF Initialise, InitialiseFails, Start, StartFails
<1>2. CASE SelectSignal \/ SelectError \/ StoreNotReady
  BY ConnsStayBounded, <1>2 DEF SelectSignal, SelectError, StoreNotReady
<1>3. CASE CloseHealth \/ Drained \/ DrainTimesOut
  BY ConnsStayBounded, <1>3 DEF CloseHealth, Drained, DrainTimesOut
<1>4. CASE WatcherStarted \/ WatcherCancelled \/ StoreReady
  BY ConnsStayBounded, <1>4 DEF WatcherStarted, WatcherCancelled, StoreReady
<1>5. CASE APIListens \/ APIFatal \/ HealthFails
  BY ConnsStayBounded, <1>5 DEF APIListens, APIFatal, HealthFails
<1>6. CASE Connect \/ Disconnect \/ Signal
  BY ConnsStayBounded, <1>6 DEF Connect, Disconnect, Signal
<1>7. CASE UNCHANGED vars
  BY ConnsStayBounded, <1>7 DEF vars
<1> QED
  BY <1>1, <1>2, <1>3, <1>4, <1>5, <1>6, <1>7 DEF Next, MainStep, WatcherStep

\* News of the API's start is never made up.
LEMMA TellingKept == StartIsTold /\ [Next]_vars => StartIsTold'
<1> SUFFICES ASSUME StartIsTold, [Next]_vars PROVE StartIsTold'
  OBVIOUS
<1> USE DEF StartIsTold, At, Running, healthVars, apiVars
<1>1. CASE Initialise \/ InitialiseFails \/ Start \/ StartFails
  <2>1. CASE Start
    BY <2>1 DEF Start
  <2>2. CASE Initialise \/ InitialiseFails \/ StartFails
    BY <2>2 DEF Initialise, InitialiseFails, StartFails
  <2> QED
    BY <1>1, <2>1, <2>2
<1>2. CASE SelectSignal \/ SelectError \/ StoreNotReady
  BY <1>2 DEF SelectSignal, SelectError, StoreNotReady
<1>3. CASE CloseHealth \/ Drained \/ DrainTimesOut
  BY <1>3 DEF CloseHealth, Drained, DrainTimesOut
<1>4. CASE WatcherStarted \/ WatcherCancelled \/ StoreReady
  BY <1>4 DEF WatcherStarted, WatcherCancelled, StoreReady
<1>5. CASE APIListens \/ APIFatal \/ HealthFails
  BY <1>5 DEF APIListens, APIFatal, HealthFails
<1>6. CASE Connect \/ Disconnect \/ Signal
  BY <1>6 DEF Connect, Disconnect, Signal
<1>7. CASE UNCHANGED vars
  BY <1>7 DEF vars
<1> QED
  BY <1>1, <1>2, <1>3, <1>4, <1>5, <1>6, <1>7 DEF Next, MainStep, WatcherStep

\* The reason to stop is never forgotten.
LEMMA ReasonKept == StopHasReason /\ [Next]_vars => StopHasReason'
<1> SUFFICES ASSUME StopHasReason, [Next]_vars PROVE StopHasReason'
  OBVIOUS
<1> USE DEF StopHasReason, At, Running, healthVars, apiVars
<1>1. CASE Initialise \/ InitialiseFails \/ Start \/ StartFails
  BY <1>1 DEF Initialise, InitialiseFails, Start, StartFails
<1>2. CASE SelectSignal \/ SelectError \/ StoreNotReady
  BY <1>2 DEF SelectSignal, SelectError, StoreNotReady
<1>3. CASE CloseHealth \/ Drained \/ DrainTimesOut
  BY <1>3 DEF CloseHealth, Drained, DrainTimesOut
<1>4. CASE WatcherStarted \/ WatcherCancelled \/ StoreReady
  BY <1>4 DEF WatcherStarted, WatcherCancelled, StoreReady
<1>5. CASE APIListens \/ APIFatal \/ HealthFails
  BY <1>5 DEF APIListens, APIFatal, HealthFails
<1>6. CASE Connect \/ Disconnect \/ Signal
  BY <1>6 DEF Connect, Disconnect, Signal
<1>7. CASE UNCHANGED vars
  BY <1>7 DEF vars
<1> QED
  BY <1>1, <1>2, <1>3, <1>4, <1>5, <1>6, <1>7 DEF Next, MainStep, WatcherStep

\* A clean exit needs a signal.
LEMMA CleanExitKept == StopHasReason /\ CleanExitOnlyOnSignal /\ [Next]_vars => CleanExitOnlyOnSignal'
<1> SUFFICES ASSUME StopHasReason, CleanExitOnlyOnSignal, [Next]_vars PROVE CleanExitOnlyOnSignal'
  OBVIOUS
<1> USE DEF StopHasReason, CleanExitOnlyOnSignal, At, Running, healthVars, apiVars
<1>1. CASE Initialise \/ InitialiseFails \/ Start \/ StartFails
  BY <1>1 DEF Initialise, InitialiseFails, Start, StartFails
<1>2. CASE SelectSignal \/ SelectError \/ StoreNotReady
  BY <1>2 DEF SelectSignal, SelectError, StoreNotReady
<1>3. CASE CloseHealth \/ Drained \/ DrainTimesOut
  BY <1>3 DEF CloseHealth, Drained, DrainTimesOut
<1>4. CASE WatcherStarted \/ WatcherCancelled \/ StoreReady
  BY <1>4 DEF WatcherStarted, WatcherCancelled, StoreReady
<1>5. CASE APIListens \/ APIFatal \/ HealthFails
  BY <1>5 DEF APIListens, APIFatal, HealthFails
<1>6. CASE Connect \/ Disconnect \/ Signal
  BY <1>6 DEF Connect, Disconnect, Signal
<1>7. CASE UNCHANGED vars
  BY <1>7 DEF vars
<1> QED
  BY <1>1, <1>2, <1>3, <1>4, <1>5, <1>6, <1>7 DEF Next, MainStep, WatcherStep

\* Every step of the process keeps the invariant.
LEMMA NextIInv == IInv /\ [Next]_vars => IInv'
  BY TypeKept, TellingKept, ReasonKept, CleanExitKept DEF IInv

\* All state is well typed, and the readiness flag and the exit status have the
\* reasons they need.
THEOREM LifecycleInvariance == Spec => []IInv
<1>1. Init => IInv
  BY InitIInv
<1>2. IInv /\ [Next]_vars => IInv'
  BY NextIInv
<1> QED
  BY <1>1, <1>2, PTL DEF Spec

\* The readiness flag is set only while the webhook API listens (Start).
THEOREM ReadyIsTrue == Spec => []ReadyMeansListening
<1>1. IInv => ReadyMeansListening
  BY DEF IInv, StartIsTold, ReadyMeansListening
<1> QED
  BY <1>1, LifecycleInvariance, PTL

\* The process exits with status 0 only after a signal (Run).
THEOREM CleanExitHasReason == Spec => []CleanExitOnlyOnSignal
<1>1. IInv => CleanExitOnlyOnSignal
  BY DEF IInv
<1> QED
  BY <1>1, LifecycleInvariance, PTL

-----------------------------------------------------------------------------
(* The start-up in detail.                                                 *)

\* The start-up begins like Lifecycle.
LEMMA StartupInitIInv == StartupInit => StartupIInv
<1> SUFFICES ASSUME StartupInit PROVE StartupIInv
  OBVIOUS
<1>1. IInv
  BY InitIInv DEF StartupInit
<1>2. main = "init" /\ health = "off" /\ viewID = {}
  BY DEF StartupInit, Init
<1>3. StartupTypeOK
  BY <1>1 DEF StartupInit, StartupTypeOK, IInv
<1> QED
  BY <1>1, <1>2, <1>3 DEF StartupIInv, ResolvedOnce, NothingYet

\* Every step of Startup is a step of Lifecycle, or none.
LEMMA StepIsLifecycles == [StartupNext]_processVars => [Next]_vars
<1> SUFFICES ASSUME [StartupNext]_processVars PROVE [Next]_vars
  OBVIOUS
<1>1. CASE Local
  BY <1>1 DEF Local, Load, LoadFails, ViewRefused, Next, MainStep
<1>2. CASE Reply
  BY <1>2 DEF Reply, ViewResolved, ViewRefused, CallFails, Next, MainStep
<1>3. CASE Afterwards \/ Beside
  BY <1>3 DEF Afterwards, Beside, Next
<1>4. CASE UNCHANGED processVars
  BY <1>4 DEF processVars
<1> QED
  BY <1>1, <1>2, <1>3, <1>4 DEF StartupNext

\* What the Portal's reply makes New accept is the configured view, if it exists.
LEMMA AcceptedIsReal ==
  ASSUME StartupTypeOK
  PROVE  Accepted # {} => Accepted = {settings.view} /\ Accepted \subseteq views
<1>1. readable \subseteq views
  BY DEF StartupTypeOK
<1> QED
  BY <1>1 DEF Accepted

\* The start-up keeps its state well typed.
LEMMA StartupTypeKept ==
  StartupTypeOK /\ [StartupNext]_processVars => StartupTypeOK'
<1> SUFFICES ASSUME StartupTypeOK, [StartupNext]_processVars PROVE StartupTypeOK'
  OBVIOUS
<1>1. TypeOK'
  BY StepIsLifecycles, TypeKept DEF StartupTypeOK
<1>2. UNCHANGED world
  BY DEF StartupNext, Local, Load, LoadFails, Reply, ViewResolved, ViewRefused, CallFails,
         Afterwards, Beside, startVars, processVars
<1>3. loaded' \in BOOLEAN
  BY DEF StartupTypeOK, StartupNext, Local, Load, LoadFails, Reply, ViewResolved, ViewRefused,
         CallFails, Afterwards, Beside, startVars, processVars
<1>4. viewID' \in SUBSET View
  <2>1. CASE ViewResolved
    BY <2>1, AcceptedIsReal DEF ViewResolved, StartupTypeOK
  <2>2. CASE UNCHANGED viewID
    BY <2>2 DEF StartupTypeOK
  <2> QED
    BY <2>1, <2>2 DEF StartupNext, Local, Load, LoadFails, Reply, ViewRefused, CallFails,
         Afterwards, Beside, startVars, processVars
<1> QED
  BY <1>1, <1>2, <1>3, <1>4 DEF StartupTypeOK, world

\* Only the reply of the Portal lets the process go on, with the view it names.
LEMMA ResolvedKept ==
  StartupTypeOK /\ ResolvedOnce /\ [StartupNext]_processVars => ResolvedOnce'
<1> SUFFICES ASSUME StartupTypeOK, ResolvedOnce, [StartupNext]_processVars
             PROVE  ResolvedOnce'
  OBVIOUS
<1>1. CASE ViewResolved
  <2>1. main' = "bind" /\ viewID' = Accepted /\ UNCHANGED world /\ Accepted # {}
    BY <1>1 DEF ViewResolved, Initialise
  <2> QED
    BY <2>1, AcceptedIsReal DEF ResolvedOnce, world
<1>2. CASE Load \/ LoadFails \/ ViewRefused \/ CallFails \/ Beside \/ UNCHANGED processVars
  <2>1. UNCHANGED <<main, viewID, world>>
    BY <1>2 DEF Load, LoadFails, ViewRefused, CallFails, Beside, processVars, startVars, vars,
                InitialiseFails, WatcherStep, WatcherStarted, WatcherCancelled, StoreReady,
                APIListens, APIFatal, HealthFails, Connect, Disconnect, Signal
  <2> QED
    BY <2>1 DEF ResolvedOnce, world
<1>3. CASE Afterwards
  <2>1. main # "init" /\ main' # "init" /\ UNCHANGED <<viewID, world>>
    BY <1>3 DEF Afterwards, startVars, MainStep, Initialise, InitialiseFails, Start, StartFails,
                SelectSignal, SelectError, StoreNotReady, CloseHealth, Drained, DrainTimesOut,
                At
  <2> QED
    BY <2>1 DEF ResolvedOnce, world
<1> QED
  BY <1>1, <1>2, <1>3 DEF StartupNext, Local, Reply

\* The health listener waits for the start-up.
LEMMA NothingYetKept == NothingYet /\ [Next]_vars => NothingYet'
<1> SUFFICES ASSUME NothingYet, [Next]_vars PROVE NothingYet'
  OBVIOUS
<1> USE DEF NothingYet, At, Running, healthVars, apiVars
<1>1. CASE Initialise \/ InitialiseFails \/ Start \/ StartFails
  BY <1>1 DEF Initialise, InitialiseFails, Start, StartFails
<1>2. CASE SelectSignal \/ SelectError \/ StoreNotReady
  BY <1>2 DEF SelectSignal, SelectError, StoreNotReady
<1>3. CASE CloseHealth \/ Drained \/ DrainTimesOut
  BY <1>3 DEF CloseHealth, Drained, DrainTimesOut
<1>4. CASE WatcherStep \/ APIListens \/ APIFatal
  BY <1>4 DEF WatcherStep, WatcherStarted, WatcherCancelled, StoreReady, APIListens, APIFatal
<1>5. CASE HealthFails \/ Connect \/ Disconnect \/ Signal
  BY <1>5 DEF HealthFails, Connect, Disconnect, Signal
<1>6. CASE UNCHANGED vars
  BY <1>6 DEF vars
<1> QED
  BY <1>1, <1>2, <1>3, <1>4, <1>5, <1>6 DEF Next, MainStep

\* The invariant of the start-up and of the process it turns into.
THEOREM StartupInvariance == StartupSpec => []StartupIInv
<1>1. StartupInit => StartupIInv
  BY StartupInitIInv
<1>2. StartupIInv /\ [StartupNext]_processVars => StartupIInv'
  BY StepIsLifecycles, NextIInv, StartupTypeKept, ResolvedKept, NothingYetKept
     DEF StartupIInv
<1> QED
  BY <1>1, <1>2, PTL DEF StartupSpec

\* Nothing listens before New has found the configured view to exist
\* (resolveView).
THEOREM ServesTheConfiguredView == StartupSpec => []ServesRealView
<1>1. StartupIInv => ServesRealView
  <2> SUFFICES ASSUME StartupIInv, health # "off" \/ api # "off" \/ ready
               PROVE  viewID = {settings.view} /\ viewID \subseteq views
    BY DEF ServesRealView
  <2>1. main # "init"
    BY DEF StartupIInv, IInv, NothingYet, StartIsTold
  <2> QED
    BY <2>1 DEF StartupIInv, ResolvedOnce
<1> QED
  BY <1>1, StartupInvariance, PTL

\* Start-up refines the safety part of Lifecycle, so what is proved of
\* Lifecycle holds of the process in detail (run).
THEOREM StartupImplementsLifecycle == StartupSpec => Init /\ [][Next]_vars
<1>1. StartupInit => Init
  BY DEF StartupInit
<1> QED
  BY <1>1, StepIsLifecycles, PTL DEF StartupSpec
=============================================================================
