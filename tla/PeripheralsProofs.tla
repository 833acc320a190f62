-------------------------- MODULE PeripheralsProofs --------------------------
(***************************************************************************)
(* Proofs about Peripherals, for any debounce time and mailbox size: first *)
(* in every environment (AnyInv), then where the manager keeps up with the *)
(* lines and cards are good (PromptInv).                                   *)
(***************************************************************************)
EXTENDS Peripherals, BoardMonitorProofs

Mounting   == {"mount", "connect", "fmount"}
Unmounting == {"unmount", "disconnect", "stop"}
CardEvents == {Inserted, Removed}
UsbEvents  == {UsbConnected, UsbDisconnected}

\* The manager's listener is gone before there is a shell that could end.
HeardInv ==
  /\ IF mpc = "init" THEN shell = "none" ELSE ~listening
  /\ TerminationUnheard

\* A file system that is ready without a removal to come is being unmounted,
\* or it is that of the card that is reported, which is not reported again.
NoNewCard ==
  /\ Inserted \notin pending
  /\ mpc \notin Mounting
CardInv ==
  Removed \notin pending /\ mpc # "fault" =>
    /\ counter["sdcard"] # 0 =>
         NoNewCard /\ (fsReady => mpc \in Unmounting)
    /\ Inserted \in pending =>
         mpc \notin Mounting /\ (fsReady => mpc \in Unmounting)
    /\ mpc \in Mounting => ~fsReady

AnyInv ==
  /\ MonitorInv
  /\ TypeOK
  /\ HeardInv
  /\ OneShell
  /\ CardInv

-----------------------------------------------------------------------------
(* A prompt manager and good cards: a report is handled before its line     *)
(* changes again.                                                          *)

\* The card is reported and not mounted yet; it is withdrawn and not
\* unmounted yet.
CardComes ==
  /\ line["sdcard"] /\ counter["sdcard"] = 0 /\ ~fsReady
CardGoes ==
  /\ ~line["sdcard"] /\ counter["sdcard"] # 0 /\ fsReady

CardPrompt ==
  /\ Inserted \in pending =>
       /\ Removed \notin pending /\ mpc \notin Mounting \cup Unmounting
       /\ CardComes /\ mmc = "STOP"
  /\ Removed \in pending =>
       /\ mpc \notin Mounting \cup Unmounting
       /\ CardGoes /\ mmc = "READY"
  /\ mpc \in Mounting =>
       /\ CardComes
       /\ mmc = (IF mpc = "mount" THEN "STOP"
                 ELSE IF mpc = "connect" THEN "CONNECTING" ELSE "READY")
  /\ mpc \in Unmounting =>
       /\ CardGoes
       /\ mmc = (IF mpc = "unmount" THEN "READY"
                 ELSE IF mpc = "disconnect" THEN "DISCONNECTING" ELSE "STOP")
  /\ CardEvents \cap pending = {} /\ mpc \notin Mounting \cup Unmounting =>
       /\ fsReady <=> counter["sdcard"] = 0
       /\ mmc = IF fsReady THEN "READY" ELSE "STOP"
  /\ mpc # "abort"

UsbPrompt ==
  /\ UsbConnected \in pending \/ mpc = "shellstart" =>
       /\ line["usb"] /\ counter["usb"] = 0 /\ sdu = "STOP"
       /\ UsbDisconnected \notin pending
       /\ mpc # "enumerate" /\ mpc # "shellstop"
  /\ UsbDisconnected \in pending \/ mpc = "shellstop" =>
       /\ ~line["usb"] /\ counter["usb"] # 0 /\ sdu = "READY"
       /\ mpc # "enumerate"
  /\ UsbConnected \in pending => mpc # "shellstart"
  /\ UsbDisconnected \in pending => mpc # "shellstop"
  /\ mpc = "enumerate" =>
       line["usb"] /\ counter["usb"] = 0 /\ sdu = "READY"
  /\ UsbEvents \cap pending = {} /\ mpc \notin {"shellstart", "shellstop"} =>
       (sdu = "READY" <=> counter["usb"] = 0)

PromptInv ==
  /\ AnyInv
  /\ CardPrompt
  /\ UsbPrompt
  /\ mpc # "fault"

-----------------------------------------------------------------------------
(* Steps of the board monitor.                                             *)

\* What the board thread reports of each line.
LEMMA ReportFacts ==
  ASSUME TypeOK, TimerEvent
  PROVE  /\ Inserted \in pending' <=> Inserted \in pending \/ Rises("sdcard")
         /\ Removed \in pending' <=> Removed \in pending \/ Falls("sdcard")
         /\ UsbConnected \in pending' <=> UsbConnected \in pending \/ Rises("usb")
         /\ UsbDisconnected \in pending' <=>
              UsbDisconnected \in pending \/ Falls("usb")
         /\ ShellTerminated \in pending' <=> ShellTerminated \in pending
         /\ \A d \in Devices : counter'[d] = NextCounter(d)
         /\ line' = line
<1>1. /\ Inserted \in Broadcasts <=> Rises("sdcard")
      /\ Removed \in Broadcasts <=> Falls("sdcard")
      /\ UsbConnected \in Broadcasts <=> Rises("usb")
      /\ UsbDisconnected \in Broadcasts <=> Falls("usb")
      /\ ShellTerminated \notin Broadcasts
  BY DEF Broadcasts, Devices, UpEvent, DownEvent, Inserted, Removed,
         UsbConnected, UsbDisconnected, ShellTerminated
<1> QED BY <1>1 DEF TimerEvent

\* The event numbers, and what the manager does with the lowest one.
LEMMA DispatchFacts ==
  ASSUME TypeOK, TerminationUnheard,
         NEW e \in Inserted .. ShellTerminated, Dispatch(e)
  PROVE  /\ mpc = "idle" /\ pending' = pending \ {e}
         /\ UNCHANGED <<line, counter, tick, mailbox, highs, lost>>
         /\ UNCHANGED <<cardVars, usbVars, shellVars, listening>>
         /\ \/ e = Inserted /\ mpc' = "mount" /\ Inserted \in pending
            \/ /\ e = Removed /\ mpc' = "unmount" /\ Removed \in pending
               /\ Inserted \notin pending
            \/ /\ e = UsbConnected /\ mpc' = "shellstart"
               /\ UsbConnected \in pending
               /\ Inserted \notin pending /\ Removed \notin pending
            \/ /\ e = UsbDisconnected /\ mpc' = "shellstop"
               /\ UsbDisconnected \in pending
               /\ Inserted \notin pending /\ Removed \notin pending
               /\ UsbConnected \notin pending
<1> USE DEF Inserted, Removed, UsbConnected, UsbDisconnected, ShellTerminated
<1>1. /\ mpc = "idle" /\ pending' = pending \ {e} /\ e \in pending
      /\ \A f \in pending : e =< f
      /\ mpc' = Handler[e + 1]
      /\ UNCHANGED <<line, counter, tick, mailbox, highs, lost>>
      /\ UNCHANGED <<cardVars, usbVars, shellVars, listening>>
  BY DEF Dispatch, TakeEvent
<1>2. e \in {0, 1, 2, 3}
  BY <1>1 DEF TerminationUnheard
<1>3. /\ Handler[1] = "mount" /\ Handler[2] = "unmount"
      /\ Handler[3] = "shellstart" /\ Handler[4] = "shellstop"
  BY DEF Handler
<1>4. \A f \in {0, 1, 2, 3} : f < e => f \notin pending
  BY <1>1, <1>2
<1> QED BY <1>1, <1>2, <1>3, <1>4

\* Peripherals only takes the monitor's own steps, because the event of a
\* terminated shell is never pending.
LEMMA MonitorUsed ==
  ASSUME TypeOK, HeardInv, [Next]_vars
  PROVE  [MonitorNext]_monitorVars
<1>1. CASE ManagerStep
  BY <1>1 DEF ManagerStep, InitDrivers, InitDone, MountStart, MountConnect,
              MountFs, MountAbort, UnmountStart, UnmountStop, UnmountEnd,
              ShellStart, ShellCreate, ShellStop
<1>2. ASSUME NEW e \in Inserted .. ShellTerminated, Dispatch(e)
      PROVE  MonitorNext
  <2>1. e \in Inserted .. UsbDisconnected
    BY <1>2, DispatchFacts DEF HeardInv, Inserted, Removed, UsbConnected,
                               UsbDisconnected
  <2> QED BY <1>2, <2>1 DEF Dispatch, MonitorNext
<1>3. CASE MonitorStep
  BY <1>3 DEF MonitorStep, MonitorNext
<1>4. ASSUME NEW d \in Devices, PlugStep(d) PROVE MonitorNext
  BY <1>4 DEF PlugStep, MonitorNext
<1>5. CASE UsbConfigured \/ ShellTree \/ ShellTreeDone
  BY <1>5 DEF UsbConfigured, ShellTree, ShellTreeDone
<1>6. CASE ShellExit
  BY <1>6 DEF ShellExit, HeardInv, monitorVars
<1>7. CASE UNCHANGED vars
  BY <1>7 DEF vars
<1> QED BY <1>1, <1>2, <1>3, <1>4, <1>5, <1>6, <1>7 DEF Next

-----------------------------------------------------------------------------
(* In every environment.                                                   *)

LEMMA AnyInitInv == Init => AnyInv
<1> SUFFICES ASSUME Init PROVE AnyInv
  OBVIOUS
<1>1. MonitorInv
  BY MonitorInitInv DEF Init
<1>2. TypeOK
  BY <1>1 DEF Init, TypeOK, MonitorInv, ManagerPc
<1>3. HeardInv /\ OneShell
  BY DEF Init, MonitorInit, HeardInv, TerminationUnheard, OneShell
<1>4. CardInv
  BY DEF Init, MonitorInit, CardInv, NoNewCard, Mounting
<1> QED BY <1>1, <1>2, <1>3, <1>4 DEF AnyInv

\* Types, beside the monitor's.
LEMMA TypeKept ==
  ASSUME AnyInv, MonitorTypeOK', [Next]_vars
  PROVE  TypeOK'
<1> USE DEF AnyInv, TypeOK, ManagerPc, cardVars, usbVars, shellVars
<1>1. CASE ManagerStep
  BY <1>1 DEF ManagerStep, InitDrivers, InitDone, MountStart, MountConnect,
              MountFs, MountAbort, UnmountStart, UnmountStop, UnmountEnd,
              ShellStart, ShellCreate, ShellStop
<1>2. ASSUME NEW e \in Inserted .. ShellTerminated, Dispatch(e) PROVE TypeOK'
  BY <1>2, DispatchFacts DEF HeardInv
<1>3. CASE MonitorStep \/ \E d \in Devices : PlugStep(d)
  BY <1>3 DEF MonitorStep, PlugStep
<1>4. CASE UsbConfigured \/ ShellTree \/ ShellTreeDone \/ ShellExit
  BY <1>4 DEF UsbConfigured, ShellTree, ShellTreeDone, ShellExit
<1>5. CASE UNCHANGED vars
  BY <1>5 DEF vars
<1> QED BY <1>1, <1>2, <1>3, <1>4, <1>5 DEF Next

\* shellInit drops the listener before a shell exists.
LEMMA HeardKept ==
  ASSUME AnyInv, [Next]_vars
  PROVE  HeardInv'
<1> USE DEF AnyInv, HeardInv, TerminationUnheard, cardVars, usbVars, shellVars,
            monitorVars
<1>1. CASE ManagerStep
  BY <1>1 DEF ManagerStep, InitDrivers, InitDone, MountStart, MountConnect,
              MountFs, MountAbort, UnmountStart, UnmountStop, UnmountEnd,
              ShellStart, ShellCreate, ShellStop
<1>2. ASSUME NEW e \in Inserted .. ShellTerminated, Dispatch(e)
      PROVE  HeardInv'
  BY <1>2, DispatchFacts
<1>3. CASE MonitorStep
  BY <1>3, ReportFacts DEF MonitorStep, Tick, Fetch
<1>4. ASSUME NEW d \in Devices, PlugStep(d) PROVE HeardInv'
  BY <1>4 DEF PlugStep, ChangeLine
<1>5. CASE UsbConfigured \/ ShellTree \/ ShellTreeDone \/ ShellExit
  BY <1>5 DEF UsbConfigured, ShellTree, ShellTreeDone, ShellExit
<1>6. CASE UNCHANGED vars
  BY <1>6 DEF vars
<1> QED BY <1>1, <1>2, <1>3, <1>4, <1>5, <1>6 DEF Next

\* shelltp knows of every shell that was not waited for.
LEMMA OneShellKept ==
  ASSUME AnyInv, [Next]_vars
  PROVE  OneShell'
<1> USE DEF AnyInv, OneShell, TypeOK, shellVars
<1>1. CASE ManagerStep
  <2>1. CASE ShellStop
    <3>1. /\ shelltp' <=> shelltp /\ shell # "terminated"
          /\ shell' = "none" <=> shell = "terminated" \/ shell = "none"
      BY <2>1 DEF ShellStop
    <3> QED BY <3>1
  <2>2. CASE ShellCreate
    BY <2>2 DEF ShellCreate
  <2>3. CASE ~ShellStop /\ ~ShellCreate
    BY <1>1, <2>3 DEF ManagerStep, InitDrivers, InitDone, MountStart,
              MountConnect, MountFs, MountAbort, UnmountStart, UnmountStop,
              UnmountEnd, ShellStart
  <2> QED BY <2>1, <2>2, <2>3
<1>2. CASE \E e \in Inserted .. ShellTerminated : Dispatch(e)
  BY <1>2 DEF Dispatch
<1>3. CASE MonitorStep \/ \E d \in Devices : PlugStep(d)
  BY <1>3 DEF MonitorStep, PlugStep
<1>4. CASE UsbConfigured \/ ShellTree \/ ShellTreeDone \/ ShellExit
  BY <1>4 DEF UsbConfigured, ShellTree, ShellTreeDone, ShellExit
<1>5. CASE UNCHANGED vars
  BY <1>5 DEF vars
<1> QED BY <1>1, <1>2, <1>3, <1>4, <1>5 DEF Next

\* The card: a step of its own handlers, a report, or the manager's choice.
LEMMA CardKept ==
  ASSUME AnyInv, [Next]_vars
  PROVE  CardInv'
<1> USE DEF CardInv, NoNewCard, Mounting, Unmounting
<1>0. CardInv /\ TypeOK /\ TerminationUnheard
      /\ counter["sdcard"] \in 0 .. Debounce /\ line["sdcard"] \in BOOLEAN
  BY DEF AnyInv, HeardInv, MonitorInv, MonitorTypeOK, Devices
<1>1. CASE ManagerStep
  <2>1. UNCHANGED <<pending, counter>>
    BY <1>1 DEF ManagerStep, InitDrivers, InitDone, MountStart, MountConnect,
                MountFs, MountAbort, UnmountStart, UnmountStop, UnmountEnd,
                ShellStart, ShellCreate, ShellStop, monitorVars
  <2>2. CASE MountStart \/ MountConnect \/ MountFs \/ MountAbort
    BY <1>0, <2>1, <2>2 DEF MountStart, MountConnect, MountFs, MountAbort
  <2>3. CASE UnmountStart \/ UnmountStop \/ UnmountEnd
    BY <1>0, <2>1, <2>3 DEF UnmountStart, UnmountStop, UnmountEnd, TypeOK
  <2>4. CASE InitDrivers \/ InitDone \/ ShellStart \/ ShellCreate \/ ShellStop
    BY <1>0, <2>1, <2>4 DEF InitDrivers, InitDone, ShellStart, ShellCreate,
                            ShellStop, cardVars
  <2> QED BY <1>1, <2>2, <2>3, <2>4 DEF ManagerStep
<1>2. ASSUME NEW e \in Inserted .. ShellTerminated, Dispatch(e)
      PROVE  CardInv'
  BY <1>0, <1>2, DispatchFacts
  DEF cardVars, Inserted, Removed, UsbConnected, UsbDisconnected
<1>3. CASE TimerEvent /\ UNCHANGED <<mpc, cardVars>>
  <2>1. counter'["sdcard"] = NextCounter("sdcard")
    BY <1>0, <1>3, ReportFacts DEF Devices
  <2> QED BY <1>0, <1>3, <2>1, ReportFacts, DebounceAssumption
          DEF Rises, Falls, NextCounter, cardVars
<1>4. CASE UNCHANGED <<mpc, cardVars, pending, counter>>
  BY <1>0, <1>4 DEF cardVars
<1>5. CASE MonitorStep
  BY <1>3, <1>4, <1>5 DEF MonitorStep, Tick, Fetch
<1>6. ASSUME NEW d \in Devices, PlugStep(d) PROVE CardInv'
  BY <1>4, <1>6 DEF PlugStep, ChangeLine
<1>7. CASE UsbConfigured \/ ShellTree \/ ShellTreeDone \/ ShellExit
  BY <1>4, <1>7 DEF UsbConfigured, ShellTree, ShellTreeDone, ShellExit,
                    monitorVars, AnyInv, HeardInv
<1>8. CASE UNCHANGED vars
  BY <1>4, <1>8 DEF vars, monitorVars
<1> QED BY <1>1, <1>2, <1>5, <1>6, <1>7, <1>8 DEF Next

\* The invariant of every environment.
LEMMA AnyInductive == Spec => []AnyInv
<1>1. AnyInv /\ [Next]_vars => AnyInv'
  <2> SUFFICES ASSUME AnyInv, [Next]_vars PROVE AnyInv'
    OBVIOUS
  <2>1. MonitorInv'
    BY MonitorUsed, MonitorStepInv DEF AnyInv
  <2>2. TypeOK'
    BY <2>1, TypeKept DEF MonitorInv
  <2> QED BY <2>1, <2>2, HeardKept, OneShellKept, CardKept DEF AnyInv
<1> QED BY <1>1, AnyInitInv, PTL DEF Spec

\* The manager's state is type correct.
THEOREM PeripheralTypes == Spec => []TypeOK
BY AnyInductive, PTL DEF AnyInv

\* An insertion that is handled while the file system is still mounted has
\* overtaken a removal, which is still pending: in every environment.
THEOREM OvertakingPending == Spec => []InsertionOvertakesRemoval
<1>1. AnyInv => InsertionOvertakesRemoval
  BY DEF AnyInv, CardInv, InsertionOvertakesRemoval, Mounting
<1> QED BY <1>1, AnyInductive, PTL

\* debugShellStart never creates a second shell thread, however fast USB
\* comes and goes and whenever the shell ends.
THEOREM OneShellSafe == Spec => []OneShell
BY AnyInductive, PTL DEF AnyInv

\* The event of a terminated shell never becomes pending, so its handler is
\* dead code.
THEOREM UnheardSafe == Spec => []TerminationUnheard
BY AnyInductive, PTL DEF AnyInv, HeardInv

\* The manager uses the board monitor as MonitorSpec allows: what is proved of
\* the monitor holds while the manager runs.
THEOREM MonitorComposed == Spec => MonitorSpec
<1>1. Init => MonitorInit
  BY DEF Init
<1>2. AnyInv /\ [Next]_vars => [MonitorNext]_monitorVars
  BY MonitorUsed DEF AnyInv
<1> QED BY <1>1, <1>2, AnyInductive, PTL DEF Spec, MonitorSpec

-----------------------------------------------------------------------------
(* A manager that keeps up, and good cards.                                *)

LEMMA PromptInitInv == Init => PromptInv
<1> SUFFICES ASSUME Init PROVE PromptInv
  OBVIOUS
<1>1. counter["sdcard"] # 0 /\ counter["usb"] # 0
  BY DebounceAssumption DEF Init, MonitorInit, Devices
<1>2. CardPrompt
  BY <1>1 DEF Init, MonitorInit, CardPrompt, Mounting, Unmounting
<1>3. UsbPrompt
  BY <1>1 DEF Init, MonitorInit, UsbPrompt
<1> QED BY <1>2, <1>3, AnyInitInv DEF PromptInv, Init

\* What is known before a step.
LEMMA PromptFacts ==
  ASSUME PromptInv
  PROVE  /\ TypeOK /\ TerminationUnheard /\ ~(mpc # "init" /\ listening)
         /\ \A d \in Devices : counter[d] \in 0 .. Debounce /\ line[d] \in BOOLEAN
BY DEF PromptInv, AnyInv, HeardInv, MonitorInv, MonitorTypeOK

\* The lines change only when there is nothing to handle.
LEMMA PlugFacts ==
  ASSUME Prompt, NEW d \in Devices, PlugStep(d)
  PROVE  /\ mpc = "idle" /\ pending = {}
         /\ UNCHANGED <<pending, counter, mpc, cardVars, usbVars>>
BY DEF PlugStep, ChangeLine, CaughtUp

\* The steps of the handlers touch neither lines nor counters nor events.
LEMMA HandlerFacts ==
  ASSUME ManagerStep
  PROVE  UNCHANGED <<line, pending, counter>>
BY DEF ManagerStep, InitDrivers, InitDone, MountStart, MountConnect,
       MountFs, MountAbort, UnmountStart, UnmountStop, UnmountEnd,
       ShellStart, ShellCreate, ShellStop, monitorVars

\* A shell that ends, without a listener, changes nothing the manager sees.
LEMMA ShellFacts ==
  ASSUME PromptInv, UsbConfigured \/ ShellTree \/ ShellTreeDone \/ ShellExit
  PROVE  UNCHANGED <<line, pending, counter, mpc, cardVars, sdu>>
<1>1. CASE ShellExit
  <2>1. ~listening
    BY <1>1 DEF ShellExit, PromptInv, AnyInv, HeardInv
  <2> QED BY <1>1, <2>1 DEF ShellExit, usbVars
<1>2. CASE UsbConfigured \/ ShellTree \/ ShellTreeDone
  BY <1>2 DEF UsbConfigured, ShellTree, ShellTreeDone, monitorVars, usbVars
<1> QED BY <1>1, <1>2

LEMMA CardPromptKept ==
  ASSUME Prompt, CardOK, PromptInv, [Next]_vars
  PROVE  CardPrompt'
<1> USE DEF CardPrompt, CardComes, CardGoes, CardEvents, Mounting, Unmounting
<1>0. /\ CardPrompt /\ TypeOK /\ TerminationUnheard
      /\ counter["sdcard"] \in 0 .. Debounce /\ line["sdcard"] \in BOOLEAN
  BY PromptFacts DEF PromptInv, Devices
<1>1. CASE ManagerStep
  <2>1. UNCHANGED <<line, pending, counter>>
    BY <1>1, HandlerFacts
  <2>2. CASE MountStart \/ MountConnect \/ MountFs \/ MountAbort
    BY <1>0, <2>1, <2>2 DEF MountStart, MountConnect, MountFs, MountAbort
  <2>3. CASE UnmountStart \/ UnmountStop \/ UnmountEnd
    BY <1>0, <2>1, <2>3 DEF UnmountStart, UnmountStop, UnmountEnd, TypeOK
  <2>4. CASE InitDrivers \/ InitDone \/ ShellStart \/ ShellCreate \/ ShellStop
    BY <1>0, <2>1, <2>4 DEF InitDrivers, InitDone, ShellStart, ShellCreate,
                            ShellStop, cardVars
  <2> QED BY <1>1, <2>2, <2>3, <2>4 DEF ManagerStep
<1>2. ASSUME NEW e \in Inserted .. ShellTerminated, Dispatch(e)
      PROVE  CardPrompt'
  BY <1>0, <1>2, DispatchFacts
  DEF cardVars, Inserted, Removed, UsbConnected, UsbDisconnected
<1>3. CASE TimerEvent /\ UNCHANGED <<mpc, cardVars>>
  <2>1. counter'["sdcard"] = NextCounter("sdcard")
    BY <1>0, <1>3, ReportFacts DEF Devices
  <2> QED BY <1>0, <1>3, <2>1, ReportFacts, DebounceAssumption
          DEF Rises, Falls, NextCounter, cardVars
<1>4. CASE UNCHANGED <<line, pending, counter, mpc, cardVars>>
  BY <1>0, <1>4 DEF cardVars
<1>5. CASE MonitorStep
  BY <1>3, <1>4, <1>5 DEF MonitorStep, Tick, Fetch
<1>6. ASSUME NEW d \in Devices, PlugStep(d) PROVE CardPrompt'
  BY <1>0, <1>6, PlugFacts DEF cardVars
<1>7. CASE UsbConfigured \/ ShellTree \/ ShellTreeDone \/ ShellExit
  BY <1>4, <1>7, ShellFacts
<1>8. CASE UNCHANGED vars
  BY <1>4, <1>8 DEF vars, monitorVars
<1> QED BY <1>1, <1>2, <1>5, <1>6, <1>7, <1>8 DEF Next

LEMMA UsbPromptKept ==
  ASSUME Prompt, CardOK, PromptInv, [Next]_vars
  PROVE  UsbPrompt'
<1> USE DEF UsbPrompt, UsbEvents
<1>0. /\ UsbPrompt /\ TypeOK /\ TerminationUnheard
      /\ counter["usb"] \in 0 .. Debounce /\ line["usb"] \in BOOLEAN
  BY PromptFacts DEF PromptInv, Devices
<1>1. CASE ManagerStep
  <2>1. UNCHANGED <<line, pending, counter>>
    BY <1>1, HandlerFacts
  <2>2. CASE InitDrivers \/ InitDone \/ MountStart \/ MountConnect \/ MountFs
             \/ MountAbort \/ UnmountStart \/ UnmountStop \/ UnmountEnd
    BY <1>0, <2>1, <2>2
    DEF InitDrivers, InitDone, MountStart, MountConnect, MountFs, MountAbort,
        UnmountStart, UnmountStop, UnmountEnd, usbVars
  <2>3. CASE ShellStart \/ ShellCreate
    BY <1>0, <2>1, <2>3 DEF ShellStart, ShellCreate, usbVars
  <2>4. CASE ShellStop
    BY <1>0, <2>1, <2>4 DEF ShellStop
  <2> QED BY <1>1, <2>2, <2>3, <2>4 DEF ManagerStep
<1>2. ASSUME NEW e \in Inserted .. ShellTerminated, Dispatch(e)
      PROVE  UsbPrompt'
  BY <1>0, <1>2, DispatchFacts
  DEF usbVars, Inserted, Removed, UsbConnected, UsbDisconnected
<1>3. CASE TimerEvent /\ UNCHANGED <<mpc, usbVars>>
  <2>1. counter'["usb"] = NextCounter("usb")
    BY <1>0, <1>3, ReportFacts DEF Devices
  <2>2. /\ UsbConnected \in pending' <=> UsbConnected \in pending \/ Rises("usb")
        /\ UsbDisconnected \in pending' <=>
             UsbDisconnected \in pending \/ Falls("usb")
        /\ UNCHANGED <<line, mpc, sdu>>
        /\ sdu \in {"STOP", "READY"}
    BY <1>0, <1>3, ReportFacts DEF usbVars, TypeOK
  <2>3. CASE Rises("usb")
    BY <1>0, <2>1, <2>2, <2>3 DEF Rises, Falls, NextCounter
  <2>4. CASE Falls("usb")
    BY <1>0, <2>1, <2>2, <2>4, DebounceAssumption DEF Rises, Falls, NextCounter
  <2>5. CASE ~Rises("usb") /\ ~Falls("usb")
    <3>1. counter'["usb"] = 0 <=> counter["usb"] = 0
      BY <1>0, <2>1, <2>5, DebounceAssumption DEF Rises, Falls, NextCounter
    <3> QED BY <1>0, <2>2, <2>5, <3>1
  <2> QED BY <2>3, <2>4, <2>5
<1>4. CASE UNCHANGED <<line, pending, counter, mpc, sdu>>
  BY <1>0, <1>4
<1>5. CASE MonitorStep
  BY <1>3, <1>4, <1>5 DEF MonitorStep, Tick, Fetch, usbVars
<1>6. ASSUME NEW d \in Devices, PlugStep(d) PROVE UsbPrompt'
  BY <1>0, <1>6, PlugFacts DEF usbVars
<1>7. CASE UsbConfigured \/ ShellTree \/ ShellTreeDone \/ ShellExit
  BY <1>4, <1>7, ShellFacts
<1>8. CASE UNCHANGED vars
  BY <1>4, <1>8 DEF vars, monitorVars, usbVars
<1> QED BY <1>1, <1>2, <1>5, <1>6, <1>7, <1>8 DEF Next

\* No driver is stopped twice.
LEMMA NoFault ==
  ASSUME Prompt, CardOK, PromptInv, [Next]_vars
  PROVE  mpc' # "fault"
<1>1. CASE ManagerStep
  BY <1>1 DEF ManagerStep, InitDrivers, InitDone, MountStart, MountConnect,
              MountFs, MountAbort, UnmountStart, UnmountStop, UnmountEnd,
              ShellStart, ShellCreate, ShellStop, PromptInv, CardPrompt,
              UsbPrompt, Unmounting
<1>2. ASSUME NEW e \in Inserted .. ShellTerminated, Dispatch(e)
      PROVE  mpc' # "fault"
  BY <1>2, DispatchFacts, PromptFacts
<1>3. CASE ~ManagerStep /\ ~\E e \in Inserted .. ShellTerminated : Dispatch(e)
  BY <1>3 DEF Next, MonitorStep, PlugStep, UsbConfigured, ShellTree,
              ShellTreeDone, ShellExit, PromptInv, vars
<1> QED BY <1>1, <1>2, <1>3

LEMMA PromptInductive ==
  ASSUME Prompt, CardOK
  PROVE  Spec => []PromptInv
<1>1. PromptInv /\ AnyInv' /\ [Next]_vars => PromptInv'
  BY CardPromptKept, UsbPromptKept, NoFault DEF PromptInv
<1> QED BY <1>1, PromptInitInv, AnyInductive, PTL DEF Spec

\* Where the manager keeps up and cards are good, the file system and SDU1
\* follow the debounced lines.
THEOREM FollowSafe ==
  ASSUME Prompt, CardOK
  PROVE  Spec => []PeripheralsFollow
<1>1. PromptInv => PeripheralsFollow
  BY DEF PromptInv, CardPrompt, UsbPrompt, PeripheralsFollow, CaughtUp,
         CardEvents, UsbEvents, Mounting, Unmounting
<1> QED BY <1>1, PromptInductive, PTL

\* ... no driver is stopped twice ...
THEOREM StopSafe ==
  ASSUME Prompt, CardOK
  PROVE  Spec => []NoStopWhenStopped
<1>1. PromptInv => NoStopWhenStopped
  BY DEF PromptInv, CardPrompt, UsbPrompt, NoStopWhenStopped, Unmounting
<1> QED BY <1>1, PromptInductive, PTL

\* ... and the assertions of mmcStart and mmcDisconnect hold, which they do
\* not in every environment.
THEOREM AssertionsHold ==
  ASSUME Prompt, CardOK
  PROVE  Spec => [](MmcStartAllowed /\ MmcDisconnectAllowed)
<1>1. PromptInv => MmcStartAllowed /\ MmcDisconnectAllowed
  BY DEF PromptInv, CardPrompt, MmcStartAllowed, MmcDisconnectAllowed,
         Mounting, Unmounting
<1> QED BY <1>1, PromptInductive, PTL
=============================================================================
