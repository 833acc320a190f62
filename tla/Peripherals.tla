---------------------------- MODULE Peripherals -----------------------------
(***************************************************************************)
(* PeripheralManagerThread.c with the two peripherals it manages: the SD   *)
(* card (Sdcard.c, on the MMC driver of ChibiOS) and the debug shell       *)
(* (DebugShell.c, on the USB serial driver and the shell of ChibiOS).      *)
(*                                                                         *)
(* The manager handles one pending event at a time, lowest number first;   *)
(* its handlers sleep or wait for the SPI bus, and meanwhile the board     *)
(* monitor broadcasts further events and the shell thread, which has a     *)
(* higher priority, runs.                                                  *)
(***************************************************************************)
EXTENDS BoardMonitor

CONSTANTS
  Prompt,   \* TRUE: no line changes before the manager has caught up
  CardOK    \* TRUE: an inserted card connects and mounts

ASSUME PromptAssumption == Prompt \in BOOLEAN /\ CardOK \in BOOLEAN

VARIABLES
  mpc,        \* where the manager thread is
  fsReady,    \* Sdcard.c: fsReady
  mmc,        \* MMCD1.state; its config is NULL exactly in BLK_STOP
  sdu,        \* SDU1.state; its config is NULL exactly in SDU_STOP
  suspended,  \* the queues of SDU1 are suspended: not configured yet
  shelltp,    \* DebugShell.c: shelltp is not NULL
  shell,      \* the shell thread
  listening   \* the manager's listener is in the list of shell_terminated

cardVars  == <<fsReady, mmc>>
usbVars   == <<sdu, suspended>>
shellVars == <<shelltp, shell>>
vars == <<monitorVars, mpc, cardVars, usbVars, shellVars, listening>>

ManagerPc ==
  {"init", "settle", "idle", "mount", "connect", "fmount", "abort", "unmount",
   "disconnect", "stop", "shellstart", "enumerate", "shellstop", "terminated",
   "fault"}
Handler == <<"mount", "unmount", "shellstart", "shellstop", "terminated">>

-----------------------------------------------------------------------------
(* The manager thread, started and registered for all five event sources.  *)

\* Faulty variant: shellInit leaves the listeners of shell_terminated alone.
InitDriversKeeping ==
  /\ mpc = "init"
  /\ mpc' = "settle"
  /\ UNCHANGED <<monitorVars, cardVars, usbVars, shellVars, listening>>

\* sdcardInit, then debugShellInit: shellInit initialises shell_terminated
\* and so empties its list of listeners; then a sleep of a second.
InitDrivers ==
  /\ mpc = "init"
  /\ listening' = FALSE
  /\ mpc' = "settle"
  /\ UNCHANGED <<monitorVars, cardVars, usbVars, shellVars>>

InitDone ==
  /\ mpc = "settle"
  /\ mpc' = "idle"
  /\ UNCHANGED <<monitorVars, cardVars, usbVars, shellVars, listening>>

\* chEvtDispatch(eventHandlers, chEvtWaitOne(ALL_EVENTS)).
Dispatch(e) ==
  /\ mpc = "idle"
  /\ TakeEvent(e)
  /\ mpc' = Handler[e + 1]
  /\ UNCHANGED <<cardVars, usbVars, shellVars, listening>>

-----------------------------------------------------------------------------
(* The SD card.                                                            *)

\* sdcardMount: mmcStart, and mmcConnect begins.
MountStart ==
  /\ mpc = "mount"
  /\ mmc' = "CONNECTING"
  /\ mpc' = "connect"
  /\ UNCHANGED <<monitorVars, fsReady, usbVars, shellVars, listening>>

\* mmcConnect ends; when it fails the handler returns.
MountConnect ==
  /\ mpc = "connect"
  /\ \/ /\ line["sdcard"]
        /\ mmc' = "READY" /\ mpc' = "fmount"
     \/ /\ ~(CardOK /\ line["sdcard"])
        /\ mmc' = "ACTIVE" /\ mpc' = "idle"
  /\ UNCHANGED <<monitorVars, fsReady, usbVars, shellVars, listening>>

\* f_mount ends: the file system is ready, or the driver is taken down again.
MountFs ==
  /\ mpc = "fmount"
  /\ \/ /\ line["sdcard"]
        /\ fsReady' = TRUE /\ mpc' = "idle"
        /\ UNCHANGED mmc
     \/ /\ ~(CardOK /\ line["sdcard"])
        /\ mmc' = "DISCONNECTING" /\ mpc' = "abort"
        /\ UNCHANGED fsReady
  /\ UNCHANGED <<monitorVars, usbVars, shellVars, listening>>

\* mmcDisconnect and mmcStop after a failed f_mount.
MountAbort ==
  /\ mpc = "abort"
  /\ mmc' = "STOP" /\ mpc' = "idle"
  /\ UNCHANGED <<monitorVars, fsReady, usbVars, shellVars, listening>>

\* sdcardUnmount, mmcDisconnect: nothing to do when the driver is active.  A
\* driver that is stopped has no configuration: mmcDisconnect dereferences
\* NULL, which may halt the firmware or go unnoticed.
UnmountStart ==
  /\ mpc = "unmount"
  /\ \/ mmc = "ACTIVE" /\ mpc' = "disconnect" /\ UNCHANGED mmc
     \/ mmc # "ACTIVE" /\ mpc' = "disconnect" /\ mmc' = "DISCONNECTING"
     \/ mmc = "STOP" /\ mpc' = "fault" /\ UNCHANGED mmc
  /\ UNCHANGED <<monitorVars, fsReady, usbVars, shellVars, listening>>

\* Faulty variant: fsReady stays set.
UnmountEndReady ==
  /\ mpc = "stop"
  /\ mpc' = "idle"
  /\ UNCHANGED <<monitorVars, cardVars, usbVars, shellVars, listening>>

\* mmcStop.
UnmountStop ==
  /\ mpc = "disconnect"
  /\ mmc' = "STOP" /\ mpc' = "stop"
  /\ UNCHANGED <<monitorVars, fsReady, usbVars, shellVars, listening>>

\* fsReady = FALSE.
UnmountEnd ==
  /\ mpc = "stop"
  /\ fsReady' = FALSE /\ mpc' = "idle"
  /\ UNCHANGED <<monitorVars, mmc, usbVars, shellVars, listening>>

-----------------------------------------------------------------------------
(* The debug shell.                                                        *)

\* debugShellStart: SDU1 and the USB driver start, then a sleep of 500 ms.
ShellStart ==
  /\ mpc = "shellstart"
  /\ sdu' = "READY"
  /\ mpc' = "enumerate"
  /\ UNCHANGED <<monitorVars, cardVars, suspended, shellVars, listening>>

\* The shell thread is created unless shelltp says that there is one.
ShellCreate ==
  /\ mpc = "enumerate"
  /\ shelltp' = TRUE
  /\ shell' = IF shelltp THEN shell ELSE "running"
  /\ mpc' = "idle"
  /\ UNCHANGED <<monitorVars, cardVars, usbVars, listening>>

\* Faulty variant: shelltp is cleared without looking at the thread.
ShellStopForgets ==
  /\ mpc = "shellstop"
  /\ shelltp' = FALSE
  /\ sdu' = "STOP"
  /\ \/ mpc' = "idle"
     \/ sdu = "STOP" /\ mpc' = "fault"
  /\ UNCHANGED <<monitorVars, cardVars, suspended, shell, listening>>

\* debugShellStop: a shell that has terminated is reaped; USB stops, and
\* sduStop wakes a shell that waits for input.  When SDU1 is stopped already,
\* sduStop dereferences NULL, which may halt the firmware or go unnoticed.
ShellStop ==
  /\ mpc = "shellstop"
  /\ shelltp' = (shelltp /\ shell # "terminated")
  /\ shell' = IF shell = "terminated" THEN "none"
              ELSE IF shell = "running" THEN "reset" ELSE shell
  /\ sdu' = "STOP"
  /\ \/ mpc' = "idle"
     \/ sdu = "STOP" /\ mpc' = "fault"
  /\ UNCHANGED <<monitorVars, cardVars, suspended, listening>>

\* The host configures the device: sduConfigureHookI resets the queues.
UsbConfigured ==
  /\ sdu = "READY" /\ line["usb"]
  /\ suspended' = FALSE
  /\ shell' = IF shell = "running" THEN "reset" ELSE shell
  /\ UNCHANGED <<monitorVars, mpc, cardVars, sdu, shelltp, listening>>

\* The "tree" command finds the file system ready and walks it.
ShellTree ==
  /\ shell = "running" /\ sdu = "READY" /\ ~suspended
  /\ fsReady
  /\ shell' = "tree"
  /\ UNCHANGED <<monitorVars, mpc, cardVars, usbVars, shelltp, listening>>

ShellTreeDone ==
  /\ shell = "tree"
  /\ shell' = "running"
  /\ UNCHANGED <<monitorVars, mpc, cardVars, usbVars, shelltp, listening>>

\* shellExit: the input was reset or is suspended, or the user leaves.
ShellExit ==
  /\ shell \in {"running", "reset"}
  /\ shell' = "terminated"
  /\ pending' = IF listening THEN pending \cup {ShellTerminated} ELSE pending
  /\ UNCHANGED <<line, counter, tick, mailbox, highs, lost, mpc, cardVars,
                 usbVars, shelltp, listening>>

-----------------------------------------------------------------------------
CaughtUp == mpc = "idle" /\ pending = {}

Init ==
  /\ MonitorInit
  /\ mpc = "init" /\ listening = TRUE
  /\ fsReady = FALSE /\ mmc = "STOP"
  /\ sdu = "STOP" /\ suspended = TRUE
  /\ shelltp = FALSE /\ shell = "none"

ManagerStep ==
  \/ InitDrivers \/ InitDone
  \/ MountStart \/ MountConnect \/ MountFs \/ MountAbort
  \/ UnmountStart \/ UnmountStop \/ UnmountEnd
  \/ ShellStart \/ ShellCreate \/ ShellStop

MonitorStep ==
  /\ TimerEvent \/ Tick \/ Fetch
  /\ UNCHANGED <<mpc, cardVars, usbVars, shellVars, listening>>

PlugStep(d) ==
  /\ Prompt => CaughtUp
  /\ ChangeLine(d)
  /\ UNCHANGED <<mpc, cardVars, usbVars, shellVars, listening>>

Next ==
  /\ mpc # "fault"
  /\ \/ ManagerStep
     \/ \E e \in Inserted .. ShellTerminated : Dispatch(e)
     \/ MonitorStep
     \/ \E d \in Devices : PlugStep(d)
     \/ UsbConfigured \/ ShellTree \/ ShellTreeDone \/ ShellExit

Spec == Init /\ [][Next]_vars

\* The manager, the board thread and its timer run; the shell, the host and
\* the lines may do anything.
FairSpec ==
  /\ Spec
  /\ WF_vars(ManagerStep)
  /\ WF_vars(\E e \in Inserted .. ShellTerminated : Dispatch(e))
  /\ WF_vars(TimerEvent /\ MonitorStep) /\ WF_vars(Tick /\ MonitorStep)

-----------------------------------------------------------------------------
(* Properties.                                                             *)

\* Type correctness of the manager's state.
TypeOK ==
  /\ MonitorTypeOK
  /\ mpc \in ManagerPc
  /\ mmc \in {"STOP", "ACTIVE", "CONNECTING", "READY", "DISCONNECTING"}
  /\ sdu \in {"STOP", "READY"}
  /\ shell \in {"none", "running", "reset", "tree", "terminated"}
  /\ fsReady \in BOOLEAN /\ suspended \in BOOLEAN
  /\ shelltp \in BOOLEAN /\ listening \in BOOLEAN

\* Where the manager keeps up and cards are good, the peripherals follow the
\* debounced lines: when nothing is left to handle the file system is ready
\* exactly while a card is reported, and SDU1 runs exactly while USB is.
PeripheralsFollow ==
  CaughtUp =>
    /\ fsReady <=> counter["sdcard"] = 0
    /\ sdu = "READY" <=> counter["usb"] = 0

\* In that environment no driver is stopped twice: a stopped driver has no
\* configuration, and mmcDisconnect (Sdcard.c:117) and sduStop
\* (DebugShell.c:83) read it.
NoStopWhenStopped ==
  /\ mpc = "unmount" => mmc # "STOP"
  /\ mpc = "shellstop" => sdu # "STOP"
  /\ mpc # "fault"

\* Events overtake each other, because the lowest number is served first:
\* an insertion that is handled while the file system is still mounted has
\* overtaken a removal, which is still pending and will unmount the new card.
InsertionOvertakesRemoval ==
  mpc \in {"mount", "connect"} /\ fsReady => Removed \in pending

\* debugShellStart never creates a second shell thread: shelltp is set as
\* long as a shell exists that nobody has waited for.
OneShell == shelltp <=> shell # "none"

\* debugShellTerminatedHandler is dead code: its event never becomes pending,
\* because shellInit (DebugShell.c:57) drops the listener registered before.
TerminationUnheard == ShellTerminated \notin pending

\* chevents.c on chEvtRegister: "Once a thread has registered as listener on
\* an event source it will be notified of all events broadcasted there."  The
\* manager registers for shell_terminated (PeripheralManagerThread.c:90).
TerminationHeard == [][ShellExit => ShellTerminated \in pending']_vars

\* The assertion of mmcDisconnect: (state == BLK_ACTIVE) || (state == BLK_READY).
MmcDisconnectAllowed == mpc = "unmount" => mmc \in {"ACTIVE", "READY"}

\* The assertion of mmcStart: (state == BLK_STOP) || (state == BLK_ACTIVE).
MmcStartAllowed == mpc = "mount" => mmc \in {"STOP", "ACTIVE"}

\* A removal is handled in the end: the file system does not stay ready
\* without a card, where the manager keeps up and cards are good.
RemovalHandled == [](Removed \in pending => <>(~fsReady))
=============================================================================
