---------------------------- MODULE BoardMonitor ----------------------------
(***************************************************************************)
(* BoardMonitorThread.c and BoardEvents.c: a timer wakes the board thread  *)
(* every 10 ms; the thread samples the card-detect and the USB lines,      *)
(* debounces them and tells the rest of the firmware: it broadcasts an     *)
(* event, which sets a bit in the pending events of the peripheral manager *)
(* thread, and for USB it also posts an ignition event to the mailbox of   *)
(* the system thread, which is lost when the mailbox is full.              *)
(*                                                                         *)
(* The consumers are abstract here: TakeEvent is the manager's             *)
(* chEvtWaitOne, Fetch the system thread's chMBFetchTimeout.               *)
(***************************************************************************)
EXTENDS Integers, Sequences

CONSTANTS
  Debounce,   \* DEBOUNCE_COUNTER_START
  MboxSize    \* entries of systemMailbox

ASSUME DebounceAssumption == Debounce \in Nat \ {0}
ASSUME MboxAssumption == MboxSize \in Nat \ {0}

VARIABLES
  line,      \* the two input lines, TRUE is PAL_HIGH
  counter,   \* the static counter of checkSdcard and of checkUsb
  tick,      \* monitorTimerEvent is pending for the board thread
  pending,   \* pending events of the peripheral manager thread
  mailbox,   \* systemMailbox
  highs,     \* history: high samples in a row, capped at Debounce
  lost       \* history: chMBPostI has found the mailbox full

monitorVars == <<line, counter, tick, pending, mailbox, highs, lost>>

Devices == {"sdcard", "usb"}

\* The event numbers under which the manager registers for each source.
Inserted == 0
Removed == 1
UsbConnected == 2
UsbDisconnected == 3
ShellTerminated == 4
UpEvent   == [sdcard |-> Inserted, usb |-> UsbConnected]
DownEvent == [sdcard |-> Removed, usb |-> UsbDisconnected]

-----------------------------------------------------------------------------
\* checkSdcard and checkUsb: Debounce high samples in a row report a device,
\* a single low sample withdraws it.
Rises(d) == counter[d] = 1 /\ line[d]
Falls(d) == counter[d] = 0 /\ ~line[d]

\* Faulty variant: a low sample does not restart the count.
NextCounterNoRestart(d) ==
  IF line[d] THEN IF counter[d] > 0 THEN counter[d] - 1 ELSE 0
             ELSE IF counter[d] > 0 THEN counter[d] ELSE Debounce

\* Faulty variant: the counter is not restarted when a device goes away.
NextCounterStuck(d) ==
  IF line[d] THEN IF counter[d] > 0 THEN counter[d] - 1 ELSE 0
             ELSE IF counter[d] > 0 THEN Debounce ELSE 0

\* Faulty variant: a reported device is counted down once more.
NextCounterWraps(d) ==
  IF line[d] THEN (counter[d] - 1) % 256 ELSE Debounce

\* Faulty variant: the count never ends.
NextCounterFrozen(d) ==
  IF line[d] THEN counter[d] ELSE Debounce

NextCounter(d) ==
  IF line[d] THEN IF counter[d] > 0 THEN counter[d] - 1 ELSE 0
             ELSE Debounce

Broadcasts ==
  {UpEvent[d] : d \in {x \in Devices : Rises(x)}} \cup
  {DownEvent[d] : d \in {x \in Devices : Falls(x)}}

\* chMBPostI(&systemMailbox, msg): no room, no message.
Post(msg) ==
  IF Len(mailbox) < MboxSize
  THEN mailbox' = Append(mailbox, msg) /\ UNCHANGED lost
  ELSE lost' = TRUE /\ UNCHANGED mailbox

\* timerEventHandler: both checks, in one go of the board thread.
TimerEvent ==
  /\ tick
  /\ tick' = FALSE
  /\ counter' = [d \in Devices |-> NextCounter(d)]
  /\ highs' = [d \in Devices |-> IF ~line[d] THEN 0
                                 ELSE IF highs[d] < Debounce THEN highs[d] + 1
                                 ELSE Debounce]
  /\ pending' = pending \cup Broadcasts
  /\ \/ Rises("usb") /\ Post("IGNITION_ON")
     \/ Falls("usb") /\ Post("IGNITION_OFF")
     \/ ~Rises("usb") /\ ~Falls("usb") /\ UNCHANGED <<mailbox, lost>>
  /\ UNCHANGED line

\* monitorTimerCallback: ticks that the thread has not seen yet merge.
Tick ==
  /\ tick' = TRUE
  /\ UNCHANGED <<line, counter, pending, mailbox, highs, lost>>

\* A card or a cable is plugged or unplugged, or a contact bounces.
ChangeLine(d) ==
  /\ line' = [line EXCEPT ![d] = ~line[d]]
  /\ UNCHANGED <<counter, tick, pending, mailbox, highs, lost>>

\* chEvtWaitOne(ALL_EVENTS): the pending event with the lowest number.
TakeEvent(e) ==
  /\ e \in pending /\ \A f \in pending : e =< f
  /\ pending' = pending \ {e}
  /\ UNCHANGED <<line, counter, tick, mailbox, highs, lost>>

\* chMBFetchTimeout(&systemMailbox, ...).
Fetch ==
  /\ mailbox # <<>>
  /\ mailbox' = Tail(mailbox)
  /\ UNCHANGED <<line, counter, tick, pending, highs, lost>>

\* Faulty variant: the static counters have no initial value.
MonitorInitZero ==
  /\ line \in [Devices -> BOOLEAN]
  /\ counter = [d \in Devices |-> 0]
  /\ tick = FALSE
  /\ pending = {} /\ mailbox = <<>>
  /\ highs = [d \in Devices |-> 0] /\ lost = FALSE

\* BoardMonitorThreadInit, SystemThreadInit.
MonitorInit ==
  /\ line \in [Devices -> BOOLEAN]
  /\ counter = [d \in Devices |-> Debounce]
  /\ tick = FALSE
  /\ pending = {} /\ mailbox = <<>>
  /\ highs = [d \in Devices |-> 0] /\ lost = FALSE

MonitorNext ==
  \/ TimerEvent
  \/ Tick
  \/ \E d \in Devices : ChangeLine(d)
  \/ \E e \in Inserted .. UsbDisconnected : TakeEvent(e)
  \/ Fetch

MonitorSpec == MonitorInit /\ [][MonitorNext]_monitorVars

\* The timer and the board thread run; the consumers may be busy for ever.
MonitorFairSpec ==
  MonitorSpec /\ WF_monitorVars(Tick) /\ WF_monitorVars(TimerEvent)

-----------------------------------------------------------------------------
\* Type correctness of the monitor's state.
MonitorTypeOK ==
  /\ line \in [Devices -> BOOLEAN]
  /\ counter \in [Devices -> 0 .. Debounce]
  /\ tick \in BOOLEAN
  /\ pending \subseteq (Inserted .. ShellTerminated)
  /\ mailbox \in Seq({"IGNITION_ON", "IGNITION_OFF"})
  /\ Len(mailbox) =< MboxSize
  /\ highs \in [Devices -> 0 .. Debounce]
  /\ lost \in BOOLEAN

\* A device is reported only after Debounce high samples in a row, however
\* its contact bounced before: the counter has counted exactly the high
\* samples since the last low one (BoardMonitorThread.c:48-66, :76-96).
Debounced ==
  \A d \in Devices : highs[d] = Debounce - counter[d]

\* The system thread sees ignition on and off in turn: two equal messages
\* are neighbours in the mailbox only after a post was lost to a full mailbox
\* (BoardMonitorThread.c:81, :93, whose result is ignored).
IgnitionAlternates ==
  \A i \in 1 .. Len(mailbox) - 1 : mailbox[i] = mailbox[i + 1] => lost

\* A line that stays high is reported for good, one that stays low is
\* withdrawn for good: no sample is missed for ever although ticks merge.
LineReported ==
  \A d \in Devices :
    /\ <>[]line[d] => <>[](counter[d] = 0)
    /\ <>[](~line[d]) => <>[](counter[d] = Debounce)
=============================================================================
