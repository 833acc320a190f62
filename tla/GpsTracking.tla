---------------------------- MODULE GpsTracking -----------------------------
(***************************************************************************)
(* SystemThread.c, GpsReaderThread.c and Dashboard.c: the system thread    *)
(* takes ignition messages from its mailbox (filled by BoardMonitor),      *)
(* switches the modem and its GNSS receiver on through the modem driver    *)
(* (ModemService, which Sim8xx implements) and starts the GPS thread,      *)
(* which asks for a position whenever its timer fires and stores it in the *)
(* dashboard.  The two threads share the static "cmd" and "error" of       *)
(* GpsReaderThread.c.                                                      *)
(*                                                                         *)
(* A request and a response are the command they belong to; whether a      *)
(* response parses is a choice (module AtText has the parser).             *)
(***************************************************************************)
EXTENDS BoardMonitor, ModemService

CONSTANT MaxSem   \* bound: tokens of gpsSem

ASSUME MaxSemAssumption == MaxSem \in Nat \ {0}
ASSUME ThreadsAssumption == Callers = {"system", "gps"}

VARIABLES
  spc,        \* where the system thread is
  evt,        \* the message it handles
  state,      \* its state
  gpsTimer,   \* gpsTimer is armed
  gpsSem,     \* gpsSem
  cmd,        \* cmd: request, the request that was sent, that of the response
  error,      \* error
  gpc,        \* where the GPS thread is
  data,       \* its parsed response
  position    \* the dashboard's position

systemVars == <<spc, evt, state>>
timerVars  == <<gpsTimer, gpsSem>>
gpsVars    == <<gpc, data, position>>
vars == <<monitorVars, serviceVars, systemVars, timerVars, cmd, error, gpsVars>>

Requests == {"none", "CGNSPWR", "CGNSINF"}
WantOn == evt = "IGNITION_ON"

-----------------------------------------------------------------------------
(* Calls of the modem driver.                                              *)

\* cmd is handed to sim8xxExecute; sim8xxIsConnected and sim8xxTogglePower
\* do without it.
Executes(c) == c = "gps" \/ spc = "power"

\* sim8xxExecute prints cmd.request once the call's turn has come.
Send(c) ==
  /\ Serve(c)
  /\ cmd' = IF Executes(c) THEN [cmd EXCEPT !.sent = cmd.request] ELSE cmd
  /\ UNCHANGED <<monitorVars, systemVars, timerVars, error, gpsVars>>

\* ... and stores status and response, or SIM8XX_TIMEOUT alone.
Answer(c, st) ==
  /\ c = "system" => spc # "toggle"
  /\ Complete(c, [st |-> st, fresh |-> st # "TIMEOUT"])
  /\ cmd' = IF ~Executes(c) THEN cmd
            ELSE IF st = "TIMEOUT" THEN [cmd EXCEPT !.status = st]
            ELSE [cmd EXCEPT !.status = st, !.reply = cmd.sent]
  /\ UNCHANGED <<monitorVars, systemVars, timerVars, error, gpsVars>>

PressPowerKey ==
  /\ spc = "toggle"
  /\ Toggle("system")
  /\ UNCHANGED <<monitorVars, systemVars, timerVars, cmd, error, gpsVars>>

-----------------------------------------------------------------------------
(* The system thread.                                                      *)

\* A message; only SYSTEM_INIT reacts to one: connectModem comes first when
\* the ignition goes on, GpsReaderStop when it goes off.
SystemFetch ==
  /\ spc = "fetch"
  /\ Fetch
  /\ evt' = Head(mailbox)
  /\ spc' = IF state # "INIT" THEN "fetch"
            ELSE IF evt' = "IGNITION_ON" THEN "connect" ELSE "stop"
  /\ UNCHANGED <<serviceVars, state, timerVars, cmd, error, gpsVars>>

\* The thread calls the driver; gpsPowerOn and gpsPowerOff write the request.
SystemCall ==
  /\ spc \in {"connect", "toggle", "power"}
  /\ Request("system")
  /\ cmd' = IF spc = "power" THEN [cmd EXCEPT !.request = "CGNSPWR"] ELSE cmd
  /\ UNCHANGED <<monitorVars, systemVars, timerVars, error, gpsVars>>

\* Faulty variant: timer and GPS thread are started before the receiver is on.
SystemConnectedEarly ==
  /\ spc = "connect"
  /\ Return("system")
  /\ spc' = IF answer["system"].st = "OK" THEN "power" ELSE "toggle"
  /\ gpsSem' = IF spc' = "power" THEN gpsSem + 1 ELSE gpsSem
  /\ UNCHANGED <<monitorVars, evt, state, gpsTimer, cmd, error, gpsVars>>

\* connectModem and disconnectModem: sim8xxIsConnected returned.
SystemConnected ==
  /\ spc = "connect"
  /\ Return("system")
  /\ spc' = IF (answer["system"].st = "OK") # WantOn THEN "toggle"
            ELSE IF WantOn THEN "power" ELSE "fetch"
  /\ state' = IF spc' = "fetch" THEN "PARKING" ELSE state
  /\ UNCHANGED <<monitorVars, evt, timerVars, cmd, error, gpsVars>>

\* sim8xxTogglePower returned, and the modem is asked again.
SystemToggled ==
  /\ spc = "toggle"
  /\ Return("system")
  /\ spc' = "connect"
  /\ UNCHANGED <<monitorVars, evt, state, timerVars, cmd, error, gpsVars>>

\* After the loop of gpsPowerOn and gpsPowerOff.
PowerLoopLeft == IF WantOn THEN "start" ELSE "connect"

\* Faulty (here: helpful) variant: a receiver that does not come on is
\* reason to connect again.
GpsPoweredReconnecting ==
  /\ spc = "power"
  /\ Return("system")
  /\ spc' = IF cmd.status = "OK" THEN PowerLoopLeft ELSE "connect"
  /\ error' = "NO_ERROR"
  /\ UNCHANGED <<monitorVars, evt, state, timerVars, cmd, gpsVars>>

\* Faulty variant: an error, once set, is not cleared.
GpsPoweredSticky ==
  /\ spc = "power"
  /\ Return("system")
  /\ error' = IF cmd.status = "OK" THEN error ELSE "POWER_ON"
  /\ spc' = IF error' = "NO_ERROR" THEN PowerLoopLeft ELSE "sleep"
  /\ UNCHANGED <<monitorVars, evt, state, timerVars, cmd, gpsVars>>

\* gpsPowerOn, gpsPowerOff: the loop ends, or sleeps for a second first.
GpsPowered ==
  /\ spc = "power"
  /\ Return("system")
  /\ error' = IF cmd.status = "OK" THEN "NO_ERROR"
              ELSE IF WantOn THEN "POWER_ON" ELSE "POWER_OFF"
  /\ spc' = IF cmd.status = "OK" THEN PowerLoopLeft ELSE "sleep"
  /\ UNCHANGED <<monitorVars, evt, state, timerVars, cmd, gpsVars>>

\* Awake again, the loop tests the shared error.
GpsPowerRetry ==
  /\ spc = "sleep"
  /\ spc' = IF error # "NO_ERROR" THEN "power" ELSE PowerLoopLeft
  /\ UNCHANGED <<monitorVars, serviceVars, evt, state, timerVars, cmd, error,
                 gpsVars>>

\* The rest of GpsReaderStart, and its counterpart GpsReaderStop up to
\* gpsPowerOff.
GpsStartStop ==
  /\ spc \in {"start", "stop"}
  /\ gpsTimer' = WantOn
  /\ gpsSem' = IF WantOn THEN gpsSem + 1 ELSE gpsSem
  /\ spc' = IF WantOn THEN "fetch" ELSE "power"
  /\ state' = IF WantOn THEN "RIDING" ELSE state
  /\ UNCHANGED <<monitorVars, serviceVars, evt, cmd, error, gpsVars>>

-----------------------------------------------------------------------------
(* The GPS thread and its timer.                                           *)

\* Faulty variant: the timer is not armed again.
GpsTimerOnce ==
  /\ gpsTimer /\ gpsSem < MaxSem
  /\ gpsTimer' = FALSE
  /\ gpsSem' = gpsSem + 1
  /\ UNCHANGED <<monitorVars, serviceVars, systemVars, cmd, error, gpsVars>>

\* gpsTimerCallback, every 5 s: tokens that nobody has taken add up.
GpsTimer ==
  /\ gpsTimer /\ gpsSem < MaxSem
  /\ gpsSem' = gpsSem + 1
  /\ UNCHANGED <<monitorVars, serviceVars, systemVars, gpsTimer, cmd, error,
                 gpsVars>>

\* Faulty variant: the thread does not wait for a token.
GpsRequestEager ==
  /\ gpc = "wait" /\ state = "RIDING"
  /\ Request("gps")
  /\ gpsSem' = gpsSem - 1
  /\ cmd' = [cmd EXCEPT !.request = "CGNSINF"]
  /\ gpc' = "execute"
  /\ UNCHANGED <<monitorVars, systemVars, gpsTimer, error, data, position>>

\* A token, a fresh command, and sim8xxExecute.
GpsRequest ==
  /\ gpc = "wait" /\ gpsSem > 0
  /\ Request("gps")
  /\ gpsSem' = gpsSem - 1
  /\ cmd' = [cmd EXCEPT !.request = "CGNSINF", !.reply = "none",
                        !.status = "INVALID"]
  /\ gpc' = "execute"
  /\ UNCHANGED <<monitorVars, systemVars, gpsTimer, error, data, position>>

\* sim8xxExecute returned.
GpsReturned ==
  /\ gpc = "execute"
  /\ Return("gps")
  /\ gpc' = IF cmd.status = "OK" THEN "parse" ELSE "wait"
  /\ error' = IF cmd.status = "OK" THEN error ELSE "DATA_UPDATE"
  /\ UNCHANGED <<monitorVars, systemVars, timerVars, cmd, data, position>>

\* Faulty variant: a response that does not parse is no error.
GpsParseQuietly ==
  /\ gpc = "parse"
  /\ \E parsed \in {"whole", "partial"} :
       data' = [text |-> parsed, of |-> cmd.reply]
  /\ error' = "NO_ERROR"
  /\ gpc' = "save"
  /\ UNCHANGED <<monitorVars, serviceVars, systemVars, timerVars, cmd, position>>

\* atCgnsinfParse; what it has not parsed is zero.
GpsParse ==
  /\ gpc = "parse"
  /\ \E parsed \in {"whole", "partial"} :
       /\ data' = [text |-> parsed, of |-> cmd.reply]
       /\ error' = IF parsed = "whole" THEN "NO_ERROR" ELSE "IN_RESPONSE"
  /\ gpc' = "save"
  /\ UNCHANGED <<monitorVars, serviceVars, systemVars, timerVars, cmd, position>>

\* savePosition, under the dashboard's mutex, whether it parsed or not.
GpsSave ==
  /\ gpc = "save"
  /\ position' = data
  /\ gpc' = "wait"
  /\ UNCHANGED <<monitorVars, serviceVars, systemVars, timerVars, cmd, error,
                 data>>

-----------------------------------------------------------------------------
\* SystemThreadInit (with dbInit) and GpsReaderThreadInit.
NoPosition == [text |-> "none", of |-> "none"]
Init ==
  /\ MonitorInit /\ ~line["sdcard"]
  /\ ServiceInit
  /\ spc = "fetch" /\ evt = "none" /\ state = "INIT"
  /\ gpsTimer = FALSE /\ gpsSem = 0
  /\ cmd = [request |-> "none", sent |-> "none", reply |-> "none",
            status |-> "OK"]
  /\ error = "NO_ERROR"
  /\ gpc = "wait" /\ data = NoPosition /\ position = NoPosition

SystemStep ==
  \/ SystemFetch \/ SystemCall \/ SystemConnected \/ SystemToggled
  \/ GpsPowered \/ GpsPowerRetry \/ GpsStartStop

GpsStep == GpsRequest \/ GpsReturned \/ GpsParse \/ GpsSave

\* The driver works on a call.
ServiceStep(c) ==
  \/ Send(c)
  \/ \E st \in {"OK", "ERROR", "TIMEOUT"} : Answer(c, st)
  \/ c = "system" /\ PressPowerKey

ModemLost ==
  /\ PowerOff
  /\ UNCHANGED <<monitorVars, systemVars, timerVars, cmd, error, gpsVars>>

UsbStep ==
  /\ TimerEvent \/ Tick \/ ChangeLine("usb")
  /\ UNCHANGED <<serviceVars, systemVars, timerVars, cmd, error, gpsVars>>

Next ==
  \/ SystemStep \/ GpsStep \/ GpsTimer
  \/ \E c \in Callers : ServiceStep(c)
  \/ ModemLost \/ UsbStep

Spec == Init /\ [][Next]_vars

\* The threads and the timer run, and the driver works on every call, as
\* CallReturns of Sim8xx says; the modem and USB may do anything.
FairSpec ==
  /\ Spec
  /\ WF_vars(SystemStep) /\ WF_vars(GpsStep) /\ WF_vars(GpsTimer)
  /\ \A c \in Callers : WF_vars(ServiceStep(c))

-----------------------------------------------------------------------------
(* Properties.                                                             *)

\* Type correctness of the two threads' state.
TrackingTypeOK ==
  /\ phase \in [Callers -> Phases] /\ answer \in [Callers -> Answers]
  /\ spc \in {"fetch", "connect", "toggle", "power", "sleep", "start", "stop"}
  /\ state \in {"INIT", "RIDING", "PARKING"}
  /\ gpsSem \in 0 .. MaxSem + 1
  /\ cmd \in [request : Requests, sent : Requests, reply : Requests,
              status : Statuses]
  /\ error \in {"NO_ERROR", "POWER_ON", "POWER_OFF", "DATA_UPDATE",
               "IN_RESPONSE"}
  /\ gpc \in {"wait", "execute", "parse", "save"}

\* The system thread and the GPS thread never use the static cmd and error
\* at the same time (GpsReaderThread.c:46-47), although no lock protects
\* them: the GPS thread has no token before gpsPowerOn has returned.
StaticsExclusive == ~(spc \in {"power", "sleep"} /\ gpc # "wait")

\* The first message is never "ignition off": GpsReaderStop and
\* disconnectModem are called in no state, and SYSTEM_PARKING is not reached
\* (SystemThread.c:67-72), whatever USB does while the modem connects.
OnComesFirst == state # "PARKING" /\ spc # "stop"

\* When the GPS thread rests, error tells what the dashboard holds: the
\* parsed response to its own request, or one that did not parse, which is
\* stored all the same (GpsReaderThread.c:207-208).
PositionMatchesError ==
  /\ position.of \in {"none", "CGNSINF"}
  /\ gpc = "wait" /\ state = "RIDING" =>
       /\ error = "NO_ERROR" => position.text # "partial"
       /\ error = "IN_RESPONSE" => position.text = "partial"

\* connectModem is the only place that switches the modem on: a modem that
\* goes off while gpsPowerOn tries (GpsReaderThread.c:67), or later, stays
\* off, and the tracker is without a position from then on.
LostForGood ==
  [](~powered /\ (spc \in {"power", "sleep", "start"} \/ state = "RIDING")
       => [](~powered))

\* A modem that is on for good and stops answering ERROR is found, its
\* receiver is switched on and the GPS thread starts: no order of retries and
\* toggles keeps the system thread in its loops (SystemThread.c:47,
\* GpsReaderThread.c:67) for ever.
RidesInTheEnd ==
  <>[](powered /\ answer["system"].st # "ERROR") =>
    (spc = "connect") ~> (state = "RIDING")

\* Once started the GPS thread asks for a position for ever, whatever became
\* of the modem (GpsReaderThread.c:57-64, :197-213).
PollsForever == [](state = "RIDING" => []<>(gpc = "execute"))
=============================================================================
