-------------------------- MODULE GpsTrackingProofs --------------------------
(***************************************************************************)
(* Proofs about GpsTracking, for any debounce time, mailbox size and bound *)
(* on the tokens, and for a modem service that is Reliable or not.         *)
(*                                                                         *)
(* The inductive invariant TrackInv adds to the properties proved: the     *)
(* monitor's invariant, what the system thread has done in each state,     *)
(* which thread has a call at the driver, and whose command cmd holds.     *)
(***************************************************************************)
EXTENDS GpsTracking, BoardMonitorProofs

Positions == [text : {"none", "whole", "partial"}, of : Requests]

\* Types, also of what TrackingTypeOK leaves out.
TrackType ==
  /\ TrackingTypeOK
  /\ powered \in BOOLEAN
  /\ evt \in {"none"} \cup Ignition
  /\ gpsTimer \in BOOLEAN
  /\ data \in Positions /\ position \in Positions

\* Until the first message is fetched it is "ignition on", or none was
\* posted and the debounced line is low.
FirstIsOn ==
  state = "INIT" /\ spc = "fetch" =>
    IF mailbox = <<>> THEN counter["usb"] # 0
                      ELSE mailbox[1] = "IGNITION_ON"

\* The system thread leaves its loop over the mailbox once, for "ignition
\* on"; until it is RIDING the GPS thread has neither token nor timer.
StartInv ==
  /\ state \in {"INIT", "RIDING"}
  /\ spc \in {"fetch", "connect", "toggle", "power", "sleep", "start"}
  /\ spc # "fetch" => state = "INIT" /\ evt = "IGNITION_ON"
  /\ state = "INIT" => /\ gpsSem = 0 /\ ~gpsTimer
                       /\ gpc = "wait" /\ position.text = "none"
  /\ spc = "start" => error = "NO_ERROR"

\* Who has a call at the driver, and what cmd is during the GPS thread's.
CallInv ==
  /\ phase["system"] # "idle" => spc \in {"connect", "toggle", "power"}
  /\ phase["gps"] # "idle" => gpc = "execute"
  /\ gpc = "execute" => cmd.request = "CGNSINF"
  /\ phase["gps"] \in {"serving", "done"} => cmd.sent = "CGNSINF"
  /\ gpc = "execute" /\ cmd.status = "OK" => cmd.reply = "CGNSINF"

\* What the GPS thread has parsed, and what error says of it.
SavedInv ==
  /\ gpc = "parse" => cmd.reply = "CGNSINF"
  /\ gpc = "save" =>
       /\ data.of = "CGNSINF"
       /\ error = "NO_ERROR" => data.text = "whole"
       /\ error = "IN_RESPONSE" => data.text = "partial"

\* What the two threads, their timer and the driver keep.
ThreadInv ==
  /\ TrackType
  /\ StartInv
  /\ CallInv
  /\ SavedInv
  /\ PositionMatchesError

TrackInv ==
  /\ MonitorInv
  /\ FirstIsOn
  /\ ThreadInv

-----------------------------------------------------------------------------
\* The initial state: the mailbox is empty and the GPS thread waits.
LEMMA TrackInitInv == Init => TrackInv
<1> SUFFICES ASSUME Init PROVE TrackInv
  OBVIOUS
<1> USE DebounceAssumption, MaxSemAssumption, ThreadsAssumption
<1>1. MonitorInv
  BY MonitorInitInv DEF Init
<1>2. FirstIsOn
  BY DEF Init, MonitorInit, FirstIsOn, Devices
<1>3. TrackType
  <2>1. phase \in [Callers -> Phases] /\ answer \in [Callers -> Answers]
        /\ powered \in BOOLEAN
    BY DEF Init, ServiceInit, Phases, Answers, Statuses, NoAnswer
  <2>2. gpsSem \in 0 .. MaxSem + 1
    BY DEF Init
  <2>3. cmd \in [request : Requests, sent : Requests, reply : Requests,
                 status : Statuses]
    BY DEF Init, Requests, Statuses
  <2>4. gpsTimer \in BOOLEAN
    BY DEF Init
  <2> QED BY <2>1, <2>2, <2>3, <2>4 DEF Init, TrackType, TrackingTypeOK, NoPosition,
                                  Positions, Requests
<1>4. StartInv /\ CallInv /\ SavedInv /\ PositionMatchesError
  BY DEF Init, ServiceInit, StartInv, CallInv, SavedInv,
         PositionMatchesError, NoPosition
<1> QED BY <1>1, <1>2, <1>3, <1>4 DEF TrackInv, ThreadInv

-----------------------------------------------------------------------------
(* The board monitor takes a step of its own, or none.                     *)

\* Only SystemFetch and UsbStep touch the monitor's state.
LEMMA MonitorSteps ==
  ASSUME [Next]_vars
  PROVE  \/ SystemFetch /\ Fetch
         \/ UsbStep /\ (TimerEvent \/ Tick \/ ChangeLine("usb"))
         \/ UNCHANGED monitorVars
<1>1. CASE SystemStep
  BY <1>1 DEF SystemStep, SystemFetch, SystemCall, SystemConnected,
              SystemToggled, GpsPowered, GpsPowerRetry, GpsStartStop
<1>2. CASE GpsStep \/ GpsTimer
  BY <1>2 DEF GpsStep, GpsTimer, GpsRequest, GpsReturned, GpsParse, GpsSave
<1>3. CASE \E c \in Callers : ServiceStep(c)
  BY <1>3 DEF ServiceStep, Send, Answer, PressPowerKey
<1>4. CASE ModemLost \/ UsbStep
  BY <1>4 DEF ModemLost, UsbStep
<1>5. CASE UNCHANGED vars
  BY <1>5 DEF vars
<1> QED BY <1>1, <1>2, <1>3, <1>4, <1>5 DEF Next

\* So the monitor's own invariant is kept.
LEMMA MonitorKept ==
  ASSUME MonitorInv, [Next]_vars
  PROVE  MonitorInv'
<1>1. [MonitorNext]_monitorVars
  BY MonitorSteps DEF MonitorNext, Devices
<1> QED BY <1>1, MonitorStepInv

\* The first message: a post to an empty mailbox reports a rising line, and
\* later posts leave the first message alone.
LEMMA FirstIsOnKept ==
  ASSUME TrackInv, [Next]_vars
  PROVE  FirstIsOn'
<1> USE DebounceAssumption, MboxAssumption
<1>0. /\ mailbox \in Seq(Ignition)
      /\ counter["usb"] \in 0 .. Debounce /\ line["usb"] \in BOOLEAN
  BY DEF TrackInv, MonitorInv, MonitorTypeOK, Devices, Ignition
<1>1. CASE SystemFetch
  <2>1. spc = "fetch" /\ state' = state
        /\ (state = "INIT" => spc' # "fetch")
    BY <1>1 DEF SystemFetch
  <2> QED BY <2>1 DEF FirstIsOn
<1>2. CASE UsbStep /\ TimerEvent
  <2>1. UNCHANGED <<state, spc>> /\ counter'["usb"] = NextCounter("usb")
    BY <1>2 DEF UsbStep, systemVars, TimerEvent, Devices
  <2> SUFFICES ASSUME state = "INIT", spc = "fetch"
               PROVE  IF mailbox' = <<>> THEN counter'["usb"] # 0
                      ELSE mailbox'[1] = "IGNITION_ON"
    BY <2>1 DEF FirstIsOn
  <2>2. IF mailbox = <<>> THEN counter["usb"] # 0
        ELSE mailbox[1] = "IGNITION_ON"
    BY DEF TrackInv, FirstIsOn
  <2>3. ASSUME NEW x \in Ignition, Post(x),
               mailbox = <<>> => x = "IGNITION_ON"
        PROVE  mailbox' # <<>> /\ mailbox'[1] = "IGNITION_ON"
    BY <2>2, <2>3, <1>0, PostFacts, EmptyFacts DEF Post
  <2>4. CASE Rises("usb") /\ Post("IGNITION_ON")
    BY <2>3, <2>4 DEF Ignition
  <2>5. CASE Falls("usb") /\ Post("IGNITION_OFF")
    BY <2>2, <2>3, <2>5 DEF Ignition, Falls
  <2>6. CASE ~Rises("usb") /\ ~Falls("usb") /\ UNCHANGED <<mailbox, lost>>
    <3>1. counter["usb"] # 0 => counter'["usb"] # 0
      BY <2>1, <2>6, <1>0 DEF Rises, NextCounter
    <3> QED BY <3>1, <2>2, <2>6
  <2> QED BY <2>4, <2>5, <2>6, <1>2 DEF TimerEvent
<1>3. CASE UsbStep /\ (Tick \/ ChangeLine("usb"))
  BY <1>3 DEF UsbStep, systemVars, Tick, ChangeLine, TrackInv, FirstIsOn
<1>4. CASE UNCHANGED monitorVars
  <2>1. state' = "INIT" /\ spc' = "fetch" => state = "INIT" /\ spc = "fetch"
    <3>0. spc # "fetch" => state = "INIT" /\ evt = "IGNITION_ON"
      BY DEF TrackInv, ThreadInv, StartInv
    <3>1. CASE SystemStep
      BY <3>0, <3>1, ThreadsAssumption
      DEF SystemStep, SystemFetch, SystemCall, SystemConnected,
          SystemToggled, GpsPowered, GpsPowerRetry, GpsStartStop, WantOn,
          PowerLoopLeft, systemVars
    <3>2. CASE GpsStep \/ GpsTimer
      BY <3>2 DEF GpsStep, GpsTimer, GpsRequest, GpsReturned, GpsParse,
                  GpsSave, systemVars
    <3>3. CASE \E c \in Callers : ServiceStep(c)
      BY <3>3 DEF ServiceStep, Send, Answer, PressPowerKey, systemVars
    <3>4. CASE ModemLost \/ UsbStep \/ UNCHANGED vars
      BY <3>4 DEF ModemLost, UsbStep, vars, systemVars
    <3> QED BY <3>1, <3>2, <3>3, <3>4 DEF Next
  <2> QED BY <2>1, <1>4 DEF TrackInv, FirstIsOn, monitorVars
<1> QED BY <1>1, <1>2, <1>3, <1>4, MonitorSteps

-----------------------------------------------------------------------------
(* The threads, the timer and the driver.                                  *)

\* Every step keeps ThreadInv.
LEMMA ThreadKept ==
  ASSUME TrackInv, [Next]_vars
  PROVE  ThreadInv'
<1> USE MaxSemAssumption, ThreadsAssumption
    DEF TrackInv, ThreadInv, TrackType, TrackingTypeOK, StartInv, CallInv,
        SavedInv, PositionMatchesError, Positions, Requests, Phases,
        Answers, Statuses, NoAnswer, WantOn, Executes, Ignition,
        monitorVars, serviceVars, systemVars, timerVars, gpsVars
<1>1. CASE SystemFetch
  <2>1. mailbox # <<>> /\ evt' = Head(mailbox)
    BY <1>1 DEF SystemFetch, Fetch
  <2>2. evt' \in Ignition /\ evt' = mailbox[1]
    BY <2>1 DEF MonitorInv, MonitorTypeOK
  <2>3. state = "INIT" => evt' = "IGNITION_ON"
    BY <2>1, <2>2, <1>1 DEF FirstIsOn, SystemFetch
  <2> QED BY <1>1, <2>2, <2>3 DEF SystemFetch
<1>2. CASE SystemCall
  BY <1>2 DEF SystemCall, Request
<1>3. CASE SystemConnected
  BY <1>3 DEF SystemConnected, Return
<1>4. CASE SystemToggled
  BY <1>4 DEF SystemToggled, Return
<1>5. CASE GpsPowered
  BY <1>5 DEF GpsPowered, Return, PowerLoopLeft
<1>6. CASE GpsPowerRetry
  BY <1>6 DEF GpsPowerRetry, PowerLoopLeft
<1>7. CASE GpsStartStop
  BY <1>7 DEF GpsStartStop
<1>8. CASE GpsRequest
  <2>1. gpsSem' \in 0 .. MaxSem + 1 /\ state = "RIDING" /\ gpc = "wait"
    BY <1>8 DEF GpsRequest
  <2>2. /\ phase' = [phase EXCEPT !["gps"] = "waiting"]
        /\ answer' = [answer EXCEPT !["gps"] = NoAnswer]
        /\ cmd'.request = "CGNSINF" /\ cmd'.status = "INVALID"
        /\ cmd' \in [request : Requests, sent : Requests, reply : Requests,
                     status : Statuses]
        /\ gpc' = "execute"
        /\ UNCHANGED <<powered, spc, evt, state, gpsTimer, error, data, position>>
    BY <1>8 DEF GpsRequest, Request
  <2> QED BY <2>1, <2>2
<1>9. CASE GpsReturned
  BY <1>9 DEF GpsReturned, Return
<1>10. CASE GpsParse
  BY <1>10 DEF GpsParse
<1>11. CASE GpsSave
  BY <1>11 DEF GpsSave
<1>12. CASE GpsTimer
  BY <1>12 DEF GpsTimer
<1>13. ASSUME NEW c \in Callers, ServiceStep(c) PROVE ThreadInv'
  <2>1. CASE Send(c)
    BY <1>13, <2>1 DEF Send, Serve
  <2>2. ASSUME NEW st \in {"OK", "ERROR", "TIMEOUT"}, Answer(c, st)
        PROVE  ThreadInv'
    <3>1. [st |-> st, fresh |-> st # "TIMEOUT"] \in Answers
      OBVIOUS
    <3>2. /\ phase[c] = "serving" /\ phase' = [phase EXCEPT ![c] = "done"]
          /\ answer' \in [Callers -> Answers]
      BY <2>2, <3>1 DEF Answer, Complete
    <3>3. /\ cmd' \in [request : Requests, sent : Requests, reply : Requests,
                       status : Statuses]
          /\ cmd'.request = cmd.request /\ cmd'.sent = cmd.sent
          /\ \/ cmd' = cmd
             \/ Executes(c) /\ (cmd'.status = "OK" => cmd'.reply = cmd.sent)
      <4>1. \/ cmd' = cmd
            \/ Executes(c) /\ st = "TIMEOUT" /\ cmd' = [cmd EXCEPT !.status = st]
            \/ Executes(c) /\ cmd' = [cmd EXCEPT !.status = st, !.reply = cmd.sent]
        BY <2>2 DEF Answer
      <4> QED BY <2>2, <4>1
    <3>4. UNCHANGED <<powered, spc, evt, state, gpsTimer, gpsSem, error, gpc,
                      data, position>>
      BY <2>2 DEF Answer, Complete
    <3>5. gpc = "execute" /\ cmd'.status = "OK" => cmd'.reply = "CGNSINF"
      BY <3>2, <3>3
    <3>6. cmd' # cmd => gpc # "parse"
      BY <3>2, <3>3
    <3> QED BY <3>2, <3>3, <3>4, <3>5, <3>6
  <2>3. CASE PressPowerKey
    BY <2>3 DEF PressPowerKey, Toggle
  <2> QED BY <1>13, <2>1, <2>2, <2>3 DEF ServiceStep
<1>14. CASE ModemLost
  <2>1. powered' \in BOOLEAN
    BY <1>14 DEF ModemLost, PowerOff
  <2>2. UNCHANGED <<phase, answer, spc, evt, state, gpsTimer, gpsSem, cmd,
                    error, gpc, data, position>>
    BY <1>14 DEF ModemLost, PowerOff
  <2> QED BY <2>1, <2>2
<1>15. CASE UsbStep
  BY <1>15 DEF UsbStep
<1>16. CASE UNCHANGED vars
  BY <1>16 DEF vars
<1> QED BY <1>1, <1>2, <1>3, <1>4, <1>5, <1>6, <1>7, <1>8, <1>9, <1>10,
           <1>11, <1>12, <1>13, <1>14, <1>15, <1>16
        DEF Next, SystemStep, GpsStep

\* The invariant holds in every reachable state.
LEMMA TrackInductive == Spec => []TrackInv
<1>1. TrackInv /\ [Next]_vars => TrackInv'
  <2> SUFFICES ASSUME TrackInv, [Next]_vars PROVE TrackInv'
    OBVIOUS
  <2>1. MonitorInv'
    BY MonitorKept DEF TrackInv
  <2>2. FirstIsOn'
    BY FirstIsOnKept
  <2>3. ThreadInv'
    BY ThreadKept
  <2> QED BY <2>1, <2>2, <2>3 DEF TrackInv
<1> QED BY <1>1, TrackInitInv, PTL DEF Spec

-----------------------------------------------------------------------------
\* The threads' state is type correct; in particular the tokens of gpsSem
\* never exceed its bound by more than the one GpsReaderStart adds.
THEOREM TrackingTypes == Spec => []TrackingTypeOK
BY TrackInductive, PTL DEF TrackInv, ThreadInv, TrackType

\* The system thread and the GPS thread never use the static cmd and error at
\* the same time, although no lock protects them.
THEOREM StaticsSafe == Spec => []StaticsExclusive
<1>1. TrackInv => StaticsExclusive
  BY DEF TrackInv, ThreadInv, StartInv, StaticsExclusive
<1> QED BY <1>1, TrackInductive, PTL

\* GpsReaderStop and SYSTEM_PARKING are never reached, however USB behaves
\* while the modem connects and however long the mailbox is.
THEOREM OnFirst == Spec => []OnComesFirst
<1>1. TrackInv => OnComesFirst
  BY DEF TrackInv, ThreadInv, StartInv, OnComesFirst
<1> QED BY <1>1, TrackInductive, PTL

\* At rest, error tells what the dashboard's position is, and the position is
\* the response to the GPS thread's own request.
THEOREM PositionSafe == Spec => []PositionMatchesError
BY TrackInductive, PTL DEF TrackInv, ThreadInv

-----------------------------------------------------------------------------
\* The modem is off and connectModem is behind the system thread.
ModemGone == ~powered /\ (spc \in {"power", "sleep", "start"} \/ state = "RIDING")

\* Only connectModem toggles the power, and the thread does not go back to it.
LEMMA GoneStays ==
  ASSUME TrackInv, ModemGone, [Next]_vars
  PROVE  ModemGone'
<1> USE DEF ModemGone, TrackInv, ThreadInv, StartInv, systemVars, serviceVars
<1>1. CASE SystemStep
  <2>1. powered' = powered
    BY <1>1 DEF SystemStep, SystemFetch, SystemCall, SystemConnected,
                SystemToggled, GpsPowered, GpsPowerRetry, GpsStartStop,
                Request, Return
  <2>2. state = "RIDING" => state' = "RIDING"
    BY <1>1 DEF SystemStep, SystemFetch, SystemCall, SystemConnected,
                SystemToggled, GpsPowered, GpsPowerRetry, GpsStartStop
  <2>3. spc \in {"power", "sleep", "start"} =>
          spc' \in {"power", "sleep", "start"} \/ state' = "RIDING"
    BY <1>1 DEF SystemStep, SystemFetch, SystemCall, SystemConnected,
                SystemToggled, GpsPowered, GpsPowerRetry, GpsStartStop,
                PowerLoopLeft, WantOn
  <2> QED BY <2>1, <2>2, <2>3
<1>2. CASE GpsStep \/ GpsTimer
  BY <1>2 DEF GpsStep, GpsTimer, GpsRequest, GpsReturned, GpsParse, GpsSave,
              Request, Return
<1>3. ASSUME NEW c \in Callers, ServiceStep(c) PROVE ModemGone'
  <2>1. ~PressPowerKey
    BY DEF PressPowerKey
  <2> QED BY <2>1, <1>3 DEF ServiceStep, Send, Serve, Answer, Complete
<1>4. CASE ModemLost \/ UsbStep \/ UNCHANGED vars
  BY <1>4 DEF ModemLost, PowerOff, UsbStep, vars
<1> QED BY <1>1, <1>2, <1>3, <1>4 DEF Next

\* A modem that goes off once the system thread has left connectModem stays
\* off for ever, whatever the threads, the modem and USB do.
THEOREM LostSafe == Spec => LostForGood
<1>1. TrackInv /\ ModemGone /\ [Next]_vars => ModemGone'
  BY GoneStays
<1>2. LostForGood <=> [](ModemGone => [](~powered))
  BY DEF LostForGood, ModemGone
<1>3. ModemGone => ~powered
  BY DEF ModemGone
<1> QED BY <1>1, <1>2, <1>3, TrackInductive, PTL DEF Spec

-----------------------------------------------------------------------------
\* Composition: the threads use the board monitor and the modem driver as
\* their specifications allow, so what is proved of MonitorSpec holds here,
\* and Sim8xx, which implements ServiceSpec, can stand in for the service.
THEOREM Composition == Spec => MonitorSpec /\ ServiceSpec
<1>1. Init => MonitorInit /\ ServiceInit
  BY DEF Init
<1>2. [Next]_vars => [MonitorNext]_monitorVars
  BY MonitorSteps DEF MonitorNext, Devices
<1>3. ASSUME [Next]_vars PROVE [ServiceNext]_serviceVars
  <2> USE ThreadsAssumption
  <2>1. CASE SystemStep
    BY <2>1 DEF SystemStep, SystemFetch, SystemCall, SystemConnected,
                SystemToggled, GpsPowered, GpsPowerRetry, GpsStartStop,
                ServiceNext
  <2>2. CASE GpsStep \/ GpsTimer
    BY <2>2 DEF GpsStep, GpsTimer, GpsRequest, GpsReturned, GpsParse,
                GpsSave, ServiceNext
  <2>3. ASSUME NEW c \in Callers, ServiceStep(c) PROVE ServiceNext
    <3>1. ASSUME NEW st \in {"OK", "ERROR", "TIMEOUT"}, Answer(c, st)
          PROVE  ServiceNext
      <4> DEFINE a == [st |-> st, fresh |-> st # "TIMEOUT"]
      <4>1. a \in Answers
        BY DEF Answers, Statuses
      <4>2. Complete(c, a)
        BY <3>1 DEF Answer
      <4> HIDE DEF a
      <4> QED BY <4>1, <4>2 DEF ServiceNext
    <3>2. CASE Send(c) \/ (c = "system" /\ PressPowerKey)
      BY <3>2 DEF Send, PressPowerKey, ServiceNext
    <3> QED BY <2>3, <3>1, <3>2 DEF ServiceStep
  <2>4. CASE ModemLost \/ UsbStep \/ UNCHANGED vars
    BY <2>4 DEF ModemLost, UsbStep, vars, ServiceNext
  <2> QED BY <1>3, <2>1, <2>2, <2>3, <2>4 DEF Next
<1> QED BY <1>1, <1>2, <1>3, PTL DEF Spec, MonitorSpec, ServiceSpec
=============================================================================
