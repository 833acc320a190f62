--------------------------- MODULE ServiceProofs ----------------------------
(***************************************************************************)
(* The driver implements ModemService, for any set of callers and any      *)
(* modem: every step of Sim8xx is a step of the service or leaves it       *)
(* unchanged.  The proof rests on the inductive invariant of Sim8xxProofs  *)
(* and, for what ModemService adds where the modem is Reliable, on that of *)
(* TimelyProofs.                                                           *)
(***************************************************************************)
EXTENDS TimelyProofs

\* The service's view of the callers.
PhaseMap == [c \in Callers |-> ServicePhase(pc[c])]

\* What the service sees of a caller is a matter of its program counter.
LEMMA PhaseFacts == \A c \in Callers : PhaseMap[c] = ServicePhase(pc[c])
BY DEF PhaseMap

\* A step of one caller changes its phase alone.
LEMMA PhaseMoves ==
  ASSUME TypeOK, NEW c \in Callers, NEW p, pc' = [pc EXCEPT ![c] = p]
  PROVE  PhaseMap' = [PhaseMap EXCEPT ![c] = ServicePhase(p)]
<1>1. \A d \in Callers : ServicePhase(pc[d])' = IF d = c THEN ServicePhase(p)
                                            ELSE ServicePhase(pc[d])
  BY DEF TypeOK, ServicePhase
<1> QED BY <1>1 DEF PhaseMap

\* ... also when it signals sync: the caller that is woken stays in service.
LEMMA PhaseSignals ==
  ASSUME TypeOK, NEW c \in Callers, NEW p, p # "semwait",
         SignalSync([pc EXCEPT ![c] = p])
  PROVE  PhaseMap' = [PhaseMap EXCEPT ![c] = ServicePhase(p)]
<1>1. \A d \in Callers : ServicePhase(pc[d])' = IF d = c THEN ServicePhase(p)
                                            ELSE ServicePhase(pc[d])
  BY DEF TypeOK, SignalSync, ServicePhase
<1> QED BY <1>1 DEF PhaseMap

\* A caller that owns "lock" and is not past it finds nobody in service.
LEMMA NobodyServed ==
  ASSUME LockInv, NEW c \in Callers, pc[c] = "locking", Owns(lock, c)
  PROVE  \A d \in Callers : PhaseMap[d] \notin {"serving", "done"}
<1>1. \A d \in Callers : ~Active(d)
  BY DEF LockInv, Active, Owns
<1> QED BY <1>1, PhaseFacts DEF Active, ServicePhase

\* Initial states of the driver are initial states of the service.
LEMMA ServiceBegins == Init => Service!ServiceInit
BY DEF Init, Service!ServiceInit, Service!NoAnswer, ServicePhase

\* Every step of the driver is a step of the service, or none.
LEMMA ServiceSteps ==
  ASSUME IInv, Timely => TextInv, [Next]_vars
  PROVE  [Service!ServiceNext]_(Service!serviceVars)
<1> USE DEF IInv
<1>a. PhaseMap = [c \in Callers |-> PhaseMap[c]]
  BY DEF PhaseMap
<1>0. ASSUME PhaseMap' = PhaseMap, UNCHANGED <<cmd, modemOn>>
      PROVE  UNCHANGED Service!serviceVars
  BY <1>0 DEF Service!serviceVars, PhaseMap
<1>1. ASSUME NEW c \in Callers, NEW o \in Ops, Call(c, o)
      PROVE  Service!Request(c)
  <2>1. /\ pc[c] = "idle" /\ pc' = [pc EXCEPT ![c] = "locking"]
        /\ cmd' = [cmd EXCEPT ![c] = [st |-> "INVALID", fresh |-> FALSE]]
        /\ UNCHANGED modemOn
    BY <1>1 DEF Call, modemVars
  <2>2. PhaseMap[c] = "idle" /\ PhaseMap' = [PhaseMap EXCEPT ![c] = "waiting"]
    BY <2>1, PhaseFacts, PhaseMoves DEF ServicePhase
  <2> QED BY <2>1, <2>2 DEF Service!Request, Service!NoAnswer, PhaseMap
<1>2. ASSUME NEW c \in Callers, SemWait(c) \/ PowerKeyLow(c)
      PROVE  Service!Serve(c)
  <2>1. /\ pc[c] = "locking" /\ Owns(lock, c) /\ UNCHANGED <<cmd, modemOn>>
        /\ \E p \in {"semwait", "send", "keylow"} : pc' = [pc EXCEPT ![c] = p]
    BY <1>2 DEF SemWait, PowerKeyLow, modemVars
  <2>2. PhaseMap[c] = "waiting" /\ PhaseMap' = [PhaseMap EXCEPT ![c] = "serving"]
    BY <2>1, PhaseFacts, PhaseMoves DEF ServicePhase
  <2> QED BY <2>1, <2>2, NobodyServed DEF Service!Serve, PhaseMap
<1>3. ASSUME NEW c \in Callers, PowerKeyHigh(c) PROVE Service!Toggle(c)
  <2>1. /\ pc[c] = "keylow" /\ pc' = [pc EXCEPT ![c] = "keyhigh"]
        /\ UNCHANGED cmd /\ modemOn' = ~modemOn
    BY <1>3 DEF PowerKeyHigh
  <2>2. PhaseMap[c] = "serving" /\ PhaseMap' = [PhaseMap EXCEPT ![c] = "done"]
    BY <2>1, PhaseFacts, PhaseMoves DEF ServicePhase
  <2> QED BY <2>1, <2>2 DEF Service!Toggle, PhaseMap
<1>4. ASSUME NEW c \in Callers, TimedOut(c)
      PROVE  \E a \in Service!Answers : Service!Complete(c, a)
  <2> DEFINE a == [st |-> "TIMEOUT", fresh |-> FALSE]
  <2>1. /\ pc[c] = "timedout" /\ SignalSync([pc EXCEPT ![c] = "finish"])
        /\ cmd' = [cmd EXCEPT ![c] = a] /\ UNCHANGED modemOn
    BY <1>4 DEF TimedOut, modemVars
  <2>2. PhaseMap[c] = "serving" /\ PhaseMap' = [PhaseMap EXCEPT ![c] = "done"]
    BY <2>1, PhaseFacts, PhaseSignals DEF ServicePhase
  <2>3. a \in Service!Answers /\ a.st # "INVALID"
    BY DEF Service!Answers, Service!Statuses
  <2>4. Timely => ~modemOn
    BY <2>1 DEF TextInv, TimeoutMeansOff
  <2> QED BY <2>1, <2>2, <2>3, <2>4 DEF Service!Complete, PhaseMap
<1>5. ASSUME NEW c \in Callers, CopyResponse(c)
      PROVE  \E a \in Service!Answers : Service!Complete(c, a)
  <2> DEFINE a == [st |-> sim8xxGetStatus(rxbuf),
                   fresh |-> rxbuf # <<>> /\ rxbuf[Len(rxbuf)].fresh]
  <2>1. /\ pc[c] = "rxlocking" /\ pc' = [pc EXCEPT ![c] = "finish"]
        /\ cmd' = [cmd EXCEPT ![c] = a] /\ UNCHANGED modemOn
    BY <1>5 DEF CopyResponse, modemVars
  <2>2. PhaseMap[c] = "serving" /\ PhaseMap' = [PhaseMap EXCEPT ![c] = "done"]
    BY <2>1, PhaseFacts, PhaseMoves DEF ServicePhase
  <2>3. sim8xxGetStatus(rxbuf) # "INVALID"
    BY <2>1 DEF AnswerIntact
  <2>4. rxbuf # <<>> /\ rxbuf[Len(rxbuf)] \in Chunk
    BY <2>3 DEF sim8xxGetStatus, TypeOK
  <2>5. a \in Service!Answers
    BY <2>4 DEF sim8xxGetStatus, Chunk, Status, Service!Answers,
         Service!Statuses
  <2>6. Timely => a.fresh /\ a.st # "TIMEOUT"
    BY <1>5, CopiedFresh
  <2> HIDE DEF a
  <2>7. a.st # "INVALID"
    BY <2>3 DEF a
  <2> QED BY <2>1, <2>2, <2>5, <2>6, <2>7 DEF Service!Complete, PhaseMap
<1>6. ASSUME NEW c \in Callers, Unlock(c) PROVE Service!Return(c)
  <2>1. /\ pc[c] = "unlock" /\ pc' = [pc EXCEPT ![c] = "idle"]
        /\ UNCHANGED <<cmd, modemOn>>
    BY <1>6 DEF Unlock, modemVars
  <2>2. PhaseMap[c] = "done" /\ PhaseMap' = [PhaseMap EXCEPT ![c] = "idle"]
    BY <2>1, PhaseFacts, PhaseMoves DEF ServicePhase
  <2> QED BY <2>1, <2>2 DEF Service!Return, PhaseMap
<1>7. ASSUME NEW c \in Callers,
             \/ SendRequest(c) \/ SuspendWriter(c) \/ WriterTimeout(c)
             \/ LockRx(c) \/ ResumeReader(c)
      PROVE  UNCHANGED Service!serviceVars
  <2>1. /\ UNCHANGED <<cmd, modemOn>>
        /\ \E p \in CallerPc : /\ pc' = [pc EXCEPT ![c] = p]
                               /\ ServicePhase(p) = ServicePhase(pc[c])
    BY <1>7 DEF SendRequest, SuspendWriter, WriterTimeout, LockRx,
         ResumeReader, modemVars, CallerPc, ServicePhase
  <2>2. PICK p \in CallerPc : /\ pc' = [pc EXCEPT ![c] = p]
                              /\ ServicePhase(p) = ServicePhase(pc[c])
    BY <2>1
  <2>3. PhaseMap' = [PhaseMap EXCEPT ![c] = ServicePhase(p)]
    BY <2>2, PhaseMoves
  <2>4. PhaseMap' = PhaseMap
    BY <1>a, <2>2, <2>3, PhaseFacts
  <2> QED BY <1>0, <2>1, <2>4
<1>8. ASSUME NEW c \in Callers, PowerDone(c)
      PROVE  UNCHANGED Service!serviceVars
  <2>1. /\ UNCHANGED <<cmd, modemOn>> /\ pc[c] = "keyhigh"
        /\ SignalSync([pc EXCEPT ![c] = "unlock"])
    BY <1>8 DEF PowerDone, modemVars
  <2>2. PhaseMap' = [PhaseMap EXCEPT ![c] = PhaseMap[c]]
    BY <2>1, PhaseFacts, PhaseSignals DEF ServicePhase
  <2> QED BY <1>0, <1>a, <2>1, <2>2
<1>9. CASE ProcessMessage
  <2>1. UNCHANGED <<cmd, modemOn>>
    BY <1>9 DEF ProcessMessage, modemVars
  <2>2. \A c \in Callers : ServicePhase(pc[c])' = ServicePhase(pc[c])
    BY <1>9 DEF ProcessMessage, ReferencesSound, ServicePhase, TypeOK
  <2>3. PhaseMap' = PhaseMap
    BY <2>2 DEF PhaseMap
  <2> QED BY <1>0, <2>1, <2>3
<1>10. CASE GuardTimer
  <2>1. UNCHANGED <<cmd, modemOn>>
    BY <1>10 DEF GuardTimer, modemVars
  <2>2. \A c \in Callers : ServicePhase(pc[c])' = ServicePhase(pc[c])
    BY <1>10 DEF GuardTimer, SignalSync, ServicePhase, TypeOK
  <2>3. PhaseMap' = PhaseMap
    BY <2>2 DEF PhaseMap
  <2> QED BY <1>0, <2>1, <2>3
<1>11. CASE ReaderLock \/ ReaderClear \/ WaitEvent \/ GetFlags \/ Drain \/ Park
            \/ ModemSend \/ (\E s \in Urcs : ModemUrc(s)) \/ UNCHANGED vars
  <2>1. UNCHANGED <<pc, cmd, modemOn>>
    BY <1>11 DEF ReaderLock, ReaderClear, WaitEvent, GetFlags, Drain, Park,
         ModemSend, ModemUrc, vars, callVars, modemVars
  <2>2. PhaseMap' = PhaseMap
    BY <2>1 DEF PhaseMap, ServicePhase
  <2> QED BY <1>0, <2>1, <2>2
<1>12. CASE ModemOff
  <2>1. UNCHANGED <<pc, cmd>> /\ modemOn /\ modemOn' = FALSE
    BY <1>12 DEF ModemOff, callVars
  <2>2. PhaseMap' = PhaseMap
    BY <2>1 DEF PhaseMap, ServicePhase
  <2> QED BY <2>1, <2>2 DEF Service!ServiceNext, Service!PowerOff, PhaseMap
<1> QED
  BY <1>1, <1>2, <1>3, <1>4, <1>5, <1>6, <1>7, <1>8, <1>9, <1>10, <1>11, <1>12
  DEF Next, CallerStep, ReaderStep, Service!ServiceNext

\* The driver implements ModemService: whatever the modem does and however
\* the threads interleave, calls are served one at a time, each returns a
\* final status or a timeout of its own, and only the power key and the modem
\* itself change the power (sim8xx.c:73-101, :145-186).  Where the modem
\* answers in time and sends no final status unasked, the status is that of
\* the caller's own command and a timeout means that the modem is off.
THEOREM ServiceRefined ==
  ASSUME Timely => Urcs \subseteq {"INVALID"}
  PROVE  Spec => ServiceImplemented
<1>1. IInv /\ (Timely => TextInv) /\ [Next]_vars =>
        [Service!ServiceNext]_(Service!serviceVars)
  BY ServiceSteps
<1>2. Spec => [](Timely => TextInv)
  <2>1. CASE Timely
    <3>1. TimelyInv => (Timely => TextInv)
      BY DEF TimelyInv
    <3> QED BY <2>1, <3>1, TimelyInductive, PTL
  <2>2. CASE ~Timely
    <3>1. Timely => TextInv
      BY <2>2
    <3> QED BY <3>1, PTL
  <2> QED BY <2>1, <2>2
<1> QED BY ServiceBegins, Inductive, <1>1, <1>2, PTL
        DEF Spec, ServiceImplemented, Service!ServiceSpec
=============================================================================
