------------------------------- MODULE Sim8xx -------------------------------
(***************************************************************************)
(* The SIM8xx modem driver of g-track: source/sim8xx/sim8xx.c (the calls)  *)
(* and source/sim8xx/sim8xxReaderThread.c (the thread that owns the        *)
(* receive side of the serial line).                                       *)
(*                                                                         *)
(* The callers are the threads that use the driver (SystemThread and       *)
(* GpsReaderThread).  A caller takes the driver's mutex "lock", takes a    *)
(* token from the semaphore "sync", writes its command to the line and     *)
(* suspends itself, with a timeout, on the thread reference "writer".      *)
(* The reader collects bytes in rxbuf under the mutex "rxlock" until they  *)
(* end in a final status line, resumes the suspended caller if there is    *)
(* one, arms the guard timer, which gives the token back later, and parks  *)
(* itself on the thread reference "reader" until a caller resumes it.      *)
(*                                                                         *)
(* Text is abstracted to chunks: st is the final status that the chunk     *)
(* ends in ("INVALID": none), fresh says that the chunk belongs to the     *)
(* reply to the command sent last.  fresh, toggled and deaf are history:   *)
(* no code reads them; the first two are kept only where Timely, where     *)
(* properties read them.                                                   *)
(***************************************************************************)
EXTENDS Integers, Sequences

CONSTANTS
  Callers,    \* threads that call the driver
  Reader,     \* the sim8xx reader thread
  NULL,       \* the empty thread reference
  Ops,        \* the calls in use, a subset of AllOps
  Urcs,       \* statuses of the lines the modem sends unasked
  Timely,     \* TRUE: the modem answers in time and the reader outruns it
  QueueCap,   \* chunks that fit the serial input queue (16 bytes)
  MaxChunks,  \* bound: chunks of modem text in flight and in rxbuf
  MaxSync     \* bound: surplus tokens of sync

AllOps == {"execute", "isconnected", "togglepower"}
Status == {"OK", "ERROR", "RING", "INVALID", "TIMEOUT"}
Chunk  == [st : Status, fresh : BOOLEAN]

ASSUME CallersAssumption ==
  /\ Reader \notin Callers
  /\ NULL \notin Callers
  /\ NULL # Reader
ASSUME BoundsAssumption ==
  /\ Ops \subseteq AllOps
  /\ Urcs \subseteq Status
  /\ Timely \in BOOLEAN
  /\ QueueCap \in Nat \ {0}
  /\ MaxChunks \in Nat
  /\ MaxSync \in Nat

VARIABLES
  pc,       \* where each caller is in its call
  op,       \* the call each caller makes
  cmd,      \* status and origin of the answer each caller got
  lock,     \* Sim8xxDriver.lock: queue of threads, the first one owns it
  rxlock,   \* Sim8xxDriver.rxlock, likewise
  sync,     \* Sim8xxDriver.sync: a counter, negative when a thread waits
  writer,   \* Sim8xxDriver.writer
  reader,   \* Sim8xxDriver.reader
  rpc,      \* where the reader thread is
  rxbuf,    \* Sim8xxDriver.rxbuf
  guard,    \* guard_timer is armed
  inq,      \* input queue of the serial driver
  epending, \* EVENT_MASK(7) is pending for the reader thread
  flags,    \* CHN_INPUT_AVAILABLE is set in the reader's event listener
  modemOn,  \* the modem is powered
  mpend,    \* text the modem has yet to send
  toggled,  \* history: the power key was used
  deaf      \* history: text was waiting when the reader registered

callVars  == <<pc, op, cmd>>
syncVars  == <<lock, rxlock, sync, writer, reader>>
readVars  == <<rpc, rxbuf, guard>>
lineVars  == <<inq, epending, flags>>
pastVars  == <<toggled, deaf>>
modemVars == <<modemOn, mpend, pastVars>>
vars == <<callVars, syncVars, readVars, lineVars, modemVars>>

CallerPc ==
  {"idle", "locking", "semwait", "send", "sent", "suspended", "answered",
   "rxlocking", "timedout", "finish", "unlock", "keylow", "keyhigh"}
ReaderPc ==
  {"lock", "locking", "process", "listen", "getflags", "drain", "save",
   "parked"}

-----------------------------------------------------------------------------
(* Kernel and driver primitives.                                           *)

\* chMtxLock, chMtxUnlock: waiting threads queue up and the owner hands over.
Owns(mtx, t) == mtx # <<>> /\ Head(mtx) = t

\* chSemSignal: ++cnt, and when a thread was waiting it gets the token.
SignalSync(p) ==
  /\ sync' = sync + 1
  /\ pc' = [c \in Callers |-> IF p[c] = "semwait" /\ sync < 0
                              THEN "send" ELSE p[c]]

\* sim8xxGetStatus: the final status the text ends in, if it ends in one.
sim8xxGetStatus(buf) ==
  IF buf = <<>> THEN "INVALID" ELSE buf[Len(buf)].st

\* sdIncomingDataI: the event is raised only when the queue was empty, and
\* what does not fit the queue is dropped.
Incoming(chunk) ==
  /\ inq' = IF Len(inq) < QueueCap THEN Append(inq, chunk) ELSE inq
  /\ epending' = (epending \/ inq = <<>>)
  /\ flags' = (flags \/ inq = <<>>)

\* What was sent before this moment does not answer the next command.
Aged(s) == [i \in 1 .. Len(s) |-> [st |-> s[i].st, fresh |-> FALSE]]

\* The reader runs at NORMALPRIO + 1, one above its callers: where timing is
\* ideal it runs until it blocks before anything else happens.
ReaderBlocked ==
  \/ rpc \in {"parked", "save"}
  \/ rpc = "listen" /\ ~epending
  \/ rpc = "locking" /\ ~Owns(rxlock, Reader)
CallersRun == Timely => ReaderBlocked

\* ... and a reply, milliseconds away, finds its caller suspended.
ReplyDue == Timely => ReaderBlocked /\ \A c \in Callers : pc[c] # "sent"

InFlight == Len(mpend) + Len(inq) + Len(rxbuf)

-----------------------------------------------------------------------------
(* The calls.                                                              *)

\* A caller enters the driver: chMtxLock(&simp->lock).
Call(c, o) ==
  /\ pc[c] = "idle"
  /\ o = "togglepower" => sync < MaxSync
  /\ modemOn => sync =< MaxSync
  /\ CallersRun
  /\ lock' = Append(lock, c)
  /\ pc' = [pc EXCEPT ![c] = "locking"]
  /\ op' = [op EXCEPT ![c] = o]
  /\ cmd' = [cmd EXCEPT ![c] = [st |-> "INVALID", fresh |-> FALSE]]
  /\ UNCHANGED <<rxlock, sync, writer, reader, readVars, lineVars, modemVars>>

\* Faulty variant: the token is taken without the mutex.
SemWaitUnlocked(c) ==
  /\ pc[c] = "locking" /\ op[c] # "togglepower"
  /\ CallersRun
  /\ sync' = sync - 1
  /\ pc' = [pc EXCEPT ![c] = IF sync - 1 < 0 THEN "semwait" ELSE "send"]
  /\ UNCHANGED <<op, cmd, lock, rxlock, writer, reader, readVars, lineVars,
                 modemVars>>

\* chSemWait(&simp->sync).
SemWait(c) ==
  /\ pc[c] = "locking" /\ Owns(lock, c) /\ op[c] # "togglepower"
  /\ CallersRun
  /\ sync' = sync - 1
  /\ pc' = [pc EXCEPT ![c] = IF sync - 1 < 0 THEN "semwait" ELSE "send"]
  /\ UNCHANGED <<op, cmd, lock, rxlock, writer, reader, readVars, lineVars,
                 modemVars>>

\* Faulty (here: helpful) variant: a parked reader is resumed before sending.
SendRequestResuming(c) ==
  /\ pc[c] = "send"
  /\ CallersRun
  /\ pc' = [pc EXCEPT ![c] = "sent"]
  /\ reader' = NULL
  /\ rpc' = IF reader # NULL THEN "lock" ELSE rpc
  /\ mpend' = IF modemOn THEN <<[st |-> "OK", fresh |-> TRUE]>> ELSE <<>>
  /\ UNCHANGED <<op, cmd, lock, rxlock, sync, writer, rxbuf, guard, lineVars,
                 modemOn, pastVars>>

\* chprintf of the command; the modem will answer, or will not.
SendRequest(c) ==
  /\ pc[c] = "send"
  /\ CallersRun
  /\ pc' = [pc EXCEPT ![c] = "sent"]
  /\ inq' = Aged(inq)
  /\ rxbuf' = Aged(rxbuf)
  /\ LET answers == modemOn /\ (Timely \/ InFlight + 2 =< MaxChunks) IN
       \/ /\ answers
          /\ \E s \in {"OK", "ERROR"} :
               mpend' = Aged(mpend) \o <<[st |-> "INVALID", fresh |-> Timely],
                                         [st |-> s, fresh |-> Timely]>>
       \/ /\ Timely => ~answers
          /\ mpend' = Aged(mpend)
  /\ UNCHANGED <<op, cmd, syncVars, rpc, guard, epending, flags, modemOn,
                 pastVars>>

\* chThdSuspendTimeoutS(&simp->writer, ...).
SuspendWriter(c) ==
  /\ pc[c] = "sent"
  /\ CallersRun
  /\ writer' = c
  /\ pc' = [pc EXCEPT ![c] = "suspended"]
  /\ UNCHANGED <<op, cmd, lock, rxlock, sync, reader, readVars, lineVars,
                 modemVars>>

\* The kernel's wakeup() ends the suspension with MSG_TIMEOUT.
WriterTimeout(c) ==
  /\ pc[c] = "suspended"
  /\ Timely => ReaderBlocked /\ rpc # "save" /\ mpend = <<>>
  /\ writer' = NULL
  /\ pc' = [pc EXCEPT ![c] = "timedout"]
  /\ UNCHANGED <<op, cmd, lock, rxlock, sync, reader, readVars, lineVars,
                 modemVars>>

\* Faulty variant: the timeout branch keeps the token.
TimedOutSilent(c) ==
  /\ pc[c] = "timedout"
  /\ CallersRun
  /\ pc' = [pc EXCEPT ![c] = "finish"]
  /\ cmd' = [cmd EXCEPT ![c] = [st |-> "TIMEOUT", fresh |-> FALSE]]
  /\ UNCHANGED <<op, syncVars, readVars, lineVars, modemVars>>

\* Faulty variant: the command is repeated until it is answered.
TimedOutRetry(c) ==
  /\ pc[c] = "timedout"
  /\ CallersRun
  /\ pc' = [pc EXCEPT ![c] = "send"]
  /\ UNCHANGED <<op, cmd, syncVars, readVars, lineVars, modemVars>>

\* The timeout branch: the token goes back at once.
TimedOut(c) ==
  /\ pc[c] = "timedout"
  /\ CallersRun
  /\ SignalSync([pc EXCEPT ![c] = "finish"])
  /\ cmd' = [cmd EXCEPT ![c] = [st |-> "TIMEOUT", fresh |-> FALSE]]
  /\ UNCHANGED <<op, lock, rxlock, writer, reader, readVars, lineVars,
                 modemVars>>

\* Faulty variant: the MSG_OK branch gives the token back as well.
LockRxSignalling(c) ==
  /\ pc[c] = "answered"
  /\ CallersRun
  /\ rxlock' = Append(rxlock, c)
  /\ SignalSync([pc EXCEPT ![c] = "rxlocking"])
  /\ UNCHANGED <<op, cmd, lock, writer, reader, readVars, lineVars, modemVars>>

\* The MSG_OK branch: chMtxLock(&simp->rxlock).
LockRx(c) ==
  /\ pc[c] = "answered"
  /\ CallersRun
  /\ rxlock' = Append(rxlock, c)
  /\ pc' = [pc EXCEPT ![c] = "rxlocking"]
  /\ UNCHANGED <<op, cmd, lock, sync, writer, reader, readVars, lineVars,
                 modemVars>>

\* The response and its status are read and rxlock is released.
CopyResponse(c) ==
  /\ pc[c] = "rxlocking" /\ Owns(rxlock, c)
  /\ CallersRun
  /\ cmd' = [cmd EXCEPT ![c] =
               [st |-> sim8xxGetStatus(rxbuf),
                fresh |-> rxbuf # <<>> /\ rxbuf[Len(rxbuf)].fresh]]
  /\ rxlock' = Tail(rxlock)
  /\ pc' = [pc EXCEPT ![c] = "finish"]
  /\ UNCHANGED <<op, lock, sync, writer, reader, readVars, lineVars,
                 modemVars>>

\* Faulty variant: the reader is not resumed.
ResumeNobody(c) ==
  /\ pc[c] = "finish"
  /\ CallersRun
  /\ pc' = [pc EXCEPT ![c] = "unlock"]
  /\ UNCHANGED <<op, cmd, syncVars, readVars, lineVars, modemVars>>

\* A parked reader is resumed; one that is not parked is left alone.
ResumeReader(c) ==
  /\ pc[c] = "finish"
  /\ CallersRun
  /\ pc' = [pc EXCEPT ![c] = "unlock"]
  /\ reader' = NULL
  /\ rpc' = IF reader # NULL THEN "lock" ELSE rpc
  /\ UNCHANGED <<op, cmd, lock, rxlock, sync, writer, rxbuf, guard, lineVars,
                 modemVars>>

\* chMtxUnlock(&simp->lock) and return.
Unlock(c) ==
  /\ pc[c] = "unlock"
  /\ CallersRun
  /\ lock' = Tail(lock)
  /\ pc' = [pc EXCEPT ![c] = "idle"]
  /\ UNCHANGED <<op, cmd, rxlock, sync, writer, reader, readVars, lineVars,
                 modemVars>>

\* sim8xxTogglePower: the power key goes down for 2500 ms ...
PowerKeyLow(c) ==
  /\ pc[c] = "locking" /\ Owns(lock, c) /\ op[c] = "togglepower"
  /\ CallersRun
  /\ pc' = [pc EXCEPT ![c] = "keylow"]
  /\ UNCHANGED <<op, cmd, syncVars, readVars, lineVars, modemVars>>

\* ... and up again: the modem goes off, or comes on and may report it.
PowerKeyHigh(c) ==
  /\ pc[c] = "keylow"
  /\ CallersRun
  /\ pc' = [pc EXCEPT ![c] = "keyhigh"]
  /\ modemOn' = ~modemOn
  /\ toggled' = Timely
  /\ \/ mpend' = <<>>
     \/ /\ ~modemOn /\ InFlight + 3 =< MaxChunks
        /\ mpend' = <<[st |-> "INVALID", fresh |-> FALSE]>>
  /\ UNCHANGED <<op, cmd, syncVars, readVars, lineVars, deaf>>

\* After another second a token is added to sync.
PowerDone(c) ==
  /\ pc[c] = "keyhigh"
  /\ CallersRun
  /\ SignalSync([pc EXCEPT ![c] = "unlock"])
  /\ UNCHANGED <<op, cmd, lock, rxlock, writer, reader, readVars, lineVars,
                 modemVars>>

-----------------------------------------------------------------------------
(* The reader thread.                                                      *)

\* chMtxLock(&simp->rxlock).
ReaderLock ==
  /\ rpc = "lock"
  /\ rxlock' = Append(rxlock, Reader)
  /\ rpc' = "locking"
  /\ UNCHANGED <<callVars, lock, sync, writer, reader, rxbuf, guard, lineVars,
                 modemVars>>

\* Faulty variant: events of the message before are thrown away as well.
ReaderClearEvents ==
  /\ rpc = "locking" /\ Owns(rxlock, Reader)
  /\ rxbuf' = <<>>
  /\ epending' = FALSE
  /\ rpc' = "process"
  /\ UNCHANGED <<callVars, syncVars, guard, inq, flags, modemVars>>

\* The buffer is cleared.
ReaderClear ==
  /\ rpc = "locking" /\ Owns(rxlock, Reader)
  /\ rxbuf' = <<>>
  /\ rpc' = "process"
  /\ UNCHANGED <<callVars, syncVars, guard, lineVars, modemVars>>

\* Faulty variant: any text at all completes a response.
ProcessAnyText ==
  /\ rpc = "process"
  /\ \/ /\ rxbuf = <<>>
        /\ rpc' = "listen"
        /\ UNCHANGED <<pc, writer>>
     \/ /\ rxbuf # <<>>
        /\ rpc' = "save"
        /\ writer' = NULL
        /\ pc' = [c \in Callers |-> IF c = writer THEN "answered" ELSE pc[c]]
  /\ UNCHANGED <<op, cmd, lock, rxlock, sync, reader, rxbuf, guard, lineVars,
                 modemVars>>

\* process_message: text without a final status is kept and more is awaited;
\* otherwise the writer, if one is suspended, is resumed with MSG_OK.
ProcessMessage ==
  /\ rpc = "process"
  /\ \/ /\ sim8xxGetStatus(rxbuf) = "INVALID"
        /\ rpc' = "listen"
        /\ UNCHANGED <<pc, writer>>
     \/ /\ sim8xxGetStatus(rxbuf) # "INVALID"
        /\ rpc' = "save"
        /\ writer' = NULL
        /\ pc' = [c \in Callers |-> IF c = writer THEN "answered" ELSE pc[c]]
  /\ UNCHANGED <<op, cmd, lock, rxlock, sync, reader, rxbuf, guard, lineVars,
                 modemVars>>

\* chEvtWaitAny(EVENT_MASK(7)).
WaitEvent ==
  /\ rpc = "listen" /\ epending
  /\ epending' = FALSE
  /\ rpc' = "getflags"
  /\ UNCHANGED <<callVars, syncVars, rxbuf, guard, inq, flags, modemVars>>

\* chEvtGetAndClearFlags.
GetFlags ==
  /\ rpc = "getflags"
  /\ flags' = FALSE
  /\ rpc' = IF flags THEN "drain" ELSE "process"
  /\ UNCHANGED <<callVars, syncVars, rxbuf, guard, inq, epending, modemVars>>

\* The input queue is read until it is empty.
Drain ==
  /\ rpc = "drain"
  /\ \/ /\ inq # <<>>
        /\ rxbuf' = Append(rxbuf, Head(inq))
        /\ inq' = Tail(inq)
        /\ UNCHANGED rpc
     \/ /\ inq = <<>>
        /\ rpc' = "process"
        /\ UNCHANGED <<rxbuf, inq>>
  /\ UNCHANGED <<callVars, syncVars, guard, epending, flags, modemVars>>

\* Faulty variant: the reader starts over without suspending itself.
ParkNever ==
  /\ rpc = "save"
  /\ guard' = TRUE
  /\ rxlock' = Tail(rxlock)
  /\ rpc' = "lock"
  /\ UNCHANGED <<callVars, lock, sync, writer, reader, rxbuf, lineVars,
                 modemVars>>

\* Faulty variant: the reader suspends itself on the writer's reference.
ParkOnWriter ==
  /\ rpc = "save"
  /\ guard' = TRUE
  /\ rxlock' = Tail(rxlock)
  /\ writer' = Reader
  /\ rpc' = "parked"
  /\ UNCHANGED <<callVars, lock, sync, reader, rxbuf, lineVars, modemVars>>

\* After save_buffer, in one critical section of the kernel: the guard timer
\* is armed, rxlock is released and the reader suspends itself.
Park ==
  /\ rpc = "save"
  /\ guard' = TRUE
  /\ rxlock' = Tail(rxlock)
  /\ reader' = Reader
  /\ rpc' = "parked"
  /\ UNCHANGED <<callVars, lock, sync, writer, rxbuf, lineVars, modemVars>>

\* timer_cb: the guard time is over and the token goes back.
GuardTimer ==
  /\ guard
  /\ guard' = FALSE
  /\ SignalSync(pc)
  /\ UNCHANGED <<op, cmd, lock, rxlock, writer, reader, rpc, rxbuf, lineVars,
                 modemVars>>

-----------------------------------------------------------------------------
(* The modem, as the driver sees it.                                       *)

\* The next chunk of a reply reaches the serial driver.
ModemSend ==
  /\ mpend # <<>>
  /\ ReplyDue
  /\ Incoming(Head(mpend))
  /\ mpend' = Tail(mpend)
  /\ UNCHANGED <<callVars, syncVars, readVars, modemOn, pastVars>>

\* An unsolicited line reaches the serial driver.
ModemUrc(s) ==
  /\ modemOn
  /\ InFlight + 3 =< MaxChunks
  /\ CallersRun
  /\ Incoming([st |-> s, fresh |-> FALSE])
  /\ UNCHANGED <<callVars, syncVars, readVars, modemVars>>

\* The modem loses its supply or shuts itself down.
ModemOff ==
  /\ modemOn
  /\ CallersRun
  /\ modemOn' = FALSE
  /\ mpend' = <<>>
  /\ UNCHANGED <<callVars, syncVars, readVars, lineVars, pastVars>>

-----------------------------------------------------------------------------
\* Faulty (here: helpful) variant: text that is there already is announced.
ReaderRegistersLate ==
  /\ \/ inq = <<>>
     \/ ~Timely /\ modemOn /\ inq = <<[st |-> "INVALID", fresh |-> FALSE]>>
  /\ epending = (inq # <<>>) /\ flags = (inq # <<>>)
  /\ deaf = (inq # <<>>)

\* chEvtRegisterMaskWithFlags, right after sdStart: text of a modem that is
\* on may be in the queue by then, and nothing announces it.
ReaderRegisters ==
  /\ \/ inq = <<>>
     \/ ~Timely /\ modemOn /\ inq = <<[st |-> "INVALID", fresh |-> FALSE]>>
  /\ epending = FALSE /\ flags = FALSE
  /\ deaf = (inq # <<>>)

\* sim8xxInit and sim8xxStart are done and the reader has registered for the
\* serial events; nothing is known about the modem's power.
Init ==
  /\ pc = [c \in Callers |-> "idle"]
  /\ op = [c \in Callers |-> "execute"]
  /\ cmd = [c \in Callers |-> [st |-> "INVALID", fresh |-> FALSE]]
  /\ lock = <<>> /\ rxlock = <<>>
  /\ sync = 1
  /\ writer = NULL /\ reader = NULL
  /\ rpc = "lock" /\ rxbuf = <<>> /\ guard = FALSE
  /\ modemOn \in BOOLEAN /\ mpend = <<>> /\ toggled = FALSE
  /\ ReaderRegisters

CallerStep(c) ==
  \/ SemWait(c) \/ SendRequest(c) \/ SuspendWriter(c) \/ TimedOut(c)
  \/ LockRx(c) \/ CopyResponse(c) \/ ResumeReader(c) \/ Unlock(c)
  \/ PowerKeyLow(c) \/ PowerKeyHigh(c) \/ PowerDone(c)

ReaderStep ==
  \/ ReaderLock \/ ReaderClear \/ ProcessMessage \/ WaitEvent \/ GetFlags
  \/ Drain \/ Park

Next ==
  \/ \E c \in Callers :
       \/ \E o \in Ops : Call(c, o)
       \/ CallerStep(c)
       \/ WriterTimeout(c)
  \/ ReaderStep
  \/ GuardTimer
  \/ ModemSend
  \/ \E s \in Urcs : ModemUrc(s)
  \/ ModemOff

\* Threads and timers run; nobody has to call, and the modem owes nothing.
Fairness ==
  /\ \A c \in Callers : WF_vars(CallerStep(c)) /\ WF_vars(WriterTimeout(c))
  /\ WF_vars(ReaderStep)
  /\ WF_vars(GuardTimer)
  /\ Timely => WF_vars(ModemSend)

Spec == Init /\ [][Next]_vars
FairSpec == Spec /\ Fairness
-----------------------------------------------------------------------------
(* Properties.                                                             *)

\* Type correctness of the driver's state and of the line.
TypeOK ==
  /\ pc \in [Callers -> CallerPc]
  /\ op \in [Callers -> AllOps]
  /\ cmd \in [Callers -> Chunk]
  /\ lock \in Seq(Callers)
  /\ rxlock \in Seq(Callers \cup {Reader})
  /\ sync \in Int
  /\ writer \in Callers \cup {NULL}
  /\ reader \in {Reader, NULL}
  /\ rpc \in ReaderPc
  /\ rxbuf \in Seq(Chunk) /\ inq \in Seq(Chunk) /\ mpend \in Seq(Chunk)
  /\ guard \in BOOLEAN /\ epending \in BOOLEAN /\ flags \in BOOLEAN
  /\ modemOn \in BOOLEAN /\ toggled \in BOOLEAN /\ deaf \in BOOLEAN

\* A caller that waits for the token of sync waits for the guard timer: the
\* token is never lost, whatever the modem sends or fails to send, although
\* three different places give it back (sim8xx.c:90, sim8xx.c:164,
\* sim8xxReaderThread.c:76) and re-arming the guard timer merges two tokens.
TokenNotLost == \A c \in Callers : pc[c] = "semwait" => guard

\* A caller that was resumed with MSG_OK finds a complete response: the
\* reader neither clears nor extends rxbuf between chThdResumeS(&writer) and
\* the copy (sim8xx.c:84-88), it is still saving it or parked.
AnswerIntact ==
  \A c \in Callers : pc[c] \in {"answered", "rxlocking"} =>
    /\ rpc \in {"save", "parked"}
    /\ sim8xxGetStatus(rxbuf) # "INVALID"

\* What the kernel requires of the two thread references: a thread suspends
\* itself only on an empty reference, and a reference that is not empty names
\* a thread suspended on it (sim8xx.c:80, sim8xxReaderThread.c:118).
ReferencesSound ==
  /\ \A c \in Callers : pc[c] = "sent" => writer = NULL
  /\ \A c \in Callers : pc[c] = "suspended" <=> writer = c
  /\ rpc = "save" => reader = NULL
  /\ rpc = "parked" <=> reader = Reader

\* Received text never waits unnoticed: while the queue is not empty the
\* reader is emptying it or has its event and its flag pending
\* (sim8xxReaderThread.c:98-108), so no byte waits for a later one, unless
\* text was there before the reader registered.
NoLostWakeup ==
  inq # <<>> =>
    deaf \/ rpc = "drain" \/ (flags /\ (epending \/ rpc = "getflags"))

\* Text that was in the queue when the reader registered
\* (sim8xxReaderThread.c:87) makes the driver deaf until a reset: the queue
\* is never empty again, so no event is ever raised, nothing is read and no
\* caller is answered, whatever the modem sends and however often its power
\* is toggled.
DeafForGood ==
  deaf => /\ inq # <<>> /\ rxbuf = <<>>
          /\ \A c \in Callers : pc[c] \notin {"answered", "rxlocking"}

\* Where the modem answers in time and sends no final status unasked, the
\* status a call returns is that of the reply to its own command.
FreshAnswer ==
  \A c \in Callers : cmd[c].st \in {"OK", "ERROR", "RING"} => cmd[c].fresh

\* In the same environment a command times out only when the modem is off:
\* sim8xxIsConnected answers "is it on".
TimeoutMeansOff == \A c \in Callers : pc[c] = "timedout" => ~modemOn

\* In the same environment a command is sent within the guard time that
\* follows a response only after sim8xxTogglePower has added a token
\* (sim8xx.c:184).
GuardTimeKept == \A c \in Callers : pc[c] = "send" /\ guard => toggled

\* Where the modem also sends final statuses unasked (RING), a command that
\* is not answered although the modem is on was sent while the reader was
\* parked for nobody: that is the only loss.
TimeoutMeansStranded ==
  \A c \in Callers : pc[c] = "timedout" /\ modemOn => rpc = "parked"

\* The reader parked although no caller is about to resume it.
Stranded ==
  rpc = "parked" /\ \A c \in Callers : pc[c] \notin {"answered", "rxlocking",
                                                     "finish"}

\* Once stranded, the reader stays one command behind as long as replies fit
\* the input queue, the power is not toggled and every line that the modem
\* sends unasked ends in a final status: no caller is answered again.  (A line
\* that ends in none and follows the reply in the queue sets it right.)
StrandedForever == [](Stranded => [](\A c \in Callers : pc[c] # "answered"))

\* Every call returns, whatever the modem does: the suspension has a timeout,
\* the token comes back and the mutexes are handed over.
CallReturns == \A c \in Callers : (pc[c] # "idle") ~> (pc[c] = "idle")

-----------------------------------------------------------------------------
(* What the driver promises.                                               *)

\* A caller is being served from the moment it owns "lock" and has called
\* chSemWait or pressed the power key, and done once its answer is stored.
ServicePhase(p) ==
  IF p = "idle" THEN "idle"
  ELSE IF p = "locking" THEN "waiting"
  ELSE IF p \in {"finish", "unlock", "keyhigh"} THEN "done"
  ELSE "serving"

Service == INSTANCE ModemService WITH
  Reliable <- Timely,
  phase <- [c \in Callers |-> ServicePhase(pc[c])],
  answer <- cmd,
  powered <- modemOn

\* The driver implements ModemService: two mutexes, a counting semaphore, two
\* thread references, a timeout and a timer together serve one call at a time
\* with a complete answer, which where the modem answers in time is the
\* caller's own.
ServiceImplemented == Service!ServiceSpec
=============================================================================
