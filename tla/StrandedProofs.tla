--------------------------- MODULE StrandedProofs ---------------------------
(***************************************************************************)
(* Proofs about Sim8xx where the modem answers in time but also sends      *)
(* final statuses unasked (RING): for any set of callers and any bounds.   *)
(*                                                                         *)
(* A final status that nobody asked for parks the reader for nobody.       *)
(* AwaitInv says that this is the only way to lose a reply; Stuck, that a  *)
(* reader once stranded is one command behind for good.                    *)
(***************************************************************************)
EXTENDS TimelyProofs

\* A text that ends in a final status.
Pending(s) == sim8xxGetStatus(s) # "INVALID"

\* A caller awaits its reply while the reader is suspended, or takes in one
\* chunk at a time and the reply of a modem that is on still lies ahead.
AwaitInv ==
  \A c \in Callers : Awaits(c) =>
    \/ rpc \in {"save", "parked"}
    \/ /\ rpc \in {"listen", "getflags", "drain"} /\ Len(inq) =< 1
       /\ modemOn =>
            \/ ~Plain(mpend)
            \/ pc[c] = "suspended" /\ Pending(inq)
            \/ pc[c] = "suspended" /\ rpc = "drain" /\ inq = <<>> /\ Pending(rxbuf)
    \/ /\ rpc = "process" /\ inq = <<>>
       /\ modemOn => ~Plain(mpend) \/ (pc[c] = "suspended" /\ Pending(rxbuf))

StrandInv ==
  /\ ~deaf
  /\ RxQueueInv
  /\ AwaitInv
  /\ TimeoutMeansStranded

\* What the modem has yet to send fits the input queue.
QueueFits == Len(mpend) + Len(inq) =< QueueCap

\* The power key is never used, and a modem that is off sends nothing.
KeyInv ==
  /\ \A c \in Callers : op[c] # "togglepower" /\ pc[c] \notin {"keylow", "keyhigh"}
  /\ ~modemOn => mpend = <<>>

\* The reply to a command sent past a suspended reader ends up in the queue.
LateInv ==
  modemOn => \A c \in Callers :
    /\ pc[c] = "sent" => Pending(mpend)
    /\ pc[c] = "suspended" /\ rpc \in {"save", "parked"} =>
         Pending(mpend) \/ (mpend = <<>> /\ Pending(inq))
    /\ pc[c] = "timedout" => mpend = <<>> /\ Pending(inq)

\* The stranded reader, with a modem that is on: it is suspended and the
\* reply to the command under way will wait in the queue; or it was resumed
\* by a caller that gave up and is reading that reply, for nobody.
StuckOn ==
  \/ /\ rpc \in {"save", "parked"}
     /\ \A c \in Callers :
          /\ pc[c] = "sent" => Pending(mpend)
          /\ pc[c] = "suspended" =>
               Pending(mpend) \/ (mpend = <<>> /\ Pending(inq))
          /\ pc[c] \in {"timedout", "finish"} => mpend = <<>> /\ Pending(inq)
  \/ /\ \A c \in Callers : pc[c] \notin {"sent", "suspended", "timedout", "finish"}
     /\ \/ rpc \notin {"save", "parked"} /\ Pending(inq)
        \/ rpc \in {"drain", "process"} /\ inq = <<>> /\ Pending(rxbuf)

\* ... and with a modem that is off: nothing comes any more.
StuckOff ==
  \A c \in Callers : Awaits(c) =>
    rpc \in {"save", "parked"} \/ (rpc = "listen" /\ inq = <<>> /\ ~epending)

Stuck ==
  /\ \A c \in Callers : pc[c] \notin {"answered", "rxlocking"}
  /\ modemOn => StuckOn
  /\ ~modemOn => StuckOff

-----------------------------------------------------------------------------
(* Texts.                                                                  *)

\* Texts that end in a final status.
LEMMA PendingFacts ==
  ASSUME NEW s \in Seq(Chunk)
  PROVE  /\ ~Pending(<<>>)
         /\ Pending(s) => s # <<>> /\ ~Plain(s)
         /\ \A x \in Chunk : Pending(Append(s, x)) <=> x.st # "INVALID"
BY DEF Pending, sim8xxGetStatus, Plain

\* A chunk is taken away.
LEMMA PendingTail ==
  ASSUME NEW s \in Seq(Chunk), s # <<>>
  PROVE  /\ Head(s) \in Chunk /\ Tail(s) \in Seq(Chunk)
         /\ Len(Tail(s)) = Len(s) - 1
         /\ Len(s) =< 1 => Tail(s) = <<>>
         /\ Pending(s) =>
              Pending(Tail(s)) \/ (Tail(s) = <<>> /\ Head(s).st # "INVALID")
         /\ ~Plain(s) => Head(s).st # "INVALID" \/ ~Plain(Tail(s))
<1> DEFINE t == Tail(s)
<1>1. /\ t \in Seq(Chunk) /\ Len(t) = Len(s) - 1
      /\ Len(s) >= 1 /\ Head(s) = s[1]
      /\ \A i \in 1 .. Len(t) : t[i] = s[i + 1]
  BY TailFacts
<1>2. Len(s) \in Nat /\ Head(s) \in Chunk
  OBVIOUS
<1> HIDE DEF t
<1>3. /\ Len(t) = 0 => t = <<>>
      /\ Len(t) # 0 => t # <<>> /\ Len(t) \in 1 .. Len(t) /\ t[Len(t)] = s[Len(s)]
  <2>1. Len(t) # 0 => Len(t) \in 1 .. Len(t) /\ Len(t) + 1 = Len(s)
    BY <1>1, <1>2
  <2>2. Len(t) # 0 => t[Len(t)] = s[Len(t) + 1]
    BY <1>1, <2>1
  <2> QED BY <1>1, <2>1, <2>2
<1>4. Len(s) =< 1 => t = <<>>
  BY <1>1, <1>2, <1>3
<1>5. Pending(s) => Pending(t) \/ (t = <<>> /\ Head(s).st # "INVALID")
  <2>1. CASE Len(t) = 0
    <3>1. Len(s) = 1 /\ t = <<>>
      BY <1>1, <1>2, <1>3, <2>1
    <3> QED BY <1>1, <3>1 DEF Pending, sim8xxGetStatus
  <2>2. CASE Len(t) # 0
    BY <1>1, <1>3, <2>2 DEF Pending, sim8xxGetStatus
  <2> QED BY <2>1, <2>2
<1>6. ASSUME Head(s).st = "INVALID", Plain(t) PROVE Plain(s)
  <2> SUFFICES ASSUME NEW i \in 1 .. Len(s) PROVE s[i].st = "INVALID"
    BY DEF Plain
  <2>1. CASE i = 1
    BY <1>1, <1>6, <2>1
  <2>2. CASE i # 1
    <3>1. i - 1 \in 1 .. Len(t) /\ t[i - 1] = s[(i - 1) + 1]
      BY <1>1, <1>2, <2>2
    <3> QED BY <1>6, <3>1 DEF Plain
  <2> QED BY <2>1, <2>2
<1> QED BY <1>1, <1>2, <1>4, <1>5, <1>6 DEF t

\* The reply to a command is pending.
LEMMA PendingReply ==
  ASSUME NEW s \in Seq(Chunk), NEW st \in {"OK", "ERROR"}
  PROVE  LET r == s \o <<[st |-> "INVALID", fresh |-> Timely],
                         [st |-> st, fresh |-> Timely]>>
         IN Pending(r) /\ ~Plain(r)
<1> DEFINE a == [st |-> "INVALID", fresh |-> Timely]
           b == [st |-> st, fresh |-> Timely]
           r == s \o <<a, b>>
<1>1. b.st # "INVALID"
  OBVIOUS
<1> HIDE DEF a, b
<1>2. Len(r) = Len(s) + 2 /\ Len(s) \in Nat /\ r[Len(s) + 2] = b /\ r # <<>>
  OBVIOUS
<1> HIDE DEF r
<1>3. Pending(r) /\ ~Plain(r)
  <2>1. Len(s) + 2 \in 1 .. Len(r)
    BY <1>2
  <2> QED BY <1>1, <1>2, <2>1 DEF Pending, sim8xxGetStatus, Plain
<1> QED BY <1>3 DEF r, a, b

-----------------------------------------------------------------------------
(* A reply is lost only to a reader that is parked.                        *)

\* A step that leaves the text, the reader and those who await a reply alone.
LEMMA AwaitKept ==
  ASSUME AwaitInv, TimeoutMeansStranded,
         UNCHANGED <<mpend, inq, rxbuf, rpc, modemOn>>,
         \A d \in Callers :
           pc'[d] = pc[d] \/ {pc[d], pc'[d]} \cap {"sent", "suspended", "timedout"} = {}
  PROVE  AwaitInv' /\ TimeoutMeansStranded'
<1>1. \A d \in Callers, p \in {"sent", "suspended", "timedout"} :
        pc'[d] = p <=> pc[d] = p
  OBVIOUS
<1>2. AwaitInv'
  BY <1>1 DEF AwaitInv, Awaits
<1>3. TimeoutMeansStranded'
  BY <1>1 DEF TimeoutMeansStranded
<1> QED BY <1>2, <1>3

\* The calls.
LEMMA AwaitCalls ==
  ASSUME Timely, IInv, StrandInv, NEW c \in Callers,
         CallerStep(c) \/ WriterTimeout(c) \/ \E o \in Ops : Call(c, o)
  PROVE  AwaitInv' /\ TimeoutMeansStranded'
<1> USE DEF Active
<1>0. /\ pc \in [Callers -> CallerPc]
      /\ rxbuf \in Seq(Chunk) /\ inq \in Seq(Chunk) /\ mpend \in Seq(Chunk)
  BY DEF IInv, TypeOK
<1>1. ASSUME Active(c) PROVE \A d \in Callers : d # c => pc[d] \in {"idle", "locking"}
  BY <1>1, OneActive DEF IInv
<1>2. ASSUME pc[c] \in {"send", "sent", "suspended"}, ReaderBlocked
      PROVE  rpc \in {"save", "parked"} \/ (rpc = "listen" /\ inq = <<>>)
  <2>1. \A d \in Callers : pc[d] # "rxlocking"
    BY <1>1, <1>2
  <2> QED BY <1>2, <2>1, BlockedReader DEF StrandInv
<1>3. ASSUME SendRequest(c) PROVE AwaitInv' /\ TimeoutMeansStranded'
  <2>1. /\ pc[c] = "send" /\ ReaderBlocked /\ pc' = [pc EXCEPT ![c] = "sent"]
        /\ inq' = Aged(inq) /\ UNCHANGED <<rpc, modemOn>>
    BY <1>3 DEF SendRequest, CallersRun
  <2>2. rpc \in {"save", "parked"} \/ (rpc = "listen" /\ inq = <<>>)
    BY <1>2, <2>1
  <2>3. Aged(mpend) \in Seq(Chunk) /\ (inq = <<>> => inq' = <<>>)
    BY <1>0, <2>1, AgedFacts
  <2>4. \/ \E s \in {"OK", "ERROR"} :
             mpend' = Aged(mpend) \o <<[st |-> "INVALID", fresh |-> Timely],
                                       [st |-> s, fresh |-> Timely]>>
        \/ ~modemOn
    BY <1>3 DEF SendRequest
  <2>5. modemOn => ~Plain(mpend')
    BY <2>3, <2>4, PendingReply
  <2>6. \A d \in Callers : pc'[d] \in {"idle", "locking", "sent"}
    BY <1>0, <1>1, <2>1
  <2>7. inq' = <<>> => Len(inq') =< 1
    OBVIOUS
  <2> QED BY <2>1, <2>2, <2>3, <2>5, <2>6, <2>7
          DEF AwaitInv, TimeoutMeansStranded
<1>4. ASSUME SuspendWriter(c) PROVE AwaitInv' /\ TimeoutMeansStranded'
  <2>1. /\ pc[c] = "sent" /\ pc' = [pc EXCEPT ![c] = "suspended"]
        /\ UNCHANGED <<mpend, inq, rxbuf, rpc, modemOn>>
    BY <1>4 DEF SuspendWriter, readVars, lineVars, modemVars
  <2>2. /\ pc'[c] = "suspended"
        /\ \A d \in Callers : d # c => pc'[d] \in {"idle", "locking"}
    BY <1>0, <1>1, <2>1
  <2>3. AwaitInv'
    BY <2>1, <2>2 DEF StrandInv, AwaitInv, Awaits
  <2> QED BY <2>2, <2>3 DEF TimeoutMeansStranded
<1>5. ASSUME WriterTimeout(c) PROVE AwaitInv' /\ TimeoutMeansStranded'
  <2>1. /\ pc[c] = "suspended" /\ pc' = [pc EXCEPT ![c] = "timedout"]
        /\ ReaderBlocked /\ rpc # "save" /\ mpend = <<>>
        /\ UNCHANGED <<mpend, inq, rxbuf, rpc, modemOn>>
    BY <1>5 DEF WriterTimeout, readVars, lineVars, modemVars
  <2>2. rpc = "parked" \/ (rpc = "listen" /\ inq = <<>>)
    BY <1>2, <2>1
  <2>3. ~Pending(<<>>) /\ Plain(<<>>)
    BY <1>0, PendingFacts, StatusFacts
  <2>4. modemOn => rpc = "parked"
    BY <2>1, <2>2, <2>3 DEF StrandInv, AwaitInv, Awaits
  <2>5. \A d \in Callers : pc'[d] \in {"idle", "locking", "timedout"}
    BY <1>0, <1>1, <2>1
  <2> QED BY <2>1, <2>4, <2>5 DEF AwaitInv, Awaits, TimeoutMeansStranded
<1>6. ASSUME ResumeReader(c) \/ PowerKeyHigh(c)
      PROVE  AwaitInv' /\ TimeoutMeansStranded'
  <2>1. /\ pc[c] \in {"finish", "keylow"}
        /\ \E p \in {"unlock", "keyhigh"} : pc' = [pc EXCEPT ![c] = p]
    BY <1>6 DEF ResumeReader, PowerKeyHigh
  <2>2. \A d \in Callers : pc'[d] \in {"idle", "locking", "unlock", "keyhigh"}
    BY <1>0, <1>1, <2>1
  <2> QED BY <2>2 DEF AwaitInv, Awaits, TimeoutMeansStranded
<1>7. ASSUME TimedOut(c) \/ PowerDone(c)
      PROVE  AwaitInv' /\ TimeoutMeansStranded'
  <2>1. /\ pc[c] \in {"timedout", "keyhigh"}
        /\ \E p \in {"finish", "unlock"} : SignalSync([pc EXCEPT ![c] = p])
    BY <1>7 DEF TimedOut, PowerDone
  <2>2. \A d \in Callers : pc'[d] \in {"idle", "locking", "finish", "unlock"}
    BY <1>0, <1>1, <2>1 DEF SignalSync
  <2> QED BY <2>2 DEF AwaitInv, Awaits, TimeoutMeansStranded
<1>8. ASSUME \/ SemWait(c) \/ Unlock(c) \/ LockRx(c) \/ CopyResponse(c)
             \/ PowerKeyLow(c) \/ \E o \in Ops : Call(c, o)
      PROVE  AwaitInv' /\ TimeoutMeansStranded'
  <2>1. /\ UNCHANGED <<mpend, inq, rxbuf, rpc, modemOn>>
        /\ pc[c] \notin {"sent", "suspended", "timedout"}
        /\ \E p \in CallerPc \ {"sent", "suspended", "timedout"} :
             pc' = [pc EXCEPT ![c] = p]
    BY <1>8 DEF Call, SemWait, Unlock, LockRx, CopyResponse, PowerKeyLow,
         readVars, lineVars, modemVars, CallerPc
  <2> QED BY <1>0, <2>1, AwaitKept DEF StrandInv
<1> QED BY <1>3, <1>4, <1>5, <1>6, <1>7, <1>8 DEF CallerStep

\* The reader.
LEMMA AwaitReader ==
  ASSUME IInv, StrandInv, ReaderStep
  PROVE  AwaitInv' /\ TimeoutMeansStranded'
<1>0. /\ pc \in [Callers -> CallerPc]
      /\ rxbuf \in Seq(Chunk) /\ inq \in Seq(Chunk)
      /\ AwaitInv /\ TimeoutMeansStranded
  BY DEF IInv, TypeOK, StrandInv
<1>1. ~Pending(<<>>) /\ Len(<<>>) =< 1
  BY <1>0, PendingFacts
<1>2. CASE ReaderLock \/ ReaderClear \/ WaitEvent \/ Park
  <2>1. /\ UNCHANGED <<pc, mpend, inq, modemOn>>
        /\ \/ rpc = "lock" \/ rpc = "locking"
           \/ rpc = "listen" /\ rpc' = "getflags"
           \/ rpc = "save" /\ rpc' = "parked"
    BY <1>2 DEF ReaderLock, ReaderClear, WaitEvent, Park, callVars, lineVars,
         modemVars
  <2>2. AwaitInv'
    BY <1>0, <2>1 DEF AwaitInv, Awaits
  <2>3. TimeoutMeansStranded'
    BY <1>0, <2>1 DEF TimeoutMeansStranded
  <2> QED BY <2>2, <2>3
<1>3. CASE ProcessMessage
  <2>1. rpc = "process" /\ UNCHANGED <<mpend, inq, rxbuf, modemOn>>
    BY <1>3 DEF ProcessMessage, lineVars, modemVars
  <2>2. \A d \in Callers : pc'[d] \in {"sent", "suspended", "timedout"} =>
                             pc'[d] = pc[d]
    BY <1>0, <1>3 DEF ProcessMessage
  <2>3. rpc' = "save" \/ (rpc' = "listen" /\ ~Pending(rxbuf))
    BY <1>3 DEF ProcessMessage, Pending
  <2>4. AwaitInv'
    BY <1>0, <1>1, <2>1, <2>2, <2>3 DEF AwaitInv, Awaits
  <2>5. TimeoutMeansStranded'
    BY <1>0, <2>1, <2>2 DEF TimeoutMeansStranded
  <2> QED BY <2>4, <2>5
<1>4. CASE GetFlags
  <2>1. /\ UNCHANGED <<pc, mpend, inq, rxbuf, modemOn>>
        /\ rpc = "getflags" /\ rpc' = IF flags THEN "drain" ELSE "process"
    BY <1>4 DEF GetFlags, callVars, modemVars
  <2>2. rpc' = "drain" \/ (rpc' = "process" /\ inq = <<>>)
    BY <2>1 DEF IInv, NoLostWakeup, StrandInv
  <2>3. AwaitInv'
    BY <1>0, <1>1, <2>1, <2>2 DEF AwaitInv, Awaits
  <2>4. TimeoutMeansStranded'
    BY <1>0, <2>1 DEF TimeoutMeansStranded
  <2> QED BY <2>3, <2>4
<1>5. CASE Drain
  <2>1. rpc = "drain" /\ UNCHANGED <<pc, mpend, modemOn>>
    BY <1>5 DEF Drain, callVars, modemVars
  <2>2. TimeoutMeansStranded'
    BY <1>0, <2>1 DEF TimeoutMeansStranded
  <2>3. CASE inq = <<>>
    <3>1. rpc' = "process" /\ UNCHANGED <<rxbuf, inq>>
      BY <1>5, <2>3 DEF Drain
    <3>2. AwaitInv'
      BY <1>0, <1>1, <2>1, <2>3, <3>1 DEF AwaitInv, Awaits
    <3> QED BY <2>2, <3>2
  <2>4. CASE inq # <<>>
    <3>1. /\ rxbuf' = Append(rxbuf, Head(inq)) /\ inq' = Tail(inq)
          /\ rpc' = "drain"
      BY <1>5, <2>1, <2>4 DEF Drain
    <3>2. /\ Head(inq) \in Chunk
          /\ Len(inq) =< 1 => inq' = <<>>
          /\ Len(inq) =< 1 /\ Pending(inq) => Pending(rxbuf')
      BY <1>0, <1>1, <2>4, <3>1, PendingTail, PendingFacts
    <3>3. AwaitInv'
      BY <1>0, <1>1, <2>1, <2>4, <3>1, <3>2 DEF AwaitInv, Awaits
    <3> QED BY <2>2, <3>3
  <2> QED BY <2>3, <2>4
<1> QED BY <1>2, <1>3, <1>4, <1>5 DEF ReaderStep

\* The modem.
LEMMA AwaitModem ==
  ASSUME Timely, IInv, StrandInv,
         ModemSend \/ ModemOff \/ (\E s \in Urcs : ModemUrc(s))
  PROVE  AwaitInv' /\ TimeoutMeansStranded'
<1> USE DEF Active
<1>0. /\ pc \in [Callers -> CallerPc] /\ QueueCap \in Nat \ {0}
      /\ rxbuf \in Seq(Chunk) /\ inq \in Seq(Chunk) /\ mpend \in Seq(Chunk)
      /\ AwaitInv /\ TimeoutMeansStranded
  BY BoundsAssumption DEF IInv, TypeOK, StrandInv
<1>1. ~Pending(<<>>) /\ Len(<<>>) < QueueCap /\ <<>> \in Seq(Chunk)
  BY <1>0, PendingFacts
<1>2. ASSUME NEW c \in Callers, Awaits(c), ReaderBlocked
      PROVE  rpc \in {"save", "parked"} \/ (rpc = "listen" /\ inq = <<>>)
  <2>1. \A d \in Callers : pc[d] # "rxlocking"
    BY <1>2, OneActive DEF IInv, Awaits
  <2> QED BY <1>2, <2>1, BlockedReader DEF StrandInv
<1>3. CASE ModemOff
  <2>1. UNCHANGED <<pc, inq, rxbuf, rpc>> /\ modemOn' = FALSE
    BY <1>3 DEF ModemOff, callVars, readVars, lineVars
  <2> QED BY <1>0, <2>1 DEF AwaitInv, Awaits, TimeoutMeansStranded
<1>4. ASSUME NEW k \in Chunk, ReaderBlocked,
             inq' = IF Len(inq) < QueueCap THEN Append(inq, k) ELSE inq,
             UNCHANGED <<pc, rxbuf, rpc, modemOn>>,
             ~Plain(mpend) => ~Plain(mpend') \/ k.st # "INVALID",
             ~Plain(mpend) => ~Plain(mpend') \/ \A c \in Callers : pc[c] # "sent"
      PROVE  AwaitInv' /\ TimeoutMeansStranded'
  <2>1. ASSUME inq = <<>>
        PROVE  Len(inq') =< 1 /\ (k.st # "INVALID" => Pending(inq'))
    <3>1. inq' = Append(<<>>, k)
      BY <1>1, <1>4, <2>1
    <3>2. Len(Append(<<>>, k)) = 1
      BY <1>1
    <3>3. k.st # "INVALID" => Pending(Append(<<>>, k))
      BY <1>1, <1>4, PendingFacts
    <3> QED BY <3>1, <3>2, <3>3
  <2>2. ASSUME NEW c \in Callers, Awaits(c), rpc \notin {"save", "parked"}
        PROVE  /\ rpc = "listen" /\ Len(inq') =< 1
               /\ modemOn => ~Plain(mpend') \/ (pc[c] = "suspended" /\ Pending(inq'))
    <3>1. rpc = "listen" /\ inq = <<>>
      BY <1>2, <1>4, <2>2
    <3>2. modemOn => ~Plain(mpend)
      BY <1>0, <1>1, <2>2, <3>1 DEF AwaitInv
    <3> QED BY <1>4, <2>1, <2>2, <3>1, <3>2 DEF Awaits
  <2>3. \A c \in Callers : Awaits(c)' <=> Awaits(c)
    BY <1>4 DEF Awaits
  <2>4. AwaitInv'
    BY <1>4, <2>2, <2>3 DEF AwaitInv
  <2> QED BY <1>0, <1>4, <2>4 DEF TimeoutMeansStranded
<1>5. ASSUME NEW s \in Urcs, ModemUrc(s)
      PROVE  AwaitInv' /\ TimeoutMeansStranded'
  <2> DEFINE k == [st |-> s, fresh |-> FALSE]
  <2>1. /\ UNCHANGED <<pc, mpend, rxbuf, rpc, modemOn>> /\ ReaderBlocked
        /\ inq' = IF Len(inq) < QueueCap THEN Append(inq, k) ELSE inq
    BY <1>5 DEF ModemUrc, Incoming, CallersRun, callVars, readVars, modemVars
  <2>2. k \in Chunk
    BY ChunkFacts, BoundsAssumption
  <2> HIDE DEF k
  <2> QED BY <1>4, <2>1, <2>2
<1>6. CASE ModemSend
  <2> DEFINE k == Head(mpend)
  <2>1. /\ UNCHANGED <<pc, rxbuf, rpc, modemOn>> /\ ReaderBlocked
        /\ mpend # <<>> /\ mpend' = Tail(mpend)
        /\ \A c \in Callers : pc[c] # "sent"
        /\ inq' = IF Len(inq) < QueueCap THEN Append(inq, k) ELSE inq
    BY <1>6 DEF ModemSend, ReplyDue, Incoming, callVars, readVars
  <2>2. k \in Chunk /\ (~Plain(mpend) => k.st # "INVALID" \/ ~Plain(mpend'))
    BY <1>0, <2>1, PendingTail
  <2> HIDE DEF k
  <2> QED BY <1>4, <2>1, <2>2
<1> QED BY <1>3, <1>5, <1>6

\* The invariant holds wherever the modem answers in time.
LEMMA StrandInductive ==
  ASSUME Timely
  PROVE  Spec => [](IInv /\ StrandInv)
<1>1. Init => StrandInv
  <2> SUFFICES ASSUME Init PROVE StrandInv
    OBVIOUS
  <2>1. /\ pc = [c \in Callers |-> "idle"] /\ rxlock = <<>> /\ rpc = "lock" /\ ~deaf
    BY DEF Init, ReaderRegisters
  <2>2. RxQueueInv
    BY <2>1 DEF RxQueueInv, InSeq
  <2> QED BY <2>1, <2>2 DEF StrandInv, AwaitInv, Awaits, TimeoutMeansStranded
<1>2. IInv /\ StrandInv /\ [Next]_vars => StrandInv'
  <2> SUFFICES ASSUME IInv, StrandInv, [Next]_vars PROVE StrandInv'
    OBVIOUS
  <2>1. ~deaf' /\ RxQueueInv'
    BY DeafKept, RxQueueStep DEF StrandInv
  <2>2. AwaitInv' /\ TimeoutMeansStranded'
    <3>0. pc \in [Callers -> CallerPc]
      BY DEF IInv, TypeOK
    <3>1. CASE GuardTimer
      <4>1. SignalSync(pc) /\ UNCHANGED <<mpend, inq, rxbuf, rpc, modemOn>>
        BY <3>1 DEF GuardTimer, lineVars, modemVars
      <4>2. \A d \in Callers :
              pc'[d] = pc[d] \/ (pc[d] = "semwait" /\ pc'[d] = "send")
        BY <3>0, <4>1 DEF SignalSync
      <4> QED BY <4>1, <4>2, AwaitKept DEF StrandInv
    <3>2. CASE UNCHANGED vars
      <4>1. UNCHANGED <<pc, mpend, inq, rxbuf, rpc, modemOn>>
        BY <3>2 DEF vars, callVars, readVars, lineVars, modemVars
      <4> QED BY <4>1, AwaitKept DEF StrandInv
    <3> QED BY <3>1, <3>2, AwaitCalls, AwaitReader, AwaitModem DEF Next
  <2> QED BY <2>1, <2>2 DEF StrandInv
<1> QED BY Inductive, <1>1, <1>2, PTL DEF Spec

\* Where the modem answers in time, a command that is not answered although
\* the modem is on was sent past a reader that is parked
\* (sim8xxReaderThread.c:115-118), whatever the modem sends unasked, however
\* small the input queue and however the power is toggled.
THEOREM StrandedOnly ==
  ASSUME Timely
  PROVE  Spec => []TimeoutMeansStranded
<1>1. StrandInv => TimeoutMeansStranded
  BY DEF StrandInv
<1> QED BY StrandInductive, <1>1, PTL

-----------------------------------------------------------------------------
(* A reader once stranded stays behind.                                    *)

\* A chunk that reaches the queue.
LEMMA IncomingFacts ==
  ASSUME IInv, NEW k \in Chunk, Incoming(k)
  PROVE  /\ k.st # "INVALID" /\ Pending(inq) => Pending(inq')
         /\ Len(inq) < QueueCap /\ k.st # "INVALID" => Pending(inq')
<1>1. inq \in Seq(Chunk)
  BY DEF IInv, TypeOK
<1>2. inq' = IF Len(inq) < QueueCap THEN Append(inq, k) ELSE inq
  BY DEF Incoming
<1> QED BY <1>1, <1>2, PendingFacts

\* The next chunk of a reply reaches the queue.
LEMMA SentFacts ==
  ASSUME Timely, IInv, QueueFits, ModemSend
  PROVE  /\ UNCHANGED <<pc, rxbuf, rpc, modemOn>> /\ ReaderBlocked
         /\ mpend # <<>> /\ \A c \in Callers : pc[c] # "sent"
         /\ Pending(mpend) => Pending(mpend') \/ (mpend' = <<>> /\ Pending(inq'))
<1>0. mpend \in Seq(Chunk) /\ inq \in Seq(Chunk) /\ QueueCap \in Nat
  BY BoundsAssumption DEF IInv, TypeOK
<1>1. /\ UNCHANGED <<pc, rxbuf, rpc, modemOn>> /\ ReaderBlocked
      /\ mpend # <<>> /\ \A c \in Callers : pc[c] # "sent"
      /\ Incoming(Head(mpend)) /\ mpend' = Tail(mpend)
  BY DEF ModemSend, ReplyDue, callVars, readVars
<1>2. Len(inq) < QueueCap
  <2>1. Len(mpend) \in Nat \ {0} /\ Len(inq) \in Nat
    BY <1>0, <1>1
  <2> QED BY <1>0, <2>1 DEF QueueFits
<1>3. /\ Head(mpend) \in Chunk
      /\ Pending(mpend) =>
           Pending(mpend') \/ (mpend' = <<>> /\ Head(mpend).st # "INVALID")
  BY <1>0, <1>1, PendingTail
<1> QED BY <1>1, <1>2, <1>3, IncomingFacts

\* A command is sent.
LEMMA RequestFacts ==
  ASSUME Timely, IInv, NEW c \in Callers, SendRequest(c)
  PROVE  /\ pc[c] = "send" /\ pc' = [pc EXCEPT ![c] = "sent"]
         /\ \A d \in Callers : d # c => pc[d] \in {"idle", "locking"}
         /\ UNCHANGED <<op, rpc, modemOn, epending>> /\ ReaderBlocked
         /\ inq = <<>> => inq' = <<>>
         /\ modemOn => Pending(mpend')
         /\ ~modemOn /\ mpend = <<>> => mpend' = <<>>
<1>0. mpend \in Seq(Chunk) /\ inq \in Seq(Chunk)
  BY DEF IInv, TypeOK
<1>1. /\ pc[c] = "send" /\ pc' = [pc EXCEPT ![c] = "sent"]
      /\ UNCHANGED <<op, rpc, modemOn, epending>> /\ ReaderBlocked
      /\ inq' = Aged(inq)
  BY DEF SendRequest, CallersRun
<1>2. \A d \in Callers : d # c => pc[d] \in {"idle", "locking"}
  BY <1>1, OneActive DEF IInv, Active
<1>3. \/ /\ modemOn
         /\ \E s \in {"OK", "ERROR"} :
              mpend' = Aged(mpend) \o <<[st |-> "INVALID", fresh |-> Timely],
                                        [st |-> s, fresh |-> Timely]>>
      \/ ~modemOn /\ mpend' = Aged(mpend)
  BY DEF SendRequest
<1>4. /\ Aged(mpend) \in Seq(Chunk) /\ (mpend = <<>> => Aged(mpend) = <<>>)
      /\ inq = <<>> => inq' = <<>>
  BY <1>0, <1>1, AgedFacts
<1>5. modemOn => Pending(mpend')
  BY <1>3, <1>4, PendingReply
<1> QED BY <1>1, <1>2, <1>3, <1>4, <1>5

\* Without the power key a modem that is off stays off, and silent.
LEMMA KeyStep ==
  ASSUME "togglepower" \notin Ops, Timely, IInv, KeyInv, [Next]_vars
  PROVE  KeyInv' /\ (modemOn' => modemOn)
<1>0. pc \in [Callers -> CallerPc] /\ op \in [Callers -> AllOps]
  BY DEF IInv, TypeOK
<1>1. ASSUME NEW c \in Callers, NEW o \in Ops, Call(c, o)
      PROVE  KeyInv' /\ (modemOn' => modemOn)
  <2>1. /\ pc' = [pc EXCEPT ![c] = "locking"] /\ op' = [op EXCEPT ![c] = o]
        /\ UNCHANGED <<mpend, modemOn>> /\ o # "togglepower"
    BY <1>1 DEF Call, modemVars
  <2> QED BY <1>0, <2>1 DEF KeyInv
<1>2. ASSUME NEW c \in Callers, SendRequest(c)
      PROVE  KeyInv' /\ (modemOn' => modemOn)
  BY <1>0, <1>2, RequestFacts DEF KeyInv
<1>3. ASSUME NEW c \in Callers,
             \/ SemWait(c) \/ SuspendWriter(c) \/ LockRx(c) \/ CopyResponse(c)
             \/ ResumeReader(c) \/ Unlock(c) \/ WriterTimeout(c)
      PROVE  KeyInv' /\ (modemOn' => modemOn)
  <2>1. /\ UNCHANGED <<op, mpend, modemOn>>
        /\ \E p \in CallerPc \ {"keylow", "keyhigh"} : pc' = [pc EXCEPT ![c] = p]
    BY <1>3 DEF SemWait, SuspendWriter, LockRx, CopyResponse, ResumeReader,
         Unlock, WriterTimeout, modemVars, CallerPc
  <2> QED BY <1>0, <2>1 DEF KeyInv
<1>4. ASSUME NEW c \in Callers, TimedOut(c)
      PROVE  KeyInv' /\ (modemOn' => modemOn)
  <2>1. /\ UNCHANGED <<op, mpend, modemOn>>
        /\ SignalSync([pc EXCEPT ![c] = "finish"])
    BY <1>4 DEF TimedOut, modemVars
  <2>2. \A d \in Callers : pc'[d] = pc[d] \/ pc'[d] \in {"finish", "send"}
    BY <1>0, <2>1 DEF SignalSync
  <2> QED BY <2>1, <2>2 DEF KeyInv
<1>5. ASSUME NEW c \in Callers, PowerKeyLow(c) \/ PowerKeyHigh(c) \/ PowerDone(c)
      PROVE  FALSE
  BY <1>5 DEF PowerKeyLow, PowerKeyHigh, PowerDone, KeyInv
<1>6. CASE GuardTimer
  <2>1. UNCHANGED <<op, mpend, modemOn>> /\ SignalSync(pc)
    BY <1>6 DEF GuardTimer, modemVars
  <2>2. \A d \in Callers : pc'[d] = pc[d] \/ pc'[d] = "send"
    BY <1>0, <2>1 DEF SignalSync
  <2> QED BY <2>1, <2>2 DEF KeyInv
<1>7. CASE ProcessMessage
  <2>1. /\ UNCHANGED <<op, mpend, modemOn>>
        /\ \A d \in Callers : pc'[d] = pc[d] \/ pc'[d] = "answered"
    BY <1>0, <1>7 DEF ProcessMessage, modemVars
  <2> QED BY <2>1 DEF KeyInv
<1>8. CASE ModemSend
  <2>1. UNCHANGED <<pc, op, modemOn>> /\ mpend # <<>>
    BY <1>8 DEF ModemSend, callVars
  <2> QED BY <2>1 DEF KeyInv
<1>9. CASE ModemOff
  <2>1. UNCHANGED <<pc, op>> /\ modemOn' = FALSE /\ mpend' = <<>>
    BY <1>9 DEF ModemOff, callVars
  <2> QED BY <2>1 DEF KeyInv
<1>10. CASE \/ ReaderLock \/ ReaderClear \/ WaitEvent \/ GetFlags \/ Drain
            \/ Park \/ (\E s \in Urcs : ModemUrc(s)) \/ UNCHANGED vars
  <2>1. UNCHANGED <<pc, op, mpend, modemOn>>
    BY <1>10 DEF ReaderLock, ReaderClear, WaitEvent, GetFlags, Drain, Park,
         ModemUrc, vars, callVars, modemVars
  <2> QED BY <2>1 DEF KeyInv
<1> QED
  BY <1>1, <1>2, <1>3, <1>4, <1>5, <1>6, <1>7, <1>8, <1>9, <1>10
  DEF Next, CallerStep, ReaderStep

\* The reply to a command that the reader does not see waits in the queue.
LEMMA LateStep ==
  ASSUME Timely, "INVALID" \notin Urcs, IInv, StrandInv, StrandInv', KeyInv,
         QueueFits, LateInv, [Next]_vars
  PROVE  LateInv'
<1> USE DEF Active
<1>0. /\ pc \in [Callers -> CallerPc] /\ inq \in Seq(Chunk)
      /\ writer \in Callers \cup {NULL} /\ NULL \notin Callers
  BY CallersAssumption DEF IInv, TypeOK
<1>1. ~Pending(<<>>)
  BY <1>0, PendingFacts
<1>2. ASSUME NEW c \in Callers, Active(c)
      PROVE  \A d \in Callers : d # c => pc[d] \in {"idle", "locking"}
  BY <1>2, OneActive DEF IInv
<1>3. ASSUME NEW c \in Callers, SendRequest(c) PROVE LateInv'
  <2>1. \A d \in Callers : pc'[d] \in {"idle", "locking", "sent"}
    BY <1>0, <1>3, RequestFacts
  <2> QED BY <1>3, <2>1, RequestFacts DEF LateInv
<1>4. ASSUME NEW c \in Callers, SuspendWriter(c) PROVE LateInv'
  <2>1. /\ pc[c] = "sent" /\ pc' = [pc EXCEPT ![c] = "suspended"]
        /\ UNCHANGED <<mpend, inq, rpc, modemOn>>
    BY <1>4 DEF SuspendWriter, readVars, lineVars, modemVars
  <2>2. \A d \in Callers : pc'[d] \in {"idle", "locking", "suspended"}
    BY <1>0, <1>2, <2>1
  <2> QED BY <2>1, <2>2 DEF LateInv
<1>5. ASSUME NEW c \in Callers, WriterTimeout(c) PROVE LateInv'
  <2>1. /\ pc[c] = "suspended" /\ pc' = [pc EXCEPT ![c] = "timedout"]
        /\ mpend = <<>> /\ UNCHANGED <<mpend, inq, rpc, modemOn>>
    BY <1>5 DEF WriterTimeout, readVars, lineVars, modemVars
  <2>2. \A d \in Callers : pc'[d] \in {"idle", "locking", "timedout"}
    BY <1>0, <1>2, <2>1
  <2>3. modemOn => rpc = "parked"
    BY <1>0, <2>1 DEF StrandInv, TimeoutMeansStranded
  <2>4. modemOn => Pending(inq)
    BY <1>1, <2>1, <2>3 DEF LateInv
  <2> QED BY <2>1, <2>2, <2>4 DEF LateInv
<1>6. ASSUME NEW c \in Callers, ResumeReader(c) PROVE LateInv'
  <2>1. pc[c] = "finish" /\ pc' = [pc EXCEPT ![c] = "unlock"]
    BY <1>6 DEF ResumeReader
  <2>2. \A d \in Callers : pc'[d] \in {"idle", "locking", "unlock"}
    BY <1>0, <1>2, <2>1
  <2> QED BY <2>2 DEF LateInv
<1>7. ASSUME UNCHANGED <<mpend, inq, rpc, modemOn>>,
             \A d \in Callers : pc'[d] = pc[d]
                                \/ pc'[d] \notin {"sent", "suspended", "timedout"}
      PROVE  LateInv'
  BY <1>7 DEF LateInv
<1>8. ASSUME NEW c \in Callers,
             \/ SemWait(c) \/ LockRx(c) \/ CopyResponse(c) \/ Unlock(c)
             \/ PowerKeyLow(c) \/ \E o \in Ops : Call(c, o)
      PROVE  LateInv'
  <2>1. /\ UNCHANGED <<mpend, inq, rpc, modemOn>>
        /\ \E p \in CallerPc \ {"sent", "suspended", "timedout"} :
             pc' = [pc EXCEPT ![c] = p]
    BY <1>8 DEF Call, SemWait, LockRx, CopyResponse, Unlock, PowerKeyLow,
         readVars, lineVars, modemVars, CallerPc
  <2> QED BY <1>0, <1>7, <2>1
<1>9. ASSUME NEW c \in Callers, PowerKeyHigh(c) \/ PowerDone(c) PROVE LateInv'
  BY <1>9 DEF PowerKeyHigh, PowerDone, KeyInv
<1>10. ASSUME NEW c \in Callers, TimedOut(c) PROVE LateInv'
  <2>1. /\ UNCHANGED <<mpend, inq, rpc, modemOn>>
        /\ SignalSync([pc EXCEPT ![c] = "finish"])
    BY <1>10 DEF TimedOut, readVars, lineVars, modemVars
  <2>2. \A d \in Callers : pc'[d] = pc[d] \/ pc'[d] \in {"finish", "send"}
    BY <1>0, <2>1 DEF SignalSync
  <2> QED BY <1>7, <2>1, <2>2
<1>11. CASE GuardTimer
  <2>1. UNCHANGED <<mpend, inq, rpc, modemOn>> /\ SignalSync(pc)
    BY <1>11 DEF GuardTimer, lineVars, modemVars
  <2>2. \A d \in Callers : pc'[d] = pc[d] \/ pc'[d] = "send"
    BY <1>0, <2>1 DEF SignalSync
  <2> QED BY <1>7, <2>1, <2>2
<1>12. CASE ProcessMessage
  <2>1. UNCHANGED <<mpend, inq, modemOn>> /\ rpc = "process"
    BY <1>12 DEF ProcessMessage, lineVars, modemVars
  <2>2. \A d \in Callers : pc'[d] = pc[d] \/ pc'[d] = "answered"
    BY <1>0, <1>12 DEF ProcessMessage
  <2>3. rpc' = "listen" \/ \A d \in Callers : pc'[d] # "suspended"
    BY <1>0, <1>12 DEF ProcessMessage, IInv, ReferencesSound
  <2>4. rpc' \in {"listen", "save"}
    BY <1>12 DEF ProcessMessage
  <2> QED BY <2>1, <2>2, <2>3, <2>4 DEF LateInv
<1>13. CASE ReaderLock \/ ReaderClear \/ WaitEvent \/ GetFlags \/ Park
  <2>1. /\ UNCHANGED <<pc, mpend, inq, modemOn>>
        /\ rpc' \in {"save", "parked"} => rpc \in {"save", "parked"}
    BY <1>13 DEF ReaderLock, ReaderClear, WaitEvent, GetFlags, Park, callVars,
         lineVars, modemVars
  <2> QED BY <2>1 DEF LateInv
<1>14. CASE Drain
  <2>1. /\ UNCHANGED <<pc, mpend, modemOn>>
        /\ rpc = "drain" /\ rpc' \in {"drain", "process"}
    BY <1>14 DEF Drain, callVars, modemVars
  <2>2. modemOn => \A c \in Callers : pc[c] # "timedout"
    BY <2>1 DEF StrandInv, TimeoutMeansStranded
  <2> QED BY <2>1, <2>2 DEF LateInv
<1>15. CASE ModemSend
  BY <1>1, <1>15, SentFacts DEF LateInv
<1>16. ASSUME NEW s \in Urcs, ModemUrc(s) PROVE LateInv'
  <2> DEFINE k == [st |-> s, fresh |-> FALSE]
  <2>1. UNCHANGED <<pc, mpend, rpc, modemOn>> /\ Incoming(k)
    BY <1>16 DEF ModemUrc, callVars, readVars, modemVars
  <2>2. k \in Chunk /\ k.st # "INVALID"
    BY ChunkFacts, BoundsAssumption
  <2> HIDE DEF k
  <2>3. Pending(inq) => Pending(inq')
    BY <2>1, <2>2, IncomingFacts
  <2> QED BY <2>1, <2>3 DEF LateInv
<1>17. CASE ModemOff
  BY <1>17 DEF ModemOff, LateInv
<1>18. CASE UNCHANGED vars
  <2>1. UNCHANGED <<pc, mpend, inq, rpc, modemOn>>
    BY <1>18 DEF vars, callVars, readVars, lineVars, modemVars
  <2> QED BY <1>7, <2>1
<1> QED
  BY <1>3, <1>4, <1>5, <1>6, <1>8, <1>9, <1>10, <1>11, <1>12, <1>13, <1>14,
     <1>15, <1>16, <1>17, <1>18
  DEF Next, CallerStep, ReaderStep

\* A stranded reader is stuck.
LEMMA StrandedStuck ==
  ASSUME IInv, StrandInv, LateInv, Stranded
  PROVE  Stuck
BY DEF LateInv, Stranded, Stuck, StuckOn, StuckOff

\* While the stuck reader is blocked, and only then do others run, it is
\* suspended, or the modem is off and nothing is left to read.
LEMMA StuckBlocked ==
  ASSUME IInv, StrandInv, Stuck, ReaderBlocked
  PROVE  \/ rpc \in {"save", "parked"}
         \/ ~modemOn /\ rpc = "listen" /\ inq = <<>> /\ ~epending
<1>1. \/ rpc \in {"save", "parked"}
      \/ rpc = "listen" /\ inq = <<>> /\ ~epending
  BY BlockedReader DEF StrandInv, Stuck
<1>2. ~Pending(<<>>)
  BY DEF Pending, sim8xxGetStatus
<1>3. modemOn => rpc \in {"save", "parked"}
  BY <1>1, <1>2 DEF Stuck, StuckOn
<1> QED BY <1>1, <1>3

\* The calls leave the reader stuck.
LEMMA StuckCalls ==
  ASSUME Timely, IInv, StrandInv, KeyInv, Stuck, NEW c \in Callers,
         CallerStep(c) \/ WriterTimeout(c) \/ \E o \in Ops : Call(c, o)
  PROVE  Stuck'
<1> USE DEF Active
<1>0. pc \in [Callers -> CallerPc] /\ reader \in {Reader, NULL} /\ NULL # Reader
  BY CallersAssumption DEF IInv, TypeOK
<1>1. ASSUME Active(c)
      PROVE  \A d \in Callers : d # c => pc[d] \in {"idle", "locking"}
  BY <1>1, OneActive DEF IInv
<1>2. /\ \/ rpc \in {"save", "parked"}
         \/ ~modemOn /\ rpc = "listen" /\ inq = <<>> /\ ~epending
      /\ \A d \in Callers : pc[d] \notin {"answered", "rxlocking"}
      /\ ~Pending(<<>>)
  <2>1. ReaderBlocked
    BY DEF CallerStep, Call, SemWait, SendRequest, SuspendWriter, TimedOut, LockRx,
         CopyResponse, ResumeReader, Unlock, PowerKeyLow, PowerKeyHigh, PowerDone,
         WriterTimeout, CallersRun
  <2> QED BY <2>1, StuckBlocked DEF Stuck, Pending, sim8xxGetStatus
<1>3. ASSUME modemOn
      PROVE  \A d \in Callers :
               /\ pc[d] = "sent" => Pending(mpend)
               /\ pc[d] = "suspended" =>
                    Pending(mpend) \/ (mpend = <<>> /\ Pending(inq))
               /\ pc[d] \in {"timedout", "finish"} => mpend = <<>> /\ Pending(inq)
  BY <1>2, <1>3 DEF Stuck, StuckOn
<1>4. ASSUME SendRequest(c) PROVE Stuck'
  <2>1. \A d \in Callers : pc'[d] \in {"idle", "locking", "sent"}
    BY <1>0, <1>4, RequestFacts
  <2>2. /\ UNCHANGED <<rpc, modemOn, epending>> /\ (inq = <<>> => inq' = <<>>)
        /\ modemOn => Pending(mpend')
    BY <1>4, RequestFacts
  <2>3. modemOn' => StuckOn'
    BY <1>2, <2>1, <2>2 DEF StuckOn
  <2>4. ~modemOn' => StuckOff'
    BY <1>2, <2>2 DEF StuckOff
  <2> QED BY <2>1, <2>3, <2>4 DEF Stuck
<1>5. ASSUME NEW p \in {"suspended", "timedout", "finish"},
             \A d \in Callers : pc'[d] \in {"idle", "locking", p},
             UNCHANGED <<mpend, inq, rpc, modemOn, epending>>,
             modemOn => Pending(mpend) \/ (mpend = <<>> /\ Pending(inq)),
             p # "suspended" => mpend = <<>>
      PROVE  Stuck'
  <2>1. modemOn' => StuckOn'
    BY <1>2, <1>5 DEF StuckOn
  <2>2. ~modemOn' => StuckOff'
    BY <1>2, <1>5 DEF StuckOff
  <2> QED BY <1>5, <2>1, <2>2 DEF Stuck
<1>6. ASSUME SuspendWriter(c) PROVE Stuck'
  <2>1. /\ pc[c] = "sent" /\ pc' = [pc EXCEPT ![c] = "suspended"]
        /\ UNCHANGED <<mpend, inq, rpc, modemOn, epending>>
    BY <1>6 DEF SuspendWriter, readVars, lineVars, modemVars
  <2>2. \A d \in Callers : pc'[d] \in {"idle", "locking", "suspended"}
    BY <1>0, <1>1, <2>1
  <2> QED BY <1>3, <1>5, <2>1, <2>2
<1>7. ASSUME WriterTimeout(c) PROVE Stuck'
  <2>1. /\ pc[c] = "suspended" /\ pc' = [pc EXCEPT ![c] = "timedout"]
        /\ mpend = <<>> /\ UNCHANGED <<mpend, inq, rpc, modemOn, epending>>
    BY <1>7 DEF WriterTimeout, readVars, lineVars, modemVars
  <2>2. \A d \in Callers : pc'[d] \in {"idle", "locking", "timedout"}
    BY <1>0, <1>1, <2>1
  <2> QED BY <1>3, <1>5, <2>1, <2>2
<1>8. ASSUME TimedOut(c) PROVE Stuck'
  <2>1. /\ pc[c] = "timedout" /\ SignalSync([pc EXCEPT ![c] = "finish"])
        /\ UNCHANGED <<mpend, inq, rpc, modemOn, epending>>
    BY <1>8 DEF TimedOut, readVars, lineVars, modemVars
  <2>2. \A d \in Callers : pc'[d] \in {"idle", "locking", "finish"}
    BY <1>0, <1>1, <2>1 DEF SignalSync
  <2>3. mpend = <<>>
    BY <1>3, <2>1 DEF KeyInv
  <2> QED BY <1>3, <1>5, <2>1, <2>2, <2>3
<1>9. ASSUME ResumeReader(c) PROVE Stuck'
  <2>1. /\ pc[c] = "finish" /\ pc' = [pc EXCEPT ![c] = "unlock"]
        /\ rpc' = IF reader # NULL THEN "lock" ELSE rpc
        /\ UNCHANGED <<mpend, inq, modemOn>>
    BY <1>9 DEF ResumeReader, lineVars, modemVars
  <2>2. \A d \in Callers : pc'[d] \in {"idle", "locking", "unlock"}
    BY <1>0, <1>1, <2>1
  <2>3. rpc' = rpc \/ rpc' = "lock"
    BY <2>1
  <2>4. modemOn' => StuckOn'
    BY <1>2, <1>3, <2>1, <2>2, <2>3 DEF StuckOn
  <2>5. StuckOff'
    BY <2>2 DEF StuckOff, Awaits
  <2> QED BY <2>2, <2>4, <2>5 DEF Stuck
<1>10. ASSUME \/ SemWait(c) \/ Unlock(c) \/ \E o \in Ops : Call(c, o)
      PROVE  Stuck'
  <2>1. /\ UNCHANGED <<mpend, inq, rpc, modemOn, epending>>
        /\ \E p \in {"locking", "semwait", "send", "idle"} :
             pc' = [pc EXCEPT ![c] = p]
    BY <1>10 DEF Call, SemWait, Unlock, readVars, lineVars, modemVars
  <2>2. \A d \in Callers :
          pc'[d] = pc[d] \/ pc'[d] \in {"locking", "semwait", "send", "idle"}
    BY <1>0, <2>1
  <2>3. modemOn' => StuckOn'
    BY <1>2, <1>3, <2>1, <2>2 DEF StuckOn
  <2>4. ~modemOn' => StuckOff'
    BY <1>2, <2>1 DEF StuckOff
  <2> QED BY <1>2, <2>2, <2>3, <2>4 DEF Stuck
<1>11. ASSUME \/ LockRx(c) \/ CopyResponse(c) \/ PowerKeyLow(c)
              \/ PowerKeyHigh(c) \/ PowerDone(c)
      PROVE  FALSE
  BY <1>2, <1>11 DEF LockRx, CopyResponse, PowerKeyLow, PowerKeyHigh, PowerDone,
       KeyInv
<1> QED BY <1>4, <1>6, <1>7, <1>8, <1>9, <1>10, <1>11 DEF CallerStep

\* The reader leaves itself stuck: what it reads is the reply that its
\* caller gave up, and it is suspended again before another one calls.
LEMMA StuckReader ==
  ASSUME IInv, StrandInv, Stuck, ReaderStep
  PROVE  Stuck'
<1>0. /\ pc \in [Callers -> CallerPc]
      /\ writer \in Callers \cup {NULL} /\ NULL \notin Callers
      /\ rxbuf \in Seq(Chunk) /\ inq \in Seq(Chunk) /\ modemOn \in BOOLEAN
  BY CallersAssumption DEF IInv, TypeOK
<1>1. ~Pending(<<>>) /\ \A d \in Callers : pc[d] \notin {"answered", "rxlocking"}
  BY DEF Stuck, Pending, sim8xxGetStatus
<1>2. UNCHANGED <<mpend, modemOn>>
  BY DEF ReaderStep, ReaderLock, ReaderClear, ProcessMessage, WaitEvent,
       GetFlags, Drain, Park, modemVars
<1>3. CASE Park
  <2>1. UNCHANGED <<pc, inq>> /\ rpc = "save" /\ rpc' = "parked"
    BY <1>3 DEF Park, callVars, lineVars
  <2>2. modemOn => StuckOn'
    BY <1>2, <2>1 DEF Stuck, StuckOn
  <2>3. StuckOff'
    BY <2>1 DEF StuckOff
  <2> QED BY <1>1, <1>2, <2>1, <2>2, <2>3 DEF Stuck
<1>4. ASSUME ReaderLock \/ ReaderClear \/ ProcessMessage \/ WaitEvent \/ GetFlags
             \/ Drain
      PROVE  Stuck'
  <2>1. rpc \notin {"save", "parked"} /\ (rpc = "listen" => epending)
    BY <1>4 DEF ReaderLock, ReaderClear, ProcessMessage, WaitEvent, GetFlags,
         Drain
  <2>2. \A d \in Callers : pc[d] \notin {"sent", "suspended"}
    <3>1. CASE modemOn
      BY <2>1, <3>1 DEF Stuck, StuckOn
    <3>2. CASE ~modemOn
      BY <2>1, <3>2 DEF Stuck, StuckOff, Awaits
    <3> QED BY <3>1, <3>2
  <2>3. \A d \in Callers : pc'[d] = pc[d]
    <3>1. CASE ProcessMessage
      <4>1. \A d \in Callers : d # writer
        BY <2>2 DEF IInv, ReferencesSound
      <4> QED BY <1>0, <3>1, <4>1 DEF ProcessMessage
    <3>2. CASE ReaderLock \/ ReaderClear \/ WaitEvent \/ GetFlags \/ Drain
      BY <3>2 DEF ReaderLock, ReaderClear, WaitEvent, GetFlags, Drain, callVars
    <3> QED BY <1>4, <3>1, <3>2
  <2>4. StuckOff'
    BY <2>2, <2>3 DEF StuckOff, Awaits
  <2>5. ASSUME modemOn PROVE StuckOn'
    <3>1. /\ \A d \in Callers :
               pc[d] \notin {"sent", "suspended", "timedout", "finish"}
          /\ \/ Pending(inq)
             \/ rpc \in {"drain", "process"} /\ inq = <<>> /\ Pending(rxbuf)
      BY <2>1, <2>5 DEF Stuck, StuckOn
    <3>2. SUFFICES \/ rpc' \in {"save", "parked"}
                   \/ rpc' \notin {"save", "parked"} /\ Pending(inq')
                   \/ rpc' \in {"drain", "process"} /\ inq' = <<>> /\ Pending(rxbuf')
      BY <2>3, <3>1 DEF StuckOn
    <3>3. CASE ReaderLock \/ ReaderClear \/ WaitEvent \/ GetFlags
      <4>1. inq' = inq /\ rpc' \notin {"save", "parked"} /\ rpc \notin {"drain", "process"}
        BY <3>3 DEF ReaderLock, ReaderClear, WaitEvent, GetFlags, lineVars
      <4> QED BY <3>1, <4>1
    <3>4. CASE ProcessMessage
      <4>1. /\ inq' = inq
            /\ rpc' = "save" \/ (rpc' = "listen" /\ ~Pending(rxbuf))
        BY <3>4 DEF ProcessMessage, lineVars, Pending
      <4> QED BY <3>1, <4>1
    <3>5. CASE Drain
      <4>1. CASE inq = <<>>
        <5>1. rpc' = "process" /\ UNCHANGED <<rxbuf, inq>>
          BY <3>5, <4>1 DEF Drain
        <5> QED BY <1>1, <3>1, <4>1, <5>1
      <4>2. CASE inq # <<>>
        <5>1. /\ rxbuf' = Append(rxbuf, Head(inq)) /\ inq' = Tail(inq)
              /\ rpc' = "drain"
          BY <3>5, <4>2 DEF Drain
        <5>2. /\ Head(inq) \in Chunk
              /\ Pending(inq') \/ (inq' = <<>> /\ Head(inq).st # "INVALID")
          BY <1>0, <3>1, <4>2, <5>1, PendingTail
        <5>3. Head(inq).st # "INVALID" => Pending(rxbuf')
          BY <1>0, <5>1, <5>2, PendingFacts
        <5> QED BY <5>1, <5>2, <5>3
      <4> QED BY <4>1, <4>2
    <3> QED BY <1>4, <3>3, <3>4, <3>5
  <2> QED BY <1>1, <1>2, <2>3, <2>4, <2>5 DEF Stuck
<1> QED BY <1>3, <1>4 DEF ReaderStep

\* Nothing that the modem sends helps, as long as it fits the queue.
LEMMA StuckModem ==
  ASSUME Timely, "INVALID" \notin Urcs, IInv, StrandInv, KeyInv, QueueFits, Stuck,
         ModemSend \/ ModemOff \/ (\E s \in Urcs : ModemUrc(s))
  PROVE  Stuck'
<1>1. ~Pending(<<>>) /\ \A d \in Callers : pc[d] \notin {"answered", "rxlocking"}
  BY DEF Stuck, Pending, sim8xxGetStatus
<1>2. ASSUME ReaderBlocked, modemOn
      PROVE  /\ rpc \in {"save", "parked"}
             /\ \A d \in Callers :
                  /\ pc[d] = "sent" => Pending(mpend)
                  /\ pc[d] = "suspended" =>
                       Pending(mpend) \/ (mpend = <<>> /\ Pending(inq))
                  /\ pc[d] \in {"timedout", "finish"} =>
                       mpend = <<>> /\ Pending(inq)
  <2>1. rpc \in {"save", "parked"}
    BY <1>2, StuckBlocked
  <2> QED BY <1>2, <2>1 DEF Stuck, StuckOn
<1>3. CASE ModemOff
  <2>1. /\ UNCHANGED <<pc, rpc, inq, epending>> /\ modemOn' = FALSE
        /\ ReaderBlocked
    BY <1>3 DEF ModemOff, CallersRun, callVars, readVars, lineVars
  <2>2. StuckOff'
    BY <2>1, StuckBlocked DEF StuckOff
  <2> QED BY <1>1, <2>1, <2>2 DEF Stuck
<1>4. CASE ModemSend
  <2>1. modemOn
    BY <1>4, SentFacts DEF KeyInv
  <2>2. StuckOn'
    BY <1>1, <1>2, <1>4, <2>1, SentFacts DEF StuckOn
  <2> QED BY <1>1, <1>4, <2>1, <2>2, SentFacts DEF Stuck
<1>5. ASSUME NEW s \in Urcs, ModemUrc(s) PROVE Stuck'
  <2> DEFINE k == [st |-> s, fresh |-> FALSE]
  <2>1. /\ UNCHANGED <<pc, mpend, rpc, modemOn>> /\ Incoming(k)
        /\ modemOn /\ ReaderBlocked
    BY <1>5 DEF ModemUrc, CallersRun, callVars, readVars, modemVars
  <2>2. k \in Chunk /\ k.st # "INVALID"
    BY ChunkFacts, BoundsAssumption
  <2> HIDE DEF k
  <2>3. Pending(inq) => Pending(inq')
    BY <2>1, <2>2, IncomingFacts
  <2>4. StuckOn'
    BY <1>2, <2>1, <2>3 DEF StuckOn
  <2> QED BY <1>1, <2>1, <2>4 DEF Stuck
<1> QED BY <1>3, <1>4, <1>5

\* The reader stays stuck.
LEMMA StuckStep ==
  ASSUME Timely, "INVALID" \notin Urcs, IInv, StrandInv, KeyInv, QueueFits, Stuck,
         [Next]_vars
  PROVE  Stuck'
<1>0. pc \in [Callers -> CallerPc]
  BY DEF IInv, TypeOK
<1>1. ASSUME UNCHANGED <<mpend, inq, rxbuf, rpc, modemOn, epending>>,
             \A d \in Callers : pc'[d] = pc[d] \/ pc'[d] = "send"
      PROVE  Stuck'
  <2>1. StuckOn => StuckOn'
    BY <1>1 DEF StuckOn
  <2>2. StuckOff => StuckOff'
    BY <1>1 DEF StuckOff, Awaits
  <2> QED BY <1>1, <2>1, <2>2 DEF Stuck
<1>2. CASE GuardTimer
  <2>1. /\ UNCHANGED <<mpend, inq, rxbuf, rpc, modemOn, epending>>
        /\ SignalSync(pc)
    BY <1>2 DEF GuardTimer, lineVars, modemVars
  <2>2. \A d \in Callers : pc'[d] = pc[d] \/ pc'[d] = "send"
    BY <1>0, <2>1 DEF SignalSync
  <2> QED BY <1>1, <2>1, <2>2
<1>3. CASE UNCHANGED vars
  <2>1. UNCHANGED <<pc, mpend, inq, rxbuf, rpc, modemOn, epending>>
    BY <1>3 DEF vars, callVars, readVars, lineVars, modemVars
  <2> QED BY <1>1, <2>1
<1> QED BY <1>2, <1>3, StuckCalls, StuckReader, StuckModem DEF Next

\* A reader that a final status sent unasked has stranded stays one command
\* behind: no caller is answered again (sim8xxReaderThread.c:90-119), as long
\* as what the modem sends fits the input queue, all it sends unasked ends in
\* a final status and the power key is not used.
THEOREM StrandedSafe ==
  ASSUME Timely, "INVALID" \notin Urcs, "togglepower" \notin Ops
  PROVE  Spec /\ []QueueFits => StrandedForever
<1>1. Init => KeyInv /\ LateInv
  BY DEF Init, KeyInv, LateInv
<1>2. IInv /\ KeyInv /\ [Next]_vars => KeyInv'
  BY KeyStep
<1>3. IInv /\ StrandInv /\ StrandInv' /\ KeyInv /\ QueueFits /\ LateInv /\ [Next]_vars
        => LateInv'
  BY LateStep
<1>4. IInv /\ StrandInv /\ LateInv /\ Stranded => Stuck
  BY StrandedStuck
<1>5. IInv /\ StrandInv /\ KeyInv /\ QueueFits /\ Stuck /\ [Next]_vars => Stuck'
  BY StuckStep
<1> DEFINE Unanswered == \A c \in Callers : pc[c] # "answered"
<1>6. Stuck => Unanswered
  BY DEF Stuck
<1> HIDE DEF Unanswered
<1>7. Spec /\ []QueueFits => [](Stranded => []Unanswered)
  BY StrandInductive, <1>1, <1>2, <1>3, <1>4, <1>5, <1>6, PTL DEF Spec
<1> QED BY <1>7 DEF StrandedForever, Unanswered
=============================================================================
