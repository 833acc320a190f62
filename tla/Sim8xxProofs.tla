---------------------------- MODULE Sim8xxProofs ----------------------------
(***************************************************************************)
(* Proofs about Sim8xx, for any set of callers, any modem and any bounds.  *)
(*                                                                         *)
(* The inductive invariant IInv adds to the properties proved: who owns    *)
(* the two mutexes, and where the token of sync is.                        *)
(***************************************************************************)
EXTENDS Sim8xx, TLAPS

InSeq(s, x) == \E i \in 1 .. Len(s) : s[i] = x

\* A caller that is past chMtxLock(&lock) and has not returned.
Active(c) == pc[c] \notin {"idle", "locking"}

\* An active caller owns "lock", an idle one does not queue for it, and
\* nobody queues twice.
LockInv ==
  /\ \A c \in Callers : Active(c) => Owns(lock, c)
  /\ \A c \in Callers : pc[c] = "idle" => ~InSeq(lock, c)
  /\ \A i, j \in 1 .. Len(lock) : lock[i] = lock[j] => i = j

\* The reader owns "rxlock" from chMtxLock to chMtxUnlockS.
RxInv ==
  rpc \in {"process", "listen", "getflags", "drain", "save"} =>
    Owns(rxlock, Reader)

\* A caller that holds the token, or whose answer is being saved.
Carries(c) ==
  \/ pc[c] \in {"send", "sent", "suspended", "timedout"}
  \/ pc[c] \in {"answered", "rxlocking"} /\ rpc = "save"

\* The token is in sync, with the guard timer or with a caller; sync is
\* negative exactly while a caller waits.
TokenInv ==
  /\ sync >= -1
  /\ sync = -1 <=> \E c \in Callers : pc[c] = "semwait"
  /\ sync >= 1 \/ guard \/ \E c \in Callers : Carries(c)

\* A deaf driver: the reader never gets past chEvtWaitAny.
DeafInv ==
  deaf => /\ inq # <<>> /\ rxbuf = <<>>
          /\ ~epending /\ ~flags
          /\ rpc \in {"lock", "locking", "process", "listen"}
          /\ \A c \in Callers : pc[c] \notin {"answered", "rxlocking"}

IInv ==
  /\ TypeOK
  /\ LockInv
  /\ RxInv
  /\ TokenInv
  /\ AnswerIntact
  /\ ReferencesSound
  /\ NoLostWakeup
  /\ DeafInv

-----------------------------------------------------------------------------
(* Sequences.                                                              *)

\* A thread that queues for a mutex does not take it from its owner.
LEMMA AppendFacts ==
  ASSUME NEW S, NEW s \in Seq(S), NEW x \in S
  PROVE  /\ Append(s, x) \in Seq(S)
         /\ \A t : Owns(s, t) => Owns(Append(s, x), t)
         /\ \A y : InSeq(Append(s, x), y) => InSeq(s, y) \/ y = x
BY DEF Owns, InSeq

\* What is left of a queue when its head is removed.
LEMMA TailFacts ==
  ASSUME NEW S, NEW s \in Seq(S), s # <<>>
  PROVE  /\ Tail(s) \in Seq(S)
         /\ Len(Tail(s)) = Len(s) - 1
         /\ \A i \in 1 .. Len(Tail(s)) : Tail(s)[i] = s[i + 1]
         /\ Head(s) = s[1] /\ Len(s) >= 1
OBVIOUS

\* The short tuples that the actions build are sequences.
LEMMA TupleFacts ==
  ASSUME NEW S, NEW a \in S, NEW b \in S, NEW s \in Seq(S)
  PROVE  /\ <<>> \in Seq(S)
         /\ <<a>> \in Seq(S)
         /\ s \o <<a, b>> \in Seq(S)
OBVIOUS

\* Chunks are made of, and consist of, a status and a history bit.
LEMMA ChunkFacts ==
  /\ \A s \in Status, b \in BOOLEAN : [st |-> s, fresh |-> b] \in Chunk
  /\ \A k \in Chunk : k.st \in Status /\ k.fresh \in BOOLEAN
  /\ {"OK", "ERROR", "RING", "INVALID", "TIMEOUT"} = Status
BY DEF Chunk, Status

\* Aged keeps the statuses and the length of a text.
LEMMA AgedFacts ==
  ASSUME NEW s \in Seq(Chunk)
  PROVE  /\ Aged(s) \in Seq(Chunk)
         /\ Aged(s) = <<>> <=> s = <<>>
<1>1. \A i \in 1 .. Len(s) : s[i] \in Chunk
  OBVIOUS
<1>2. \A k \in Chunk : k.st \in Status
  BY DEF Chunk
<1>3. \A i \in 1 .. Len(s) : [st |-> s[i].st, fresh |-> FALSE] \in Chunk
  BY <1>1, <1>2 DEF Chunk
<1> DEFINE A == [i \in 1 .. Len(s) |-> [st |-> s[i].st, fresh |-> FALSE]]
<1>4. A \in Seq(Chunk) /\ Len(A) = Len(s)
  <2>1. A \in [1 .. Len(s) -> Chunk]
    BY <1>3
  <2> HIDE DEF A
  <2> QED BY <2>1
<1>5. A = <<>> <=> s = <<>>
  <2> HIDE DEF A
  <2> QED BY <1>4
<1> QED BY <1>4, <1>5 DEF Aged

-----------------------------------------------------------------------------
(* Initial states.                                                         *)

\* The driver starts in the invariant (sim8xxInit, sim8xxStart).
LEMMA InitIInv == Init => IInv
<1> SUFFICES ASSUME Init PROVE IInv
  OBVIOUS
<1> USE CallersAssumption, BoundsAssumption DEF Init
<1>1. TypeOK
  <2>1. [st |-> "INVALID", fresh |-> FALSE] \in Chunk
    BY DEF Chunk, Status
  <2>2. /\ pc \in [Callers -> CallerPc]
        /\ op \in [Callers -> AllOps]
        /\ cmd \in [Callers -> Chunk]
    BY <2>1 DEF CallerPc, AllOps
  <2>3. /\ lock \in Seq(Callers) /\ rxlock \in Seq(Callers \cup {Reader})
        /\ rxbuf \in Seq(Chunk) /\ mpend \in Seq(Chunk)
    OBVIOUS
  <2>6. inq \in Seq(Chunk)
    <3> HIDE DEF Init
    <3>1. inq = <<>> \/ inq = <<[st |-> "INVALID", fresh |-> FALSE]>>
      BY DEF Init, ReaderRegisters
    <3>2. /\ <<[st |-> "INVALID", fresh |-> FALSE]>> \in Seq(Chunk)
          /\ <<>> \in Seq(Chunk)
      BY <2>1, TupleFacts
    <3> QED BY <3>1, <3>2
  <2>4. /\ sync \in Int
        /\ writer \in Callers \cup {NULL} /\ reader \in {Reader, NULL}
        /\ rpc \in ReaderPc
    BY DEF ReaderPc
  <2>5. /\ guard \in BOOLEAN /\ epending \in BOOLEAN /\ flags \in BOOLEAN
        /\ modemOn \in BOOLEAN /\ toggled \in BOOLEAN /\ deaf \in BOOLEAN
    BY DEF ReaderRegisters
  <2> QED BY <2>2, <2>3, <2>4, <2>5, <2>6 DEF TypeOK
<1>2. LockInv
  BY DEF LockInv, Active, InSeq
<1>3. RxInv /\ TokenInv /\ AnswerIntact /\ ReferencesSound
  BY DEF RxInv, TokenInv, Carries, AnswerIntact, ReferencesSound
<1>4. NoLostWakeup /\ DeafInv
  <2>1. deaf = (inq # <<>>) /\ ~epending /\ ~flags
    BY DEF ReaderRegisters
  <2> QED BY <2>1 DEF NoLostWakeup, DeafInv
<1> QED BY <1>1, <1>2, <1>3, <1>4 DEF IInv
-----------------------------------------------------------------------------
(* Every step preserves the invariant, conjunct by conjunct.               *)

\* Every step keeps the types.
LEMMA TypeStep ==
  ASSUME TypeOK, LockInv, RxInv, [Next]_vars
  PROVE  TypeOK'
<1> USE CallersAssumption, BoundsAssumption
    DEF TypeOK, vars, callVars, syncVars, readVars, lineVars, modemVars,
        CallerPc, ReaderPc, pastVars
<1>a. ASSUME NEW c \in Callers, NEW o \in Ops, Call(c, o) PROVE TypeOK'
  <2>1. o \in AllOps /\ [st |-> "INVALID", fresh |-> FALSE] \in Chunk
    BY ChunkFacts
  <2>2. op' \in [Callers -> AllOps] /\ cmd' \in [Callers -> Chunk]
    BY <1>a, <2>1 DEF Call
  <2>3. lock' \in Seq(Callers)
    BY <1>a DEF Call
  <2> QED BY <1>a, <2>2, <2>3 DEF Call
<1>1. ASSUME NEW c \in Callers, SemWait(c) PROVE TypeOK'
  BY <1>1 DEF SemWait
<1>2. ASSUME NEW c \in Callers, SendRequest(c) PROVE TypeOK'
  <2>1. inq' \in Seq(Chunk) /\ rxbuf' \in Seq(Chunk)
    BY <1>2, AgedFacts DEF SendRequest
  <2>2. mpend' \in Seq(Chunk)
    <3>1. Aged(mpend) \in Seq(Chunk)
      BY AgedFacts
    <3>2. ASSUME NEW s \in {"OK", "ERROR"}
          PROVE  Aged(mpend) \o <<[st |-> "INVALID", fresh |-> Timely],
                   [st |-> s, fresh |-> Timely]>> \in Seq(Chunk)
      <4>1. /\ [st |-> "INVALID", fresh |-> Timely] \in Chunk
            /\ [st |-> s, fresh |-> Timely] \in Chunk
        BY ChunkFacts
      <4> QED BY <4>1, <3>1, TupleFacts
    <3>3. \/ mpend' = Aged(mpend)
          \/ \E s \in {"OK", "ERROR"} :
               mpend' = Aged(mpend) \o <<[st |-> "INVALID", fresh |-> Timely],
                                         [st |-> s, fresh |-> Timely]>>
      BY <1>2 DEF SendRequest
    <3> QED BY <3>1, <3>2, <3>3
  <2> QED BY <1>2, <2>1, <2>2 DEF SendRequest
<1>3. ASSUME NEW c \in Callers, SuspendWriter(c) PROVE TypeOK'
  BY <1>3 DEF SuspendWriter
<1>4. ASSUME NEW c \in Callers, TimedOut(c) PROVE TypeOK'
  <2>1. [st |-> "TIMEOUT", fresh |-> FALSE] \in Chunk
    BY ChunkFacts
  <2>2. cmd' \in [Callers -> Chunk]
    BY <1>4, <2>1 DEF TimedOut
  <2>3. pc' \in [Callers -> CallerPc] /\ sync' \in Int
    BY <1>4 DEF TimedOut, SignalSync
  <2> QED BY <1>4, <2>2, <2>3 DEF TimedOut
<1>5. ASSUME NEW c \in Callers, LockRx(c) PROVE TypeOK'
  BY <1>5 DEF LockRx
<1>6. ASSUME NEW c \in Callers, CopyResponse(c) PROVE TypeOK'
  <2>1. sim8xxGetStatus(rxbuf) \in Status
    BY ChunkFacts DEF sim8xxGetStatus
  <2>2. (rxbuf # <<>> /\ rxbuf[Len(rxbuf)].fresh) \in BOOLEAN
    OBVIOUS
  <2>3. cmd' \in [Callers -> Chunk]
    BY <1>6, <2>1, <2>2, ChunkFacts DEF CopyResponse
  <2>4. rxlock' \in Seq(Callers \cup {Reader})
    BY <1>6, TailFacts DEF CopyResponse, Owns
  <2> QED BY <1>6, <2>3, <2>4 DEF CopyResponse
<1>7. ASSUME NEW c \in Callers, ResumeReader(c) PROVE TypeOK'
  BY <1>7 DEF ResumeReader
<1>8. ASSUME NEW c \in Callers, Unlock(c) PROVE TypeOK'
  <2>1. lock # <<>>
    BY <1>8 DEF Unlock, LockInv, Active, Owns
  <2>2. lock' \in Seq(Callers)
    BY <1>8, <2>1, TailFacts DEF Unlock
  <2> QED BY <1>8, <2>2 DEF Unlock
<1>9. ASSUME NEW c \in Callers, PowerKeyLow(c) PROVE TypeOK'
  BY <1>9 DEF PowerKeyLow
<1>10. ASSUME NEW c \in Callers, PowerKeyHigh(c) PROVE TypeOK'
  <2>1. mpend' \in Seq(Chunk)
    <3>1. <<[st |-> "INVALID", fresh |-> FALSE]>> \in Seq(Chunk)
      <4>1. [st |-> "INVALID", fresh |-> FALSE] \in Chunk
        BY ChunkFacts
      <4> QED BY <4>1, TupleFacts
    <3>2. \/ mpend' = <<>>
          \/ mpend' = <<[st |-> "INVALID", fresh |-> FALSE]>>
      BY <1>10 DEF PowerKeyHigh
    <3>3. <<>> \in Seq(Chunk)
      OBVIOUS
    <3> QED BY <3>1, <3>2, <3>3
  <2>2. modemOn' \in BOOLEAN /\ toggled' \in BOOLEAN
    BY <1>10 DEF PowerKeyHigh
  <2> QED BY <1>10, <2>1, <2>2 DEF PowerKeyHigh
<1>11. ASSUME NEW c \in Callers, PowerDone(c) PROVE TypeOK'
  <2>1. pc' \in [Callers -> CallerPc] /\ sync' \in Int
    BY <1>11 DEF PowerDone, SignalSync
  <2> QED BY <1>11, <2>1 DEF PowerDone
<1>12. ASSUME NEW c \in Callers, WriterTimeout(c) PROVE TypeOK'
  BY <1>12 DEF WriterTimeout
<1>13. CASE ReaderLock
  BY <1>13 DEF ReaderLock
<1>14. CASE ReaderClear
  BY <1>14 DEF ReaderClear
<1>15. CASE ProcessMessage
  BY <1>15 DEF ProcessMessage
<1>16. CASE WaitEvent
  BY <1>16 DEF WaitEvent
<1>17. CASE GetFlags
  BY <1>17 DEF GetFlags
<1>18. CASE Drain
  <2>1. rxbuf' \in Seq(Chunk) /\ inq' \in Seq(Chunk)
    <3>1. CASE inq # <<>>
      <4>1. Head(inq) \in Chunk /\ Tail(inq) \in Seq(Chunk)
        BY <3>1
      <4>2. Append(rxbuf, Head(inq)) \in Seq(Chunk)
        BY <4>1
      <4>3. rxbuf' = Append(rxbuf, Head(inq)) /\ inq' = Tail(inq)
        BY <1>18, <3>1 DEF Drain
      <4> QED BY <4>1, <4>2, <4>3
    <3>2. CASE inq = <<>>
      BY <1>18, <3>2 DEF Drain
    <3> QED BY <3>1, <3>2
  <2> QED BY <1>18, <2>1 DEF Drain
<1>19. CASE Park
  <2>1. rxlock' \in Seq(Callers \cup {Reader})
    BY <1>19, TailFacts DEF Park, RxInv, Owns
  <2> QED BY <1>19, <2>1 DEF Park
<1>20. CASE GuardTimer
  <2>1. pc' \in [Callers -> CallerPc] /\ sync' \in Int
    BY <1>20 DEF GuardTimer, SignalSync
  <2> QED BY <1>20, <2>1 DEF GuardTimer
<1>21. CASE ModemSend
  <2>1. inq' \in Seq(Chunk) /\ mpend' \in Seq(Chunk)
    BY <1>21, TailFacts, AppendFacts DEF ModemSend, Incoming
  <2>2. epending' \in BOOLEAN /\ flags' \in BOOLEAN
    BY <1>21 DEF ModemSend, Incoming
  <2> QED BY <1>21, <2>1, <2>2 DEF ModemSend
<1>22. CASE ModemOff
  <2>1. mpend' = <<>> /\ modemOn' = FALSE
    BY <1>22 DEF ModemOff
  <2>2. mpend' \in Seq(Chunk)
    BY <2>1
  <2> QED BY <1>22, <2>1, <2>2 DEF ModemOff
<1>23. ASSUME NEW s \in Urcs, ModemUrc(s) PROVE TypeOK'
  <2>1. [st |-> s, fresh |-> FALSE] \in Chunk
    BY ChunkFacts
  <2>2. inq' \in Seq(Chunk)
    BY <1>23, <2>1, AppendFacts DEF ModemUrc, Incoming
  <2>3. epending' \in BOOLEAN /\ flags' \in BOOLEAN
    BY <1>23 DEF ModemUrc, Incoming
  <2> QED BY <1>23, <2>2, <2>3 DEF ModemUrc
<1>24. CASE UNCHANGED vars
  BY <1>24 DEF vars, callVars, syncVars, readVars, lineVars, modemVars
<1> QED
  BY <1>a, <1>1, <1>2, <1>3, <1>4, <1>5, <1>6, <1>7, <1>8, <1>9, <1>10, <1>11, <1>12, <1>13, <1>14, <1>15, <1>16, <1>17, <1>18, <1>19, <1>20, <1>21, <1>22, <1>23, <1>24
  DEF Next, CallerStep, ReaderStep

\* Two callers are never both past chMtxLock(&lock).
LEMMA OneActive ==
  ASSUME LockInv, NEW c \in Callers, NEW d \in Callers, Active(c), Active(d)
  PROVE  c = d
BY DEF LockInv, Owns

\* The mutex discipline survives any step that leaves lock, and who is
\* active, alone.
LEMMA LockKept ==
  ASSUME LockInv, lock' = lock,
         \A d \in Callers : Active(d)' => Active(d) \/ Owns(lock, d),
         \A d \in Callers : pc'[d] = "idle" => pc[d] = "idle"
  PROVE  LockInv'
BY DEF LockInv, InSeq, Owns

\* Every step keeps the discipline of the mutex "lock": only Call queues
\* for it and only Unlock hands it over.
LEMMA LockStep ==
  ASSUME TypeOK, LockInv, ReferencesSound, [Next]_vars
  PROVE  LockInv'
<1> USE DEF Active
<1>0. pc \in [Callers -> CallerPc] /\ lock \in Seq(Callers)
  BY DEF TypeOK
<1>1. ASSUME NEW c \in Callers, NEW o \in Ops, Call(c, o) PROVE LockInv'
  <2>1. lock' = Append(lock, c) /\ pc' = [pc EXCEPT ![c] = "locking"]
    BY <1>1 DEF Call
  <2>2. pc[c] = "idle"
    BY <1>1 DEF Call
  <2>3. \A d \in Callers : Active(d)' => Owns(lock, d)
    BY <1>0, <2>1 DEF LockInv
  <2>4. \A d \in Callers : Active(d)' => Owns(lock', d)
    BY <1>0, <2>1, <2>3, AppendFacts
  <2>5. \A d \in Callers : pc'[d] = "idle" => ~InSeq(lock', d)
    <3>1. \A d \in Callers : pc'[d] = "idle" => pc[d] = "idle" /\ d # c
      BY <1>0, <2>1
    <3> QED BY <1>0, <2>1, <3>1, AppendFacts DEF LockInv
  <2>6. \A i, j \in 1 .. Len(lock') : lock'[i] = lock'[j] => i = j
    <3>1. ~InSeq(lock, c)
      BY <2>2 DEF LockInv
    <3> QED BY <1>0, <2>1, <3>1 DEF LockInv, InSeq
  <2> QED BY <2>4, <2>5, <2>6 DEF LockInv, Owns, InSeq
<1>2. ASSUME NEW c \in Callers, Unlock(c) PROVE LockInv'
  <2>1. lock' = Tail(lock) /\ pc' = [pc EXCEPT ![c] = "idle"] /\ Active(c)
    BY <1>2 DEF Unlock
  <2>2. Owns(lock, c)
    BY <2>1 DEF LockInv
  <2>3. \A d \in Callers : ~Active(d)'
    BY <1>0, <2>1, OneActive
  <2>4. /\ Len(lock') = Len(lock) - 1 /\ Len(lock) >= 1 /\ lock[1] = c
        /\ \A i \in 1 .. Len(lock') : lock'[i] = lock[i + 1]
    BY <1>0, <2>1, <2>2, TailFacts DEF Owns
  <2>5. Len(lock) \in Nat
    BY <1>0
  <2>6. \A i \in 1 .. Len(lock') : i + 1 \in 1 .. Len(lock) /\ i + 1 # 1
    BY <2>4, <2>5
  <2>7. \A i, j \in 1 .. Len(lock') : lock'[i] = lock'[j] => i = j
    BY <2>4, <2>5, <2>6 DEF LockInv
  <2>8. \A d \in Callers : pc'[d] = "idle" => ~InSeq(lock', d)
    <3> SUFFICES ASSUME NEW d \in Callers, pc'[d] = "idle",
                        NEW i \in 1 .. Len(lock'), lock'[i] = d
                 PROVE  FALSE
      BY DEF InSeq
    <3>1. lock[i + 1] = d /\ i + 1 \in 1 .. Len(lock)
      BY <2>4, <2>6
    <3>2. CASE d = c
      <4>1. 1 \in 1 .. Len(lock)
        BY <2>4, <2>5
      <4> QED BY <2>4, <2>6, <3>1, <3>2, <4>1 DEF LockInv
    <3>3. CASE d # c
      BY <1>0, <2>1, <3>1, <3>3 DEF LockInv, InSeq
    <3> QED BY <3>2, <3>3
  <2> QED BY <2>3, <2>7, <2>8 DEF LockInv, InSeq
<1>3. ASSUME NEW c \in Callers,
             \/ SemWait(c) \/ SendRequest(c) \/ SuspendWriter(c) \/ LockRx(c)
             \/ CopyResponse(c) \/ ResumeReader(c) \/ PowerKeyLow(c)
             \/ PowerKeyHigh(c) \/ WriterTimeout(c)
      PROVE  LockInv'
  <2>1. /\ lock' = lock
        /\ Active(c) \/ Owns(lock, c)
        /\ \E p \in CallerPc \ {"idle"} : pc' = [pc EXCEPT ![c] = p]
    BY <1>3 DEF SemWait, SendRequest, SuspendWriter, LockRx, CopyResponse,
         ResumeReader, PowerKeyLow, PowerKeyHigh, WriterTimeout, CallerPc,
         syncVars
  <2> QED BY <1>0, <2>1, LockKept
<1>4. ASSUME NEW c \in Callers, TimedOut(c) \/ PowerDone(c) PROVE LockInv'
  <2>1. /\ lock' = lock
        /\ Active(c)
        /\ \E p \in CallerPc \ {"idle", "locking"}, q \in [Callers -> CallerPc] :
             /\ q = [pc EXCEPT ![c] = p]
             /\ SignalSync(q)
    BY <1>0, <1>4 DEF TimedOut, PowerDone, CallerPc
  <2> QED BY <1>0, <2>1, LockKept DEF SignalSync
<1>5. ASSUME GuardTimer PROVE LockInv'
  <2>1. lock' = lock /\ SignalSync(pc)
    BY <1>5 DEF GuardTimer
  <2> QED BY <1>0, <2>1, LockKept DEF SignalSync
<1>6. ASSUME ProcessMessage PROVE LockInv'
  <2>1. lock' = lock
    BY <1>6 DEF ProcessMessage
  <2>2. \A d \in Callers :
          pc'[d] = pc[d] \/ (d = writer /\ pc'[d] = "answered")
    BY <1>0, <1>6 DEF ProcessMessage
  <2>3. \A d \in Callers : d = writer => Active(d)
    BY DEF ReferencesSound
  <2> QED BY <1>0, <2>1, <2>2, <2>3, LockKept
<1>7. ASSUME UNCHANGED <<pc, lock>> PROVE LockInv'
  BY <1>7, LockKept
<1> QED
  <2>1. ASSUME \/ ReaderLock \/ ReaderClear \/ WaitEvent \/ GetFlags \/ Drain
               \/ Park \/ ModemSend \/ ModemOff
               \/ \E s \in Urcs : ModemUrc(s)
               \/ UNCHANGED vars
        PROVE  UNCHANGED <<pc, lock>>
    BY <2>1 DEF ReaderLock, ReaderClear, WaitEvent, GetFlags, Drain, Park,
         ModemSend, ModemOff, ModemUrc, vars, callVars, syncVars
  <2> QED BY <1>1, <1>2, <1>3, <1>4, <1>5, <1>6, <1>7, <2>1
          DEF Next, CallerStep, ReaderStep

\* Every step keeps the reader the owner of "rxlock" while it works.
LEMMA RxStep ==
  ASSUME TypeOK, RxInv, ReferencesSound, [Next]_vars
  PROVE  RxInv'
<1>0. /\ rxlock \in Seq(Callers \cup {Reader}) /\ Reader \notin Callers
      /\ rpc \in ReaderPc
  BY CallersAssumption DEF TypeOK
<1>1. ASSUME NEW c \in Callers, LockRx(c) PROVE RxInv'
  <2>1. rxlock' = Append(rxlock, c) /\ rpc' = rpc
    BY <1>1 DEF LockRx, readVars
  <2>2. Owns(rxlock, Reader) => Owns(rxlock', Reader)
    BY <1>0, <2>1, AppendFacts
  <2> QED BY <2>1, <2>2 DEF RxInv, Owns
<1>2. ASSUME NEW c \in Callers, CopyResponse(c) PROVE RxInv'
  <2>1. ~Owns(rxlock, Reader) /\ rpc' = rpc
    BY <1>0, <1>2 DEF CopyResponse, Owns, readVars
  <2> QED BY <2>1 DEF RxInv
<1>3. ASSUME NEW c \in Callers, ResumeReader(c) PROVE RxInv'
  BY <1>3 DEF ResumeReader, RxInv, Owns
<1>4. CASE ReaderLock
  BY <1>4 DEF ReaderLock, RxInv
<1>5. CASE ReaderClear
  BY <1>5 DEF ReaderClear, RxInv, Owns, syncVars
<1>6. CASE ProcessMessage \/ WaitEvent \/ GetFlags \/ Drain
  BY <1>6 DEF ProcessMessage, WaitEvent, GetFlags, Drain, RxInv, Owns, syncVars
<1>7. CASE Park
  BY <1>7 DEF Park, RxInv
<1>8. ASSUME UNCHANGED <<rpc, rxlock>> PROVE RxInv'
  BY <1>8 DEF RxInv, Owns
<1> QED
  <2>1. ASSUME \/ \E c \in Callers :
                    \/ \E o \in Ops : Call(c, o)
                    \/ SemWait(c) \/ SendRequest(c) \/ SuspendWriter(c)
                    \/ TimedOut(c) \/ Unlock(c) \/ PowerKeyLow(c)
                    \/ PowerKeyHigh(c) \/ PowerDone(c) \/ WriterTimeout(c)
               \/ GuardTimer \/ ModemSend \/ ModemOff
               \/ \E s \in Urcs : ModemUrc(s)
               \/ UNCHANGED vars
        PROVE  UNCHANGED <<rpc, rxlock>>
    BY <2>1 DEF Call, SemWait, SendRequest, SuspendWriter, TimedOut, Unlock,
         PowerKeyLow, PowerKeyHigh, PowerDone, WriterTimeout, GuardTimer,
         ModemSend, ModemOff, ModemUrc, vars, syncVars, readVars
  <2> QED BY <1>1, <1>2, <1>3, <1>4, <1>5, <1>6, <1>7, <1>8, <2>1
          DEF Next, CallerStep, ReaderStep

\* Whether the driver is deaf is decided when the reader registers.
LEMMA DeafKept ==
  ASSUME [Next]_vars
  PROVE  deaf' = deaf
<1> USE DEF modemVars, pastVars
<1>1. ASSUME NEW c \in Callers,
             CallerStep(c) \/ WriterTimeout(c) \/ \E o \in Ops : Call(c, o)
      PROVE  deaf' = deaf
  BY <1>1 DEF CallerStep, Call, SemWait, SendRequest, SuspendWriter, TimedOut,
       LockRx, CopyResponse, ResumeReader, Unlock, PowerKeyLow, PowerKeyHigh,
       PowerDone, WriterTimeout
<1>2. ASSUME ReaderStep \/ GuardTimer PROVE deaf' = deaf
  BY <1>2 DEF ReaderStep, ReaderLock, ReaderClear, ProcessMessage, WaitEvent,
       GetFlags, Drain, Park, GuardTimer
<1>3. ASSUME \/ ModemSend \/ ModemOff \/ \E s \in Urcs : ModemUrc(s)
             \/ UNCHANGED vars
      PROVE  deaf' = deaf
  BY <1>3 DEF ModemSend, ModemOff, ModemUrc, vars
<1> QED BY <1>1, <1>2, <1>3 DEF Next

\* Every step keeps received text noticed (NoLostWakeup).
LEMMA WakeStep ==
  ASSUME TypeOK, NoLostWakeup, ReferencesSound, ~deaf, [Next]_vars
  PROVE  NoLostWakeup'
<1> USE DeafKept
<1>0. inq \in Seq(Chunk) /\ rpc \in ReaderPc /\ reader \in {Reader, NULL}
  BY DEF TypeOK
<1>1. ASSUME NEW c \in Callers, SendRequest(c) PROVE NoLostWakeup'
  <2>1. inq' = <<>> <=> inq = <<>>
    BY <1>0, <1>1, AgedFacts DEF SendRequest
  <2>2. UNCHANGED <<rpc, flags, epending>>
    BY <1>1 DEF SendRequest
  <2> QED BY <2>1, <2>2 DEF NoLostWakeup
<1>2. ASSUME NEW k, Incoming(k), UNCHANGED rpc PROVE NoLostWakeup'
  BY <1>2 DEF Incoming, NoLostWakeup
<1>3. ASSUME NEW c \in Callers, ResumeReader(c) PROVE NoLostWakeup'
  <2>1. UNCHANGED lineVars /\ (rpc' = rpc \/ rpc = "parked")
    BY <1>0, <1>3 DEF ResumeReader, ReferencesSound
  <2>2. CASE rpc' = rpc
    BY <2>1, <2>2 DEF NoLostWakeup, lineVars
  <2>3. CASE rpc = "parked"
    BY <2>1, <2>3 DEF NoLostWakeup, lineVars
  <2> QED BY <2>1, <2>2, <2>3
<1>4. CASE ReaderLock \/ ReaderClear \/ ProcessMessage \/ Park
  BY <1>4 DEF ReaderLock, ReaderClear, ProcessMessage, Park, NoLostWakeup,
       lineVars
<1>5. CASE WaitEvent
  BY <1>5 DEF WaitEvent, NoLostWakeup
<1>6. CASE GetFlags
  BY <1>6 DEF GetFlags, NoLostWakeup
<1>7. CASE Drain
  BY <1>7 DEF Drain, NoLostWakeup
<1>8. ASSUME UNCHANGED <<rpc, lineVars>> PROVE NoLostWakeup'
  BY <1>8 DEF NoLostWakeup, lineVars
<1> QED
  <2>1. ASSUME \/ \E c \in Callers :
                    \/ \E o \in Ops : Call(c, o)
                    \/ SemWait(c) \/ SuspendWriter(c) \/ TimedOut(c)
                    \/ LockRx(c) \/ CopyResponse(c) \/ Unlock(c)
                    \/ PowerKeyLow(c) \/ PowerKeyHigh(c) \/ PowerDone(c)
                    \/ WriterTimeout(c)
               \/ GuardTimer \/ ModemOff
               \/ UNCHANGED vars
        PROVE  UNCHANGED <<rpc, lineVars>>
    BY <2>1 DEF Call, SemWait, SuspendWriter, TimedOut, LockRx, CopyResponse,
         Unlock, PowerKeyLow, PowerKeyHigh, PowerDone, WriterTimeout,
         GuardTimer, ModemOff, vars, readVars
  <2>2. ASSUME ModemSend \/ \E s \in Urcs : ModemUrc(s)
        PROVE  UNCHANGED rpc /\ \E k : Incoming(k)
    BY <2>2 DEF ModemSend, ModemUrc, readVars
  <2> QED BY <1>1, <1>2, <1>3, <1>4, <1>5, <1>6, <1>7, <1>8, <2>1, <2>2
          DEF Next, CallerStep, ReaderStep

\* A deaf driver stays deaf (DeafInv): no step announces the waiting text.
LEMMA DeafStep ==
  ASSUME TypeOK, DeafInv, ReferencesSound, deaf, [Next]_vars
  PROVE  DeafInv'
<1>0. /\ pc \in [Callers -> CallerPc] /\ reader \in {Reader, NULL}
      /\ inq \in Seq(Chunk) /\ rxbuf \in Seq(Chunk)
  BY DEF TypeOK
<1>1. /\ inq # <<>> /\ rxbuf = <<>> /\ ~epending /\ ~flags
      /\ rpc \in {"lock", "locking", "process", "listen"}
      /\ \A c \in Callers : pc[c] \notin {"answered", "rxlocking"}
  BY DEF DeafInv
<1> DEFINE Unanswered == \A c \in Callers : pc[c] \notin {"answered", "rxlocking"}
<1>2. ASSUME UNCHANGED <<rpc, rxbuf, lineVars>>, Unanswered' PROVE DeafInv'
  BY <1>1, <1>2 DEF DeafInv, lineVars
<1>3. ASSUME NEW c \in Callers, NEW p \in CallerPc \ {"answered", "rxlocking"},
             \/ pc' = [pc EXCEPT ![c] = p]
             \/ SignalSync([pc EXCEPT ![c] = p])
      PROVE  Unanswered'
  BY <1>0, <1>1, <1>3 DEF SignalSync
<1>4. ASSUME NEW c \in Callers, SendRequest(c) PROVE DeafInv'
  <2>1. inq' # <<>> /\ rxbuf' = <<>>
    BY <1>0, <1>1, <1>4, AgedFacts DEF SendRequest
  <2>2. UNCHANGED <<rpc, epending, flags>>
    BY <1>4 DEF SendRequest
  <2>3. Unanswered'
    BY <1>3, <1>4 DEF SendRequest, CallerPc
  <2> QED BY <1>1, <2>1, <2>2, <2>3 DEF DeafInv
<1>5. ASSUME NEW c \in Callers, ResumeReader(c) PROVE DeafInv'
  <2>1. rpc' = rpc
    BY <1>0, <1>1, <1>5 DEF ResumeReader, ReferencesSound
  <2>2. Unanswered'
    BY <1>3, <1>5 DEF ResumeReader, CallerPc
  <2> QED BY <1>2, <1>5, <2>1, <2>2 DEF ResumeReader
<1>6. CASE ReaderStep
  <2>1. CASE ReaderLock \/ ReaderClear
    BY <1>1, <2>1 DEF ReaderLock, ReaderClear, DeafInv, lineVars, callVars
  <2>2. CASE ProcessMessage
    <3>1. sim8xxGetStatus(rxbuf) = "INVALID"
      BY <1>1 DEF sim8xxGetStatus
    <3> QED BY <1>1, <2>2, <3>1 DEF ProcessMessage, DeafInv, lineVars
  <2>3. ~WaitEvent /\ ~GetFlags /\ ~Drain /\ ~Park
    BY <1>1 DEF WaitEvent, GetFlags, Drain, Park
  <2> QED BY <1>6, <2>1, <2>2, <2>3 DEF ReaderStep
<1>7. CASE GuardTimer
  <2>1. Unanswered'
    BY <1>0, <1>1, <1>7 DEF GuardTimer, SignalSync
  <2> QED BY <1>2, <1>7, <2>1 DEF GuardTimer
<1>8. ASSUME NEW k, Incoming(k), UNCHANGED <<pc, rpc, rxbuf>> PROVE DeafInv'
  <2>1. inq' # <<>>
    BY <1>0, <1>1, <1>8 DEF Incoming
  <2>2. ~epending' /\ ~flags'
    BY <1>1, <1>8 DEF Incoming
  <2> QED BY <1>1, <1>8, <2>1, <2>2 DEF DeafInv
<1>9. ASSUME NEW c \in Callers,
             \/ \E o \in Ops : Call(c, o)
             \/ SemWait(c) \/ SuspendWriter(c) \/ TimedOut(c) \/ Unlock(c)
             \/ PowerKeyLow(c) \/ PowerKeyHigh(c) \/ PowerDone(c)
             \/ WriterTimeout(c)
      PROVE  DeafInv'
  <2>1. /\ UNCHANGED <<rpc, rxbuf, lineVars>>
        /\ \E p \in CallerPc \ {"answered", "rxlocking"} :
             pc' = [pc EXCEPT ![c] = p] \/ SignalSync([pc EXCEPT ![c] = p])
    BY <1>9 DEF Call, SemWait, SuspendWriter, TimedOut, Unlock, PowerKeyLow,
         PowerKeyHigh, PowerDone, WriterTimeout, readVars, CallerPc
  <2> QED BY <1>2, <1>3, <2>1
<1>10. ASSUME NEW c \in Callers PROVE ~LockRx(c) /\ ~CopyResponse(c)
  BY <1>1 DEF LockRx, CopyResponse
<1>11. CASE ModemOff \/ UNCHANGED vars
  BY <1>1, <1>2, <1>11 DEF ModemOff, vars, callVars, readVars
<1>12. ASSUME ModemSend \/ \E s \in Urcs : ModemUrc(s)
       PROVE  UNCHANGED <<pc, rpc, rxbuf>> /\ \E k : Incoming(k)
  BY <1>12 DEF ModemSend, ModemUrc, readVars, callVars
<1> QED BY <1>4, <1>5, <1>6, <1>7, <1>8, <1>9, <1>10, <1>11, <1>12
        DEF Next, CallerStep

\* Every step keeps the response of a resumed caller (AnswerIntact).
LEMMA AnswerStep ==
  ASSUME TypeOK, LockInv, AnswerIntact, ReferencesSound, [Next]_vars
  PROVE  AnswerIntact'
<1> USE DEF Active
<1>0. pc \in [Callers -> CallerPc] /\ reader \in {Reader, NULL}
  BY DEF TypeOK
<1> DEFINE Reads(c) == pc[c] \in {"answered", "rxlocking"}
           Whole == /\ rpc \in {"save", "parked"}
                    /\ sim8xxGetStatus(rxbuf) # "INVALID"
<1>1. ASSUME \A d \in Callers : Reads(d)' => Reads(d), UNCHANGED <<rpc, rxbuf>>
      PROVE  AnswerIntact'
  BY <1>1 DEF AnswerIntact, sim8xxGetStatus
<1>2. ASSUME NEW c \in Callers, SendRequest(c) PROVE AnswerIntact'
  <2>1. pc' = [pc EXCEPT ![c] = "sent"] /\ Active(c) /\ pc[c] = "send"
    BY <1>2 DEF SendRequest
  <2>2. \A d \in Callers : ~Reads(d)'
    BY <1>0, <2>1, OneActive
  <2> QED BY <2>2 DEF AnswerIntact
<1>3. ASSUME NEW c \in Callers, ResumeReader(c) PROVE AnswerIntact'
  <2>1. pc' = [pc EXCEPT ![c] = "unlock"] /\ Active(c) /\ pc[c] = "finish"
    BY <1>3 DEF ResumeReader
  <2>2. \A d \in Callers : ~Reads(d)'
    BY <1>0, <2>1, OneActive
  <2> QED BY <2>2 DEF AnswerIntact
<1>4. ASSUME NEW c \in Callers, LockRx(c) PROVE AnswerIntact'
  <2>1. /\ pc' = [pc EXCEPT ![c] = "rxlocking"] /\ pc[c] = "answered"
        /\ UNCHANGED <<rpc, rxbuf>>
    BY <1>4 DEF LockRx, readVars
  <2> QED BY <1>0, <1>1, <2>1
<1>5. CASE ReaderLock \/ ReaderClear \/ WaitEvent \/ GetFlags \/ Drain
  <2>1. rpc \notin {"save", "parked"} /\ UNCHANGED pc
    BY <1>5 DEF ReaderLock, ReaderClear, WaitEvent, GetFlags, Drain, callVars
  <2> QED BY <2>1 DEF AnswerIntact
<1>6. CASE ProcessMessage
  <2>1. \/ UNCHANGED pc /\ rpc = "process"
        \/ rpc' = "save" /\ rxbuf' = rxbuf /\ sim8xxGetStatus(rxbuf) # "INVALID"
    BY <1>6 DEF ProcessMessage
  <2> QED BY <2>1 DEF AnswerIntact, sim8xxGetStatus
<1>7. CASE Park
  BY <1>7 DEF Park, AnswerIntact, sim8xxGetStatus, callVars
<1>8. ASSUME NEW c \in Callers, NEW p \in CallerPc,
             p \notin {"answered", "rxlocking"},
             pc' = [pc EXCEPT ![c] = p], UNCHANGED <<rpc, rxbuf>>
      PROVE  AnswerIntact'
  BY <1>0, <1>1, <1>8
<1>9. ASSUME NEW p \in [Callers -> CallerPc], SignalSync(p),
             \A d \in Callers : p[d] \in {"answered", "rxlocking"} => Reads(d),
             UNCHANGED <<rpc, rxbuf>>
      PROVE  AnswerIntact'
  BY <1>1, <1>9 DEF SignalSync
<1> QED
  <2>1. ASSUME NEW c \in Callers,
               \/ \E o \in Ops : Call(c, o)
               \/ SemWait(c) \/ SuspendWriter(c) \/ CopyResponse(c)
               \/ Unlock(c) \/ PowerKeyLow(c) \/ PowerKeyHigh(c)
               \/ WriterTimeout(c)
        PROVE  /\ UNCHANGED <<rpc, rxbuf>>
               /\ \E p \in CallerPc : /\ p \notin {"answered", "rxlocking"}
                                      /\ pc' = [pc EXCEPT ![c] = p]
    BY <2>1 DEF Call, SemWait, SuspendWriter, CopyResponse, Unlock,
         PowerKeyLow, PowerKeyHigh, WriterTimeout, readVars, CallerPc
  <2>2. ASSUME NEW c \in Callers, TimedOut(c) \/ PowerDone(c)
        PROVE  AnswerIntact'
    <3>1. PICK p \in {"finish", "unlock"} : SignalSync([pc EXCEPT ![c] = p])
      BY <2>2 DEF TimedOut, PowerDone
    <3>2. UNCHANGED <<rpc, rxbuf>>
      BY <2>2 DEF TimedOut, PowerDone, readVars
    <3> DEFINE q == [pc EXCEPT ![c] = p]
    <3>3. /\ q \in [Callers -> CallerPc]
          /\ \A d \in Callers : q[d] \in {"answered", "rxlocking"} => Reads(d)
      BY <1>0 DEF CallerPc
    <3>4. SignalSync(q)
      BY <3>1
    <3> HIDE DEF q
    <3> QED BY <1>9, <3>2, <3>3, <3>4
  <2>3. ASSUME GuardTimer PROVE AnswerIntact'
    BY <1>0, <1>9, <2>3 DEF GuardTimer
  <2>4. ASSUME ModemSend \/ ModemOff \/ (\E s \in Urcs : ModemUrc(s))
               \/ UNCHANGED vars
        PROVE  AnswerIntact'
    <3>1. UNCHANGED <<pc, rpc, rxbuf>>
      BY <2>4 DEF ModemSend, ModemOff, ModemUrc, vars, callVars, readVars
    <3> QED BY <1>1, <3>1
  <2> QED BY <1>2, <1>3, <1>4, <1>5, <1>6, <1>7, <1>8, <2>1, <2>2, <2>3, <2>4
          DEF Next, CallerStep, ReaderStep

\* Every step keeps the thread references sound (ReferencesSound).
LEMMA ReferenceStep ==
  ASSUME TypeOK, LockInv, ReferencesSound, [Next]_vars
  PROVE  ReferencesSound'
<1> USE DEF Active
<1>0. /\ pc \in [Callers -> CallerPc] /\ reader \in {Reader, NULL}
      /\ writer \in Callers \cup {NULL} /\ NULL \notin Callers /\ NULL # Reader
  BY CallersAssumption DEF TypeOK
<1> DEFINE WriterOK == /\ \A c \in Callers : pc[c] = "sent" => writer = NULL
                       /\ \A c \in Callers : pc[c] = "suspended" <=> writer = c
           ReaderOK == /\ rpc = "save" => reader = NULL
                       /\ rpc = "parked" <=> reader = Reader
<1>1. ReferencesSound <=> WriterOK /\ ReaderOK
  BY DEF ReferencesSound
<1>2. ReferencesSound' <=> WriterOK' /\ ReaderOK'
  BY DEF ReferencesSound
<1>3. WriterOK /\ ReaderOK
  BY <1>1
<1>4. ASSUME writer' = writer,
             \A c \in Callers : pc'[c] \in {"sent", "suspended"} => pc'[c] = pc[c],
             \A c \in Callers : pc[c] = "suspended" => pc'[c] = "suspended"
      PROVE  WriterOK'
  BY <1>3, <1>4
<1>5. ASSUME UNCHANGED <<rpc, reader>> PROVE ReaderOK'
  BY <1>3, <1>5
<1>6. ASSUME NEW c \in Callers, SendRequest(c) PROVE ReferencesSound'
  <2>1. /\ pc' = [pc EXCEPT ![c] = "sent"] /\ pc[c] = "send"
        /\ UNCHANGED <<writer, rpc, reader>>
    BY <1>6 DEF SendRequest, syncVars
  <2>2. \A d \in Callers : pc[d] # "suspended"
    BY <2>1, OneActive
  <2>3. writer = NULL
    BY <1>0, <1>3, <2>2
  <2>4. WriterOK'
    BY <1>0, <1>3, <2>1, <2>2, <2>3
  <2> QED BY <1>2, <1>5, <2>1, <2>4
<1>7. ASSUME NEW c \in Callers, SuspendWriter(c) PROVE ReferencesSound'
  <2>1. /\ pc' = [pc EXCEPT ![c] = "suspended"] /\ pc[c] = "sent"
        /\ writer' = c /\ UNCHANGED <<rpc, reader>>
    BY <1>7 DEF SuspendWriter, readVars
  <2>2. \A d \in Callers : d # c => pc[d] \notin {"sent", "suspended"}
    BY <2>1, OneActive
  <2>3. WriterOK'
    BY <1>0, <2>1, <2>2
  <2> QED BY <1>2, <1>5, <2>1, <2>3
<1>8. ASSUME NEW c \in Callers, WriterTimeout(c) PROVE ReferencesSound'
  <2>1. /\ pc' = [pc EXCEPT ![c] = "timedout"] /\ pc[c] = "suspended"
        /\ writer' = NULL /\ UNCHANGED <<rpc, reader>>
    BY <1>8 DEF WriterTimeout, readVars
  <2>2. \A d \in Callers : d # c => pc[d] \notin {"sent", "suspended"}
    BY <2>1, OneActive
  <2>3. WriterOK'
    BY <1>0, <2>1, <2>2
  <2> QED BY <1>2, <1>5, <2>1, <2>3
<1>9. CASE ProcessMessage
  <2>1. ReaderOK'
    BY <1>0, <1>3, <1>9 DEF ProcessMessage
  <2>2. CASE UNCHANGED <<pc, writer>>
    BY <1>2, <1>4, <2>1, <2>2
  <2>3. CASE /\ writer' = NULL
             /\ pc' = [c \in Callers |-> IF c = writer THEN "answered" ELSE pc[c]]
    BY <1>0, <1>2, <1>3, <2>1, <2>3
  <2> QED BY <1>9, <2>2, <2>3 DEF ProcessMessage
<1>10. ASSUME NEW c \in Callers, ResumeReader(c) PROVE ReferencesSound'
  <2>1. /\ pc' = [pc EXCEPT ![c] = "unlock"] /\ pc[c] = "finish"
        /\ writer' = writer /\ reader' = NULL
        /\ rpc' = IF reader # NULL THEN "lock" ELSE rpc
    BY <1>10 DEF ResumeReader
  <2>2. WriterOK'
    BY <1>0, <1>4, <2>1
  <2>3. ReaderOK'
    BY <1>0, <1>3, <2>1
  <2> QED BY <1>2, <2>2, <2>3
<1>11. CASE ReaderLock \/ ReaderClear \/ WaitEvent \/ GetFlags \/ Drain \/ Park
  <2>1. UNCHANGED <<pc, writer>>
    BY <1>11 DEF ReaderLock, ReaderClear, WaitEvent, GetFlags, Drain, Park,
         callVars, syncVars
  <2>2. ReaderOK'
    BY <1>0, <1>3, <1>11 DEF ReaderLock, ReaderClear, WaitEvent, GetFlags,
         Drain, Park, syncVars
  <2> QED BY <1>2, <1>4, <2>1, <2>2
<1>12. ASSUME NEW c \in Callers,
              pc[c] # "suspended",
              NEW p \in CallerPc \ {"sent", "suspended"},
              \/ pc' = [pc EXCEPT ![c] = p]
              \/ SignalSync([pc EXCEPT ![c] = p]),
              UNCHANGED <<writer, rpc, reader>>
       PROVE  ReferencesSound'
  <2>1. WriterOK'
    BY <1>0, <1>4, <1>12 DEF SignalSync
  <2> QED BY <1>2, <1>5, <1>12, <2>1
<1> QED
  <2>1. ASSUME NEW c \in Callers,
               \/ \E o \in Ops : Call(c, o)
               \/ SemWait(c) \/ LockRx(c) \/ CopyResponse(c) \/ Unlock(c)
               \/ PowerKeyLow(c) \/ PowerKeyHigh(c) \/ TimedOut(c)
               \/ PowerDone(c)
        PROVE  /\ pc[c] # "suspended"
               /\ UNCHANGED <<writer, rpc, reader>>
               /\ \E p \in CallerPc \ {"sent", "suspended"} :
                    \/ pc' = [pc EXCEPT ![c] = p]
                    \/ SignalSync([pc EXCEPT ![c] = p])
    BY <2>1 DEF Call, SemWait, LockRx, CopyResponse, Unlock, PowerKeyLow,
         PowerKeyHigh, TimedOut, PowerDone, syncVars, readVars, CallerPc
  <2>2. ASSUME GuardTimer PROVE ReferencesSound'
    <3>1. WriterOK' /\ ReaderOK'
      BY <1>0, <1>4, <1>5, <2>2 DEF GuardTimer, SignalSync
    <3> QED BY <1>2, <3>1
  <2>3. ASSUME ModemSend \/ ModemOff \/ (\E s \in Urcs : ModemUrc(s))
               \/ UNCHANGED vars
        PROVE  ReferencesSound'
    <3>1. UNCHANGED <<pc, writer, rpc, reader>>
      BY <2>3 DEF ModemSend, ModemOff, ModemUrc, vars, callVars, syncVars,
           readVars
    <3> QED BY <1>2, <1>4, <1>5, <3>1
  <2> QED BY <1>6, <1>7, <1>8, <1>9, <1>10, <1>11, <1>12, <2>1, <2>2, <2>3
          DEF Next, CallerStep, ReaderStep

\* Every step keeps the token of sync accounted for (TokenInv).
LEMMA TokenStep ==
  ASSUME TypeOK, LockInv, RxInv, TokenInv, ReferencesSound, [Next]_vars
  PROVE  TokenInv'
<1> USE DEF Active
<1>0. /\ pc \in [Callers -> CallerPc] /\ sync \in Int
      /\ reader \in {Reader, NULL} /\ Reader \notin Callers
  BY CallersAssumption DEF TypeOK
<1>1. ASSUME NEW c \in Callers, Active(c), pc[c] # "semwait" PROVE sync >= 0
  <2>1. \A d \in Callers : pc[d] # "semwait"
    BY <1>1, OneActive
  <2> QED BY <1>0, <2>1 DEF TokenInv
<1>2. ASSUME NEW c \in Callers,
             NEW p \in CallerPc \ {"semwait"},
             pc[c] # "semwait",
             pc' = [pc EXCEPT ![c] = p],
             UNCHANGED <<sync, guard>>,
             \A d \in Callers : Carries(d) => Carries(d)'
      PROVE  TokenInv'
  <2>1. \A d \in Callers : pc'[d] = "semwait" <=> pc[d] = "semwait"
    BY <1>0, <1>2
  <2> QED BY <1>2, <2>1 DEF TokenInv
<1>3. ASSUME NEW c \in Callers, NEW p \in CallerPc \ {"semwait"},
             Active(c), pc[c] # "semwait", SignalSync([pc EXCEPT ![c] = p])
      PROVE  TokenInv'
  <2>1. sync >= 0
    BY <1>1, <1>3
  <2>2. \A d \in Callers : pc[d] # "semwait"
    BY <1>3, OneActive
  <2>3. sync' >= 1 /\ \A d \in Callers : pc'[d] # "semwait"
    BY <1>0, <1>3, <2>1, <2>2 DEF SignalSync
  <2>4. sync' >= -1 /\ sync' # -1
    BY <2>3, <1>0, <1>3 DEF SignalSync
  <2> QED BY <2>3, <2>4 DEF TokenInv
<1>4. ASSUME NEW c \in Callers, SemWait(c) PROVE TokenInv'
  <2>1. /\ pc[c] = "locking" /\ Owns(lock, c) /\ sync' = sync - 1
        /\ pc' = [pc EXCEPT ![c] = IF sync - 1 < 0 THEN "semwait" ELSE "send"]
        /\ UNCHANGED <<rpc, guard>>
    BY <1>4 DEF SemWait, readVars
  <2>2. \A d \in Callers : ~Active(d)
    BY <2>1 DEF LockInv, Owns
  <2>3. \A d \in Callers : pc[d] # "semwait" /\ ~Carries(d)
    BY <2>2 DEF Carries
  <2>4. sync >= 0 /\ (sync >= 1 \/ guard)
    BY <1>0, <2>3 DEF TokenInv
  <2>5. CASE sync = 0
    <3>1. pc' = [pc EXCEPT ![c] = "semwait"] /\ sync' = -1 /\ guard'
      BY <2>1, <2>4, <2>5
    <3>2. pc'[c] = "semwait"
      BY <1>0, <3>1
    <3> QED BY <3>1, <3>2 DEF TokenInv
  <2>6. CASE sync >= 1
    <3>1. pc' = [pc EXCEPT ![c] = "send"]
      <4>1. ~(sync - 1 < 0)
        BY <1>0, <2>6
      <4> QED BY <2>1, <4>1
    <3>2. Carries(c)' /\ \A d \in Callers : pc'[d] # "semwait"
      BY <1>0, <2>3, <3>1 DEF Carries
    <3>3. sync' # -1 /\ sync' >= -1
      BY <1>0, <2>1, <2>6
    <3> QED BY <3>2, <3>3 DEF TokenInv
  <2> QED BY <1>0, <2>4, <2>5, <2>6
<1>5. CASE GuardTimer
  <2>1. /\ sync' = sync + 1 /\ rpc' = rpc
        /\ pc' = [d \in Callers |-> IF pc[d] = "semwait" /\ sync < 0
                                    THEN "send" ELSE pc[d]]
    BY <1>5 DEF GuardTimer, SignalSync
  <2>2. sync' >= -1 /\ sync' # -1
    BY <1>0, <2>1 DEF TokenInv
  <2>3. \A d \in Callers : pc'[d] # "semwait"
    BY <1>0, <2>1 DEF TokenInv
  <2>4. CASE sync = -1
    <3>1. PICK c \in Callers : pc[c] = "semwait"
      BY <2>4 DEF TokenInv
    <3>2. Carries(c)'
      BY <2>1, <2>4, <3>1 DEF Carries
    <3> QED BY <2>2, <2>3, <3>2 DEF TokenInv
  <2>5. CASE sync # -1
    <3>1. sync' >= 1
      BY <1>0, <2>1, <2>5 DEF TokenInv
    <3> QED BY <2>2, <2>3, <3>1 DEF TokenInv
  <2> QED BY <2>4, <2>5
<1>6. CASE ProcessMessage
  <2>1. /\ UNCHANGED <<sync, guard>> /\ rpc = "process"
        /\ \A d \in Callers : \/ pc'[d] = pc[d]
                              \/ d = writer /\ pc'[d] = "answered"
                                 /\ rpc' = "save"
    BY <1>0, <1>6 DEF ProcessMessage
  <2>2. \A d \in Callers : d = writer => pc[d] = "suspended"
    BY DEF ReferencesSound
  <2>3. \A d \in Callers : pc'[d] = "semwait" <=> pc[d] = "semwait"
    BY <2>1, <2>2
  <2>4. \A d \in Callers : Carries(d) => Carries(d)'
    BY <2>1, <2>2 DEF Carries
  <2> QED BY <2>1, <2>3, <2>4 DEF TokenInv
<1>7. CASE Park
  <2>1. guard' /\ UNCHANGED <<pc, sync>>
    BY <1>7 DEF Park, callVars
  <2> QED BY <2>1 DEF TokenInv
<1>8. ASSUME NEW c \in Callers, CopyResponse(c) PROVE TokenInv'
  <2>1. /\ pc[c] = "rxlocking" /\ pc' = [pc EXCEPT ![c] = "finish"]
        /\ Owns(rxlock, c) /\ UNCHANGED <<sync, guard>>
    BY <1>8 DEF CopyResponse, readVars
  <2>2. rpc # "save"
    BY <1>0, <2>1 DEF RxInv, Owns
  <2>3. \A d \in Callers : ~Carries(d)
    <3>1. \A d \in Callers : Carries(d) => Active(d)
      BY DEF Carries
    <3>2. ~Carries(c)
      BY <2>1, <2>2 DEF Carries
    <3> QED BY <2>1, <3>1, <3>2, OneActive
  <2> QED BY <1>2, <2>1, <2>3 DEF CallerPc
<1>9. ASSUME NEW c \in Callers, ResumeReader(c) PROVE TokenInv'
  <2>1. /\ pc[c] = "finish" /\ pc' = [pc EXCEPT ![c] = "unlock"]
        /\ UNCHANGED <<sync, guard>>
    BY <1>9 DEF ResumeReader
  <2>2. \A d \in Callers : ~Carries(d)
    <3>1. \A d \in Callers : Carries(d) => Active(d)
      BY DEF Carries
    <3>2. ~Carries(c)
      BY <2>1 DEF Carries
    <3> QED BY <2>1, <3>1, <3>2, OneActive
  <2> QED BY <1>2, <2>1, <2>2 DEF CallerPc
<1>10. ASSUME NEW c \in Callers,
              \/ \E o \in Ops : Call(c, o)
              \/ SendRequest(c) \/ SuspendWriter(c) \/ WriterTimeout(c)
              \/ LockRx(c) \/ Unlock(c) \/ PowerKeyLow(c) \/ PowerKeyHigh(c)
       PROVE  TokenInv'
  <2>1. /\ pc[c] # "semwait" /\ UNCHANGED <<sync, guard, rpc>>
        /\ \E p \in CallerPc \ {"semwait"} :
             /\ pc' = [pc EXCEPT ![c] = p]
             /\ \/ pc[c] \in {"idle", "locking", "unlock", "keylow"}
                \/ p \in {"sent", "suspended", "timedout"}
                \/ pc[c] = "answered" /\ p = "rxlocking"
    BY <1>10 DEF Call, SendRequest, SuspendWriter, WriterTimeout, LockRx,
         Unlock, PowerKeyLow, PowerKeyHigh, readVars, syncVars, CallerPc
  <2>2. \A d \in Callers : Carries(d) => Carries(d)'
    BY <1>0, <2>1 DEF Carries
  <2> QED BY <1>2, <2>1, <2>2
<1>11. ASSUME NEW c \in Callers, TimedOut(c) \/ PowerDone(c) PROVE TokenInv'
  <2>1. /\ Active(c) /\ pc[c] # "semwait"
        /\ \E p \in CallerPc \ {"semwait"} : SignalSync([pc EXCEPT ![c] = p])
    BY <1>11 DEF TimedOut, PowerDone, CallerPc
  <2> QED BY <1>3, <2>1
<1>12. CASE ReaderLock \/ ReaderClear \/ WaitEvent \/ GetFlags \/ Drain
  <2>1. UNCHANGED <<pc, sync, guard>> /\ rpc # "save"
    BY <1>12 DEF ReaderLock, ReaderClear, WaitEvent, GetFlags, Drain,
         callVars, syncVars
  <2> QED BY <2>1 DEF TokenInv, Carries
<1>13. CASE ModemSend \/ ModemOff \/ (\E s \in Urcs : ModemUrc(s))
            \/ UNCHANGED vars
  <2>1. UNCHANGED <<pc, sync, guard, rpc>>
    BY <1>13 DEF ModemSend, ModemOff, ModemUrc, vars, callVars, syncVars,
         readVars
  <2> QED BY <2>1 DEF TokenInv, Carries
<1> QED
  BY <1>4, <1>5, <1>6, <1>7, <1>8, <1>9, <1>10, <1>11, <1>12, <1>13
  DEF Next, CallerStep, ReaderStep

-----------------------------------------------------------------------------
(* The theorems.                                                           *)

\* The invariant holds in every reachable state.
LEMMA Inductive == Spec => []IInv
<1>1. IInv /\ [Next]_vars => IInv'
  <2> SUFFICES ASSUME IInv, [Next]_vars PROVE IInv'
    OBVIOUS
  <2> USE DEF IInv
  <2>1. /\ TypeOK' /\ LockInv' /\ RxInv' /\ TokenInv' /\ AnswerIntact'
        /\ ReferencesSound'
    BY TypeStep, LockStep, RxStep, TokenStep, AnswerStep, ReferenceStep
  <2>2. CASE deaf
    <3>1. deaf' /\ DeafInv'
      BY <2>2, DeafKept, DeafStep
    <3> QED BY <2>1, <3>1 DEF NoLostWakeup
  <2>3. CASE ~deaf
    <3>1. ~deaf' /\ NoLostWakeup'
      BY <2>3, DeafKept, WakeStep
    <3> QED BY <2>1, <3>1 DEF DeafInv
  <2> QED BY <2>2, <2>3
<1> QED BY InitIInv, <1>1, PTL DEF Spec

\* Type correctness, for every set of callers and every modem.
THEOREM TypeCorrect == Spec => []TypeOK
BY Inductive, PTL DEF IInv

\* The token of sync is never lost: a caller that waits in chSemWait waits
\* for an armed guard timer (sim8xx.c:75, sim8xx.c:147), whatever the modem
\* sends and however timeouts, late replies and power toggles interleave.
THEOREM TokenSafe == Spec => []TokenNotLost
<1>1. IInv => TokenNotLost
  <2> SUFFICES ASSUME IInv, NEW c \in Callers, pc[c] = "semwait" PROVE guard
    BY DEF TokenNotLost
  <2> USE DEF IInv, Active
  <2>1. \A d \in Callers : Carries(d) => Active(d)
    BY DEF Carries
  <2>2. \A d \in Callers : ~Carries(d)
    <3>1. ~Carries(c)
      BY DEF Carries
    <3> QED BY <2>1, <3>1, OneActive
  <2>3. sync = -1
    BY DEF TokenInv
  <2> QED BY <2>2, <2>3 DEF TokenInv
<1> QED BY Inductive, <1>1, PTL

\* A caller resumed with MSG_OK finds the complete response in rxbuf, although
\* it takes rxlock only after the reader has moved on (sim8xx.c:84-88).
THEOREM AnswerSafe == Spec => []AnswerIntact
BY Inductive, PTL DEF IInv

\* The thread references always satisfy what the kernel requires of them.
THEOREM ReferencesSafe == Spec => []ReferencesSound
BY Inductive, PTL DEF IInv

\* No received byte waits without an event pending for the reader, unless
\* text was waiting when the reader registered.
THEOREM WakeupSafe == Spec => []NoLostWakeup
BY Inductive, PTL DEF IInv

\* A driver that started with text in its queue never answers a call
\* (sim8xxReaderThread.c:87), whatever the modem sends afterwards.
THEOREM DeafSafe == Spec => []DeafForGood
<1>1. IInv => DeafForGood
  BY DEF IInv, DeafInv, DeafForGood
<1> QED BY Inductive, <1>1, PTL
=============================================================================
