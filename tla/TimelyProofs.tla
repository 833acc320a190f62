---------------------------- MODULE TimelyProofs -----------------------------
(***************************************************************************)
(* Proofs about Sim8xx where the modem answers in time, the reader outruns *)
(* it and no final status is sent unasked: for any set of callers, any     *)
(* input queue and any bounds.                                             *)
(*                                                                         *)
(* TimelyInv adds to IInv of Sim8xxProofs where the reply to a command is: *)
(* on its way from the modem, in the input queue, in rxbuf, or handed to   *)
(* the caller.  TokensInv counts the tokens of sync as long as the power   *)
(* key was not used.                                                       *)
(***************************************************************************)
EXTENDS Sim8xxProofs

\* A text without a final status; one with a final status at most at its
\* end, which is that of the reply to the command sent last.
Plain(s) == \A i \in 1 .. Len(s) : s[i].st = "INVALID"
Reply(s) ==
  \A i \in 1 .. Len(s) :
    s[i].st # "INVALID" => i = Len(s) /\ s[i].fresh /\ s[i].st # "TIMEOUT"

Awaits(c) == pc[c] \in {"sent", "suspended"}

\* rxlock is held or awaited by callers that copy, and by the reader, each
\* of them once.
RxQueueInv ==
  /\ \A i \in 1 .. Len(rxlock) : rxlock[i] \in Callers => pc[rxlock[i]] = "rxlocking"
  /\ rpc = "locking" => InSeq(rxlock, Reader)
  /\ rpc \in {"lock", "parked"} => ~InSeq(rxlock, Reader)
  /\ \A i, j \in 1 .. Len(rxlock) : rxlock[i] = rxlock[j] => i = j

\* The reader saves or is parked for a caller that will resume it.
ParkedInv ==
  /\ rpc = "save" => \E c \in Callers : pc[c] \in {"answered", "rxlocking"}
  /\ rpc = "parked" =>
       \E c \in Callers : pc[c] \in {"answered", "rxlocking", "finish"}

\* A final status is under way only to a caller that awaits it.
ReplyInv ==
  /\ Reply(mpend)
  /\ Plain(mpend) \/ \E c \in Callers : Awaits(c)
  /\ Plain(inq) \/ /\ rpc \in {"listen", "getflags", "drain"}
                   /\ \E c \in Callers : pc[c] = "suspended"
                   /\ Reply(inq) /\ mpend = <<>>
  /\ \/ Plain(rxbuf)
     \/ /\ rpc \in {"drain", "process"}
        /\ \E c \in Callers : pc[c] = "suspended"
        /\ Reply(rxbuf) /\ inq = <<>> /\ mpend = <<>>
     \/ rpc \in {"save", "parked"} /\ Reply(rxbuf)
     \/ rpc \in {"lock", "locking"}

\* A modem that is on owes the reply to a command until it is processed.
OwedInv ==
  \A c \in Callers :
    /\ pc[c] = "sent" /\ modemOn => ~Plain(mpend)
    /\ pc[c] = "suspended" /\ modemOn =>
         \/ ~Plain(mpend)
         \/ ~Plain(inq)
         \/ ~Plain(rxbuf) /\ rpc \in {"drain", "process"}

TextInv == ReplyInv /\ OwedInv /\ TimeoutMeansOff

TimelyInv ==
  /\ ~deaf
  /\ RxQueueInv
  /\ ParkedInv
  /\ TextInv
  /\ FreshAnswer

\* Unless the power key was used there is one token: in sync, with the guard
\* timer or with a caller.
TokensInv ==
  ~toggled =>
    /\ sync =< 1
    /\ guard => sync =< 0
    /\ \A c \in Callers : Carries(c) => sync =< 0 /\ ~guard
    /\ \A c \in Callers : pc[c] # "keyhigh"

-----------------------------------------------------------------------------
(* Texts.                                                                  *)

\* The empty text, and what a text's status says.
LEMMA StatusFacts ==
  ASSUME NEW s \in Seq(Chunk)
  PROVE  /\ Plain(<<>>) /\ Reply(<<>>)
         /\ Plain(s) => Reply(s) /\ sim8xxGetStatus(s) = "INVALID"
         /\ Reply(s) /\ ~Plain(s) =>
              /\ sim8xxGetStatus(s) \notin {"INVALID", "TIMEOUT"}
              /\ s # <<>> /\ s[Len(s)].fresh
BY DEF Plain, Reply, sim8xxGetStatus

\* A text that ages keeps its statuses.
LEMMA AgedPlain ==
  ASSUME NEW s \in Seq(Chunk), Plain(s)
  PROVE  Plain(Aged(s))
<1>1. Len(Aged(s)) = Len(s) /\ \A i \in 1 .. Len(s) : Aged(s)[i].st = s[i].st
  <2> DEFINE A == [i \in 1 .. Len(s) |-> [st |-> s[i].st, fresh |-> FALSE]]
  <2>1. Len(A) = Len(s)
    OBVIOUS
  <2>2. \A i \in 1 .. Len(s) : A[i].st = s[i].st
    OBVIOUS
  <2> QED BY <2>1, <2>2 DEF Aged
<1> QED BY <1>1 DEF Plain

\* A chunk is added.
LEMMA AppendPlain ==
  ASSUME NEW s \in Seq(Chunk), NEW x \in Chunk, Plain(s)
  PROVE  /\ x.st = "INVALID" => Plain(Append(s, x))
         /\ x.st # "INVALID" => ~Plain(Append(s, x))
         /\ x.fresh /\ x.st # "TIMEOUT" => Reply(Append(s, x))
<1> DEFINE t == Append(s, x)
<1>1. /\ Len(t) = Len(s) + 1 /\ Len(s) \in Nat /\ t[Len(s) + 1] = x
      /\ \A i \in 1 .. Len(s) : t[i] = s[i]
  OBVIOUS
<1> HIDE DEF t
<1>2. \A i \in 1 .. Len(t) : i \in 1 .. Len(s) \/ i = Len(s) + 1
  BY <1>1
<1>3. /\ x.st = "INVALID" => Plain(t)
      /\ x.st # "INVALID" => ~Plain(t)
      /\ x.fresh /\ x.st # "TIMEOUT" => Reply(t)
  BY <1>1, <1>2 DEF Plain, Reply
<1> QED BY <1>3 DEF t

\* A chunk is taken away.
LEMMA TailReply ==
  ASSUME NEW s \in Seq(Chunk), s # <<>>, Reply(s)
  PROVE  /\ Head(s) \in Chunk /\ Tail(s) \in Seq(Chunk) /\ Reply(Tail(s))
         /\ Head(s).st = "INVALID" => (Plain(Tail(s)) <=> Plain(s))
         /\ Head(s).st # "INVALID" =>
              /\ Tail(s) = <<>> /\ ~Plain(s)
              /\ Head(s).fresh /\ Head(s).st # "TIMEOUT"
<1> DEFINE t == Tail(s)
<1>1. /\ t \in Seq(Chunk) /\ Len(t) = Len(s) - 1 /\ Len(s) \in Nat
      /\ Len(s) >= 1 /\ Head(s) = s[1] /\ Head(s) \in Chunk
      /\ \A i \in 1 .. Len(t) : t[i] = s[i + 1]
      /\ Len(t) = 0 => t = <<>>
  <2>1. /\ t \in Seq(Chunk) /\ Len(t) = Len(s) - 1
        /\ Len(s) >= 1 /\ Head(s) = s[1]
        /\ \A i \in 1 .. Len(t) : t[i] = s[i + 1]
    BY TailFacts
  <2>2. Len(s) \in Nat /\ Head(s) \in Chunk
    OBVIOUS
  <2> HIDE DEF t
  <2>3. Len(t) = 0 => t = <<>>
    BY <2>1
  <2> QED BY <2>1, <2>2, <2>3
<1> HIDE DEF t
<1>2. Reply(t)
  <2> SUFFICES ASSUME NEW i \in 1 .. Len(t), t[i].st # "INVALID"
               PROVE  i = Len(t) /\ t[i].fresh /\ t[i].st # "TIMEOUT"
    BY DEF Reply
  <2>1. i + 1 \in 1 .. Len(s) /\ t[i] = s[i + 1]
    BY <1>1
  <2>2. i + 1 = Len(s) /\ s[i + 1].fresh /\ s[i + 1].st # "TIMEOUT"
    BY <2>1 DEF Reply
  <2> QED BY <1>1, <2>1, <2>2
<1>3. Head(s).st = "INVALID" => (Plain(t) <=> Plain(s))
  <2> SUFFICES ASSUME Head(s).st = "INVALID" PROVE Plain(t) <=> Plain(s)
    OBVIOUS
  <2>1. ASSUME Plain(t), NEW i \in 1 .. Len(s) PROVE s[i].st = "INVALID"
    <3>1. CASE i = 1
      BY <1>1, <3>1
    <3>2. CASE i # 1
      <4>1. i - 1 \in 1 .. Len(t) /\ t[i - 1] = s[(i - 1) + 1]
        BY <1>1, <3>2
      <4> QED BY <2>1, <4>1 DEF Plain
    <3> QED BY <3>1, <3>2
  <2>2. ASSUME Plain(s), NEW i \in 1 .. Len(t) PROVE t[i].st = "INVALID"
    <3>1. i + 1 \in 1 .. Len(s)
      BY <1>1
    <3> QED BY <1>1, <2>2, <3>1 DEF Plain
  <2> QED BY <2>1, <2>2 DEF Plain
<1>4. Head(s).st # "INVALID" =>
        /\ t = <<>> /\ ~Plain(s)
        /\ Head(s).fresh /\ Head(s).st # "TIMEOUT"
  BY <1>1 DEF Reply, Plain
<1> QED BY <1>1, <1>2, <1>3, <1>4 DEF t

\* The reply to a command.
LEMMA ReplySent ==
  ASSUME NEW s \in Seq(Chunk), Plain(s), NEW st \in {"OK", "ERROR"}, Timely
  PROVE  LET r == s \o <<[st |-> "INVALID", fresh |-> Timely],
                         [st |-> st, fresh |-> Timely]>>
         IN Reply(r) /\ ~Plain(r)
<1> DEFINE a == [st |-> "INVALID", fresh |-> Timely]
           b == [st |-> st, fresh |-> Timely]
           r == s \o <<a, b>>
<1>1. /\ a.st = "INVALID" /\ b.st \notin {"INVALID", "TIMEOUT"} /\ b.fresh
  OBVIOUS
<1> HIDE DEF a, b
<1>2. /\ Len(r) = Len(s) + 2 /\ Len(s) \in Nat
      /\ r[Len(s) + 1] = a /\ r[Len(s) + 2] = b
      /\ \A i \in 1 .. Len(s) : r[i] = s[i]
  OBVIOUS
<1> HIDE DEF r
<1>3. \A i \in 1 .. Len(r) : i \in 1 .. Len(s) \/ i = Len(s) + 1 \/ i = Len(s) + 2
  BY <1>2
<1>4. Reply(r) /\ ~Plain(r)
  BY <1>1, <1>2, <1>3 DEF Plain, Reply
<1> QED BY <1>4 DEF r, a, b

-----------------------------------------------------------------------------
(* The reader and rxlock.                                                  *)

\* A thread that queues for rxlock, and one that releases it.
LEMMA QueueFacts ==
  ASSUME NEW S, NEW s \in Seq(S),
         \A i, j \in 1 .. Len(s) : s[i] = s[j] => i = j
  PROVE  /\ \A x \in S : ~InSeq(s, x) =>
              /\ \A i, j \in 1 .. Len(Append(s, x)) :
                   Append(s, x)[i] = Append(s, x)[j] => i = j
              /\ \A y : InSeq(Append(s, x), y) <=> InSeq(s, y) \/ y = x
         /\ \A x : Owns(s, x) =>
              /\ \A i, j \in 1 .. Len(Tail(s)) : Tail(s)[i] = Tail(s)[j] => i = j
              /\ \A y : InSeq(Tail(s), y) <=> InSeq(s, y) /\ y # x
<1>1. ASSUME NEW x \in S, ~InSeq(s, x)
      PROVE  /\ \A i, j \in 1 .. Len(Append(s, x)) :
                  Append(s, x)[i] = Append(s, x)[j] => i = j
             /\ \A y : InSeq(Append(s, x), y) <=> InSeq(s, y) \/ y = x
  <2> DEFINE t == Append(s, x)
  <2>1. /\ Len(t) = Len(s) + 1 /\ Len(s) \in Nat /\ t[Len(s) + 1] = x
        /\ \A i \in 1 .. Len(s) : t[i] = s[i]
    OBVIOUS
  <2> HIDE DEF t
  <2>2. /\ \A i \in 1 .. Len(t) : i \in 1 .. Len(s) \/ i = Len(s) + 1
        /\ \A i \in 1 .. Len(s) : i \in 1 .. Len(t)
        /\ Len(s) + 1 \in 1 .. Len(t)
    BY <2>1
  <2>3. /\ \A i, j \in 1 .. Len(t) : t[i] = t[j] => i = j
        /\ \A y : InSeq(t, y) <=> InSeq(s, y) \/ y = x
    BY <1>1, <2>1, <2>2 DEF InSeq
  <2> QED BY <2>3 DEF t
<1>2. ASSUME NEW x, Owns(s, x)
      PROVE  /\ \A i, j \in 1 .. Len(Tail(s)) : Tail(s)[i] = Tail(s)[j] => i = j
             /\ \A y : InSeq(Tail(s), y) <=> InSeq(s, y) /\ y # x
  <2> DEFINE t == Tail(s)
  <2>1. /\ Len(t) = Len(s) - 1 /\ Len(s) >= 1 /\ s[1] = x /\ Len(s) \in Nat
        /\ \A i \in 1 .. Len(t) : t[i] = s[i + 1]
    BY <1>2, TailFacts DEF Owns
  <2> HIDE DEF t
  <2>2. /\ \A i \in 1 .. Len(t) : i + 1 \in 1 .. Len(s) /\ i + 1 # 1
        /\ 1 \in 1 .. Len(s)
        /\ \A i, j \in 1 .. Len(t) : i + 1 = j + 1 => i = j
    BY <2>1
  <2>3. \A i, j \in 1 .. Len(t) : t[i] = t[j] => i = j
    BY <2>1, <2>2
  <2>4. ASSUME NEW y, InSeq(t, y) PROVE InSeq(s, y) /\ y # x
    BY <2>1, <2>2, <2>4 DEF InSeq
  <2>5. ASSUME NEW y, InSeq(s, y), y # x PROVE InSeq(t, y)
    <3>1. PICK i \in 1 .. Len(s) : s[i] = y
      BY <2>5 DEF InSeq
    <3>2. i - 1 \in 1 .. Len(t) /\ (i - 1) + 1 = i
      BY <2>1, <2>5, <3>1
    <3> QED BY <2>1, <3>1, <3>2 DEF InSeq
  <2> QED BY <2>3, <2>4, <2>5 DEF t
<1> QED BY <1>1, <1>2

\* A step that leaves rxlock and the callers that queue for it alone.
LEMMA RxQueueKept ==
  ASSUME RxQueueInv, rxlock' = rxlock,
         rpc' = rpc \/ rpc' \notin {"lock", "locking", "parked"},
         \A d \in Callers : pc[d] = "rxlocking" => pc'[d] = "rxlocking"
  PROVE  RxQueueInv'
<1>1. \A i \in 1 .. Len(rxlock') : rxlock'[i] \in Callers =>
        pc'[rxlock'[i]] = "rxlocking"
  BY DEF RxQueueInv
<1>2. rpc' = "locking" => InSeq(rxlock', Reader)
  BY DEF RxQueueInv
<1>3. rpc' \in {"lock", "parked"} => ~InSeq(rxlock', Reader)
  BY DEF RxQueueInv
<1>4. \A i, j \in 1 .. Len(rxlock') : rxlock'[i] = rxlock'[j] => i = j
  BY DEF RxQueueInv
<1> QED BY <1>1, <1>2, <1>3, <1>4 DEF RxQueueInv, InSeq

\* Every step keeps who queues for rxlock.
LEMMA RxQueueStep ==
  ASSUME IInv, RxQueueInv, [Next]_vars
  PROVE  RxQueueInv'
<1>0. /\ pc \in [Callers -> CallerPc] /\ Reader \notin Callers
      /\ rxlock \in Seq(Callers \cup {Reader})
      /\ reader \in {Reader, NULL} /\ NULL # Reader
      /\ writer \in Callers \cup {NULL} /\ NULL \notin Callers
  BY CallersAssumption DEF IInv, TypeOK
<1>1. \A i, j \in 1 .. Len(rxlock) : rxlock[i] = rxlock[j] => i = j
  BY DEF RxQueueInv
<1>2. \A d \in Callers : InSeq(rxlock, d) => pc[d] = "rxlocking"
  BY DEF RxQueueInv, InSeq
<1>3. ASSUME \A i, j \in 1 .. Len(rxlock') : rxlock'[i] = rxlock'[j] => i = j,
             \A d \in Callers : InSeq(rxlock', d) => pc'[d] = "rxlocking",
             rpc' = "locking" => InSeq(rxlock', Reader),
             rpc' \in {"lock", "parked"} => ~InSeq(rxlock', Reader)
      PROVE  RxQueueInv'
  <2>1. \A i \in 1 .. Len(rxlock') : rxlock'[i] \in Callers =>
          pc'[rxlock'[i]] = "rxlocking"
    BY <1>3 DEF InSeq
  <2> QED BY <1>3, <2>1 DEF RxQueueInv, InSeq
<1>4. ASSUME NEW c \in Callers, LockRx(c) PROVE RxQueueInv'
  <2>1. /\ rxlock' = Append(rxlock, c) /\ pc' = [pc EXCEPT ![c] = "rxlocking"]
        /\ rpc' = rpc /\ pc[c] = "answered"
    BY <1>4 DEF LockRx, readVars
  <2>2. ~InSeq(rxlock, c)
    BY <1>2, <2>1
  <2>3. /\ \A i, j \in 1 .. Len(rxlock') : rxlock'[i] = rxlock'[j] => i = j
        /\ \A y : InSeq(rxlock', y) <=> InSeq(rxlock, y) \/ y = c
    BY <1>0, <1>1, <2>1, <2>2, QueueFacts
  <2> QED BY <1>0, <1>2, <1>3, <2>1, <2>3 DEF RxQueueInv
<1>5. ASSUME NEW c \in Callers, CopyResponse(c) PROVE RxQueueInv'
  <2>1. /\ rxlock' = Tail(rxlock) /\ pc' = [pc EXCEPT ![c] = "finish"]
        /\ rpc' = rpc /\ Owns(rxlock, c)
    BY <1>5 DEF CopyResponse, readVars
  <2>2. /\ \A i, j \in 1 .. Len(rxlock') : rxlock'[i] = rxlock'[j] => i = j
        /\ \A y : InSeq(rxlock', y) <=> InSeq(rxlock, y) /\ y # c
    BY <1>0, <1>1, <2>1, QueueFacts
  <2> QED BY <1>0, <1>2, <1>3, <2>1, <2>2 DEF RxQueueInv
<1>6. CASE ReaderLock
  <2>1. /\ rxlock' = Append(rxlock, Reader) /\ pc' = pc
        /\ rpc = "lock" /\ rpc' = "locking"
    BY <1>6 DEF ReaderLock, callVars
  <2>2. ~InSeq(rxlock, Reader)
    BY <2>1 DEF RxQueueInv
  <2>3. /\ \A i, j \in 1 .. Len(rxlock') : rxlock'[i] = rxlock'[j] => i = j
        /\ \A y : InSeq(rxlock', y) <=> InSeq(rxlock, y) \/ y = Reader
    BY <1>0, <1>1, <2>1, <2>2, QueueFacts
  <2> QED BY <1>0, <1>2, <1>3, <2>1, <2>3
<1>7. CASE Park
  <2>1. /\ rxlock' = Tail(rxlock) /\ pc' = pc /\ rpc = "save" /\ rpc' = "parked"
    BY <1>7 DEF Park, callVars
  <2>2. Owns(rxlock, Reader)
    BY <2>1 DEF IInv, RxInv
  <2>3. /\ \A i, j \in 1 .. Len(rxlock') : rxlock'[i] = rxlock'[j] => i = j
        /\ \A y : InSeq(rxlock', y) <=> InSeq(rxlock, y) /\ y # Reader
    BY <1>0, <1>1, <2>1, <2>2, QueueFacts
  <2> QED BY <1>0, <1>2, <1>3, <2>1, <2>3
<1>8. ASSUME NEW c \in Callers, ResumeReader(c) PROVE RxQueueInv'
  <2>1. /\ rxlock' = rxlock /\ pc' = [pc EXCEPT ![c] = "unlock"]
        /\ pc[c] = "finish" /\ rpc' = IF reader # NULL THEN "lock" ELSE rpc
    BY <1>8 DEF ResumeReader
  <2>2. rpc' = rpc \/ (rpc = "parked" /\ rpc' = "lock")
    BY <1>0, <2>1 DEF IInv, ReferencesSound
  <2>3. \A d \in Callers : InSeq(rxlock', d) => pc'[d] = "rxlocking"
    BY <1>0, <1>2, <2>1
  <2>4. /\ rpc' = "locking" => InSeq(rxlock', Reader)
        /\ rpc' \in {"lock", "parked"} => ~InSeq(rxlock', Reader)
    BY <2>1, <2>2 DEF RxQueueInv
  <2> QED BY <1>1, <1>3, <2>1, <2>3, <2>4
<1>9. ASSUME NEW c \in Callers,
             \/ SemWait(c) \/ SendRequest(c) \/ SuspendWriter(c) \/ Unlock(c)
             \/ PowerKeyLow(c) \/ PowerKeyHigh(c) \/ WriterTimeout(c)
             \/ \E o \in Ops : Call(c, o)
      PROVE  RxQueueInv'
  <2>1. /\ rxlock' = rxlock /\ rpc' = rpc
        /\ pc[c] # "rxlocking"
        /\ \E p \in CallerPc : pc' = [pc EXCEPT ![c] = p]
    BY <1>9 DEF Call, SemWait, SendRequest, SuspendWriter, Unlock, PowerKeyLow,
         PowerKeyHigh, WriterTimeout, CallerPc, syncVars, readVars
  <2> QED BY <1>0, <2>1, RxQueueKept
<1>10. ASSUME NEW c \in Callers, TimedOut(c) \/ PowerDone(c) PROVE RxQueueInv'
  <2>1. /\ rxlock' = rxlock /\ rpc' = rpc /\ pc[c] # "rxlocking"
        /\ \E p \in CallerPc : SignalSync([pc EXCEPT ![c] = p])
    BY <1>10 DEF TimedOut, PowerDone, CallerPc, readVars
  <2>2. \A d \in Callers : pc[d] = "rxlocking" => pc'[d] = "rxlocking"
    BY <1>0, <2>1 DEF SignalSync
  <2> QED BY <2>1, <2>2, RxQueueKept
<1>11. CASE GuardTimer
  <2>1. rxlock' = rxlock /\ rpc' = rpc /\ SignalSync(pc)
    BY <1>11 DEF GuardTimer
  <2>2. \A d \in Callers : pc[d] = "rxlocking" => pc'[d] = "rxlocking"
    BY <1>0, <2>1 DEF SignalSync
  <2> QED BY <2>1, <2>2, RxQueueKept
<1>12. CASE ProcessMessage
  <2>1. rxlock' = rxlock /\ rpc' \in {"listen", "save"}
    BY <1>12 DEF ProcessMessage
  <2>2. \A d \in Callers : pc'[d] = pc[d] \/ d = writer
    BY <1>0, <1>12 DEF ProcessMessage
  <2>3. \A d \in Callers : d = writer => pc[d] = "suspended"
    BY DEF IInv, ReferencesSound
  <2> QED BY <2>1, <2>2, <2>3, RxQueueKept
<1>13. CASE \/ ReaderClear \/ WaitEvent \/ GetFlags \/ Drain \/ ModemSend
            \/ ModemOff \/ (\E s \in Urcs : ModemUrc(s)) \/ UNCHANGED vars
  <2>1. /\ UNCHANGED <<pc, rxlock>>
        /\ rpc' = rpc \/ rpc' \in {"process", "getflags", "drain"}
    BY <1>13 DEF ReaderClear, WaitEvent, GetFlags, Drain, ModemSend, ModemOff,
         ModemUrc, vars, callVars, syncVars, readVars
  <2> QED BY <2>1, RxQueueKept
<1> QED
  BY <1>4, <1>5, <1>6, <1>7, <1>8, <1>9, <1>10, <1>11, <1>12, <1>13
  DEF Next, CallerStep, ReaderStep

\* While no caller queues for rxlock, the reader that is blocked is suspended,
\* or is waiting for text and has read all there was.
LEMMA BlockedReader ==
  ASSUME IInv, ~deaf, RxQueueInv, ReaderBlocked,
         \A c \in Callers : pc[c] # "rxlocking"
  PROVE  \/ rpc \in {"save", "parked"}
         \/ rpc = "listen" /\ inq = <<>> /\ ~epending
<1>1. ASSUME rpc = "locking" PROVE Owns(rxlock, Reader)
  <2>1. rxlock \in Seq(Callers \cup {Reader})
    BY DEF IInv, TypeOK
  <2>2. InSeq(rxlock, Reader)
    BY <1>1 DEF RxQueueInv
  <2>3. rxlock # <<>> /\ 1 \in 1 .. Len(rxlock) /\ Head(rxlock) = rxlock[1]
    BY <2>1, <2>2 DEF InSeq
  <2>4. rxlock[1] \notin Callers
    BY <2>3 DEF RxQueueInv
  <2>5. rxlock[1] \in Callers \cup {Reader}
    BY <2>1, <2>3
  <2> QED BY <2>3, <2>4, <2>5 DEF Owns
<1>2. ASSUME rpc = "listen", ~epending PROVE inq = <<>>
  BY <1>2 DEF IInv, NoLostWakeup
<1> QED BY <1>1, <1>2 DEF ReaderBlocked

\* While nobody is answered either, no final status has been read.
LEMMA BlockedFacts ==
  ASSUME IInv, ~deaf, RxQueueInv, ParkedInv, ReplyInv, ReaderBlocked,
         \A c \in Callers : pc[c] \notin {"answered", "rxlocking", "finish"}
  PROVE  rpc = "listen" /\ inq = <<>> /\ Plain(rxbuf)
<1>1. rpc \notin {"save", "parked"}
  BY DEF ParkedInv
<1>2. rpc = "listen" /\ inq = <<>>
  BY <1>1, BlockedReader
<1>3. Plain(rxbuf)
  BY <1>2 DEF ReplyInv
<1> QED BY <1>2, <1>3

\* A step that does not move the reader to its suspension, nor a caller that
\* was answered.
LEMMA ParkedKept ==
  ASSUME ParkedInv, rpc' \in {"save", "parked"} => rpc' = rpc,
         \A d \in Callers : pc[d] \in {"answered", "rxlocking", "finish"} =>
                              pc'[d] = pc[d]
  PROVE  ParkedInv'
<1>1. rpc' = "save" => \E c \in Callers : pc'[c] \in {"answered", "rxlocking"}
  BY DEF ParkedInv
<1>2. rpc' = "parked" =>
        \E c \in Callers : pc'[c] \in {"answered", "rxlocking", "finish"}
  BY DEF ParkedInv
<1> QED BY <1>1, <1>2 DEF ParkedInv

\* Every step keeps that: the reader parks only for a caller that it
\* answered, because no final status comes unasked.
LEMMA ParkedStep ==
  ASSUME IInv, ParkedInv, ReplyInv, [Next]_vars
  PROVE  ParkedInv'
<1>0. /\ pc \in [Callers -> CallerPc] /\ Reader \notin Callers
      /\ reader \in {Reader, NULL} /\ NULL # Reader
      /\ writer \in Callers \cup {NULL} /\ NULL \notin Callers
      /\ rxbuf \in Seq(Chunk)
  BY CallersAssumption DEF IInv, TypeOK
<1>1. CASE ProcessMessage
  <2>1. CASE sim8xxGetStatus(rxbuf) = "INVALID"
    <3>1. rpc' = "listen" /\ pc' = pc
      BY <1>1, <2>1 DEF ProcessMessage
    <3> QED BY <3>1, ParkedKept
  <2>2. CASE sim8xxGetStatus(rxbuf) # "INVALID"
    <3>1. /\ rpc = "process" /\ rpc' = "save"
          /\ pc' = [c \in Callers |-> IF c = writer THEN "answered" ELSE pc[c]]
      BY <1>1, <2>2 DEF ProcessMessage
    <3>2. ~Plain(rxbuf)
      BY <1>0, <2>2, StatusFacts
    <3>3. PICK c \in Callers : pc[c] = "suspended"
      BY <3>1, <3>2 DEF ReplyInv
    <3>4. writer = c
      BY <3>3 DEF IInv, ReferencesSound
    <3>5. pc'[c] = "answered"
      BY <3>1, <3>4
    <3> QED BY <3>1, <3>5 DEF ParkedInv
  <2> QED BY <2>1, <2>2
<1>2. CASE Park
  <2>1. pc' = pc /\ rpc = "save" /\ rpc' = "parked"
    BY <1>2 DEF Park, callVars
  <2> QED BY <2>1 DEF ParkedInv
<1>3. ASSUME NEW c \in Callers, LockRx(c) PROVE ParkedInv'
  <2>1. rpc' = rpc /\ pc' = [pc EXCEPT ![c] = "rxlocking"]
    BY <1>3 DEF LockRx, readVars
  <2>2. rpc' = "save" => \E d \in Callers : pc'[d] \in {"answered", "rxlocking"}
    BY <1>0, <2>1 DEF ParkedInv
  <2>3. rpc' = "parked" =>
          \E d \in Callers : pc'[d] \in {"answered", "rxlocking", "finish"}
    BY <1>0, <2>1 DEF ParkedInv
  <2> QED BY <2>2, <2>3 DEF ParkedInv
<1>4. ASSUME NEW c \in Callers, CopyResponse(c) PROVE ParkedInv'
  <2>1. rpc' = rpc /\ pc' = [pc EXCEPT ![c] = "finish"] /\ Owns(rxlock, c)
    BY <1>4 DEF CopyResponse, readVars
  <2>2. rpc # "save"
    BY <1>0, <2>1 DEF IInv, RxInv, Owns
  <2>3. rpc' = "parked" =>
          \E d \in Callers : pc'[d] \in {"answered", "rxlocking", "finish"}
    BY <1>0, <2>1 DEF ParkedInv
  <2> QED BY <2>1, <2>2, <2>3 DEF ParkedInv
<1>5. ASSUME NEW c \in Callers, ResumeReader(c) PROVE ParkedInv'
  <2>1. /\ pc[c] = "finish" /\ pc' = [pc EXCEPT ![c] = "unlock"]
        /\ rpc' = IF reader # NULL THEN "lock" ELSE rpc
    BY <1>5 DEF ResumeReader
  <2>2. rpc' # "parked" /\ (rpc' = "save" => rpc = "save")
    BY <1>0, <2>1 DEF IInv, ReferencesSound
  <2>3. rpc' = "save" => \E d \in Callers : pc'[d] \in {"answered", "rxlocking"}
    BY <1>0, <2>1, <2>2 DEF ParkedInv
  <2> QED BY <2>2, <2>3 DEF ParkedInv
<1>6. ASSUME NEW c \in Callers,
             \/ SemWait(c) \/ SendRequest(c) \/ SuspendWriter(c) \/ Unlock(c)
             \/ PowerKeyLow(c) \/ PowerKeyHigh(c) \/ WriterTimeout(c)
             \/ \E o \in Ops : Call(c, o)
      PROVE  ParkedInv'
  <2>1. /\ rpc' = rpc /\ pc[c] \notin {"answered", "rxlocking", "finish"}
        /\ \E p \in CallerPc : pc' = [pc EXCEPT ![c] = p]
    BY <1>6 DEF Call, SemWait, SendRequest, SuspendWriter, Unlock, PowerKeyLow,
         PowerKeyHigh, WriterTimeout, CallerPc, readVars
  <2> QED BY <1>0, <2>1, ParkedKept
<1>7. ASSUME NEW c \in Callers, TimedOut(c) \/ PowerDone(c) PROVE ParkedInv'
  <2>1. /\ rpc' = rpc /\ pc[c] \notin {"answered", "rxlocking", "finish"}
        /\ \E p \in CallerPc : SignalSync([pc EXCEPT ![c] = p])
    BY <1>7 DEF TimedOut, PowerDone, CallerPc, readVars
  <2>2. \A d \in Callers : pc[d] \in {"answered", "rxlocking", "finish"} =>
                             pc'[d] = pc[d]
    BY <1>0, <2>1 DEF SignalSync
  <2> QED BY <2>1, <2>2, ParkedKept
<1>8. CASE GuardTimer
  <2>1. rpc' = rpc /\ SignalSync(pc)
    BY <1>8 DEF GuardTimer
  <2>2. \A d \in Callers : pc[d] \in {"answered", "rxlocking", "finish"} =>
                             pc'[d] = pc[d]
    BY <1>0, <2>1 DEF SignalSync
  <2> QED BY <2>1, <2>2, ParkedKept
<1>9. CASE \/ ReaderLock \/ ReaderClear \/ WaitEvent \/ GetFlags \/ Drain
           \/ ModemSend \/ ModemOff \/ (\E s \in Urcs : ModemUrc(s))
           \/ UNCHANGED vars
  <2>1. pc' = pc /\ (rpc' \in {"save", "parked"} => rpc' = rpc)
    BY <1>9 DEF ReaderLock, ReaderClear, WaitEvent, GetFlags, Drain, ModemSend,
         ModemOff, ModemUrc, vars, callVars, readVars
  <2> QED BY <2>1, ParkedKept
<1> QED
  BY <1>1, <1>2, <1>3, <1>4, <1>5, <1>6, <1>7, <1>8, <1>9
  DEF Next, CallerStep, ReaderStep

-----------------------------------------------------------------------------
(* Where the reply to a command is.                                        *)

\* A step that leaves the text, the reader and those who await a reply alone.
LEMMA TextKept ==
  ASSUME TextInv, UNCHANGED <<mpend, inq, rxbuf, rpc, modemOn>>,
         \A d \in Callers :
           pc'[d] = pc[d] \/ {pc[d], pc'[d]} \cap {"sent", "suspended", "timedout"} = {}
  PROVE  TextInv'
<1>1. \A d \in Callers, p \in {"sent", "suspended", "timedout"} :
        pc'[d] = p <=> pc[d] = p
  OBVIOUS
<1>2. ReplyInv'
  <2>1. (\E c \in Callers : Awaits(c)) => \E c \in Callers : Awaits(c)'
    BY <1>1 DEF Awaits
  <2>2. (\E c \in Callers : pc[c] = "suspended") =>
          \E c \in Callers : pc'[c] = "suspended"
    BY <1>1
  <2> QED BY <2>1, <2>2 DEF TextInv, ReplyInv
<1>3. OwedInv'
  BY <1>1 DEF TextInv, OwedInv
<1>4. TimeoutMeansOff'
  BY <1>1 DEF TextInv, TimeoutMeansOff
<1> QED BY <1>2, <1>3, <1>4 DEF TextInv

\* Nobody awaits anything, and there is no final status.
LEMMA TextQuiet ==
  ASSUME Plain(mpend'), Plain(inq'), Plain(rxbuf'), Reply(mpend'),
         \A d \in Callers : pc'[d] \notin {"sent", "suspended"},
         \A d \in Callers : pc'[d] = "timedout" => ~modemOn'
  PROVE  TextInv'
BY DEF TextInv, ReplyInv, OwedInv, TimeoutMeansOff

\* The calls move the reply as the invariant says.
LEMMA TextCalls ==
  ASSUME Timely, IInv, ~deaf, RxQueueInv, ParkedInv, TextInv,
         NEW c \in Callers,
         CallerStep(c) \/ WriterTimeout(c) \/ \E o \in Ops : Call(c, o)
  PROVE  TextInv'
<1> USE DEF Active
<1>0. /\ pc \in [Callers -> CallerPc] /\ Reader \notin Callers
      /\ reader \in {Reader, NULL} /\ NULL # Reader
      /\ writer \in Callers \cup {NULL} /\ NULL \notin Callers
      /\ rxbuf \in Seq(Chunk) /\ inq \in Seq(Chunk) /\ mpend \in Seq(Chunk)
      /\ modemOn \in BOOLEAN
  BY CallersAssumption DEF IInv, TypeOK
<1>1. ASSUME Active(c) PROVE \A d \in Callers : d # c => ~Active(d)
  BY <1>1, OneActive DEF IInv
<1>2. ASSUME SendRequest(c) PROVE TextInv'
  <2>1. /\ pc[c] = "send" /\ ReaderBlocked
        /\ pc' = [pc EXCEPT ![c] = "sent"]
        /\ inq' = Aged(inq) /\ rxbuf' = Aged(rxbuf) /\ UNCHANGED <<rpc, modemOn>>
    BY <1>2 DEF SendRequest, CallersRun
  <2>2. \A d \in Callers : pc[d] \in {"idle", "locking", "send"}
    BY <1>1, <2>1
  <2>3. Plain(mpend) /\ Plain(inq)
    BY <2>2 DEF TextInv, ReplyInv, Awaits
  <2>4. Plain(rxbuf)
    BY <2>1, <2>2, BlockedFacts DEF TextInv
  <2>5. Plain(inq') /\ Plain(rxbuf')
    BY <1>0, <2>1, <2>3, <2>4, AgedPlain
  <2>6. Plain(Aged(mpend)) /\ Reply(Aged(mpend)) /\ Aged(mpend) \in Seq(Chunk)
    BY <1>0, <2>3, AgedPlain, AgedFacts, StatusFacts
  <2>7. \/ /\ modemOn
           /\ \E s \in {"OK", "ERROR"} :
                mpend' = Aged(mpend) \o <<[st |-> "INVALID", fresh |-> Timely],
                                          [st |-> s, fresh |-> Timely]>>
        \/ ~modemOn /\ mpend' = Aged(mpend)
    BY <1>2 DEF SendRequest
  <2>8. Reply(mpend') /\ (modemOn => ~Plain(mpend'))
    BY <2>6, <2>7, ReplySent
  <2>9. pc'[c] = "sent" /\ \A d \in Callers : d # c => pc'[d] \in {"idle", "locking"}
    BY <1>0, <1>1, <2>1
  <2>10. ReplyInv'
    BY <2>5, <2>8, <2>9 DEF ReplyInv, Awaits
  <2>11. OwedInv' /\ TimeoutMeansOff'
    BY <2>1, <2>8, <2>9 DEF OwedInv, TimeoutMeansOff
  <2> QED BY <2>10, <2>11 DEF TextInv
<1>3. ASSUME SuspendWriter(c) PROVE TextInv'
  <2>1. /\ pc[c] = "sent" /\ pc' = [pc EXCEPT ![c] = "suspended"]
        /\ UNCHANGED <<mpend, inq, rxbuf, rpc, modemOn>>
    BY <1>3 DEF SuspendWriter, readVars, lineVars, modemVars
  <2>2. /\ pc'[c] = "suspended" /\ modemOn => ~Plain(mpend)
        /\ \A d \in Callers : d # c => pc'[d] \in {"idle", "locking"}
    BY <1>0, <1>1, <2>1 DEF TextInv, OwedInv
  <2>3. pc'[c] = "suspended"
    BY <1>0, <2>1
  <2>4. ReplyInv'
    BY <2>1, <2>3 DEF TextInv, ReplyInv, Awaits
  <2>5. OwedInv' /\ TimeoutMeansOff'
    BY <2>1, <2>2, <2>3 DEF OwedInv, TimeoutMeansOff
  <2> QED BY <2>4, <2>5 DEF TextInv
<1>4. ASSUME WriterTimeout(c) PROVE TextInv'
  <2>1. /\ pc[c] = "suspended" /\ pc' = [pc EXCEPT ![c] = "timedout"]
        /\ ReaderBlocked /\ mpend = <<>>
        /\ UNCHANGED <<mpend, inq, rxbuf, rpc, modemOn>>
    BY <1>4 DEF WriterTimeout, readVars, lineVars, modemVars
  <2>2. \A d \in Callers : pc[d] \in {"idle", "locking", "suspended"}
    BY <1>1, <2>1
  <2>3. rpc = "listen" /\ inq = <<>> /\ Plain(rxbuf)
    BY <2>1, <2>2, BlockedFacts DEF TextInv
  <2>4. Plain(<<>>) /\ Reply(<<>>)
    BY <1>0, StatusFacts
  <2>5. ~modemOn
    BY <2>1, <2>3, <2>4 DEF TextInv, OwedInv
  <2>6. \A d \in Callers : pc'[d] \in {"idle", "locking", "timedout"}
    BY <1>0, <1>1, <2>1
  <2> QED BY <2>1, <2>3, <2>4, <2>5, <2>6, TextQuiet
<1>5. ASSUME ResumeReader(c) PROVE TextInv'
  <2>1. /\ pc[c] = "finish" /\ pc' = [pc EXCEPT ![c] = "unlock"]
        /\ rpc' = IF reader # NULL THEN "lock" ELSE rpc
        /\ UNCHANGED <<mpend, inq, rxbuf, modemOn>>
    BY <1>5 DEF ResumeReader, lineVars, modemVars
  <2>2. \A d \in Callers : pc'[d] \in {"idle", "locking", "unlock"}
    BY <1>0, <1>1, <2>1
  <2>3. \A d \in Callers : pc[d] \in {"idle", "locking", "finish"}
    BY <1>1, <2>1
  <2>4. rpc' = "lock" \/ rpc' = rpc
    BY <2>1
  <2>5. ReplyInv'
    BY <2>1, <2>2, <2>3, <2>4 DEF TextInv, ReplyInv, Awaits
  <2>6. OwedInv' /\ TimeoutMeansOff'
    BY <2>2 DEF OwedInv, TimeoutMeansOff
  <2> QED BY <2>5, <2>6 DEF TextInv
<1>6. ASSUME PowerKeyHigh(c) PROVE TextInv'
  <2>1. /\ pc[c] = "keylow" /\ pc' = [pc EXCEPT ![c] = "keyhigh"]
        /\ mpend' = <<>> \/ mpend' = <<[st |-> "INVALID", fresh |-> FALSE]>>
        /\ UNCHANGED <<inq, rxbuf, rpc>>
    BY <1>6 DEF PowerKeyHigh, lineVars, readVars
  <2>2. \A d \in Callers : pc'[d] \in {"idle", "locking", "keyhigh"}
    BY <1>0, <1>1, <2>1
  <2>3. \A d \in Callers : pc[d] \in {"idle", "locking", "keylow"}
    BY <1>1, <2>1
  <2>4. Plain(mpend') /\ Reply(mpend')
    BY <2>1 DEF Plain, Reply
  <2>5. ReplyInv'
    BY <2>1, <2>2, <2>3, <2>4 DEF TextInv, ReplyInv, Awaits
  <2>6. OwedInv' /\ TimeoutMeansOff'
    BY <2>2 DEF OwedInv, TimeoutMeansOff
  <2> QED BY <2>5, <2>6 DEF TextInv
<1>7. ASSUME TimedOut(c) \/ PowerDone(c) PROVE TextInv'
  <2>1. /\ pc[c] \in {"timedout", "keyhigh"}
        /\ UNCHANGED <<mpend, inq, rxbuf, rpc, modemOn>>
        /\ \E p \in {"finish", "unlock"} : SignalSync([pc EXCEPT ![c] = p])
    BY <1>7 DEF TimedOut, PowerDone, readVars, lineVars, modemVars
  <2>2. /\ \A d \in Callers : pc[d] \in {"idle", "locking", "timedout", "keyhigh"}
        /\ \A d \in Callers : pc'[d] \in {"idle", "locking", "finish", "unlock"}
    BY <1>0, <1>1, <2>1 DEF SignalSync
  <2>3. ReplyInv'
    BY <2>1, <2>2 DEF TextInv, ReplyInv, Awaits
  <2>4. OwedInv' /\ TimeoutMeansOff'
    BY <2>2 DEF OwedInv, TimeoutMeansOff
  <2> QED BY <2>3, <2>4 DEF TextInv
<1>8. ASSUME \/ SemWait(c) \/ Unlock(c) \/ LockRx(c) \/ CopyResponse(c)
             \/ PowerKeyLow(c) \/ \E o \in Ops : Call(c, o)
      PROVE  TextInv'
  <2>1. /\ UNCHANGED <<mpend, inq, rxbuf, rpc, modemOn>>
        /\ pc[c] \notin {"sent", "suspended", "timedout"}
        /\ \E p \in CallerPc \ {"sent", "suspended", "timedout"} :
             pc' = [pc EXCEPT ![c] = p]
    BY <1>8 DEF Call, SemWait, Unlock, LockRx, CopyResponse, PowerKeyLow,
         readVars, lineVars, modemVars, CallerPc
  <2> QED BY <1>0, <2>1, TextKept
<1> QED BY <1>2, <1>3, <1>4, <1>5, <1>6, <1>7, <1>8 DEF CallerStep

\* The reader takes the reply from the queue to the caller that awaits it.
LEMMA TextReader ==
  ASSUME IInv, ~deaf, TextInv, ReaderStep
  PROVE  TextInv'
<1>0. /\ pc \in [Callers -> CallerPc]
      /\ writer \in Callers \cup {NULL} /\ NULL \notin Callers
      /\ rxbuf \in Seq(Chunk) /\ inq \in Seq(Chunk) /\ mpend \in Seq(Chunk)
  BY CallersAssumption DEF IInv, TypeOK
<1>1. Plain(<<>>) /\ Reply(<<>>)
  BY <1>0, StatusFacts
<1>2. CASE ReaderLock \/ WaitEvent \/ Park
  <2>1. /\ UNCHANGED <<pc, mpend, inq, rxbuf, modemOn>>
        /\ \/ rpc = "lock" /\ rpc' = "locking"
           \/ rpc = "listen" /\ rpc' = "getflags"
           \/ rpc = "save" /\ rpc' = "parked"
    BY <1>2 DEF ReaderLock, WaitEvent, Park, callVars, lineVars, modemVars
  <2>2. ReplyInv'
    BY <2>1 DEF TextInv, ReplyInv, Awaits
  <2>3. OwedInv' /\ TimeoutMeansOff'
    BY <2>1 DEF TextInv, OwedInv, TimeoutMeansOff
  <2> QED BY <2>2, <2>3 DEF TextInv
<1>3. CASE ReaderClear
  <2>1. /\ UNCHANGED <<pc, mpend, inq, modemOn>>
        /\ rxbuf' = <<>> /\ rpc = "locking" /\ rpc' = "process"
    BY <1>3 DEF ReaderClear, callVars, lineVars, modemVars
  <2>2. ReplyInv'
    BY <1>1, <2>1 DEF TextInv, ReplyInv, Awaits
  <2>3. OwedInv' /\ TimeoutMeansOff'
    BY <2>1 DEF TextInv, OwedInv, TimeoutMeansOff
  <2> QED BY <2>2, <2>3 DEF TextInv
<1>4. CASE ProcessMessage
  <2>1. rpc = "process" /\ UNCHANGED <<mpend, inq, rxbuf, modemOn>>
    BY <1>4 DEF ProcessMessage, lineVars, modemVars
  <2>2. Plain(rxbuf) \/ (Reply(rxbuf) /\ ~Plain(rxbuf))
    BY <2>1 DEF TextInv, ReplyInv
  <2>3. CASE sim8xxGetStatus(rxbuf) = "INVALID"
    <3>1. rpc' = "listen" /\ pc' = pc
      BY <1>4, <2>3 DEF ProcessMessage
    <3>2. Plain(rxbuf)
      BY <1>0, <2>2, <2>3, StatusFacts
    <3>3. ReplyInv'
      BY <2>1, <3>1, <3>2 DEF TextInv, ReplyInv, Awaits
    <3>4. OwedInv' /\ TimeoutMeansOff'
      BY <2>1, <3>1, <3>2 DEF TextInv, OwedInv, TimeoutMeansOff
    <3> QED BY <3>3, <3>4 DEF TextInv
  <2>4. CASE sim8xxGetStatus(rxbuf) # "INVALID"
    <3>1. /\ rpc' = "save"
          /\ pc' = [d \in Callers |-> IF d = writer THEN "answered" ELSE pc[d]]
      BY <1>4, <2>4 DEF ProcessMessage
    <3>2. ~Plain(rxbuf)
      BY <1>0, <2>4, StatusFacts
    <3>3. Reply(rxbuf) /\ inq = <<>> /\ mpend = <<>>
      BY <2>1, <3>2 DEF TextInv, ReplyInv
    <3>4. ReplyInv'
      BY <1>1, <2>1, <3>1, <3>3 DEF ReplyInv
    <3>5. /\ \A d \in Callers : pc'[d] # "suspended"
          /\ \A d \in Callers : pc'[d] \in {"sent", "timedout"} => pc'[d] = pc[d]
      BY <1>0, <3>1 DEF IInv, ReferencesSound
    <3>6. OwedInv' /\ TimeoutMeansOff'
      BY <2>1, <3>5 DEF TextInv, OwedInv, TimeoutMeansOff
    <3> QED BY <3>4, <3>6 DEF TextInv
  <2> QED BY <2>3, <2>4
<1>5. CASE GetFlags
  <2>1. /\ UNCHANGED <<pc, mpend, inq, rxbuf, modemOn>>
        /\ rpc = "getflags" /\ rpc' = IF flags THEN "drain" ELSE "process"
    BY <1>5 DEF GetFlags, callVars, modemVars
  <2>2. Plain(rxbuf)
    BY <2>1 DEF TextInv, ReplyInv
  <2>3. Plain(inq) \/ rpc' = "drain"
    BY <1>1, <2>1 DEF IInv, NoLostWakeup
  <2>4. ReplyInv'
    BY <2>1, <2>2, <2>3 DEF TextInv, ReplyInv, Awaits
  <2>5. OwedInv' /\ TimeoutMeansOff'
    BY <2>1 DEF TextInv, OwedInv, TimeoutMeansOff
  <2> QED BY <2>4, <2>5 DEF TextInv
<1>6. CASE Drain
  <2>1. rpc = "drain" /\ UNCHANGED <<pc, mpend, modemOn>>
    BY <1>6 DEF Drain, callVars, modemVars
  <2>2. CASE inq = <<>>
    <3>1. rpc' = "process" /\ UNCHANGED <<rxbuf, inq>>
      BY <1>6, <2>2 DEF Drain
    <3>2. ReplyInv'
      BY <1>1, <2>1, <2>2, <3>1 DEF TextInv, ReplyInv, Awaits
    <3>3. OwedInv' /\ TimeoutMeansOff'
      BY <2>1, <3>1 DEF TextInv, OwedInv, TimeoutMeansOff
    <3> QED BY <3>2, <3>3 DEF TextInv
  <2>3. CASE inq # <<>>
    <3> DEFINE h == Head(inq)
    <3>1. rxbuf' = Append(rxbuf, h) /\ inq' = Tail(inq) /\ rpc' = "drain"
      BY <1>6, <2>1, <2>3 DEF Drain
    <3>2. Plain(rxbuf) /\ Reply(inq)
      BY <1>0, <2>1, <2>3, StatusFacts DEF TextInv, ReplyInv
    <3>3. /\ h \in Chunk /\ Reply(inq')
          /\ h.st = "INVALID" => (Plain(inq') <=> Plain(inq))
          /\ h.st # "INVALID" =>
               inq' = <<>> /\ ~Plain(inq) /\ h.fresh /\ h.st # "TIMEOUT"
      BY <1>0, <2>3, <3>1, <3>2, TailReply
    <3> HIDE DEF h
    <3>4. /\ h.st = "INVALID" => Plain(rxbuf')
          /\ h.st # "INVALID" => ~Plain(rxbuf')
          /\ h.fresh /\ h.st # "TIMEOUT" => Reply(rxbuf')
      BY <1>0, <3>1, <3>2, <3>3, AppendPlain
    <3>5. ~Plain(inq) => mpend = <<>> /\ \E c \in Callers : pc[c] = "suspended"
      BY DEF TextInv, ReplyInv
    <3>6. ReplyInv'
      <4>1. CASE h.st = "INVALID"
        BY <2>1, <3>1, <3>3, <3>4, <3>5, <4>1 DEF TextInv, ReplyInv, Awaits
      <4>2. CASE h.st # "INVALID"
        BY <1>1, <2>1, <3>1, <3>3, <3>4, <3>5, <4>2 DEF ReplyInv
      <4> QED BY <4>1, <4>2
    <3>7. OwedInv' /\ TimeoutMeansOff'
      BY <2>1, <3>1, <3>2, <3>3, <3>4 DEF TextInv, OwedInv, TimeoutMeansOff
    <3> QED BY <3>6, <3>7 DEF TextInv
  <2> QED BY <2>2, <2>3
<1> QED BY <1>2, <1>3, <1>4, <1>5, <1>6 DEF ReaderStep

\* The modem adds to the queue: the final status of a reply finds it empty
\* and its caller suspended, so that it is not dropped.
LEMMA TextModem ==
  ASSUME Timely, Urcs \subseteq {"INVALID"}, IInv, ~deaf, RxQueueInv, ParkedInv, TextInv,
         ModemSend \/ ModemOff \/ (\E s \in Urcs : ModemUrc(s))
  PROVE  TextInv'
<1> USE DEF Active
<1>0. /\ rxbuf \in Seq(Chunk) /\ inq \in Seq(Chunk) /\ mpend \in Seq(Chunk)
      /\ QueueCap \in Nat \ {0} /\ modemOn \in BOOLEAN
  BY BoundsAssumption DEF IInv, TypeOK
<1>1. Plain(<<>>) /\ Reply(<<>>) /\ Len(<<>>) < QueueCap /\ <<>> \in Seq(Chunk)
  BY <1>0, StatusFacts
<1>2. ASSUME NEW c \in Callers, pc[c] \in {"sent", "suspended"}, ReaderBlocked
      PROVE  rpc = "listen" /\ inq = <<>> /\ Plain(rxbuf)
  <2>1. \A d \in Callers : pc[d] \in {"idle", "locking", "sent", "suspended"}
    BY <1>2, OneActive DEF IInv
  <2> QED BY <1>2, <2>1, BlockedFacts DEF TextInv
<1>3. CASE ModemOff
  <2>1. UNCHANGED <<pc, inq, rxbuf, rpc>> /\ mpend' = <<>> /\ modemOn' = FALSE
    BY <1>3 DEF ModemOff, callVars, readVars, lineVars
  <2>2. ReplyInv'
    BY <1>1, <2>1 DEF TextInv, ReplyInv
  <2>3. OwedInv' /\ TimeoutMeansOff'
    BY <2>1 DEF OwedInv, TimeoutMeansOff
  <2> QED BY <2>2, <2>3 DEF TextInv
<1>4. ASSUME NEW s \in Urcs, ModemUrc(s) PROVE TextInv'
  <2> DEFINE k == [st |-> s, fresh |-> FALSE]
  <2>1. /\ UNCHANGED <<pc, mpend, rxbuf, rpc, modemOn>> /\ ReaderBlocked
        /\ inq' = IF Len(inq) < QueueCap THEN Append(inq, k) ELSE inq
    BY <1>4 DEF ModemUrc, Incoming, CallersRun, callVars, readVars, modemVars
  <2>2. k \in Chunk /\ k.st = "INVALID"
    BY ChunkFacts
  <2> HIDE DEF k
  <2>3. Plain(inq)
    BY <1>1, <1>2, <2>1 DEF TextInv, ReplyInv
  <2>4. Plain(inq')
    BY <1>0, <2>1, <2>2, <2>3, AppendPlain
  <2>5. rpc \notin {"drain", "process"}
    BY <2>1 DEF ReaderBlocked
  <2>6. ReplyInv'
    BY <2>1, <2>4, <2>5 DEF TextInv, ReplyInv, Awaits
  <2>7. OwedInv' /\ TimeoutMeansOff'
    BY <2>1, <2>3, <2>5 DEF TextInv, OwedInv, TimeoutMeansOff
  <2> QED BY <2>6, <2>7 DEF TextInv
<1>5. CASE ModemSend
  <2> DEFINE h == Head(mpend)
  <2>1. /\ UNCHANGED <<pc, rxbuf, rpc, modemOn>>
        /\ mpend # <<>> /\ mpend' = Tail(mpend) /\ ReaderBlocked
        /\ \A c \in Callers : pc[c] # "sent"
        /\ inq' = IF Len(inq) < QueueCap THEN Append(inq, h) ELSE inq
    BY <1>5 DEF ModemSend, ReplyDue, Incoming, callVars, readVars
  <2>2. Reply(mpend) /\ Plain(inq)
    BY <2>1 DEF TextInv, ReplyInv
  <2>3. /\ h \in Chunk /\ Reply(mpend')
        /\ h.st = "INVALID" => (Plain(mpend') <=> Plain(mpend))
        /\ h.st # "INVALID" =>
             mpend' = <<>> /\ ~Plain(mpend) /\ h.fresh /\ h.st # "TIMEOUT"
    BY <1>0, <2>1, <2>2, TailReply
  <2> HIDE DEF h
  <2>4. rpc \notin {"drain", "process"}
    BY <2>1 DEF ReaderBlocked
  <2>5. CASE h.st = "INVALID"
    <3>1. Plain(inq')
      BY <1>0, <2>1, <2>2, <2>3, <2>5, AppendPlain
    <3>2. ReplyInv'
      BY <2>1, <2>3, <2>4, <2>5, <3>1 DEF TextInv, ReplyInv, Awaits
    <3>3. OwedInv' /\ TimeoutMeansOff'
      BY <2>1, <2>2, <2>3, <2>4, <2>5 DEF TextInv, OwedInv, TimeoutMeansOff
    <3> QED BY <3>2, <3>3 DEF TextInv
  <2>6. CASE h.st # "INVALID"
    <3>1. PICK c \in Callers : pc[c] = "suspended"
      BY <2>1, <2>3, <2>6 DEF TextInv, ReplyInv, Awaits
    <3>2. rpc = "listen" /\ inq = <<>> /\ Plain(rxbuf)
      BY <1>2, <2>1, <3>1
    <3>3. inq' = Append(<<>>, h)
      BY <1>1, <2>1, <3>2
    <3>4. ~Plain(inq') /\ Reply(inq')
      BY <1>1, <2>3, <2>6, <3>3, AppendPlain
    <3>5. ReplyInv'
      BY <1>1, <2>1, <2>3, <2>6, <3>1, <3>2, <3>4 DEF ReplyInv
    <3>6. OwedInv' /\ TimeoutMeansOff'
      BY <2>1, <3>4 DEF TextInv, OwedInv, TimeoutMeansOff
    <3> QED BY <3>5, <3>6 DEF TextInv
  <2> QED BY <2>5, <2>6
<1> QED BY <1>3, <1>4, <1>5

\* Every step keeps track of the reply.
LEMMA TextStep ==
  ASSUME Timely, Urcs \subseteq {"INVALID"}, IInv, ~deaf, RxQueueInv, ParkedInv, TextInv,
         [Next]_vars
  PROVE  TextInv'
<1>0. pc \in [Callers -> CallerPc]
  BY DEF IInv, TypeOK
<1>1. CASE GuardTimer
  <2>1. SignalSync(pc) /\ UNCHANGED <<mpend, inq, rxbuf, rpc, modemOn>>
    BY <1>1 DEF GuardTimer, lineVars, modemVars
  <2>2. \A d \in Callers : pc'[d] = pc[d] \/ (pc[d] = "semwait" /\ pc'[d] = "send")
    BY <1>0, <2>1 DEF SignalSync
  <2> QED BY <2>1, <2>2, TextKept
<1>2. CASE UNCHANGED vars
  <2>1. UNCHANGED <<pc, mpend, inq, rxbuf, rpc, modemOn>>
    BY <1>2 DEF vars, callVars, readVars, lineVars, modemVars
  <2> QED BY <2>1, TextKept
<1> QED BY <1>1, <1>2, TextCalls, TextReader, TextModem DEF Next

-----------------------------------------------------------------------------
(* Answers and tokens.                                                     *)

\* The answer that a caller copies is that to its own command.
LEMMA CopiedFresh ==
  ASSUME IInv, TextInv, NEW c \in Callers, CopyResponse(c)
  PROVE  /\ rxbuf # <<>> /\ rxbuf[Len(rxbuf)].fresh
         /\ sim8xxGetStatus(rxbuf) # "TIMEOUT"
<1>1. /\ rxbuf \in Seq(Chunk) /\ rpc \in {"save", "parked"}
      /\ sim8xxGetStatus(rxbuf) # "INVALID"
  BY DEF IInv, TypeOK, AnswerIntact, CopyResponse
<1>2. ~Plain(rxbuf)
  BY <1>1, StatusFacts
<1>3. Reply(rxbuf)
  BY <1>1, <1>2 DEF TextInv, ReplyInv
<1> QED BY <1>1, <1>2, <1>3, StatusFacts

\* Every step keeps what the callers have been answered.
LEMMA FreshStep ==
  ASSUME IInv, TextInv, FreshAnswer, [Next]_vars
  PROVE  FreshAnswer'
<1>0. cmd \in [Callers -> Chunk]
  BY DEF IInv, TypeOK
<1>1. ASSUME NEW c \in Callers, CopyResponse(c) PROVE FreshAnswer'
  <2> DEFINE a == [st |-> sim8xxGetStatus(rxbuf),
                   fresh |-> rxbuf # <<>> /\ rxbuf[Len(rxbuf)].fresh]
  <2>1. cmd' = [cmd EXCEPT ![c] = a]
    BY <1>1 DEF CopyResponse
  <2>2. a.fresh
    BY <1>1, CopiedFresh
  <2> HIDE DEF a
  <2> QED BY <1>0, <2>1, <2>2 DEF FreshAnswer
<1>2. ASSUME NEW c \in Callers, TimedOut(c) \/ \E o \in Ops : Call(c, o)
      PROVE  FreshAnswer'
  <2>1. \E s \in {"INVALID", "TIMEOUT"} :
          cmd' = [cmd EXCEPT ![c] = [st |-> s, fresh |-> FALSE]]
    BY <1>2 DEF TimedOut, Call
  <2> QED BY <1>0, <2>1 DEF FreshAnswer
<1>3. ASSUME cmd' = cmd PROVE FreshAnswer'
  BY <1>3 DEF FreshAnswer
<1>4. ASSUME NEW c \in Callers,
             \/ SemWait(c) \/ SendRequest(c) \/ SuspendWriter(c) \/ LockRx(c)
             \/ ResumeReader(c) \/ Unlock(c) \/ PowerKeyLow(c)
             \/ PowerKeyHigh(c) \/ PowerDone(c) \/ WriterTimeout(c)
      PROVE  cmd' = cmd
  BY <1>4 DEF SemWait, SendRequest, SuspendWriter, LockRx, ResumeReader, Unlock,
       PowerKeyLow, PowerKeyHigh, PowerDone, WriterTimeout
<1>5. ASSUME \/ ReaderStep \/ GuardTimer \/ ModemSend \/ ModemOff
             \/ (\E s \in Urcs : ModemUrc(s)) \/ UNCHANGED vars
      PROVE  cmd' = cmd
  BY <1>5 DEF ReaderStep, ReaderLock, ReaderClear, ProcessMessage, WaitEvent,
       GetFlags, Drain, Park, GuardTimer, ModemSend, ModemOff, ModemUrc, vars,
       callVars
<1> QED BY <1>1, <1>2, <1>3, <1>4, <1>5 DEF Next, CallerStep

\* A step that leaves the tokens alone and hands none to a caller.
LEMMA TokensKept ==
  ASSUME TokensInv, UNCHANGED <<sync, guard, toggled>>,
         \A d \in Callers : Carries(d)' => Carries(d),
         \A d \in Callers : pc'[d] = "keyhigh" => pc[d] = "keyhigh"
  PROVE  TokensInv'
<1> SUFFICES ASSUME ~toggled'
             PROVE  /\ sync' =< 1
                    /\ guard' => sync' =< 0
                    /\ \A d \in Callers : Carries(d)' => sync' =< 0 /\ ~guard'
                    /\ \A d \in Callers : pc'[d] # "keyhigh"
  BY DEF TokensInv
<1> QED BY DEF TokensInv

\* Until the power key is used, every step keeps the one token.
LEMMA TokensStep ==
  ASSUME Timely, IInv, ParkedInv, TokensInv, [Next]_vars
  PROVE  TokensInv'
<1> USE DEF Active
<1>0. /\ pc \in [Callers -> CallerPc] /\ sync \in Int /\ guard \in BOOLEAN
      /\ reader \in {Reader, NULL} /\ NULL # Reader /\ Reader \notin Callers
      /\ writer \in Callers \cup {NULL} /\ NULL \notin Callers
  BY CallersAssumption DEF IInv, TypeOK
<1>1. \A d \in Callers : Carries(d) => Active(d)
  BY DEF Carries
<1>2. ASSUME NEW c \in Callers, SemWait(c) PROVE TokensInv'
  <2>1. /\ pc[c] = "locking" /\ Owns(lock, c) /\ sync' = sync - 1
        /\ pc' = [pc EXCEPT ![c] = IF sync - 1 < 0 THEN "semwait" ELSE "send"]
        /\ UNCHANGED <<guard, toggled, rpc>>
    BY <1>2 DEF SemWait, readVars, modemVars, pastVars
  <2>2. \A d \in Callers : ~Active(d)
    BY <2>1 DEF IInv, LockInv, Owns
  <2>3. \A d \in Callers : d # c => ~Carries(d)' /\ pc'[d] # "keyhigh"
    BY <1>0, <2>1, <2>2 DEF Carries
  <2>4. /\ pc'[c] # "keyhigh"
        /\ Carries(c)' => sync >= 1
    BY <1>0, <2>1 DEF Carries
  <2> SUFFICES ASSUME ~toggled PROVE TokensInv'
    BY <2>1 DEF TokensInv
  <2>5. sync =< 1 /\ (guard => sync =< 0)
    BY DEF TokensInv
  <2>6. /\ sync' =< 1 /\ (guard' => sync' =< 0)
        /\ Carries(c)' => sync' =< 0 /\ ~guard'
    BY <1>0, <2>1, <2>4, <2>5
  <2> QED BY <2>3, <2>4, <2>6 DEF TokensInv
<1>3. ASSUME NEW c \in Callers, TimedOut(c) PROVE TokensInv'
  <2>1. /\ pc[c] = "timedout" /\ SignalSync([pc EXCEPT ![c] = "finish"])
        /\ UNCHANGED <<guard, toggled, rpc>>
    BY <1>3 DEF TimedOut, readVars, modemVars, pastVars
  <2>2. \A d \in Callers : d # c => ~Active(d)
    BY <2>1, OneActive DEF IInv
  <2>3. \A d \in Callers : pc'[d] \in {"idle", "locking", "finish"}
    BY <1>0, <2>1, <2>2 DEF SignalSync
  <2>4. \A d \in Callers : ~Carries(d)' /\ pc'[d] # "keyhigh"
    BY <2>3 DEF Carries
  <2> SUFFICES ASSUME ~toggled PROVE TokensInv'
    BY <2>1 DEF TokensInv
  <2>5. sync =< 0 /\ ~guard
    BY <2>1 DEF TokensInv, Carries
  <2>6. sync' =< 1 /\ ~guard'
    BY <1>0, <2>1, <2>5 DEF SignalSync
  <2> QED BY <2>4, <2>6 DEF TokensInv
<1>4. ASSUME NEW c \in Callers, PowerKeyHigh(c) PROVE TokensInv'
  <2>1. toggled'
    BY <1>4 DEF PowerKeyHigh
  <2> QED BY <2>1 DEF TokensInv
<1>5. ASSUME NEW c \in Callers, PowerDone(c) PROVE TokensInv'
  <2>1. toggled' = toggled /\ pc[c] = "keyhigh"
    BY <1>5 DEF PowerDone, modemVars, pastVars
  <2> QED BY <2>1 DEF TokensInv
<1>6. ASSUME NEW c \in Callers,
             \/ SendRequest(c) \/ SuspendWriter(c) \/ WriterTimeout(c)
             \/ LockRx(c) \/ CopyResponse(c) \/ Unlock(c) \/ PowerKeyLow(c)
             \/ \E o \in Ops : Call(c, o)
      PROVE  TokensInv'
  <2>1. /\ UNCHANGED <<sync, guard, toggled, rpc>>
        /\ \E p \in CallerPc \ {"keyhigh"} :
             /\ pc' = [pc EXCEPT ![c] = p]
             /\ p \in {"send", "sent", "suspended", "timedout"} =>
                  pc[c] \in {"send", "sent", "suspended", "timedout"}
             /\ p \in {"answered", "rxlocking"} =>
                  pc[c] \in {"answered", "rxlocking"}
    BY <1>6 DEF Call, SendRequest, SuspendWriter, WriterTimeout, LockRx,
         CopyResponse, Unlock, PowerKeyLow, readVars, syncVars, modemVars,
         pastVars, CallerPc
  <2>2. \A d \in Callers : Carries(d)' => Carries(d)
    BY <1>0, <2>1 DEF Carries
  <2>3. \A d \in Callers : pc'[d] = "keyhigh" => pc[d] = "keyhigh"
    BY <1>0, <2>1
  <2> QED BY <2>1, <2>2, <2>3, TokensKept
<1>7. ASSUME NEW c \in Callers, ResumeReader(c) PROVE TokensInv'
  <2>1. /\ UNCHANGED <<sync, guard, toggled>>
        /\ pc' = [pc EXCEPT ![c] = "unlock"]
        /\ rpc' = IF reader # NULL THEN "lock" ELSE rpc
    BY <1>7 DEF ResumeReader, modemVars, pastVars
  <2>2. \A d \in Callers : Carries(d)' => Carries(d)
    BY <1>0, <2>1 DEF Carries
  <2>3. \A d \in Callers : pc'[d] = "keyhigh" => pc[d] = "keyhigh"
    BY <1>0, <2>1
  <2> QED BY <2>1, <2>2, <2>3, TokensKept
<1>8. CASE ProcessMessage
  <2>1. UNCHANGED <<sync, guard, toggled>> /\ rpc = "process"
    BY <1>8 DEF ProcessMessage, modemVars, pastVars
  <2>2. \A d \in Callers : pc'[d] = pc[d] \/ (d = writer /\ pc'[d] = "answered")
    BY <1>0, <1>8 DEF ProcessMessage
  <2>3. \A d \in Callers : d = writer => Carries(d)
    BY DEF IInv, ReferencesSound, Carries
  <2>4. \A d \in Callers : pc[d] \notin {"answered", "rxlocking"}
    BY <2>1 DEF IInv, AnswerIntact
  <2>5. \A d \in Callers : Carries(d)' => Carries(d)
    BY <2>2, <2>3, <2>4 DEF Carries
  <2> QED BY <2>1, <2>2, <2>5, TokensKept
<1>9. CASE Park
  <2>1. /\ UNCHANGED <<pc, sync, toggled>> /\ guard' = TRUE
        /\ rpc = "save" /\ rpc' = "parked"
    BY <1>9 DEF Park, callVars, modemVars, pastVars
  <2>2. PICK c \in Callers : pc[c] \in {"answered", "rxlocking"}
    BY <2>1 DEF ParkedInv
  <2>3. Carries(c)
    BY <2>1, <2>2 DEF Carries
  <2>4. \A d \in Callers : d # c => ~Active(d)
    BY <2>2, OneActive DEF IInv
  <2>5. \A d \in Callers : ~Carries(d)' /\ pc'[d] # "keyhigh"
    BY <2>1, <2>2, <2>4 DEF Carries
  <2> SUFFICES ASSUME ~toggled PROVE TokensInv'
    BY <2>1 DEF TokensInv
  <2>6. sync =< 0
    BY <2>3 DEF TokensInv
  <2>7. sync' =< 1 /\ sync' =< 0
    BY <1>0, <2>1, <2>6
  <2> QED BY <2>5, <2>7 DEF TokensInv
<1>10. CASE GuardTimer
  <2>1. guard /\ guard' = FALSE /\ SignalSync(pc) /\ UNCHANGED <<toggled, rpc>>
    BY <1>10 DEF GuardTimer, modemVars, pastVars
  <2>2. \A d \in Callers :
          pc'[d] = pc[d] \/ (pc[d] = "semwait" /\ pc'[d] = "send" /\ sync < 0)
    BY <1>0, <2>1 DEF SignalSync
  <2> SUFFICES ASSUME ~toggled PROVE TokensInv'
    BY <2>1 DEF TokensInv
  <2>3. sync =< 0 /\ \A d \in Callers : ~Carries(d) /\ pc[d] # "keyhigh"
    BY <2>1 DEF TokensInv
  <2>4. \A d \in Callers : (Carries(d)' => sync < 0) /\ pc'[d] # "keyhigh"
    BY <2>1, <2>2, <2>3 DEF Carries
  <2>5. sync' =< 1 /\ (sync < 0 => sync' =< 0)
    BY <1>0, <2>1, <2>3 DEF SignalSync
  <2> QED BY <2>1, <2>4, <2>5 DEF TokensInv
<1>11. CASE \/ ReaderLock \/ ReaderClear \/ WaitEvent \/ GetFlags \/ Drain
            \/ ModemSend \/ ModemOff \/ (\E s \in Urcs : ModemUrc(s))
            \/ UNCHANGED vars
  <2>1. /\ UNCHANGED <<pc, sync, guard, toggled>>
        /\ rpc' = "save" => rpc = "save"
    BY <1>11 DEF ReaderLock, ReaderClear, WaitEvent, GetFlags, Drain, ModemSend,
         ModemOff, ModemUrc, vars, callVars, syncVars, readVars, modemVars,
         pastVars
  <2>2. \A d \in Callers : Carries(d)' => Carries(d)
    BY <2>1 DEF Carries
  <2> QED BY <2>1, <2>2, TokensKept
<1> QED
  BY <1>2, <1>3, <1>4, <1>5, <1>6, <1>7, <1>8, <1>9, <1>10, <1>11
  DEF Next, CallerStep, ReaderStep

-----------------------------------------------------------------------------
(* The theorems.                                                           *)

\* Both invariants hold where the modem answers in time and sends no final
\* status unasked.
LEMMA TimelyInductive ==
  ASSUME Timely, Urcs \subseteq {"INVALID"}
  PROVE  Spec => [](IInv /\ TimelyInv /\ TokensInv)
<1>1. Init => TimelyInv /\ TokensInv
  <2> SUFFICES ASSUME Init PROVE TimelyInv /\ TokensInv
    OBVIOUS
  <2>1. /\ pc = [c \in Callers |-> "idle"]
        /\ cmd = [c \in Callers |-> [st |-> "INVALID", fresh |-> FALSE]]
        /\ rxlock = <<>> /\ sync = 1 /\ rpc = "lock" /\ rxbuf = <<>>
        /\ guard = FALSE /\ mpend = <<>> /\ inq = <<>> /\ ~deaf
    BY DEF Init, ReaderRegisters
  <2>2. Plain(<<>>) /\ Reply(<<>>)
    BY DEF Plain, Reply
  <2>3. RxQueueInv /\ ParkedInv
    BY <2>1 DEF RxQueueInv, ParkedInv, InSeq
  <2>4. ReplyInv /\ OwedInv
    BY <2>1, <2>2 DEF ReplyInv, OwedInv
  <2>5. TimeoutMeansOff /\ FreshAnswer
    BY <2>1 DEF TimeoutMeansOff, FreshAnswer
  <2>6. TokensInv
    BY <2>1 DEF TokensInv, Carries
  <2> QED BY <2>1, <2>3, <2>4, <2>5, <2>6 DEF TimelyInv, TextInv
<1>2. IInv /\ TimelyInv /\ TokensInv /\ [Next]_vars => TimelyInv' /\ TokensInv'
  <2> SUFFICES ASSUME IInv, TimelyInv, TokensInv, [Next]_vars
               PROVE  TimelyInv' /\ TokensInv'
    OBVIOUS
  <2> USE DEF TimelyInv
  <2>1. ~deaf'
    BY DeafKept
  <2>2. RxQueueInv'
    BY RxQueueStep
  <2>3. ParkedInv'
    BY ParkedStep DEF TextInv
  <2>4. TextInv'
    BY TextStep
  <2>5. FreshAnswer'
    BY FreshStep
  <2>6. TokensInv'
    BY TokensStep
  <2> QED BY <2>1, <2>2, <2>3, <2>4, <2>5, <2>6
<1> QED BY Inductive, <1>1, <1>2, PTL DEF Spec

\* The status that a call returns is that of the reply to its own command
\* (sim8xx.c:84-88), whichever way calls, guard times and power toggles
\* interleave, where the modem answers in time and sends no final status
\* unasked.
THEOREM FreshSafe ==
  ASSUME Timely, Urcs \subseteq {"INVALID"}
  PROVE  Spec => []FreshAnswer
<1>1. TimelyInv => FreshAnswer
  BY DEF TimelyInv
<1> QED BY TimelyInductive, <1>1, PTL

\* There, a command times out only when the modem is off (sim8xx.c:80-92):
\* the reply is never dropped by a full queue nor taken by nobody.
THEOREM TimeoutSafe ==
  ASSUME Timely, Urcs \subseteq {"INVALID"}
  PROVE  Spec => []TimeoutMeansOff
<1>1. TimelyInv => TimeoutMeansOff
  BY DEF TimelyInv, TextInv
<1> QED BY TimelyInductive, <1>1, PTL

\* There, no command is sent within the guard time of the response before it
\* until sim8xxTogglePower has added a token (sim8xx.c:184,
\* sim8xxReaderThread.c:76).
THEOREM GuardSafe ==
  ASSUME Timely, Urcs \subseteq {"INVALID"}
  PROVE  Spec => []GuardTimeKept
<1>1. TokensInv => GuardTimeKept
  BY DEF TokensInv, GuardTimeKept, Carries
<1> QED BY TimelyInductive, <1>1, PTL
=============================================================================
