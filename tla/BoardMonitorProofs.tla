------------------------- MODULE BoardMonitorProofs -------------------------
(***************************************************************************)
(* Proofs about BoardMonitor, for any debounce time and mailbox size.      *)
(***************************************************************************)
EXTENDS BoardMonitor, TLAPS

Ignition == {"IGNITION_ON", "IGNITION_OFF"}

\* As long as no post was lost, the last message in the mailbox is what the
\* debounced USB line says.
LastCurrent ==
  ~lost /\ mailbox # <<>> =>
    mailbox[Len(mailbox)] = (IF counter["usb"] = 0 THEN "IGNITION_ON"
                                                   ELSE "IGNITION_OFF")

MonitorInv ==
  /\ MonitorTypeOK
  /\ Debounced
  /\ LastCurrent
  /\ IgnitionAlternates

-----------------------------------------------------------------------------
\* The mailbox after a post.
LEMMA PostFacts ==
  ASSUME NEW S, NEW s \in Seq(S), NEW x \in S
  PROVE  /\ Append(s, x) \in Seq(S)
         /\ Len(Append(s, x)) = Len(s) + 1
         /\ \A i \in 1 .. Len(s) : Append(s, x)[i] = s[i]
         /\ Append(s, x)[Len(s) + 1] = x
OBVIOUS

\* The mailbox after a fetch.
LEMMA FetchFacts ==
  ASSUME NEW S, NEW s \in Seq(S), s # <<>>
  PROVE  /\ Tail(s) \in Seq(S)
         /\ Len(Tail(s)) = Len(s) - 1
         /\ Len(s) >= 1
         /\ \A i \in 1 .. Len(Tail(s)) : Tail(s)[i] = s[i + 1]
OBVIOUS

\* An empty mailbox has no messages.
LEMMA EmptyFacts ==
  ASSUME NEW S, NEW s \in Seq(S)
  PROVE  Len(s) \in Nat /\ (s = <<>> <=> Len(s) = 0)
OBVIOUS

\* The initial state, whatever the lines say (BoardMonitorThreadInit).
LEMMA MonitorInitInv == MonitorInit => MonitorInv
<1> SUFFICES ASSUME MonitorInit PROVE MonitorInv
  OBVIOUS
<1> USE DebounceAssumption, MboxAssumption DEF MonitorInit
<1>1. MonitorTypeOK
  <2>1. mailbox \in Seq({"IGNITION_ON", "IGNITION_OFF"}) /\ Len(mailbox) =< MboxSize
    OBVIOUS
  <2>2. pending \subseteq (Inserted .. ShellTerminated)
    OBVIOUS
  <2>3. counter \in [Devices -> 0 .. Debounce] /\ highs \in [Devices -> 0 .. Debounce]
    OBVIOUS
  <2>4. line \in [Devices -> BOOLEAN] /\ tick \in BOOLEAN /\ lost \in BOOLEAN
    OBVIOUS
  <2> HIDE DEF MonitorInit
  <2> QED BY <2>1, <2>2, <2>3, <2>4 DEF MonitorTypeOK
<1>2. Debounced
  BY DEF Debounced
<1>3. LastCurrent /\ IgnitionAlternates
  BY DEF LastCurrent, IgnitionAlternates
<1> QED BY <1>1, <1>2, <1>3 DEF MonitorInv

\* The counters stay in range and count the high samples.
LEMMA CounterStep ==
  ASSUME MonitorInv, TimerEvent
  PROVE  /\ counter' \in [Devices -> 0 .. Debounce]
         /\ highs' \in [Devices -> 0 .. Debounce]
         /\ Debounced'
<1> USE DebounceAssumption DEF MonitorInv, MonitorTypeOK, TimerEvent
<1>1. \A d \in Devices : counter[d] \in 0 .. Debounce /\ highs[d] \in 0 .. Debounce
                         /\ line[d] \in BOOLEAN /\ highs[d] = Debounce - counter[d]
  BY DEF Debounced
<1>2. \A d \in Devices : NextCounter(d) \in 0 .. Debounce
  BY <1>1 DEF NextCounter
<1>3. counter' \in [Devices -> 0 .. Debounce]
  BY <1>2
<1>4. highs' \in [Devices -> 0 .. Debounce]
  <2>1. \A d \in Devices : (IF ~line[d] THEN 0
          ELSE IF highs[d] < Debounce THEN highs[d] + 1 ELSE Debounce)
          \in 0 .. Debounce
    BY <1>1
  <2> QED BY <2>1
<1>5. ASSUME NEW d \in Devices PROVE highs'[d] = Debounce - counter'[d]
  BY <1>1 DEF NextCounter
<1> QED BY <1>3, <1>4, <1>5 DEF Debounced

\* A report to the system thread keeps the mailbox in order.
LEMMA MailboxStep ==
  ASSUME MonitorInv, TimerEvent
  PROVE  /\ mailbox' \in Seq(Ignition) /\ Len(mailbox') =< MboxSize
         /\ lost' \in BOOLEAN
         /\ LastCurrent' /\ IgnitionAlternates'
<1> USE DebounceAssumption, MboxAssumption
<1>0. /\ mailbox \in Seq(Ignition) /\ Len(mailbox) =< MboxSize
      /\ lost \in BOOLEAN
      /\ counter["usb"] \in 0 .. Debounce /\ line["usb"] \in BOOLEAN
      /\ counter'["usb"] = NextCounter("usb")
  BY DEF MonitorInv, MonitorTypeOK, TimerEvent, Devices, Ignition
<1>1. ASSUME NEW x \in Ignition, Post(x),
             x = (IF counter'["usb"] = 0 THEN "IGNITION_ON" ELSE "IGNITION_OFF"),
             x # (IF counter["usb"] = 0 THEN "IGNITION_ON" ELSE "IGNITION_OFF")
      PROVE  /\ mailbox' \in Seq(Ignition) /\ Len(mailbox') =< MboxSize
             /\ lost' \in BOOLEAN
             /\ LastCurrent' /\ IgnitionAlternates'
  <2>1. CASE Len(mailbox) < MboxSize
    <3>1. mailbox' = Append(mailbox, x) /\ lost' = lost
      BY <1>1, <2>1 DEF Post
    <3> DEFINE m == Append(mailbox, x)
               n == Len(mailbox)
    <3>2. /\ m \in Seq(Ignition) /\ Len(m) = n + 1 /\ m[n + 1] = x
          /\ \A i \in 1 .. n : m[i] = mailbox[i]
          /\ n \in Nat /\ (mailbox = <<>> <=> n = 0)
      BY <1>0, <1>1, PostFacts, EmptyFacts
    <3>3. LastCurrent'
      BY <3>1, <3>2, <1>1 DEF LastCurrent
    <3>4. ASSUME NEW i \in 1 .. n, m[i] = m[i + 1] PROVE lost
      <4>1. CASE i < n
        BY <4>1, <3>2, <3>4 DEF MonitorInv, IgnitionAlternates
      <4>2. CASE i = n
        BY <4>2, <3>2, <3>4, <1>1, <1>0 DEF MonitorInv, LastCurrent
      <4> QED BY <4>1, <4>2, <3>2
    <3>5. IgnitionAlternates'
      BY <3>1, <3>2, <3>4 DEF IgnitionAlternates
    <3> QED BY <3>1, <3>2, <3>3, <3>5, <2>1, <1>0
  <2>2. CASE ~(Len(mailbox) < MboxSize)
    <3>1. mailbox' = mailbox /\ lost' = TRUE
      BY <1>1, <2>2 DEF Post
    <3> QED BY <3>1, <1>0 DEF LastCurrent, IgnitionAlternates
  <2> QED BY <2>1, <2>2
<1>2. CASE Rises("usb") /\ Post("IGNITION_ON")
  <2>1. counter["usb"] = 1 /\ counter'["usb"] = 0
    BY <1>0, <1>2 DEF Rises, NextCounter
  <2> QED BY <1>1, <1>2, <2>1 DEF Ignition
<1>3. CASE Falls("usb") /\ Post("IGNITION_OFF")
  <2>1. counter["usb"] = 0 /\ counter'["usb"] = Debounce
    BY <1>0, <1>3 DEF Falls, NextCounter
  <2> QED BY <1>1, <1>3, <2>1 DEF Ignition
<1>4. CASE ~Rises("usb") /\ ~Falls("usb") /\ UNCHANGED <<mailbox, lost>>
  <2>1. counter'["usb"] = 0 <=> counter["usb"] = 0
    BY <1>0, <1>4 DEF Rises, Falls, NextCounter
  <2> QED BY <1>0, <1>4, <2>1 DEF MonitorInv, LastCurrent, IgnitionAlternates
<1> QED BY <1>2, <1>3, <1>4 DEF TimerEvent

\* Every step keeps the invariant.
LEMMA MonitorStepInv ==
  ASSUME MonitorInv, [MonitorNext]_monitorVars
  PROVE  MonitorInv'
<1> USE DebounceAssumption, MboxAssumption
<1>0. /\ MonitorTypeOK
      /\ mailbox \in Seq(Ignition)
  BY DEF MonitorInv, MonitorTypeOK, Ignition
<1>1. CASE TimerEvent
  <2>1. line' = line /\ tick' = FALSE
    BY <1>1 DEF TimerEvent
  <2>2. pending' \subseteq (Inserted .. ShellTerminated)
    <3>1. Broadcasts \subseteq (Inserted .. ShellTerminated)
      BY DEF Broadcasts, Devices, UpEvent, DownEvent, Inserted, Removed,
             UsbConnected, UsbDisconnected, ShellTerminated
    <3> QED BY <3>1, <1>0, <1>1 DEF TimerEvent, MonitorTypeOK
  <2>3. MonitorTypeOK'
    BY <2>1, <2>2, <1>0, <1>1, CounterStep, MailboxStep
    DEF MonitorTypeOK, Ignition
  <2> QED BY <2>3, <1>1, CounterStep, MailboxStep DEF MonitorInv
<1>2. CASE Tick
  BY <1>2 DEF Tick, MonitorInv, MonitorTypeOK, Debounced, LastCurrent,
              IgnitionAlternates
<1>3. ASSUME NEW d \in Devices, ChangeLine(d) PROVE MonitorInv'
  <2>1. line' \in [Devices -> BOOLEAN]
    BY <1>0, <1>3 DEF ChangeLine, MonitorTypeOK
  <2> QED BY <2>1, <1>3 DEF ChangeLine, MonitorInv, MonitorTypeOK, Debounced,
                            LastCurrent, IgnitionAlternates
<1>4. ASSUME NEW e \in Inserted .. UsbDisconnected, TakeEvent(e)
      PROVE  MonitorInv'
  BY <1>4 DEF TakeEvent, MonitorInv, MonitorTypeOK, Debounced, LastCurrent,
              IgnitionAlternates
<1>5. CASE Fetch
  <2>1. /\ Tail(mailbox) \in Seq(Ignition)
        /\ Len(Tail(mailbox)) = Len(mailbox) - 1
        /\ Len(mailbox) \in Nat /\ Len(mailbox) >= 1
        /\ \A i \in 1 .. Len(mailbox) - 1 : Tail(mailbox)[i] = mailbox[i + 1]
        /\ Tail(mailbox) = <<>> <=> Len(mailbox) = 1
    <3>1. mailbox # <<>>
      BY <1>5 DEF Fetch
    <3>2. /\ Tail(mailbox) \in Seq(Ignition)
          /\ Len(Tail(mailbox)) = Len(mailbox) - 1
          /\ Len(mailbox) >= 1
          /\ \A i \in 1 .. Len(Tail(mailbox)) : Tail(mailbox)[i] = mailbox[i + 1]
      BY <3>1, <1>0, FetchFacts
    <3>3. Len(mailbox) \in Nat /\ (Tail(mailbox) = <<>> <=> Len(Tail(mailbox)) = 0)
      BY <3>2, <1>0, EmptyFacts
    <3> QED BY <3>2, <3>3
  <2>2. mailbox' = Tail(mailbox)
        /\ UNCHANGED <<line, counter, tick, pending, highs, lost>>
    BY <1>5 DEF Fetch
  <2>3. MonitorTypeOK'
    BY <2>1, <2>2, <1>0 DEF MonitorTypeOK, Ignition
  <2>4. LastCurrent'
    BY <2>1, <2>2 DEF MonitorInv, LastCurrent
  <2>5. IgnitionAlternates'
    <3> SUFFICES ASSUME NEW i \in 1 .. Len(Tail(mailbox)) - 1,
                        Tail(mailbox)[i] = Tail(mailbox)[i + 1]
                 PROVE  lost
      BY <2>2 DEF IgnitionAlternates
    <3>1. mailbox[i + 1] = mailbox[(i + 1) + 1] /\ i + 1 \in 1 .. Len(mailbox) - 1
      BY <2>1
    <3> QED BY <3>1 DEF MonitorInv, IgnitionAlternates
  <2>6. Debounced'
    BY <2>2 DEF MonitorInv, Debounced
  <2> QED BY <2>3, <2>4, <2>5, <2>6 DEF MonitorInv
<1>6. CASE UNCHANGED monitorVars
  BY <1>6 DEF monitorVars, MonitorInv, MonitorTypeOK, Debounced, LastCurrent,
              IgnitionAlternates
<1> QED BY <1>1, <1>2, <1>3, <1>4, <1>5, <1>6 DEF MonitorNext

\* The invariant holds in every reachable state.
LEMMA MonitorInductive == MonitorSpec => []MonitorInv
BY MonitorInitInv, MonitorStepInv, PTL DEF MonitorSpec

\* The monitor's state is type correct: a counter never leaves its range and
\* the mailbox never holds more than it has room for.
THEOREM MonitorTypes == MonitorSpec => []MonitorTypeOK
BY MonitorInductive, PTL DEF MonitorInv

\* A device is reported only after Debounce high samples in a row, for every
\* debounce time and however the contacts bounce.
THEOREM DebounceCorrect == MonitorSpec => []Debounced
BY MonitorInductive, PTL DEF MonitorInv

\* Two equal ignition messages are neighbours in the mailbox only after a post
\* was lost, for every size of the mailbox.
THEOREM IgnitionSafe == MonitorSpec => []IgnitionAlternates
BY MonitorInductive, PTL DEF MonitorInv
=============================================================================
