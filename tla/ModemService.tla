---------------------------- MODULE ModemService ----------------------------
(***************************************************************************)
(* What the SIM8xx driver promises the threads that call it: calls are     *)
(* served one at a time; a call that was served returns a final status or  *)
(* "TIMEOUT", or has toggled the modem's power; the power changes in no    *)
(* other way, except that the modem may go off by itself.  Where the modem *)
(* is Reliable (it answers in time and sends no final status unasked) a    *)
(* status is that of the caller's own command and a call times out only on *)
(* a modem that is off.                                                    *)
(*                                                                         *)
(* Sim8xx is the detailed specification that implements this one; the      *)
(* threads that use the driver (module GpsTracking) are modelled on top.   *)
(***************************************************************************)
CONSTANTS
  Callers,    \* threads that call the driver
  Reliable

VARIABLES
  phase,      \* how far each caller's call has come
  answer,     \* status and origin of the answer each caller got
  powered     \* the modem is powered

serviceVars == <<phase, answer, powered>>

Phases == {"idle", "waiting", "serving", "done"}
Statuses == {"OK", "ERROR", "RING", "INVALID", "TIMEOUT"}
Answers == [st : Statuses, fresh : BOOLEAN]
NoAnswer == [st |-> "INVALID", fresh |-> FALSE]

\* A thread makes a call: sim8xxExecute, sim8xxIsConnected, sim8xxTogglePower.
Request(c) ==
  /\ phase[c] = "idle"
  /\ phase' = [phase EXCEPT ![c] = "waiting"]
  /\ answer' = [answer EXCEPT ![c] = NoAnswer]
  /\ UNCHANGED powered

\* The call's turn has come.
Serve(c) ==
  /\ phase[c] = "waiting"
  /\ \A d \in Callers : phase[d] \notin {"serving", "done"}
  /\ phase' = [phase EXCEPT ![c] = "serving"]
  /\ UNCHANGED <<answer, powered>>

\* The command was answered, or its time is over.
Complete(c, a) ==
  /\ phase[c] = "serving"
  /\ a.st # "INVALID"
  /\ Reliable => IF a.st = "TIMEOUT" THEN ~powered ELSE a.fresh
  /\ phase' = [phase EXCEPT ![c] = "done"]
  /\ answer' = [answer EXCEPT ![c] = a]
  /\ UNCHANGED powered

\* The power key was pressed and released.
Toggle(c) ==
  /\ phase[c] = "serving"
  /\ phase' = [phase EXCEPT ![c] = "done"]
  /\ powered' = ~powered
  /\ UNCHANGED answer

\* The call returns.
Return(c) ==
  /\ phase[c] = "done"
  /\ phase' = [phase EXCEPT ![c] = "idle"]
  /\ UNCHANGED <<answer, powered>>

\* The modem loses its supply or shuts itself down.
PowerOff ==
  /\ powered
  /\ powered' = FALSE
  /\ UNCHANGED <<phase, answer>>

ServiceInit ==
  /\ phase = [c \in Callers |-> "idle"]
  /\ answer = [c \in Callers |-> NoAnswer]
  /\ powered \in BOOLEAN

ServiceNext ==
  \/ \E c \in Callers :
       \/ Request(c) \/ Serve(c) \/ Toggle(c) \/ Return(c)
       \/ \E a \in Answers : Complete(c, a)
  \/ PowerOff

ServiceSpec == ServiceInit /\ [][ServiceNext]_serviceVars
=============================================================================
