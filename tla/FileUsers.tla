----------------------------- MODULE FileUsers ------------------------------
(***************************************************************************)
(* Who is inside FatFs: the manager, which mounts the volume (Sdcard.c),   *)
(* the shell's "tree" command, and the threads that log what the modem     *)
(* says: the SIM8xx reader (save_buffer) and the GPS thread (saveBuffer).  *)
(* FatFs waits for the SPI bus inside its functions, so that other threads *)
(* run meanwhile; it is built without locks of its own and nobody takes    *)
(* one around it.                                                          *)
(***************************************************************************)
EXTENDS Peripherals, FiniteSets

VARIABLES
  registered,   \* ff.c: FatFs[0] refers to SDC_FS
  logging       \* writers that are inside f_open, f_write or f_close

fileVars == <<vars, registered, logging>>

Writers == {"reader", "gps"}

\* save_buffer and saveBuffer: without a volume, or with a card that is not
\* ready, f_open returns at once, and nothing is written.
SaveBegin(w) ==
  /\ w \notin logging
  /\ registered /\ mmc = "READY"
  /\ logging' = logging \cup {w}
  /\ UNCHANGED <<vars, registered>>

SaveEnd(w) ==
  /\ w \in logging
  /\ logging' = logging \ {w}
  /\ UNCHANGED <<vars, registered>>

\* f_mount registers the volume before it reads the card, and nobody
\* unregisters it: sdcardUnmount does not call FatFs.
OtherStep ==
  /\ Next
  /\ registered' = (registered \/ mpc' = "fmount")
  /\ UNCHANGED logging

FileInit == Init /\ registered = FALSE /\ logging = {}

FileNext ==
  /\ mpc # "fault"
  /\ OtherStep \/ \E w \in Writers : SaveBegin(w) \/ SaveEnd(w)

FileSpec == FileInit /\ [][FileNext]_fileVars

-----------------------------------------------------------------------------
InFatFs ==
  logging \cup (IF mpc = "fmount" THEN {"manager"} ELSE {})
          \cup (IF shell = "tree" THEN {"shell"} ELSE {})

\* ffconf.h:251-257: f_mount() is "always not re-entrant", and access to the
\* files of one volume is not either, with FF_FS_REENTRANT 0.  So only one
\* thread at a time may be inside FatFs, which has one volume here.
VolumeExclusive == Cardinality(InFatFs) =< 1
=============================================================================
