------------------------------ MODULE Fifo245 -------------------------------
(***************************************************************************)
(* The parallel port to the FTDI chip (OpenLogger/FIFO245.cpp, JSONFT245). *)
(* A DMA channel moves what comes in to a ring; PMDIN, the register the    *)
(* chip is read through, is always one byte ahead of it, and that byte is  *)
(* put behind the others when the channel has stopped.  The channel is     *)
(* shared with the writing half of the port and with the serial port; its  *)
(* trigger, CHSIRQ, says who has it.                                       *)
(*                                                                         *)
(* PeriodicTask and the reading functions are called from the super loop;  *)
(* the chip and the DMA move bytes at any time in between.                 *)
(***************************************************************************)
EXTENDS Integers, Sequences

CONSTANTS
  Size,          \* sizeof(ffRead)
  InputSize,     \* sizeof(szInput) of the lexer
  MAXPASSCNT,    \* passes without a byte after which the DMA is stopped
  MaxBytes,      \* bound: bytes sent by the host
  MaxOthers      \* bound: other transfers that use the DMA channel

ASSUME Fifo245Assumption ==
  /\ Size \in Nat \ {0} /\ InputSize \in Nat \ {0} /\ MAXPASSCNT \in Nat /\ MaxBytes \in Nat /\ MaxOthers \in Nat

VARIABLES
  iRdStart, iRdEnd,    \* the bytes in the ring; iRdEnd runs on past the end of it
  cbDMA,               \* the bytes the DMA may move
  iDMACur, cPass,      \* how far it had moved, and passes since
  ffRead,              \* the ring
  irq,                 \* DCHxECON.CHSIRQ: "none", "rx", or "other"
  chen, dptr,          \* DCHxCON.CHEN: the channel is on; DCHxDPTR: the bytes it has moved
  pmdin,               \* the byte in PMDIN
  sent, latched,       \* bytes the host has sent, and bytes read from the chip
  state,               \* of the lexer: "off", "listening" or "reading" a command
  taken, got,          \* history: bytes read or purged so far, and the bytes read
  others               \* other transfers so far

portVars == <<iRdStart, iRdEnd, cbDMA, iDMACur, cPass, ffRead, irq, chen, dptr, pmdin, sent, latched,
              state, taken, got, others>>
ends  == <<iRdStart, iRdEnd>>
pass  == <<iDMACur, cPass>>
chip  == <<chen, dptr, pmdin, latched>>
user  == <<state, taken, got>>

PortInit ==
  /\ iRdStart = 0 /\ iRdEnd = 0 /\ cbDMA = 0 /\ iDMACur = 0 /\ cPass = 0
  /\ ffRead = [p \in 0 .. Size - 1 |-> 0]
  /\ irq = "none" /\ chen = FALSE /\ dptr = 0 /\ pmdin = 0
  /\ sent = 0 /\ latched = 0 /\ state = "off" /\ taken = 0 /\ got = <<>> /\ others = 0

Place(i) == IF i < Size THEN i ELSE i - Size      \* i % Size, for i < 2 * Size
Held == iRdEnd - iRdStart
Receiving == irq = "rx"

-----------------------------------------------------------------------------
(* The chip and the DMA.                                                   *)

Send ==
  /\ sent < MaxBytes /\ sent' = sent + 1
  /\ UNCHANGED <<ends, cbDMA, pass, ffRead, irq, chip, user, others>>

\* RXF# goes low again: a byte goes from PMDIN to the ring, and the next into PMDIN.
\* The channel turns itself off after cbDMA bytes.
Move ==
  /\ chen /\ Receiving /\ latched < sent
  /\ ffRead' = [ffRead EXCEPT ![Place(iRdEnd) + dptr] = pmdin]
  /\ pmdin' = latched + 1 /\ latched' = latched + 1
  /\ dptr' = dptr + 1 /\ chen' = (dptr + 1 < cbDMA)
  /\ UNCHANGED <<ends, cbDMA, pass, irq, sent, user, others>>

OtherStarts ==
  /\ irq = "none" /\ others < MaxOthers
  /\ irq' = "other" /\ others' = others + 1
  /\ UNCHANGED <<ends, cbDMA, pass, ffRead, chip, sent, user>>
OtherEnds ==
  /\ irq = "other" /\ irq' = "none"
  /\ UNCHANGED <<ends, cbDMA, pass, ffRead, chip, sent, user, others>>

-----------------------------------------------------------------------------
(* PeriodicTask.                                                           *)

Stops == iDMACur >= dptr /\ cPass >= MAXPASSCNT

\* The DMA is on: see if it has moved.
Watch ==
  /\ Receiving /\ chen /\ ~Stops
  /\ IF iDMACur < dptr THEN iDMACur' = dptr /\ cPass' = 0
                            ELSE cPass' = cPass + 1 /\ UNCHANGED iDMACur
  /\ UNCHANGED <<ends, cbDMA, ffRead, irq, chip, sent, user, others>>

\* It is off, or has moved nothing for long: the byte in PMDIN comes last.
AllMoved == cbDMA        \* mutant: as if the DMA always moved all it could
Moved == dptr
Finish ==
  /\ Receiving /\ (~chen \/ Stops)
  /\ ffRead' = [ffRead EXCEPT ![Place(iRdEnd + Moved)] = pmdin]
  /\ iRdEnd' = iRdEnd + Moved + 1
  /\ cbDMA' = 0 /\ irq' = "none" /\ chen' = FALSE
  /\ UNCHANGED <<iRdStart, pass, dptr, pmdin, sent, latched, user, others>>

\* From the end of what is held to the end of the ring, or around it to the start.
ToTheStart == IF iRdEnd < Size THEN Size - iRdEnd + iRdStart ELSE Size - Held   \* mutant
Free == (Size - iRdEnd) + (IF iRdEnd < Size THEN 0 ELSE iRdStart)

AtTheEnd == iRdEnd < Size      \* mutant: waits for the reader to come around
HasRoom == Held < Size

\* The dummy read that gets the first byte into PMDIN starts it.  If RXF# was only a
\* glitch, nothing is read.
Begin ==
  /\ irq = "none" /\ HasRoom
  /\ cbDMA' = Free - 1 /\ iDMACur' = 0 /\ cPass' = 0
  /\ IF latched < sent
     THEN /\ irq' = "rx" /\ chen' = (Free - 1 > 0) /\ dptr' = 0
          /\ pmdin' = latched + 1 /\ latched' = latched + 1
     ELSE UNCHANGED <<irq, chip>>
  /\ UNCHANGED <<ends, ffRead, sent, user, others>>

PeriodicTask == Watch \/ Finish \/ Begin

-----------------------------------------------------------------------------
(* The reader, OSPAR::ProcessJSON.                                         *)

Byte(n) == ffRead[Place(iRdStart + n - 1)]

Wrapped(n) == Place(iRdStart + n) + (Held - n)
Read(n) ==
  /\ got' = got \o [i \in 1 .. n |-> Byte(i)] /\ taken' = taken + n
  /\ iRdStart' = Place(iRdStart + n) /\ iRdEnd' = Wrapped(n)
  /\ UNCHANGED <<cbDMA, pass, ffRead, irq, chip, sent, others>>

Discard ==
  /\ iRdEnd' = Place(iRdEnd) /\ iRdStart' = Place(iRdEnd) /\ taken' = taken + Held
  /\ UNCHANGED <<cbDMA, pass, ffRead, irq, chip, sent, got, others>>

\* Purge and EnableIO, once the system is up.
EnableIO == state = "off" /\ state' = "listening" /\ Discard

\* Between commands one byte is read at a time, and the last one is left where it is.
\* It is skipped, or it begins a command.
ReadOne == state = "listening" /\ Held > 1 /\ Read(1) /\ state' \in {"listening", "reading"}

\* In a command all there is room for is read; the command may end with it.
ReadMany ==
  /\ state = "reading" /\ Held > 0 /\ Read(IF Held < InputSize THEN Held ELSE InputSize)
  /\ state' \in {"listening", "reading"}

\* A command that fails takes what has come in with it.
Purge == state = "reading" /\ state' = "listening" /\ Discard

Reader == EnableIO \/ ReadOne \/ ReadMany \/ Purge
PortNext == Send \/ Move \/ OtherStarts \/ OtherEnds \/ PeriodicTask \/ Reader

PortSpec == PortInit /\ [][PortNext]_portVars
\* The host sends all it has; the DMA, the other users of it, the loop and the lexer go on.
FairPort ==
  PortSpec /\ WF_portVars(Send) /\ WF_portVars(Move) /\ WF_portVars(OtherEnds) /\ WF_portVars(PeriodicTask)
       /\ WF_portVars(EnableIO \/ ReadOne \/ ReadMany)

-----------------------------------------------------------------------------
(* Properties.                                                             *)

\* While bytes come in, there is room for what the DMA may move and the byte in PMDIN
\* after it: within the ring, and beside what has not been read, also when a read takes
\* the start around meanwhile.
RoomHeld ==
  /\ 0 <= iRdStart /\ iRdStart < Size /\ 0 <= Held /\ Held <= Size
  /\ Receiving => /\ Held + cbDMA + 1 <= Size
                   /\ Place(iRdEnd) + cbDMA + 1 <= Size

\* The reader gets the bytes of the host, each once and in order.
Fifo == INSTANCE ByteFifo
ImplementsFifo == Fifo!Spec

\* All the host sends is taken in the end, but for a single byte that is left between
\* commands until another follows.
Delivered == <>[](taken = MaxBytes \/ (state = "listening" /\ taken = MaxBytes - 1))
=============================================================================
