------------------------------ MODULE AdcRing ------------------------------
(***************************************************************************)
(* The acquisition path of the logger (OpenLogger/ADC.cpp).                *)
(*                                                                         *)
(* Two chained DMA channels write raw samples into adcRawBuffer, a ring of *)
(* CSRBUFF samples; half way through its block each channel interrupts and *)
(* the ISR programs the address of the block the other channel takes next. *)
(* ADCTask, one call per pass of the super loop, reads the registers of    *)
(* whichever channel is enabled to find how far the hardware got, converts *)
(* a bounded number of samples to millivolts and appends them to           *)
(* adcVoltageBuffer, a ring of CSVBUFF samples.                            *)
(*                                                                         *)
(* Addresses are offsets into the two rings, in samples.  The hardware,    *)
(* the ISRs and the register reads of ADCTask interleave; the rest of      *)
(* ADCTask is one step, since nothing else runs in the super loop then.    *)
(***************************************************************************)
EXTENDS Integers

CONSTANTS
  CSADCDMA,      \* samples one DMA channel transfers per block
  CSRBUFF,       \* size of the raw ring
  NCh,           \* logIParam.nCh: channels scanned, first to last
  CActiveCh,     \* logIParam.cActiveCh: channels of the scan that are logged
  CsMax,         \* logIParam.csMax: samples to log, not positive for no limit
  CsPass,        \* most samples one pass converts (2400)
  BacklogLimit,  \* the backlog at which ADCTask asserts (2000000)
  MaxStall,      \* most samples taken between two looks at the hardware
  PollLag,       \* most samples taken while one look reads the registers
  MaxTaken       \* bound: samples taken in one run

CSVBUFF == 2 * CSRBUFF
Half    == CSADCDMA \div 2
Dma     == 1 .. 2
NoAddr  == -1
Other(c) == 3 - c

(***************************************************************************)
(* The checks the header makes with #if on the buffer sizes; one scan      *)
(* fills whole groups; and the timing the design counts on: an ISR and a   *)
(* register poll take far less than half a block, and a stall that is not  *)
(* caught by the backlog assertion does not lap the ring.                  *)
(***************************************************************************)
ASSUME AdcRingAssumption ==
  /\ CSADCDMA \in Nat /\ CSRBUFF \in Nat
  /\ \E h \in 1 .. CSADCDMA : CSADCDMA = 2 * h
  /\ \E n \in 1 .. CSRBUFF : CSRBUFF = n * (2 * CSADCDMA)
  /\ NCh \in 1 .. 8 /\ CActiveCh \in 1 .. NCh
  /\ CSADCDMA % NCh = 0 /\ CSADCDMA % CActiveCh = 0
  /\ CsMax \in Int
  /\ CsPass \in Nat /\ CsPass % NCh = 0 /\ CsPass >= NCh
  /\ BacklogLimit \in Nat /\ NCh < BacklogLimit /\ MaxStall \in Nat \ {0}
  /\ BacklogLimit + MaxStall <= CSRBUFF
  /\ PollLag \in Nat /\ PollLag < Half
  /\ MaxTaken \in Nat

VARIABLES
  \* the sample timer, the two DMA channels and their half full interrupt
  timerOn,     \* ADCSAMPTMR.TxCON.ON
  chen,        \* DCHxCON.CHEN: the channel is enabled
  dsa,         \* DCHxDSA: where its block starts in the raw ring
  dptr,        \* DCHxDPTR: samples of its block already written
  chdhie,      \* DCHxINT.CHDHIE: the half full interrupt is enabled
  pending,     \* the half full interrupt is raised and not yet served
  blockDone,   \* the enabled channel is complete, CHEN is not cleared yet
  chainTo,     \* the channel the completed one is about to enable, or 0
  halfFull,    \* fDMA1HalfFull, fDMA2HalfFull
  \* logIParam
  state, rawStart, rawEnd, voltNext, csTotal,
  \* ADCTask: where it is, and its locals
  pc, reg, phyOffset, phyAddr,
  trap,        \* the ASSERT that stopped the firmware, or "none"
  \* history
  taken,       \* samples the DMA wrote in this run
  done,        \* raw samples converted in this run
  tPoll        \* taken, when the current look at the registers began

hardware == <<timerOn, chen, dsa, dptr, chdhie, pending, blockDone, chainTo, halfFull>>
log      == <<state, rawStart, rawEnd, voltNext, csTotal>>
task     == <<pc, reg, phyOffset, phyAddr>>
vars     == <<hardware, log, task, trap, taken, done, tPoll>>

PollSteps == {"poll1", "poll2", "poll3", "offset", "address", "test"}
LogStates == {"Idle", "Running", "Finishing", "Stopped"}
Traps     == {"none", "timer on", "behind", "ISR address", "voltage wrap"}

\* The samples of this run that logIParam.padcRawEnd accounts for.
Seen == done + (rawEnd - rawStart)

Init ==
  /\ timerOn = FALSE
  /\ chen = [c \in Dma |-> FALSE]
  /\ dsa = [c \in Dma |-> (c - 1) * CSADCDMA]
  /\ dptr = [c \in Dma |-> 0]
  /\ chdhie = [c \in Dma |-> c = 1]
  /\ pending = [c \in Dma |-> FALSE]
  /\ blockDone = FALSE
  /\ chainTo = 0
  /\ halfFull = [c \in Dma |-> FALSE]
  /\ state = "Idle"
  /\ rawStart = 0 /\ rawEnd = 0 /\ voltNext = 0 /\ csTotal = 0
  /\ pc = "loop" /\ reg = 1 /\ phyOffset = 0 /\ phyAddr = NoAddr
  /\ trap = "none"
  /\ taken = 0 /\ done = 0 /\ tPoll = 0

-----------------------------------------------------------------------------
(* The hardware and the interrupt service routines.                        *)

(***************************************************************************)
(* A tick of the sample timer moves a sample to the ring.  The half full   *)
(* event raises the interrupt when it is enabled; writing the last sample  *)
(* resets DPTR.  The last three guards are the timing assumptions.         *)
(***************************************************************************)
Sample(c) ==
  /\ timerOn /\ chen[c] /\ ~blockDone
  /\ taken < MaxTaken
  /\ pending[c] => dptr[c] + 1 < CSADCDMA
  /\ state = "Running" => taken - Seen < MaxStall
  /\ pc \in PollSteps => taken - tPoll < PollLag
  /\ LET p == dptr[c] + 1 IN
       /\ dptr' = [dptr EXCEPT ![c] = IF p = CSADCDMA THEN 0 ELSE p]
       /\ blockDone' = (p = CSADCDMA)
       /\ pending' = [pending EXCEPT ![c] = @ \/ (p = Half /\ chdhie[c])]
  /\ taken' = taken + 1
  /\ UNCHANGED <<timerOn, chen, dsa, chdhie, chainTo, halfFull, log, task, trap, done, tPoll>>

\* The completed channel is disabled; the other one is not enabled yet.
BlockOff(c) ==
  /\ chen[c] /\ blockDone
  /\ chen' = [chen EXCEPT ![c] = FALSE]
  /\ blockDone' = FALSE
  /\ chainTo' = Other(c)
  /\ UNCHANGED <<timerOn, dsa, dptr, chdhie, pending, halfFull, log, task, trap, taken, done, tPoll>>

\* Channel chaining (CHCHN) enables the other channel.
ChainOn ==
  /\ chainTo # 0
  /\ chen' = [chen EXCEPT ![chainTo] = TRUE]
  /\ chainTo' = 0
  /\ UNCHANGED <<timerOn, dsa, dptr, chdhie, pending, blockDone, halfFull, log, task, trap,
                 taken, done, tPoll>>

\* Serving the half full interrupt of c: c's interrupt goes off, the other
\* channel's goes on, and the half full flags are exchanged.
ServeHalf(c) ==
  /\ pending[c]
  /\ pending' = [pending EXCEPT ![c] = FALSE]
  /\ chdhie' = [d \in Dma |-> d # c]
  /\ halfFull' = [d \in Dma |-> d = c]
  /\ UNCHANGED <<timerOn, chen, dptr, blockDone, chainTo, log, task, taken, done, tPoll>>

\* ADCToggle1to2ISR: channel 2 continues where channel 1 will end.
Toggle1to2 ==
  /\ ServeHalf(1)
  /\ dsa' = [dsa EXCEPT ![2] = dsa[1] + CSADCDMA]
  /\ trap' = IF dsa[1] + CSADCDMA < CSRBUFF THEN trap ELSE "ISR address"

\* The address after the last block is the start of the ring.
RollOverLate(a) == IF a > CSRBUFF THEN 0 ELSE a     \* mutant: off by one
RollOver(a) == IF a >= CSRBUFF THEN 0 ELSE a

\* ADCToggle2to1ISR: channel 1 continues there, or at the start of the ring.
Toggle2to1 ==
  /\ ServeHalf(2)
  /\ dsa' = [dsa EXCEPT ![1] = RollOver(dsa[2] + CSADCDMA)]
  /\ trap' = IF dsa[2] + CSADCDMA > CSRBUFF THEN "ISR address" ELSE trap

-----------------------------------------------------------------------------
(* Commands, between two calls of ADCTask.                                 *)

\* DeferredLogRun's first and last states: the timer must be off; ADCRun.
LogRun ==
  /\ pc = "loop" /\ state \in {"Idle", "Stopped"}
  /\ IF timerOn
     THEN trap' = "timer on" /\ UNCHANGED <<hardware, log, taken, done>>
     ELSE /\ timerOn' = TRUE
          /\ chen' = [c \in Dma |-> c = 1]
          /\ dsa' = [c \in Dma |-> (c - 1) * CSADCDMA]
          /\ dptr' = [c \in Dma |-> 0]
          /\ chdhie' = [c \in Dma |-> c = 1]
          /\ pending' = [c \in Dma |-> FALSE]
          /\ blockDone' = FALSE /\ chainTo' = 0
          /\ halfFull' = [c \in Dma |-> FALSE]
          /\ state' = "Running"
          /\ rawStart' = 0 /\ rawEnd' = 0 /\ voltNext' = 0 /\ csTotal' = 0
          /\ taken' = 0 /\ done' = 0
          /\ UNCHANGED trap
  /\ UNCHANGED <<task, tPoll>>

\* ADCStopSampling: timer, channels and interrupts off, and FnLogStop.
LogStop ==
  /\ pc = "loop"
  /\ timerOn' = FALSE
  /\ chen' = [c \in Dma |-> FALSE]
  /\ pending' = [c \in Dma |-> FALSE]
  /\ blockDone' = FALSE /\ chainTo' = 0
  /\ state' = IF state = "Idle" THEN "Idle" ELSE "Finishing"
  /\ UNCHANGED <<dsa, dptr, chdhie, halfFull, rawStart, rawEnd, voltNext, csTotal, task, trap,
                 taken, done, tPoll>>

\* ADCTargetsTask, once the target of the log is finished.
TargetStopped ==
  /\ pc = "loop" /\ state = "Finishing"
  /\ state' = "Stopped"
  /\ UNCHANGED <<hardware, rawStart, rawEnd, voltNext, csTotal, task, trap, taken, done, tPoll>>

-----------------------------------------------------------------------------
(* ADCTask: finding how far the hardware is.                               *)

Registers(next) ==
  /\ pc' = next
  /\ UNCHANGED <<hardware, log, trap, taken, done>>

\* Entering the while loop, or going around it again.
Look == Registers("poll1") /\ phyAddr' = NoAddr /\ tPoll' = taken /\ UNCHANGED <<reg, phyOffset>>

TaskBegin ==
  /\ pc = "loop"
  /\ \/ state = "Running" /\ Look
     \/ /\ state # "Running"
        /\ Registers("update") /\ phyAddr' = NoAddr /\ UNCHANGED <<reg, phyOffset, tPoll>>

PollEnabled1 ==
  /\ pc = "poll1"
  /\ Registers(IF chen[1] THEN "offset" ELSE "poll2")
  /\ reg' = 1
  /\ UNCHANGED <<phyOffset, phyAddr, tPoll>>

PollEnabled2 ==
  /\ pc = "poll2"
  /\ Registers(IF chen[2] THEN "offset" ELSE "poll3")
  /\ reg' = 2
  /\ UNCHANGED <<phyOffset, phyAddr, tPoll>>

\* Neither was enabled: go around if one is by now, else give up this pass.
PollNeither ==
  /\ pc = "poll3"
  /\ \/ (chen[1] \/ chen[2]) /\ Look
     \/ ~(chen[1] \/ chen[2]) /\ Registers("update") /\ UNCHANGED <<reg, phyOffset, phyAddr, tPoll>>

ReadOffset ==
  /\ pc = "offset"
  /\ phyOffset' = dptr[reg]
  /\ Registers("address")
  /\ UNCHANGED <<reg, phyAddr, tPoll>>

ReadAddress ==
  /\ pc = "address"
  /\ phyAddr' = dsa[reg] + phyOffset
  /\ Registers("test")
  /\ UNCHANGED <<reg, phyOffset, tPoll>>

\* A channel at offset 0 whose half full flag is set is not at its start:
\* it is complete and CHEN is about to drop.
TrustEnabled == FALSE     \* mutant: the test on CHEN alone that did not work
BlockComplete == phyOffset = 0 /\ halfFull[reg]

TestComplete ==
  /\ pc = "test"
  /\ \/ BlockComplete /\ Look
     \/ ~BlockComplete /\ Registers("update") /\ UNCHANGED <<reg, phyOffset, phyAddr, tPoll>>

-----------------------------------------------------------------------------
(* ADCTask: converting.                                                    *)

\* while(cur < padcRawEnd) cur += CSRBUFF
Unwrap(cur) ==
  IF cur >= rawEnd THEN cur
  ELSE IF cur + CSRBUFF >= rawEnd THEN cur + CSRBUFF
  ELSE cur + 2 * CSRBUFF

NewEnd  == IF phyAddr = NoAddr THEN rawEnd ELSE Unwrap(phyAddr)
Backlog == NewEnd - rawStart

\* ASSERT(csDDR < 2000000)
NeverBehind == FALSE     \* mutant: the assertion compiled out
Behind == Backlog >= BacklogLimit

\* Whole groups, no further than the end of the ring, no more than a pass.
Least(S) == CHOOSE x \in S : \A y \in S : x <= y
PassSize ==
  LET cs == Least({Backlog, CSRBUFF - rawStart, CsPass})
  IN  cs - (cs % NCh)

\* The pass reaches the number of samples asked for.
LastPass == CsMax > 0 /\ csTotal + PassSize >= CsMax

WholePass == PassSize \div NCh     \* mutant: the last pass is not cut
Groups == IF LastPass THEN (CsMax - csTotal) \div NCh ELSE PassSize \div NCh

WrapVoltLate(p) == IF p > CSVBUFF THEN 0 ELSE p     \* mutant: off by one
WrapVolt(p) == IF p >= CSVBUFF THEN 0 ELSE p

\* ADCToVoltage: the logged channels of each group go to the voltage ring.
ToVoltage(cGroup) ==
  LET i == cGroup * CActiveCh IN
  /\ csTotal' = csTotal + i
  /\ voltNext' = WrapVolt(voltNext + i)
  /\ trap' = IF voltNext + i > CSVBUFF THEN "voltage wrap" ELSE trap

ConvertPass ==
  /\ pc = "update" /\ NCh <= Backlog /\ ~Behind
  /\ LET used == Groups * NCh
         end  == IF LastPass THEN rawStart + used ELSE NewEnd
         lap  == IF rawStart + used >= CSRBUFF THEN CSRBUFF ELSE 0
     IN  /\ rawStart' = rawStart + used - lap
         /\ rawEnd' = end - lap
         /\ done' = done + used
  /\ state' = IF LastPass THEN "Finishing" ELSE state
  /\ ToVoltage(Groups)
  /\ pc' = "loop"
  /\ UNCHANGED <<hardware, reg, phyOffset, phyAddr, taken, tPoll>>

TooFarBehind ==
  /\ pc = "update" /\ Behind
  /\ trap' = "behind"
  /\ rawEnd' = NewEnd
  /\ pc' = "loop"
  /\ UNCHANGED <<hardware, state, rawStart, voltNext, csTotal, reg, phyOffset, phyAddr, taken,
                 done, tPoll>>

\* Less than a group: it stays for the next pass, or is dropped after a stop.
KeepLeftover == NewEnd     \* mutant: the remainder is never dropped
Leftover == IF state # "Running" THEN rawStart ELSE NewEnd

NoGroup ==
  /\ pc = "update" /\ Backlog < NCh
  /\ rawEnd' = Leftover
  /\ pc' = "loop"
  /\ UNCHANGED <<hardware, state, rawStart, voltNext, csTotal, reg, phyOffset, phyAddr, trap,
                 taken, done, tPoll>>

ADCTask ==
  \/ TaskBegin \/ PollEnabled1 \/ PollEnabled2 \/ PollNeither
  \/ ReadOffset \/ ReadAddress \/ TestComplete
  \/ ConvertPass \/ TooFarBehind \/ NoGroup

Hardware ==
  \/ \E c \in Dma : Sample(c) \/ BlockOff(c)
  \/ ChainOn \/ Toggle1to2 \/ Toggle2to1

Command == LogRun \/ LogStop \/ TargetStopped

\* A failed ASSERT stops the firmware.
Next == trap = "none" /\ (ADCTask \/ Hardware \/ Command)

Spec == Init /\ [][Next]_vars

(***************************************************************************)
(* The super loop calls ADCTask on every pass, the hardware completes a    *)
(* channel switch and the ISRs have priority over the super loop.          *)
(***************************************************************************)
FairSpec ==
  /\ Spec
  /\ WF_vars(trap = "none" /\ ADCTask)
  /\ WF_vars(trap = "none" /\ (ChainOn \/ \E c \in Dma : BlockOff(c)))
  /\ WF_vars(trap = "none" /\ (Toggle1to2 \/ Toggle2to1))

-----------------------------------------------------------------------------
(* Properties.                                                             *)

TypeOK ==
  /\ timerOn \in BOOLEAN /\ blockDone \in BOOLEAN
  /\ chen \in [Dma -> BOOLEAN] /\ chdhie \in [Dma -> BOOLEAN]
  /\ pending \in [Dma -> BOOLEAN] /\ halfFull \in [Dma -> BOOLEAN]
  /\ dsa \in [Dma -> 0 .. CSRBUFF - 1] /\ dptr \in [Dma -> 0 .. CSADCDMA - 1]
  /\ chainTo \in {0} \cup Dma
  /\ state \in LogStates
  /\ rawStart \in 0 .. CSRBUFF - 1 /\ rawEnd \in Nat
  /\ voltNext \in Nat /\ csTotal \in Nat
  /\ pc \in {"loop", "update"} \cup PollSteps
  /\ reg \in Dma /\ phyOffset \in 0 .. CSADCDMA - 1 /\ phyAddr \in {NoAddr} \cup Nat
  /\ trap \in Traps
  /\ taken \in Nat /\ done \in Nat /\ tPoll \in Nat

\* The two channels fill the ring without a gap or an overlap: the enabled
\* channel writes where the previous sample left off (the ISRs programmed its
\* address in time, and only channel 1 ever starts the ring over).
Contiguous ==
  \A c \in Dma : chen[c] /\ ~blockDone => dsa[c] + dptr[c] = taken % CSRBUFF

\* padcRawEnd never covers a sample the hardware has not written, however the
\* register reads fall against the end of a block ("this will look like we
\* went backwards on the phy address").
NothingInvented == Seen <= taken

\* Neither the block addresses nor the end of the voltage ring trip an ASSERT.
AddressesInRange == trap \notin {"ISR address", "voltage wrap"}

\* The two rings stay in step: every converted group is in the voltage ring
\* once, and both pointers are where the counts say (ADCTargets.cpp and
\* FnLogRead find old samples by counting back from padcVoltNext).
RingsInStep ==
  /\ csTotal * NCh = done * CActiveCh
  /\ rawStart = done % CSRBUFF
  /\ voltNext = csTotal % CSVBUFF

\* A log that ends by itself ends with exactly the samples asked for.
CountReached ==
  [][state = "Running" /\ state' = "Finishing" /\ timerOn' => csTotal' = CsMax]_vars

\* After a stop everything already seen is converted: ADCTargetsTask finishes
\* the target only when padcRawEnd has come back to padcRawStart.
Drained == state = "Finishing" ~> (rawEnd = rawStart \/ state = "Running" \/ trap # "none")

\* The log is a faithful, lossless stream of what was sampled.
Stream == INSTANCE SampleStream WITH Capacity <- CSRBUFF, open <- timerOn
ImplementsStream == Stream!Spec

=============================================================================
