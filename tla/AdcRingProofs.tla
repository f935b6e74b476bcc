--------------------------- MODULE AdcRingProofs ---------------------------
(***************************************************************************)
(* AdcRing, for rings, blocks and passes of any size: types, the addresses *)
(* the ISRs program; when every scanned channel is logged, the raw and the *)
(* voltage ring in step and the exact count; and for every scan that the   *)
(* log is the stream of what was sampled.                                  *)
(***************************************************************************)
EXTENDS AdcRing, TLAPS

-----------------------------------------------------------------------------
(* Arithmetic.                                                             *)

LEMMA DivMod ==
  ASSUME NEW x \in Nat, NEW N \in Nat \ {0}
  PROVE  /\ x % N \in 0 .. N - 1 /\ x % N <= x
         /\ (x \div N) \in Nat /\ (x \div N) * N <= x
         /\ x = N * (x \div N) + (x % N)
  <1>1. x % N \in 0 .. N - 1 /\ x % N <= x
    OBVIOUS
  <1>2. (x \div N) \in Nat
    OBVIOUS
  <1>3. (x \div N) * N <= x
    OBVIOUS
  <1>4. x = N * (x \div N) + (x % N)
    OBVIOUS
  <1> QED BY <1>1, <1>2, <1>3, <1>4

LEMMA Remainder ==
  ASSUME NEW q \in Nat, NEW N \in Nat \ {0}, NEW r \in 0 .. N - 1
  PROVE  (N * q + r) % N = r /\ (N * q + r) \div N = q
  OBVIOUS

\* Multiples that differ, differ by at least one.
LEMMA NextMultiple ==
  ASSUME NEW q \in Nat, NEW p \in Nat, NEW N \in Nat, q * N < p * N
  PROVE  q + 1 <= p /\ (q + 1) * N = q * N + N /\ (q + 1) * N <= p * N
  <1>1. ASSUME p <= q PROVE p * N <= q * N
    BY <1>1
  <1>2. q + 1 <= p
    BY <1>1
  <1>3. (q + 1) * N = q * N + N
    OBVIOUS
  <1>4. (q + 1) * N <= p * N
    BY <1>2
  <1> QED BY <1>2, <1>3, <1>4

\* A position on a ring that advances no further than the end of the ring.
LEMMA Advance ==
  ASSUME NEW x \in Nat, NEW k \in Nat, NEW N \in Nat \ {0}, (x % N) + k <= N
  PROVE  (x + k) % N = IF (x % N) + k = N THEN 0 ELSE (x % N) + k
  <1> DEFINE q == x \div N
             r == (x % N) + k
  <1>1. x = N * q + (x % N) /\ q \in Nat /\ x % N \in 0 .. N - 1
    BY DivMod
  <1>2. x + k = N * q + r /\ r \in 0 .. N
    BY <1>1
  <1> HIDE DEF q
  <1>3. CASE r = N
    <2>1. x + k = N * (q + 1) + 0 /\ q + 1 \in Nat
      BY <1>1, <1>2, <1>3
    <2>2. (N * (q + 1) + 0) % N = 0
      BY <2>1, Remainder
    <2> QED BY <2>1, <2>2, <1>3
  <1>4. CASE r # N
    <2> HIDE DEF r
    <2>1. r \in 0 .. N - 1
      BY <1>2, <1>4
    <2>2. (N * q + r) % N = r
      BY <2>1, <1>1, Remainder
    <2> QED BY <1>2, <1>4, <2>2 DEF r
  <1> QED BY <1>3, <1>4

LEMMA LeastOfThree ==
  ASSUME NEW a \in Int, NEW b \in Int, NEW c \in Int
  PROVE  LET m == Least({a, b, c}) IN m \in {a, b, c} /\ m <= a /\ m <= b /\ m <= c
  <1>1. \E x \in {a, b, c} : \A y \in {a, b, c} : x <= y
    <2>1. CASE a <= b /\ a <= c
      BY <2>1
    <2>2. CASE b <= a /\ b <= c
      BY <2>2
    <2>3. CASE c <= a /\ c <= b
      BY <2>3
    <2> QED BY <2>1, <2>2, <2>3
  <1> QED BY <1>1 DEF Least

\* What the assumption says of the sizes.
LEMMA Sizes ==
  /\ CSADCDMA \in Nat \ {0} /\ Half \in 1 .. CSADCDMA - 1
  /\ CSRBUFF \in Nat \ {0} /\ 2 * CSADCDMA <= CSRBUFF
  /\ \E n \in Nat : CSRBUFF = n * (2 * CSADCDMA)
  /\ CSVBUFF = 2 * CSRBUFF
  /\ NCh \in Nat \ {0} /\ CActiveCh \in Nat \ {0} /\ CActiveCh <= NCh
  /\ CsMax \in Int /\ CsPass \in Nat
  <1>1. PICK h \in 1 .. CSADCDMA : CSADCDMA = 2 * h
    BY AdcRingAssumption
  <1>2. PICK n \in 1 .. CSRBUFF : CSRBUFF = n * (2 * CSADCDMA)
    BY AdcRingAssumption
  <1>3. CSADCDMA \in Nat \ {0} /\ Half = h /\ h < CSADCDMA
    BY <1>1, AdcRingAssumption DEF Half
  <1>4. CSRBUFF \in Nat \ {0} /\ n \in Nat /\ n >= 1
    BY <1>2, AdcRingAssumption
  <1>5. 2 * CSADCDMA <= CSRBUFF
    BY <1>2, <1>3, <1>4
  <1> QED BY <1>1, <1>2, <1>3, <1>4, <1>5, AdcRingAssumption DEF CSVBUFF

LEMMA Bounds ==
  /\ CSADCDMA \in Nat /\ CSADCDMA >= 1 /\ CSRBUFF \in Nat /\ 2 * CSADCDMA <= CSRBUFF
  /\ NCh \in Nat /\ NCh >= 1 /\ CActiveCh \in Nat /\ CActiveCh >= 1 /\ CActiveCh <= NCh
  /\ CsMax \in Int /\ CsPass \in Nat /\ Dma = {1, 2}
  BY Sizes DEF Dma

-----------------------------------------------------------------------------
(* Types and block addresses, for every scan.                              *)

\* Channel 1 holds an even block of the ring and channel 2 an odd one.
Blocks ==
  /\ \E k \in Nat : dsa[1] = k * (2 * CSADCDMA) /\ dsa[1] + 2 * CSADCDMA <= CSRBUFF
  /\ \E k \in Nat : /\ dsa[2] = k * (2 * CSADCDMA) + CSADCDMA
                    /\ dsa[2] + CSADCDMA <= CSRBUFF

\* A limited log never has more samples than it asked for.
WithinCount == CsMax > 0 => csTotal <= CsMax

\* The assertions of the ISRs hold.
BlocksOnRing == trap # "ISR address"

IInv == TypeOK /\ Blocks /\ WithinCount /\ BlocksOnRing

\* What one pass takes: whole groups, of what is there, up to the ring's end.
LEMMA PassFacts ==
  ASSUME TypeOK, WithinCount, NCh <= Backlog
  PROVE  /\ Groups \in Nat /\ NewEnd \in Nat
         /\ Groups * NCh \in Nat /\ Groups * CActiveCh \in Nat
         /\ Groups * NCh <= Backlog /\ rawStart + Groups * NCh <= CSRBUFF
         /\ CsMax > 0 => csTotal + Groups * CActiveCh <= CsMax
  <1>1. NewEnd \in Nat /\ Backlog \in Int
    BY Bounds DEF TypeOK, NewEnd, Backlog, Unwrap, NoAddr
  <1> DEFINE cs == Least({Backlog, CSRBUFF - rawStart, CsPass})
  <1>2. cs \in Nat /\ cs <= Backlog /\ cs <= CSRBUFF - rawStart
    <2>1. CSRBUFF - rawStart \in Nat /\ Backlog \in Nat /\ CsPass \in Nat
      BY <1>1, Bounds DEF TypeOK
    <2>2. \A a, b, c \in Int : LET m == Least({a, b, c})
                               IN  m \in {a, b, c} /\ m <= a /\ m <= b /\ m <= c
      BY LeastOfThree
    <2>3. /\ cs \in {Backlog, CSRBUFF - rawStart, CsPass}
          /\ cs <= Backlog /\ cs <= CSRBUFF - rawStart
      <3>1. Backlog \in Int /\ CSRBUFF - rawStart \in Int /\ CsPass \in Int
        BY <2>1
      <3> QED BY <3>1, <2>2, Zenon DEF cs
    <2> HIDE DEF cs
    <2> QED BY <2>1, <2>3
  <1> HIDE DEF cs
  <1>3. PassSize = cs - (cs % NCh) /\ PassSize \in Nat /\ PassSize <= cs
    <2>1. PassSize = cs - (cs % NCh)
      BY DEF PassSize, cs
    <2>2. cs % NCh \in Nat /\ cs % NCh <= cs
      BY <1>2, Bounds, DivMod
    <2> QED BY <2>1, <2>2, <1>2
  <1>4. \E x \in Nat : /\ Groups = x \div NCh /\ x <= PassSize
                       /\ CsMax > 0 => csTotal + x <= CsMax
    <2>1. CASE LastPass
      <3>1. CsMax > 0 /\ csTotal <= CsMax /\ csTotal + PassSize >= CsMax
        BY <2>1 DEF LastPass, WithinCount
      <3>2. CsMax - csTotal \in Nat /\ CsMax - csTotal <= PassSize
        BY <3>1, <1>3, Bounds DEF TypeOK
      <3>3. csTotal + (CsMax - csTotal) <= CsMax
        BY Bounds DEF TypeOK
      <3> QED BY <2>1, <3>2, <3>3 DEF Groups
    <2>2. CASE ~LastPass
      <3>1. CsMax > 0 => csTotal + PassSize <= CsMax
        BY <2>2, <1>3, Bounds DEF LastPass, TypeOK
      <3> QED BY <2>2, <3>1, <1>3 DEF Groups
    <2> QED BY <2>1, <2>2
  <1>5. PICK x \in Nat : /\ Groups = x \div NCh /\ x <= PassSize
                         /\ CsMax > 0 => csTotal + x <= CsMax
    BY <1>4
  <1>6. Groups \in Nat /\ Groups * NCh <= x
    BY <1>5, Bounds, DivMod
  <1>7. Groups * NCh \in Nat /\ Groups * CActiveCh \in Nat
        /\ Groups * CActiveCh <= Groups * NCh
    <2> HIDE DEF Groups
    <2> QED BY <1>6, Bounds
  <1> HIDE DEF Groups, PassSize, Backlog
  <1>8. Groups * NCh <= cs /\ Groups * CActiveCh <= x
    BY <1>5, <1>6, <1>7, <1>3, <1>2
  <1>9. Groups * NCh <= Backlog /\ rawStart + Groups * NCh <= CSRBUFF
    BY <1>8, <1>2, <1>1, <1>7, Bounds DEF TypeOK
  <1>10. CsMax > 0 => csTotal + Groups * CActiveCh <= CsMax
    BY <1>8, <1>5, <1>7, Bounds DEF TypeOK
  <1> QED BY <1>1, <1>6, <1>7, <1>9, <1>10

\* What ConvertPass leaves in the variables it changes.
LEMMA PassStep ==
  ASSUME IInv, ConvertPass
  PROVE  /\ rawStart' = IF rawStart + Groups * NCh = CSRBUFF THEN 0
                        ELSE rawStart + Groups * NCh
         /\ rawStart' \in 0 .. CSRBUFF - 1 /\ rawEnd' \in Nat
         /\ csTotal' = csTotal + Groups * CActiveCh /\ csTotal' \in Nat
         /\ done' = done + Groups * NCh /\ done' \in Nat
         /\ voltNext' \in Nat /\ (CsMax > 0 => csTotal' <= CsMax)
  <1> DEFINE used == Groups * NCh
             kept == Groups * CActiveCh
  <1>1. /\ Groups \in Nat /\ NewEnd \in Nat /\ used \in Nat /\ kept \in Nat
        /\ used <= Backlog /\ rawStart + used <= CSRBUFF
        /\ CsMax > 0 => csTotal + kept <= CsMax
    BY PassFacts DEF IInv, ConvertPass
  <1>2. Backlog = NewEnd - rawStart /\ TypeOK
    BY DEF Backlog, IInv
  <1>3. /\ rawStart' = rawStart + used - (IF rawStart + used >= CSRBUFF THEN CSRBUFF ELSE 0)
        /\ rawEnd' = (IF LastPass THEN rawStart + used ELSE NewEnd)
                       - (IF rawStart + used >= CSRBUFF THEN CSRBUFF ELSE 0)
        /\ done' = done + used
        /\ csTotal' = csTotal + kept
        /\ voltNext' = WrapVolt(voltNext + kept)
    BY DEF ConvertPass, ToVoltage
  <1> HIDE DEF used, kept
  <1>4. rawStart \in 0 .. CSRBUFF - 1 /\ CSRBUFF \in Nat \ {0} /\ csTotal \in Nat
        /\ done \in Nat /\ voltNext \in Nat
    BY <1>2, Bounds DEF TypeOK
  <1>5. rawStart' = (IF rawStart + used = CSRBUFF THEN 0 ELSE rawStart + used)
        /\ rawStart' \in 0 .. CSRBUFF - 1
    BY <1>1, <1>3, <1>4
  <1>6. rawEnd' \in Nat
    BY <1>1, <1>2, <1>3, <1>4
  <1>7. voltNext' \in Nat
    BY <1>1, <1>3, <1>4 DEF WrapVolt
  <1>8. csTotal' \in Nat /\ done' \in Nat /\ (CsMax > 0 => csTotal' <= CsMax)
    BY <1>1, <1>3, <1>4
  <1> QED BY <1>3, <1>5, <1>6, <1>7, <1>8 DEF used, kept

-----------------------------------------------------------------------------

LEMMA InitIInv == Init => IInv
  <1> SUFFICES ASSUME Init PROVE IInv
    OBVIOUS
  <1>1. TypeOK
    <2>1. dsa \in [Dma -> 0 .. CSRBUFF - 1] /\ dptr \in [Dma -> 0 .. CSADCDMA - 1]
      <3>1. dsa = [c \in Dma |-> (c - 1) * CSADCDMA] /\ dptr = [c \in Dma |-> 0]
        BY DEF Init
      <3> QED BY <3>1, Bounds
    <2>2. rawStart \in 0 .. CSRBUFF - 1 /\ phyOffset \in 0 .. CSADCDMA - 1 /\ reg \in Dma
      <3>1. rawStart = 0 /\ phyOffset = 0 /\ reg = 1
        BY DEF Init
      <3> QED BY <3>1, Bounds
    <2> QED BY <2>1, <2>2 DEF Init, TypeOK, LogStates, Traps
  <1>2. Blocks
    <2>1. dsa[1] = 0 /\ dsa[2] = CSADCDMA
      BY Bounds DEF Init
    <2>2. /\ 0 \in Nat /\ dsa[1] = 0 * (2 * CSADCDMA) /\ dsa[1] + 2 * CSADCDMA <= CSRBUFF
          /\ dsa[2] = 0 * (2 * CSADCDMA) + CSADCDMA /\ dsa[2] + CSADCDMA <= CSRBUFF
      BY <2>1, Bounds
    <2> QED BY <2>2, Zenon DEF Blocks
  <1>3. WithinCount
    <2>1. csTotal = 0
      BY DEF Init
    <2> QED BY <2>1, Bounds DEF WithinCount
  <1>4. BlocksOnRing
    BY DEF Init, BlocksOnRing
  <1> QED BY <1>1, <1>2, <1>3, <1>4 DEF IInv

LEMMA NextIInv == IInv /\ [Next]_vars => IInv'
  <1> SUFFICES ASSUME IInv, [Next]_vars PROVE IInv'
    OBVIOUS
  <1>s. /\ TypeOK /\ Blocks /\ WithinCount /\ BlocksOnRing
        /\ CSADCDMA \in Nat /\ CSADCDMA >= 1 /\ CSRBUFF \in Nat /\ 2 * CSADCDMA <= CSRBUFF
        /\ CsMax \in Int /\ Dma = {1, 2}
    BY Bounds DEF IInv
  <1>1. ASSUME NEW c \in Dma, trap = "none", Sample(c) PROVE IInv'
    <2>1. TypeOK'
      <3>1. dptr' \in [Dma -> 0 .. CSADCDMA - 1]
        BY <1>1, <1>s DEF TypeOK, Sample
      <3>2. blockDone' \in BOOLEAN /\ pending' \in [Dma -> BOOLEAN] /\ taken' \in Nat
        BY <1>1, <1>s DEF TypeOK, Sample
      <3> QED BY <1>1, <1>s, <3>1, <3>2 DEF TypeOK, Sample, log, task
    <2>2. dsa' = dsa /\ csTotal' = csTotal /\ trap' = trap
      BY <1>1 DEF Sample, log
    <2> QED BY <2>1, <2>2, <1>s DEF IInv, Blocks, WithinCount, BlocksOnRing
  <1>2. ASSUME NEW c \in Dma, trap = "none", BlockOff(c) PROVE IInv'
    <2>1. TypeOK'
      <3>1. chainTo' \in {0} \cup Dma
        BY <1>2, <1>s DEF BlockOff, Other
      <3> QED BY <1>2, <1>s, <3>1 DEF TypeOK, BlockOff, log, task
    <2>2. dsa' = dsa /\ csTotal' = csTotal /\ trap' = trap
      BY <1>2 DEF BlockOff, log
    <2> QED BY <2>1, <2>2, <1>s DEF IInv, Blocks, WithinCount, BlocksOnRing
  <1>3. ASSUME trap = "none", ChainOn PROVE IInv'
    <2>1. TypeOK'
      BY <1>3, <1>s DEF TypeOK, ChainOn, log, task
    <2>2. dsa' = dsa /\ csTotal' = csTotal /\ trap' = trap
      BY <1>3 DEF ChainOn, log
    <2> QED BY <2>1, <2>2, <1>s DEF IInv, Blocks, WithinCount, BlocksOnRing
  <1>4. ASSUME trap = "none", Toggle1to2 PROVE IInv'
    <2>1. PICK k \in Nat : /\ dsa[1] = k * (2 * CSADCDMA)
                           /\ dsa[1] + 2 * CSADCDMA <= CSRBUFF
      BY <1>s DEF Blocks
    <2> DEFINE a == dsa[1] + CSADCDMA
    <2>2. dsa[1] \in Nat /\ a \in 0 .. CSRBUFF - 1 /\ a + CSADCDMA <= CSRBUFF
          /\ a = k * (2 * CSADCDMA) + CSADCDMA
      BY <2>1, <1>s DEF TypeOK
    <2>3. dsa' = [dsa EXCEPT ![2] = a]
      BY <1>4 DEF Toggle1to2
    <2>4. dsa'[1] = dsa[1] /\ dsa'[2] = a /\ dsa' \in [Dma -> 0 .. CSRBUFF - 1]
      <3>1. dsa \in [Dma -> 0 .. CSRBUFF - 1]
        BY <1>s DEF TypeOK
      <3> HIDE DEF a
      <3> QED BY <2>2, <2>3, <3>1, <1>s
    <2>5. trap' = "none"
      <3>1. a < CSRBUFF
        BY <2>2, <1>s
      <3> QED BY <3>1, <1>4, Zenon DEF Toggle1to2
    <2> HIDE DEF a
    <2>6. TypeOK'
      <3>1. pending' \in [Dma -> BOOLEAN] /\ chdhie' \in [Dma -> BOOLEAN]
            /\ halfFull' \in [Dma -> BOOLEAN]
        BY <1>4, <1>s DEF TypeOK, Toggle1to2, ServeHalf
      <3> QED BY <1>4, <1>s, <2>4, <2>5, <3>1
            DEF TypeOK, Toggle1to2, ServeHalf, log, task, Traps
    <2>7. Blocks'
      BY <2>1, <2>2, <2>4 DEF Blocks
    <2>8. WithinCount'
      <3>1. csTotal' = csTotal
        BY <1>4 DEF Toggle1to2, ServeHalf, log
      <3> QED BY <3>1, <1>s DEF WithinCount
    <2> QED BY <2>5, <2>6, <2>7, <2>8 DEF IInv, BlocksOnRing
  <1>5. ASSUME trap = "none", Toggle2to1 PROVE IInv'
    <2>1. PICK k \in Nat : /\ dsa[2] = k * (2 * CSADCDMA) + CSADCDMA
                           /\ dsa[2] + CSADCDMA <= CSRBUFF
      BY <1>s DEF Blocks
    <2>2. PICK n \in Nat : CSRBUFF = n * (2 * CSADCDMA)
      BY Sizes
    <2> DEFINE a == dsa[2] + CSADCDMA
               b == RollOver(a)
    <2>3. a \in Nat /\ a <= CSRBUFF /\ a = (k + 1) * (2 * CSADCDMA)
      BY <2>1, <1>s DEF TypeOK
    <2>4. dsa' = [dsa EXCEPT ![1] = b]
      BY <1>5 DEF Toggle2to1
    <2>5. \E j \in Nat : b = j * (2 * CSADCDMA) /\ b + 2 * CSADCDMA <= CSRBUFF
      <3>1. CASE a >= CSRBUFF
        <4>1. b = 0 * (2 * CSADCDMA) /\ b = 0
          BY <3>1, <1>s DEF RollOver
        <4> QED BY <4>1, <1>s
      <3>2. CASE a < CSRBUFF
        <4>1. b = a
          BY <3>2, <2>3, <1>s DEF RollOver
        <4>2. k + 1 \in Nat /\ 2 * CSADCDMA \in Nat
              /\ (k + 1) * (2 * CSADCDMA) < n * (2 * CSADCDMA)
          BY <3>2, <2>2, <2>3, <1>s
        <4> DEFINE B == 2 * CSADCDMA
        <4>3. (k + 1) * B + B = ((k + 1) + 1) * B /\ ((k + 1) + 1) * B <= n * B
          <5> HIDE DEF B
          <5>1. k + 1 \in Nat /\ n \in Nat /\ B \in Nat /\ (k + 1) * B < n * B
            BY <4>2 DEF B
          <5> QED BY <5>1, NextMultiple
        <4>4. a + B <= CSRBUFF
          BY <4>3, <2>3, <2>2
        <4> QED BY <4>1, <4>2, <4>4, <2>3
      <3> QED BY <3>1, <3>2, <2>3, <1>s
    <2>6. b \in 0 .. CSRBUFF - 1
      BY <2>3, <1>s DEF RollOver
    <2>7. dsa'[1] = b /\ dsa'[2] = dsa[2] /\ dsa' \in [Dma -> 0 .. CSRBUFF - 1]
      <3>1. dsa \in [Dma -> 0 .. CSRBUFF - 1]
        BY <1>s DEF TypeOK
      <3> HIDE DEF a, b
      <3> QED BY <2>4, <2>6, <3>1, <1>s
    <2>8. trap' = "none"
      <3>1. ~(a > CSRBUFF)
        BY <2>3, <1>s
      <3> QED BY <3>1, <1>5, Zenon DEF Toggle2to1
    <2> HIDE DEF a, b
    <2>9. TypeOK'
      <3>1. pending' \in [Dma -> BOOLEAN] /\ chdhie' \in [Dma -> BOOLEAN]
            /\ halfFull' \in [Dma -> BOOLEAN]
        BY <1>5, <1>s DEF TypeOK, Toggle2to1, ServeHalf
      <3> QED BY <1>5, <1>s, <2>7, <2>8, <3>1
            DEF TypeOK, Toggle2to1, ServeHalf, log, task, Traps
    <2>10. Blocks'
      BY <2>1, <2>5, <2>7 DEF Blocks
    <2>11. WithinCount'
      <3>1. csTotal' = csTotal
        BY <1>5 DEF Toggle2to1, ServeHalf, log
      <3> QED BY <3>1, <1>s DEF WithinCount
    <2> QED BY <2>8, <2>9, <2>10, <2>11 DEF IInv, BlocksOnRing
  <1>6. ASSUME trap = "none", LogRun PROVE IInv'
    <2>1. CASE timerOn
      <3>1. TypeOK'
        BY <1>6, <2>1, <1>s DEF TypeOK, LogRun, hardware, log, task, Traps
      <3>2. dsa' = dsa /\ csTotal' = csTotal /\ trap' = "timer on"
        BY <1>6, <2>1 DEF LogRun, hardware, log
      <3> QED BY <3>1, <3>2, <1>s DEF IInv, Blocks, WithinCount, BlocksOnRing
    <2>2. CASE ~timerOn
      <3>1. dsa' = [c \in Dma |-> (c - 1) * CSADCDMA] /\ csTotal' = 0 /\ trap' = trap
        BY <1>6, <2>2 DEF LogRun
      <3>2. dsa' \in [Dma -> 0 .. CSRBUFF - 1] /\ dsa'[1] = 0 /\ dsa'[2] = CSADCDMA
        BY <3>1, <1>s
      <3>3. TypeOK'
        <4>1. dptr' \in [Dma -> 0 .. CSADCDMA - 1] /\ rawStart' \in 0 .. CSRBUFF - 1
          <5>1. dptr' = [c \in Dma |-> 0] /\ rawStart' = 0
            BY <1>6, <2>2 DEF LogRun
          <5> QED BY <5>1, <1>s
        <4>2. /\ timerOn' \in BOOLEAN /\ blockDone' \in BOOLEAN
              /\ chen' \in [Dma -> BOOLEAN] /\ chdhie' \in [Dma -> BOOLEAN]
              /\ pending' \in [Dma -> BOOLEAN] /\ halfFull' \in [Dma -> BOOLEAN]
              /\ chainTo' \in {0} \cup Dma
          BY <1>6, <2>2 DEF LogRun
        <4>3. /\ state' \in LogStates /\ rawEnd' \in Nat /\ voltNext' \in Nat
              /\ csTotal' \in Nat /\ taken' \in Nat /\ done' \in Nat
          BY <1>6, <2>2 DEF LogRun, LogStates
        <4>4. UNCHANGED <<task, trap, tPoll>>
          BY <1>6, <2>2 DEF LogRun
        <4>5. dsa' \in [Dma -> 0 .. CSRBUFF - 1]
          BY <3>2
        <4> QED BY <4>1, <4>2, <4>3, <4>4, <4>5, <1>s DEF TypeOK, task
      <3>4. Blocks'
        <4>1. /\ 0 \in Nat /\ dsa'[1] = 0 * (2 * CSADCDMA)
              /\ dsa'[1] + 2 * CSADCDMA <= CSRBUFF
              /\ dsa'[2] = 0 * (2 * CSADCDMA) + CSADCDMA
              /\ dsa'[2] + CSADCDMA <= CSRBUFF
          BY <3>2, <1>s
        <4> QED BY <4>1, Zenon DEF Blocks
      <3>5. WithinCount'
        BY <3>1, Bounds DEF WithinCount
      <3> QED BY <3>1, <3>3, <3>4, <3>5, <1>s DEF IInv, BlocksOnRing
    <2> QED BY <2>1, <2>2
  <1>7. ASSUME trap = "none", LogStop \/ TargetStopped PROVE IInv'
    <2>1. TypeOK'
      BY <1>7, <1>s DEF TypeOK, LogStop, TargetStopped, hardware, task, LogStates
    <2>2. dsa' = dsa /\ csTotal' = csTotal /\ trap' = trap
      BY <1>7 DEF LogStop, TargetStopped, hardware
    <2> QED BY <2>1, <2>2, <1>s DEF IInv, Blocks, WithinCount, BlocksOnRing
  <1>8. ASSUME trap = "none",
               TaskBegin \/ PollEnabled1 \/ PollEnabled2 \/ PollNeither
                 \/ ReadOffset \/ ReadAddress \/ TestComplete
        PROVE IInv'
    <2>1. /\ UNCHANGED <<hardware, log, trap, taken, done>>
          /\ pc' \in {"loop", "update"} \cup PollSteps
      BY <1>8 DEF TaskBegin, PollEnabled1, PollEnabled2, PollNeither, ReadOffset,
                  ReadAddress, TestComplete, Look, Registers, PollSteps
    <2>2. reg' \in Dma /\ phyOffset' \in 0 .. CSADCDMA - 1
          /\ phyAddr' \in {NoAddr} \cup Nat /\ tPoll' \in Nat
      <3>1. CASE ReadAddress
        BY <3>1, <1>s DEF TypeOK, ReadAddress, NoAddr
      <3>2. CASE ReadOffset
        BY <3>2, <1>s DEF TypeOK, ReadOffset
      <3>3. CASE TaskBegin \/ PollEnabled1 \/ PollEnabled2 \/ PollNeither \/ TestComplete
        BY <3>3, <1>s DEF TypeOK, TaskBegin, PollEnabled1, PollEnabled2, PollNeither,
                          TestComplete, Look
      <3> QED BY <1>8, <3>1, <3>2, <3>3
    <2>3. TypeOK'
      BY <2>1, <2>2, <1>s DEF TypeOK, hardware, log
    <2>4. dsa' = dsa /\ csTotal' = csTotal /\ trap' = trap
      BY <2>1 DEF hardware, log
    <2> QED BY <2>3, <2>4, <1>s DEF IInv, Blocks, WithinCount, BlocksOnRing
  <1>9. ASSUME trap = "none", ConvertPass PROVE IInv'
    <2>1. /\ rawStart' \in 0 .. CSRBUFF - 1 /\ rawEnd' \in Nat
          /\ csTotal' \in Nat /\ done' \in Nat /\ voltNext' \in Nat
          /\ CsMax > 0 => csTotal' <= CsMax
      BY <1>9, PassStep
    <2>2. /\ UNCHANGED <<hardware, reg, phyOffset, phyAddr, taken, tPoll>>
          /\ pc' = "loop" /\ state' \in {"Finishing", state}
          /\ trap' \in {"voltage wrap", trap}
      BY <1>9 DEF ConvertPass, ToVoltage
    <2>3. TypeOK'
      BY <2>1, <2>2, <1>s DEF TypeOK, hardware, LogStates, Traps
    <2>4. dsa' = dsa
      BY <2>2 DEF hardware
    <2>5. BlocksOnRing'
      BY <2>2, <1>s DEF BlocksOnRing
    <2> QED BY <2>1, <2>3, <2>4, <2>5, <1>s DEF IInv, Blocks, WithinCount
  <1>10. ASSUME trap = "none", TooFarBehind \/ NoGroup PROVE IInv'
    <2>1. rawEnd' \in Nat
      <3>1. NewEnd \in Nat
        <4>1. phyAddr \in {NoAddr} \cup Nat /\ rawEnd \in Nat
          BY <1>s DEF TypeOK
        <4> QED BY <4>1, <1>s DEF NewEnd, Unwrap
      <3>2. rawStart \in Nat
        <4>1. rawStart \in 0 .. CSRBUFF - 1
          BY <1>s DEF TypeOK
        <4> QED BY <4>1, <1>s
      <3> QED BY <1>10, <3>1, <3>2 DEF TooFarBehind, NoGroup, Leftover
    <2>2. TypeOK'
      BY <1>10, <2>1, <1>s DEF TypeOK, TooFarBehind, NoGroup, hardware, Traps
    <2>3. dsa' = dsa /\ csTotal' = csTotal /\ trap' \in {"behind", trap}
      BY <1>10 DEF TooFarBehind, NoGroup, hardware
    <2> QED BY <2>2, <2>3, <1>s DEF IInv, Blocks, WithinCount, BlocksOnRing
  <1>11. CASE UNCHANGED vars
    BY <1>11, <1>s DEF vars, hardware, log, task, TypeOK, Blocks, WithinCount, BlocksOnRing, IInv
  <1> QED BY <1>1, <1>2, <1>3, <1>4, <1>5, <1>6, <1>7, <1>8, <1>9, <1>10, <1>11
        DEF Next, ADCTask, Hardware, Command

LEMMA AlwaysIInv == Spec => []IInv
  BY InitIInv, NextIInv, PTL DEF Spec

\* In every run the pointers of both rings, the registers and the counts keep
\* their types: no write of ADCTask or of an ISR leaves the rings
\* (ADC.cpp, ADCTask and the ISRs).
THEOREM AcquisitionTypeOK == Spec => []TypeOK
  <1>1. IInv => TypeOK
    BY DEF IInv
  <1> QED BY <1>1, AlwaysIInv, PTL

-----------------------------------------------------------------------------
(* The rings in step, when every scanned channel is logged.                *)

NoGaps == CActiveCh = NCh

\* Every raw sample of the run is in the voltage ring, and the end of the
\* data is where the count says, in the first or the second half of it.
InStep ==
  /\ csTotal = done
  /\ rawStart = done % CSRBUFF
  /\ voltNext = csTotal % CSVBUFF
  /\ voltNext = rawStart \/ voltNext = rawStart + CSRBUFF

NoWrapTrap == trap # "voltage wrap"

StepInv == InStep /\ NoWrapTrap

LEMMA InitStepInv == Init => StepInv
  <1> SUFFICES ASSUME Init PROVE StepInv
    OBVIOUS
  <1>1. csTotal = 0 /\ done = 0 /\ rawStart = 0 /\ voltNext = 0
    BY DEF Init
  <1>2. InStep
    BY <1>1, Bounds DEF InStep, CSVBUFF
  <1>3. NoWrapTrap
    BY DEF Init, NoWrapTrap
  <1> QED BY <1>2, <1>3 DEF StepInv

\* A pass moves both pointers by the same number of samples; the voltage ring,
\* twice as long, ends where the raw ring ends.
LEMMA PassInStep ==
  ASSUME NoGaps, IInv, StepInv, trap = "none", ConvertPass
  PROVE  StepInv'
  <1> DEFINE used == Groups * NCh
  <1>1. /\ rawStart' = IF rawStart + used = CSRBUFF THEN 0 ELSE rawStart + used
        /\ csTotal' = csTotal + used /\ done' = done + used
    BY PassStep DEF NoGaps
  <1>2. used \in Nat /\ rawStart + used <= CSRBUFF
    BY PassFacts DEF IInv, ConvertPass
  <1>3. voltNext' = WrapVolt(voltNext + used)
    BY DEF ConvertPass, ToVoltage, NoGaps
  <1>4. /\ csTotal \in Nat /\ done \in Nat /\ rawStart \in 0 .. CSRBUFF - 1 /\ voltNext \in Nat
        /\ CSRBUFF \in Nat /\ CSRBUFF >= 1 /\ CSVBUFF = 2 * CSRBUFF
    <2>1. TypeOK
      BY DEF IInv
    <2> QED BY <2>1, Bounds DEF TypeOK, CSVBUFF
  <1>5. /\ csTotal = done /\ rawStart = done % CSRBUFF /\ voltNext = csTotal % CSVBUFF
        /\ voltNext = rawStart \/ voltNext = rawStart + CSRBUFF
    BY DEF StepInv, InStep
  <1> HIDE DEF used
  <1>6. voltNext + used <= CSVBUFF
    BY <1>2, <1>4, <1>5
  <1>7. CSRBUFF \in Nat \ {0} /\ CSVBUFF \in Nat \ {0}
    BY <1>4
  <1>8. (done + used) % CSRBUFF = IF rawStart + used = CSRBUFF THEN 0 ELSE rawStart + used
    <2>1. ((done % CSRBUFF) + used) <= CSRBUFF
      BY <1>2, <1>5
    <2>2. (done + used) % CSRBUFF
            = IF (done % CSRBUFF) + used = CSRBUFF THEN 0 ELSE (done % CSRBUFF) + used
      <3>1. done \in Nat /\ used \in Nat /\ CSRBUFF \in Nat \ {0}
        BY <1>2, <1>4, <1>7
      <3> QED BY <3>1, <2>1, Advance, Zenon
    <2> QED BY <2>2, <1>5
  <1>9. (csTotal + used) % CSVBUFF = IF voltNext + used = CSVBUFF THEN 0 ELSE voltNext + used
    <2>1. ((csTotal % CSVBUFF) + used) <= CSVBUFF
      BY <1>2, <1>5, <1>6
    <2>2. (csTotal + used) % CSVBUFF
            = IF (csTotal % CSVBUFF) + used = CSVBUFF THEN 0 ELSE (csTotal % CSVBUFF) + used
      <3>1. csTotal \in Nat /\ used \in Nat /\ CSVBUFF \in Nat \ {0}
        BY <1>2, <1>4, <1>7
      <3> QED BY <3>1, <2>1, Advance, Zenon
    <2> QED BY <2>2, <1>5
  <1>10. voltNext' = IF voltNext + used = CSVBUFF THEN 0 ELSE voltNext + used
    BY <1>2, <1>3, <1>4, <1>6 DEF WrapVolt
  <1>11. rawStart' = done' % CSRBUFF
    BY <1>1, <1>8
  <1>12. voltNext' = csTotal' % CSVBUFF
    BY <1>1, <1>9, <1>10
  <1>13. voltNext' = rawStart' \/ voltNext' = rawStart' + CSRBUFF
    BY <1>1, <1>2, <1>4, <1>5, <1>10
  <1>14. csTotal' = done'
    BY <1>1, <1>5
  <1>15. InStep'
    BY <1>11, <1>12, <1>13, <1>14 DEF InStep
  <1>16. NoWrapTrap'
    <2>1. ~(voltNext + used > CSVBUFF)
      BY <1>2, <1>4, <1>6
    <2>2. trap' = IF voltNext + used > CSVBUFF THEN "voltage wrap" ELSE trap
      BY DEF ConvertPass, ToVoltage, NoGaps, used
    <2>3. trap' = "none"
      BY <2>1, <2>2, Zenon
    <2> QED BY <2>3 DEF NoWrapTrap
  <1> QED BY <1>15, <1>16 DEF StepInv

LEMMA NextStepInv ==
  ASSUME NoGaps
  PROVE  IInv /\ StepInv /\ [Next]_vars => StepInv'
  <1> SUFFICES ASSUME IInv, StepInv, [Next]_vars PROVE StepInv'
    OBVIOUS
  <1>1. ASSUME trap = "none", ConvertPass PROVE StepInv'
    BY <1>1, PassInStep
  <1>2. ASSUME trap = "none", LogRun PROVE StepInv'
    <2>1. CASE timerOn
      <3>1. UNCHANGED <<rawStart, voltNext, csTotal, done>> /\ trap' = "timer on"
        BY <1>2, <2>1 DEF LogRun, log
      <3> QED BY <3>1 DEF StepInv, InStep, NoWrapTrap
    <2>2. CASE ~timerOn
      <3>1. csTotal' = 0 /\ done' = 0 /\ rawStart' = 0 /\ voltNext' = 0
        BY <1>2, <2>2 DEF LogRun
      <3>2. InStep'
        BY <3>1, Bounds DEF InStep, CSVBUFF
      <3>3. trap' = "none"
        BY <1>2, <2>2 DEF LogRun
      <3> QED BY <3>2, <3>3 DEF StepInv, NoWrapTrap
    <2> QED BY <2>1, <2>2
  <1>3. ASSUME trap = "none",
               \/ \E c \in Dma : Sample(c) \/ BlockOff(c)
               \/ ChainOn \/ LogStop \/ TargetStopped
               \/ TaskBegin \/ PollEnabled1 \/ PollEnabled2 \/ PollNeither
               \/ ReadOffset \/ ReadAddress \/ TestComplete
               \/ TooFarBehind \/ NoGroup \/ Toggle1to2 \/ Toggle2to1
        PROVE  StepInv'
    <2>1. UNCHANGED <<rawStart, voltNext, csTotal, done>>
      BY <1>3 DEF Sample, BlockOff, ChainOn, LogStop, TargetStopped, TaskBegin, PollEnabled1,
                  PollEnabled2, PollNeither, ReadOffset, ReadAddress, TestComplete, Look,
                  Registers, TooFarBehind, NoGroup, Toggle1to2, Toggle2to1, ServeHalf, log
    <2>2. trap' \in {trap, "behind", "ISR address"}
      BY <1>3 DEF Sample, BlockOff, ChainOn, LogStop, TargetStopped, TaskBegin, PollEnabled1,
                  PollEnabled2, PollNeither, ReadOffset, ReadAddress, TestComplete, Look,
                  Registers, TooFarBehind, NoGroup, Toggle1to2, Toggle2to1
    <2>3. InStep'
      BY <2>1 DEF StepInv, InStep
    <2> QED BY <2>2, <2>3 DEF StepInv, NoWrapTrap
  <1>4. CASE UNCHANGED vars
    BY <1>4 DEF vars, log, StepInv, InStep, NoWrapTrap
  <1> QED BY <1>1, <1>2, <1>3, <1>4 DEF Next, ADCTask, Hardware, Command

LEMMA AlwaysStepInv ==
  ASSUME NoGaps
  PROVE  Spec => [](IInv /\ StepInv)
  <1>1. Init => StepInv
    BY InitStepInv
  <1>2. IInv /\ StepInv /\ [Next]_vars => StepInv'
    BY NextStepInv
  <1> QED BY <1>1, <1>2, AlwaysIInv, PTL DEF Spec

\* When every scanned channel is logged, both rings are where the counts say
\* after any number of passes, whatever the register reads saw
\* (ADC.cpp, ADCTask and ADCToVoltage).
THEOREM RingsStayInStep ==
  ASSUME NoGaps
  PROVE  Spec => []RingsInStep
  <1>1. IInv /\ StepInv => RingsInStep
    BY DEF StepInv, InStep, RingsInStep, NoGaps
  <1> QED BY <1>1, AlwaysStepInv, PTL

\* Then neither the assertions of the ISRs nor the one on the end of the
\* voltage ring can fail (ADC.cpp, the ISRs and ADCToVoltage).
THEOREM AddressesStayInRange ==
  ASSUME NoGaps
  PROVE  Spec => []AddressesInRange
  <1>1. IInv /\ StepInv => AddressesInRange
    BY DEF IInv, BlocksOnRing, StepInv, NoWrapTrap, AddressesInRange
  <1> QED BY <1>1, AlwaysStepInv, PTL

-----------------------------------------------------------------------------
(* A limited log, when the limit is a whole number of groups.              *)

WholeLimit == \E m \in Nat : CsMax = m * NCh
WholeGroups == \E k \in Nat : csTotal = k * NCh

LEMMA NextWholeGroups ==
  ASSUME NoGaps
  PROVE  IInv /\ WholeGroups /\ [Next]_vars => WholeGroups'
  <1> SUFFICES ASSUME IInv, WholeGroups, [Next]_vars PROVE WholeGroups'
    OBVIOUS
  <1>b. NCh \in Nat /\ NCh >= 1
    BY Bounds
  <1>1. CASE ConvertPass
    <2>1. Groups \in Nat
      BY <1>1, PassFacts DEF IInv, ConvertPass
    <2>2. csTotal' = csTotal + Groups * NCh
      BY <1>1 DEF ConvertPass, ToVoltage, NoGaps
    <2> HIDE DEF Groups
    <2>3. PICK k \in Nat : csTotal = k * NCh
      BY DEF WholeGroups
    <2>4. csTotal' = (k + Groups) * NCh /\ k + Groups \in Nat
      BY <2>1, <2>2, <2>3, <1>b
    <2> QED BY <2>4, Zenon DEF WholeGroups
  <1>2. CASE csTotal' = csTotal
    BY <1>2 DEF WholeGroups
  <1>3. CASE csTotal' = 0
    <2>1. 0 \in Nat /\ csTotal' = 0 * NCh
      BY <1>3, <1>b
    <2> QED BY <2>1, Zenon DEF WholeGroups
  <1>4. ConvertPass \/ csTotal' = csTotal \/ csTotal' = 0
    BY DEF Next, ADCTask, Hardware, Command, vars, log, Sample, BlockOff, ChainOn, LogRun,
           LogStop, TargetStopped, TaskBegin, PollEnabled1, PollEnabled2, PollNeither,
           ReadOffset, ReadAddress, TestComplete, Look, Registers, TooFarBehind, NoGroup,
           Toggle1to2, Toggle2to1, ServeHalf
  <1> QED BY <1>1, <1>2, <1>3, <1>4

\* Only the last pass ends a log whose timer is still on.
EndsByItself == state = "Running" /\ state' = "Finishing" /\ timerOn'

LEMMA LastPassExact ==
  ASSUME NoGaps, WholeLimit, IInv, WholeGroups, [Next]_vars, EndsByItself
  PROVE  csTotal' = CsMax
  <1>b. /\ NCh \in Nat /\ NCh >= 1 /\ NCh \in Nat \ {0} /\ csTotal \in Nat
    <2>1. TypeOK
      BY DEF IInv
    <2> QED BY <2>1, Bounds DEF TypeOK
  <1>1. ConvertPass /\ LastPass
    BY DEF EndsByItself, Next, ADCTask, Hardware, Command, vars, log, Sample, BlockOff,
           ChainOn, LogRun, LogStop, TargetStopped, TaskBegin, PollEnabled1, PollEnabled2,
           PollNeither, ReadOffset, ReadAddress, TestComplete, Look, Registers, ConvertPass,
           TooFarBehind, NoGroup, Toggle1to2, Toggle2to1, ServeHalf
  <1>2. csTotal' = csTotal + Groups * NCh
    BY <1>1 DEF ConvertPass, ToVoltage, NoGaps
  <1>3. Groups = (CsMax - csTotal) \div NCh /\ csTotal <= CsMax
    BY <1>1 DEF Groups, LastPass, IInv, WithinCount
  <1>4. PICK m \in Nat : CsMax = m * NCh
    BY DEF WholeLimit
  <1>5. PICK k \in Nat : csTotal = k * NCh
    BY DEF WholeGroups
  <1>6. m - k \in Nat /\ CsMax - csTotal = NCh * (m - k)
    <2>1. ~(m < k)
      <3> SUFFICES ASSUME m < k PROVE FALSE
        OBVIOUS
      <3>1. (m + 1) * NCh <= k * NCh
        BY <1>b
      <3>2. (m + 1) * NCh = m * NCh + NCh
        BY <1>b
      <3> QED BY <3>1, <3>2, <1>3, <1>4, <1>5, <1>b
    <2>2. m - k \in Nat
      BY <2>1
    <2>3. m * NCh - k * NCh = NCh * (m - k)
      BY <1>b
    <2> QED BY <2>2, <2>3, <1>4, <1>5
  <1> DEFINE q == m - k
  <1>7. (NCh * q + 0) \div NCh = q
    <2> HIDE DEF q
    <2>1. q \in Nat /\ 0 \in 0 .. NCh - 1
      BY <1>6, <1>b DEF q
    <2> QED BY <2>1, <1>b, Remainder
  <1>8. CsMax - csTotal = NCh * q + 0 /\ q \in Nat
    BY <1>6, <1>b
  <1> HIDE DEF q, Groups
  <1>9. Groups = q
    BY <1>3, <1>7, <1>8
  <1>10. csTotal' = csTotal + (CsMax - csTotal)
    BY <1>2, <1>8, <1>9, <1>b
  <1> QED BY <1>10, <1>b, Bounds

\* A log of every scanned channel that ends by itself has exactly the samples
\* asked for, when they are a whole number of scans (ADC.cpp, ADCTask).
THEOREM CountIsExact ==
  ASSUME NoGaps, WholeLimit
  PROVE  Spec => CountReached
  <1>1. Init => WholeGroups
    <2> SUFFICES ASSUME Init PROVE WholeGroups
      OBVIOUS
    <2>1. 0 \in Nat /\ csTotal = 0 * NCh
      BY Bounds DEF Init
    <2> QED BY <2>1, Zenon DEF WholeGroups
  <1>2. IInv /\ WholeGroups /\ [Next]_vars => WholeGroups'
    BY NextWholeGroups
  <1>3. IInv /\ WholeGroups /\ [Next]_vars
          => [state = "Running" /\ state' = "Finishing" /\ timerOn' => csTotal' = CsMax]_vars
    BY LastPassExact DEF EndsByItself
  <1> QED BY <1>1, <1>2, <1>3, AlwaysIInv, PTL DEF Spec, CountReached

-----------------------------------------------------------------------------
(* The registers and the number of samples taken, for every scan.          *)

\* Block b of a run is written by channel Chan(b), from Addr(b) on.
Chan(b) == IF b % 2 = 0 THEN 1 ELSE 2
Addr(b) == (b * CSADCDMA) % CSRBUFF

\* Sample o of block b is the next one: me is the channel of this block, ot
\* that of the last and the next.  Until the ISR is served ot has the address
\* of the last block, thereafter that of the next.
Programmed(b, o, me, ot) ==
  /\ dsa[me] = Addr(b) /\ dptr[me] = o /\ dptr[ot] = 0 /\ ~pending[ot]
  /\ \/ /\ chdhie[me] /\ ~chdhie[ot] /\ (pending[me] <=> o >= Half)
        /\ b > 0 => dsa[ot] = Addr(b - 1) /\ halfFull[ot]
     \/ /\ o >= Half /\ ~pending[me] /\ ~chdhie[me] /\ chdhie[ot]
        /\ dsa[ot] = Addr(b + 1) /\ halfFull[me]

\* The channel of the block is enabled, or is about to be.
Chained(b, o, me, ot) ==
  \/ ~blockDone /\ chainTo = 0 /\ chen[me] /\ ~chen[ot]
  \/ blockDone /\ chainTo = 0 /\ o = 0 /\ b > 0 /\ chen[ot] /\ ~chen[me]
  \/ ~blockDone /\ chainTo = me /\ o = 0 /\ b > 0 /\ ~chen[me] /\ ~chen[ot]

At(b, o) == taken = b * CSADCDMA + o
HwInv ==
  /\ timerOn => \E b \in Nat, o \in 0 .. CSADCDMA - 1 :
                  /\ At(b, o) /\ Programmed(b, o, Chan(b), Chan(b + 1))
                  /\ Chained(b, o, Chan(b), Chan(b + 1))
  /\ ~timerOn => ~chen[1] /\ ~chen[2] /\ ~pending[1] /\ ~pending[2] /\ chainTo = 0

LEMMA ChanFacts ==
  \A b \in Nat : /\ Chan(b) \in {1, 2} /\ Chan(b + 1) \in {1, 2} /\ Chan(b) # Chan(b + 1)
                 /\ Chan(b + 2) = Chan(b)
                 /\ Other(Chan(b)) = Chan(b + 1) /\ Other(Chan(b + 1)) = Chan(b)
  BY DEF Chan, Other

\* The address after that of a block is found by adding the length of a block, and
\* going back to the start at the end of the ring, which channel 1 never does.
LEMMA AddrFacts ==
  ASSUME NEW b \in Nat, TypeOK, Blocks, dsa[Chan(b)] = Addr(b)
  PROVE  /\ Addr(b) \in Nat /\ Addr(b) + CSADCDMA <= CSRBUFF
         /\ \A o \in 0 .. CSADCDMA - 1 : (b * CSADCDMA + o) % CSRBUFF = Addr(b) + o
         /\ Chan(b) = 1 => Addr(b + 1) = dsa[1] + CSADCDMA
         /\ Chan(b) = 2 => Addr(b + 1) = RollOver(dsa[2] + CSADCDMA)
<1>n. /\ CSADCDMA \in Nat /\ CSADCDMA >= 1 /\ CSRBUFF \in Nat /\ CSRBUFF \in Nat \ {0}
      /\ 2 * CSADCDMA <= CSRBUFF
  BY Bounds
<1> DEFINE x == b * CSADCDMA
<1>1. x \in Nat /\ (b + 1) * CSADCDMA = x + CSADCDMA
  BY <1>n
<1>2. dsa[1] + 2 * CSADCDMA <= CSRBUFF /\ dsa[2] + CSADCDMA <= CSRBUFF
  BY DEF Blocks
<1>3. dsa[1] \in Nat /\ dsa[2] \in Nat /\ Chan(b) \in {1, 2}
  BY Bounds, ChanFacts DEF TypeOK
<1>4. Addr(b) = x % CSRBUFF /\ Addr(b + 1) = (x + CSADCDMA) % CSRBUFF
  BY <1>1 DEF Addr
<1> HIDE DEF x
<1>5. Addr(b) \in Nat /\ Addr(b) + CSADCDMA <= CSRBUFF
  BY <1>2, <1>3, <1>n
<1>6. ASSUME NEW o \in 0 .. CSADCDMA - 1 PROVE (x + o) % CSRBUFF = Addr(b) + o
  <2>1. o \in Nat /\ (x % CSRBUFF) + o <= CSRBUFF /\ (x % CSRBUFF) + o # CSRBUFF
    BY <1>4, <1>5, <1>n
  <2>2. (x + o) % CSRBUFF = IF (x % CSRBUFF) + o = CSRBUFF THEN 0 ELSE (x % CSRBUFF) + o
    BY <2>1, <1>1, <1>n, Advance
  <2> QED BY <2>1, <2>2, <1>4
<1>7. Addr(b + 1) = IF Addr(b) + CSADCDMA = CSRBUFF THEN 0 ELSE Addr(b) + CSADCDMA
  <2>1. (x % CSRBUFF) + CSADCDMA <= CSRBUFF
    BY <1>4, <1>5
  <2>2. (x + CSADCDMA) % CSRBUFF
          = IF (x % CSRBUFF) + CSADCDMA = CSRBUFF THEN 0 ELSE (x % CSRBUFF) + CSADCDMA
    BY <2>1, <1>1, <1>n, Advance
  <2> QED BY <2>2, <1>4, Zenon
<1>8. Chan(b) = 1 => Addr(b + 1) = dsa[1] + CSADCDMA
  BY <1>7, <1>2, <1>3, <1>n
<1>9. Chan(b) = 2 => Addr(b + 1) = RollOver(dsa[2] + CSADCDMA)
  BY <1>7, <1>2, <1>3, <1>n DEF RollOver
<1> QED BY <1>5, <1>6, <1>8, <1>9 DEF x

-----------------------------------------------------------------------------
(* What the hardware and the ISRs do to it.                                *)

\* While the timer is on, the number of the block and the place in it.
LEMMA Now ==
  ASSUME HwInv, timerOn
  PROVE  \E b \in Nat, o \in 0 .. CSADCDMA - 1 :
           /\ At(b, o) /\ Programmed(b, o, Chan(b), Chan(b + 1)) /\ Chained(b, o, Chan(b), Chan(b + 1))
BY DEF HwInv

LEMMA SampleHw ==
  ASSUME IInv, HwInv, NEW c \in Dma, Sample(c)
  PROVE  HwInv'
<1>n. /\ CSADCDMA \in Nat \ {0} /\ Half \in 1 .. CSADCDMA - 1 /\ Dma = {1, 2}
  BY Sizes DEF Dma
<1>t. /\ dptr \in [Dma -> 0 .. CSADCDMA - 1] /\ pending \in [Dma -> BOOLEAN]
  BY DEF IInv, TypeOK
<1>1. timerOn /\ timerOn' /\ chen[c] /\ ~blockDone
  BY DEF Sample
<1>2. PICK b \in Nat, o \in 0 .. CSADCDMA - 1 :
        /\ At(b, o) /\ Programmed(b, o, Chan(b), Chan(b + 1)) /\ Chained(b, o, Chan(b), Chan(b + 1))
  BY <1>1, Now
<1> DEFINE me == Chan(b)
           ot == Chan(b + 1)
<1>3. me \in {1, 2} /\ ot \in {1, 2} /\ me # ot /\ Chan(b + 2) = me
  BY ChanFacts
<1>4. Programmed(b, o, me, ot) /\ Chained(b, o, me, ot)
  BY <1>2
<1> HIDE DEF me, ot
<1>5. c = me /\ chainTo = 0 /\ chen[me] /\ ~chen[ot]
  BY <1>1, <1>3, <1>4, <1>n DEF Chained
<1>6. /\ dptr[me] = o /\ dptr[ot] = 0
      /\ pending[me] => o + 1 < CSADCDMA
      /\ dptr' = [dptr EXCEPT ![me] = IF o + 1 = CSADCDMA THEN 0 ELSE o + 1]
      /\ blockDone' <=> o + 1 = CSADCDMA
      /\ pending' = [pending EXCEPT ![me] = @ \/ (o + 1 = Half /\ chdhie[me])]
      /\ taken' = taken + 1
      /\ UNCHANGED <<chen, dsa, chdhie, chainTo, halfFull>>
  BY <1>4, <1>5 DEF Programmed, Sample
<1>7. /\ dptr'[ot] = 0 /\ dptr'[me] = (IF o + 1 = CSADCDMA THEN 0 ELSE o + 1)
      /\ pending'[ot] = pending[ot] /\ (pending'[me] <=> pending[me] \/ (o + 1 = Half /\ chdhie[me]))
  BY <1>3, <1>6, <1>t, <1>n
<1>8. CASE o + 1 < CSADCDMA
  <2>1. o + 1 \in 0 .. CSADCDMA - 1 /\ ~blockDone' /\ dptr'[me] = o + 1
    BY <1>6, <1>7, <1>8, <1>n
  <2>2. At(b, o + 1)'
    <3>1. b * CSADCDMA \in Nat
      BY <1>n
    <3> QED BY <1>2, <1>6, <3>1 DEF At
  <2>3. Programmed(b, o + 1, me, ot)'
    BY <1>4, <1>6, <1>7, <2>1, <1>n DEF Programmed
  <2>4. Chained(b, o + 1, me, ot)'
    BY <1>5, <1>6, <2>1 DEF Chained
  <2> QED BY <1>1, <2>1, <2>2, <2>3, <2>4 DEF HwInv, me, ot
<1>9. CASE o + 1 = CSADCDMA
  <2>1. blockDone' /\ dptr'[me] = 0 /\ ~pending[me]
    BY <1>6, <1>7, <1>9, <1>n
  <2>2. At(b + 1, 0)'
    <3>1. b * CSADCDMA \in Nat /\ (b + 1) * CSADCDMA = b * CSADCDMA + CSADCDMA
      BY <1>n
    <3> QED BY <1>2, <1>6, <1>9, <3>1 DEF At
  <2>3. Programmed(b + 1, 0, ot, me)'
    <3>1. /\ o >= Half /\ ~chdhie[me] /\ chdhie[ot] /\ dsa[ot] = Addr(b + 1) /\ halfFull[me]
          /\ dsa[me] = Addr(b) /\ ~pending[ot]
      BY <1>4, <1>9, <2>1, <1>n DEF Programmed
    <3>2. ~pending'[me] /\ ~pending'[ot]
      BY <1>7, <1>9, <2>1, <3>1, <1>n
    <3>3. (b + 1) - 1 = b /\ ~(0 >= Half)
      BY <1>n
    <3> QED BY <1>6, <1>7, <2>1, <3>1, <3>2, <3>3 DEF Programmed
  <2>4. Chained(b + 1, 0, ot, me)'
    BY <1>5, <1>6, <2>1 DEF Chained
  <2>5. b + 1 \in Nat /\ 0 \in 0 .. CSADCDMA - 1 /\ Chan(b + 1) = ot /\ Chan((b + 1) + 1) = me
    BY <1>3, <1>n DEF ot
  <2> QED BY <1>1, <2>2, <2>3, <2>4, <2>5, Zenon DEF HwInv
<1> QED BY <1>8, <1>9, <1>n

LEMMA ChainHw ==
  ASSUME IInv, HwInv, ChainOn \/ \E c \in Dma : BlockOff(c)
  PROVE  HwInv'
<1>n. chen \in [Dma -> BOOLEAN] /\ Dma = {1, 2} /\ Dma \subseteq Int
  BY Bounds DEF IInv, TypeOK
<1>1. CASE ~timerOn
  BY <1>1, <1>n DEF HwInv, ChainOn, BlockOff
<1>2. CASE timerOn
  <2>1. PICK b \in Nat, o \in 0 .. CSADCDMA - 1 :
          /\ At(b, o) /\ Programmed(b, o, Chan(b), Chan(b + 1)) /\ Chained(b, o, Chan(b), Chan(b + 1))
    BY <1>2, Now
  <2> DEFINE me == Chan(b)
             ot == Chan(b + 1)
  <2>2. /\ me \in {1, 2} /\ ot \in {1, 2} /\ me # ot /\ Other(ot) = me
    BY ChanFacts
  <2>3. Programmed(b, o, me, ot) /\ Chained(b, o, me, ot)
    BY <2>1
  <2> HIDE DEF me, ot
  <2>4. UNCHANGED <<timerOn, dsa, dptr, chdhie, pending, halfFull, taken>>
    BY DEF ChainOn, BlockOff
  <2>5. Programmed(b, o, me, ot)' /\ At(b, o)'
    BY <2>1, <2>3, <2>4 DEF Programmed, At
  <2>6. Chained(b, o, me, ot)'
    <3>1. CASE ChainOn
      <4>1. chainTo = me /\ o = 0 /\ b > 0 /\ ~blockDone /\ ~chen[ot]
        BY <2>2, <2>3, <3>1 DEF Chained, ChainOn
      <4> QED BY <4>1, <3>1, <2>2, <1>n DEF Chained, ChainOn
    <3>2. ASSUME NEW c \in Dma, BlockOff(c) PROVE Chained(b, o, me, ot)'
      <4>1. c = ot /\ o = 0 /\ b > 0 /\ ~chen[me]
        BY <2>2, <2>3, <3>2, <1>n DEF Chained, BlockOff
      <4> QED BY <4>1, <3>2, <2>2, <1>n DEF Chained, BlockOff
    <3> QED BY <3>1, <3>2
  <2> QED BY <1>2, <2>4, <2>5, <2>6 DEF HwInv, me, ot
<1> QED BY <1>1, <1>2

LEMMA ToggleHw ==
  ASSUME IInv, HwInv, Toggle1to2 \/ Toggle2to1
  PROVE  HwInv'
<1>n. /\ CSADCDMA \in Nat \ {0} /\ Half \in 1 .. CSADCDMA - 1 /\ Dma = {1, 2}
      /\ dsa \in [Dma -> 0 .. CSRBUFF - 1] /\ pending \in [Dma -> BOOLEAN]
  BY Sizes DEF Dma, IInv, TypeOK
<1>1. PICK c \in {1, 2} : ServeHalf(c) /\ (c = 1 => Toggle1to2) /\ (c = 2 => Toggle2to1)
  <2>1. CASE Toggle1to2
    <3>1. ServeHalf(1)
      BY <2>1, Zenon DEF Toggle1to2
    <3>2. 1 \in {1, 2} /\ 1 # 2
      OBVIOUS
    <3> QED BY <2>1, <3>1, <3>2, Zenon
  <2>2. CASE Toggle2to1
    <3>1. ServeHalf(2)
      BY <2>2, Zenon DEF Toggle2to1
    <3>2. 2 \in {1, 2} /\ 2 # 1
      OBVIOUS
    <3> QED BY <2>2, <3>1, <3>2, Zenon
  <2> QED BY <2>1, <2>2
<1>2. timerOn /\ timerOn'
  BY <1>1 DEF HwInv, ServeHalf
<1>3. PICK b \in Nat, o \in 0 .. CSADCDMA - 1 :
        /\ At(b, o) /\ Programmed(b, o, Chan(b), Chan(b + 1)) /\ Chained(b, o, Chan(b), Chan(b + 1))
  BY <1>2, Now
<1> DEFINE me == Chan(b)
           ot == Chan(b + 1)
<1>4. /\ me \in {1, 2} /\ ot \in {1, 2} /\ me # ot
  BY ChanFacts
<1>5. Programmed(b, o, me, ot) /\ Chained(b, o, me, ot)
  BY <1>3
<1>6. dsa[me] = Addr(b)
  BY <1>5 DEF Programmed
<1>7. /\ me = 1 => Addr(b + 1) = dsa[1] + CSADCDMA
      /\ me = 2 => Addr(b + 1) = RollOver(dsa[2] + CSADCDMA)
  BY <1>6, AddrFacts DEF IInv
<1> HIDE DEF me, ot
<1>8. c = me /\ o >= Half
  BY <1>1, <1>4, <1>5 DEF Programmed, ServeHalf
<1>9. dsa' = [dsa EXCEPT ![ot] = Addr(b + 1)]
  <2>1. CASE me = 1
    BY <2>1, <1>1, <1>4, <1>7, <1>8 DEF Toggle1to2
  <2>2. CASE me = 2
    BY <2>2, <1>1, <1>4, <1>7, <1>8 DEF Toggle2to1
  <2> QED BY <2>1, <2>2, <1>4
<1>10. dsa'[ot] = Addr(b + 1) /\ dsa'[me] = dsa[me]
  BY <1>4, <1>9, <1>n
<1>11. /\ ~pending'[me] /\ pending'[ot] = pending[ot] /\ ~chdhie'[me] /\ chdhie'[ot] /\ halfFull'[me]
       /\ UNCHANGED <<chen, dptr, blockDone, chainTo, taken>>
  BY <1>1, <1>4, <1>8, <1>n DEF ServeHalf
<1>12. Programmed(b, o, me, ot)'
  BY <1>5, <1>6, <1>8, <1>10, <1>11 DEF Programmed
<1>13. Chained(b, o, me, ot)' /\ At(b, o)'
  BY <1>3, <1>5, <1>11 DEF Chained, At
<1> QED BY <1>2, <1>12, <1>13 DEF HwInv, me, ot

\* The registers as ADCRun leaves them.
LEMMA RunHw ==
  ASSUME LogRun, ~timerOn
  PROVE  HwInv'
<1>n. /\ CSADCDMA \in Nat \ {0} /\ Half \in 1 .. CSADCDMA - 1 /\ Dma = {1, 2} /\ CSRBUFF \in Nat \ {0}
  BY Sizes DEF Dma
<1>1. Chan(0) = 1 /\ Chan(0 + 1) = 2 /\ Addr(0) = 0
  <2>1. 0 * CSADCDMA = 0 /\ 0 % CSRBUFF = 0
    BY <1>n
  <2>2. 0 % 2 = 0 /\ (0 + 1) % 2 # 0
    OBVIOUS
  <2> QED BY <2>1, <2>2 DEF Chan, Addr
<1>2. /\ timerOn' /\ chen'[1] /\ ~chen'[2] /\ dsa'[1] = 0 /\ dptr'[1] = 0 /\ dptr'[2] = 0
      /\ chdhie'[1] /\ ~chdhie'[2] /\ ~pending'[1] /\ ~pending'[2] /\ ~blockDone' /\ chainTo' = 0
      /\ taken' = 0
  <2>1. /\ timerOn' = TRUE
        /\ chen' = [c \in Dma |-> c = 1]
        /\ dsa' = [c \in Dma |-> (c - 1) * CSADCDMA]
        /\ dptr' = [c \in Dma |-> 0]
        /\ chdhie' = [c \in Dma |-> c = 1]
        /\ pending' = [c \in Dma |-> FALSE]
        /\ blockDone' = FALSE /\ chainTo' = 0 /\ taken' = 0
    BY DEF LogRun
  <2>2. (1 - 1) * CSADCDMA = 0 /\ 1 \in Dma /\ 2 \in Dma
    BY <1>n
  <2>3. dsa'[1] = (1 - 1) * CSADCDMA
    BY <2>1, <2>2, Zenon
  <2>4. /\ chen'[1] /\ ~chen'[2] /\ chdhie'[1] /\ ~chdhie'[2]
        /\ dptr'[1] = 0 /\ dptr'[2] = 0 /\ ~pending'[1] /\ ~pending'[2]
    <3>1. chen'[1] = (1 = 1) /\ chen'[2] = (2 = 1) /\ chdhie'[1] = (1 = 1) /\ chdhie'[2] = (2 = 1)
      BY <2>1, <2>2, Zenon
    <3>2. dptr'[1] = 0 /\ dptr'[2] = 0 /\ pending'[1] = FALSE /\ pending'[2] = FALSE
      BY <2>1, <2>2, Zenon
    <3>3. 1 = 1 /\ 2 # 1
      OBVIOUS
    <3> QED BY <3>1, <3>2, <3>3, Zenon
  <2> QED BY <2>1, <2>2, <2>3, <2>4
<1>3. Programmed(0, 0, 1, 2)'
  BY <1>1, <1>2, <1>n DEF Programmed
<1>4. Chained(0, 0, 1, 2)'
  BY <1>2 DEF Chained
<1>5. At(0, 0)' /\ 0 \in Nat /\ 0 \in 0 .. CSADCDMA - 1
  BY <1>2, <1>n DEF At
<1> QED BY <1>1, <1>2, <1>3, <1>4, <1>5, Zenon DEF HwInv

-----------------------------------------------------------------------------
(* A look at the registers.                                                *)

\* ADCTask found the channel of block b enabled: b was begun, and was not over
\* when the look began.
Near(b) == reg = Chan(b) /\ b * CSADCDMA <= taken /\ tPoll <= (b + 1) * CSADCDMA

\* The block is over: its registers look as if it had not begun.
Over(b) == phyOffset = 0 /\ (b + 1) * CSADCDMA <= taken

\* P samples had been taken at some moment of the look.
During(P) == tPoll <= P /\ P <= taken

PollInv ==
  /\ pc \in PollSteps => /\ state = "Running" /\ tPoll <= taken
                         /\ taken - tPoll <= PollLag /\ Seen <= tPoll
  /\ pc \in PollSteps \ {"test"} => phyAddr = NoAddr
  /\ pc = "offset" => \E b \in Nat : Near(b)
  /\ pc = "address" => \E b \in Nat :
       /\ Near(b)
       /\ \/ \E P \in Nat : During(P) /\ P < (b + 1) * CSADCDMA /\ P = b * CSADCDMA + phyOffset
          \/ Over(b)
  /\ pc = "test" => \/ \E P \in Nat : During(P) /\ phyAddr = P % CSRBUFF
                    \/ \E b \in Nat : Near(b) /\ Over(b)
  /\ pc = "update" /\ phyAddr # NoAddr =>
       /\ state = "Running"
       /\ \E P \in Nat : Seen <= P /\ P <= taken /\ phyAddr = P % CSRBUFF

\* How far padcRawEnd is behind the hardware.
SeenInv ==
  /\ rawStart = done % CSRBUFF /\ rawStart <= rawEnd
  /\ Seen <= taken
  /\ state = "Running" \/ rawEnd # rawStart => taken - Seen <= MaxStall
  /\ timerOn /\ state # "Running" => rawEnd = rawStart
  /\ state = "Running" => timerOn
  /\ trap = "none" => rawEnd - rawStart < BacklogLimit

LEMMA Monotone ==
  \A p, q \in Nat : p <= q => p * CSADCDMA <= q * CSADCDMA
<1>1. CSADCDMA \in Nat
  BY Bounds
<1> QED BY <1>1

\* What the registers hold of a block that is near.
LEMMA Place ==
  ASSUME TypeOK, HwInv, timerOn, tPoll <= taken, taken - tPoll <= PollLag, NEW b \in Nat, Near(b)
  PROVE  /\ dsa[reg] = Addr(b)
         /\ taken < (b + 1) * CSADCDMA => taken = b * CSADCDMA + dptr[reg]
         /\ taken >= (b + 1) * CSADCDMA => dptr[reg] = 0 /\ halfFull[reg]
<1>n. /\ CSADCDMA \in Nat /\ CSADCDMA >= 1 /\ Half \in Nat /\ Half < CSADCDMA
      /\ PollLag \in Nat /\ PollLag < Half /\ taken \in Nat /\ tPoll \in Nat
  BY Sizes, AdcRingAssumption DEF TypeOK
<1>1. PICK k \in Nat, o \in 0 .. CSADCDMA - 1 :
        /\ At(k, o) /\ Programmed(k, o, Chan(k), Chan(k + 1)) /\ Chained(k, o, Chan(k), Chan(k + 1))
  BY Now
<1>2. reg = Chan(b) /\ b * CSADCDMA <= taken /\ tPoll <= (b + 1) * CSADCDMA
  BY DEF Near
<1>3. /\ \A p \in Nat : p * CSADCDMA \in Nat /\ (p + 1) * CSADCDMA = p * CSADCDMA + CSADCDMA
      /\ taken = k * CSADCDMA + o
  BY <1>1, <1>n DEF At
<1>4. taken < (k + 1) * CSADCDMA /\ k * CSADCDMA <= taken
  BY <1>3, <1>n
<1>5. b <= k
  <2>1. k + 1 <= b => (k + 1) * CSADCDMA <= b * CSADCDMA
    BY Monotone
  <2>2. (k + 1) * CSADCDMA \in Nat /\ b * CSADCDMA \in Nat
    BY <1>3
  <2> QED BY <2>1, <2>2, <1>2, <1>4, <1>n
<1>6. CASE taken < (b + 1) * CSADCDMA
  <2>1. k = b
    <3>1. b + 1 <= k => (b + 1) * CSADCDMA <= k * CSADCDMA
      BY Monotone
    <3>2. (b + 1) * CSADCDMA \in Nat /\ k * CSADCDMA \in Nat
      BY <1>3
    <3> QED BY <3>1, <3>2, <1>4, <1>5, <1>6, <1>n
  <2>2. dsa[reg] = Addr(b) /\ dptr[reg] = o
    BY <1>1, <1>2, <2>1 DEF Programmed
  <2>3. ~(taken >= (b + 1) * CSADCDMA)
    BY <1>6, <1>3, <1>n
  <2> QED BY <2>1, <2>2, <2>3, <1>3
<1>7. CASE taken >= (b + 1) * CSADCDMA
  <2>1. k # b
    BY <1>7, <1>4, <1>3, <1>n
  <2>2. taken < (b + 1) * CSADCDMA + Half
    BY <1>2, <1>3, <1>n
  <2>3. k = b + 1
    <3>1. b + 2 <= k => (b + 2) * CSADCDMA <= k * CSADCDMA
      BY Monotone
    <3>2. (b + 2) * CSADCDMA = (b + 1) * CSADCDMA + CSADCDMA /\ (b + 1) * CSADCDMA \in Nat
          /\ k * CSADCDMA \in Nat
      BY <1>n
    <3> QED BY <3>1, <3>2, <2>1, <2>2, <1>4, <1>5, <1>n
  <2>4. o < Half /\ k > 0 /\ k - 1 = b
    BY <2>2, <2>3, <1>3, <1>n
  <2>5. Chan(k + 1) = reg
    <3>1. Chan(b + 2) = Chan(b) /\ k + 1 = b + 2
      BY <2>3, ChanFacts
    <3> QED BY <3>1, <1>2
  <2>6. dsa[reg] = Addr(b) /\ dptr[reg] = 0 /\ halfFull[reg]
    BY <1>1, <2>4, <2>5, <1>n DEF Programmed
  <2>7. ~(taken < (b + 1) * CSADCDMA)
    BY <1>7, <1>3, <1>n
  <2> QED BY <2>6, <2>7
<1> QED BY <1>6, <1>7, <1>3, <1>n

\* A channel that is found enabled is that of the last block or of this one.
LEMMA Found ==
  ASSUME TypeOK, HwInv, timerOn, tPoll <= taken, NEW c \in Dma, chen[c]
  PROVE  \E b \in Nat : c = Chan(b) /\ b * CSADCDMA <= taken /\ tPoll <= (b + 1) * CSADCDMA
<1>n. /\ CSADCDMA \in Nat /\ CSADCDMA >= 1 /\ taken \in Nat /\ tPoll \in Nat /\ Dma = {1, 2}
  BY Bounds DEF TypeOK
<1>1. PICK k \in Nat, o \in 0 .. CSADCDMA - 1 :
        /\ At(k, o) /\ Programmed(k, o, Chan(k), Chan(k + 1)) /\ Chained(k, o, Chan(k), Chan(k + 1))
  BY Now
<1>2. /\ \A p \in Nat : p * CSADCDMA \in Nat /\ (p + 1) * CSADCDMA = p * CSADCDMA + CSADCDMA
      /\ taken = k * CSADCDMA + o
  BY <1>1, <1>n DEF At
<1>3. Chan(k) \in {1, 2} /\ Chan(k + 1) \in {1, 2} /\ Chan(k) # Chan(k + 1)
  BY ChanFacts
<1>4. \/ c = Chan(k)
      \/ c = Chan(k + 1) /\ o = 0 /\ k > 0
  BY <1>1, <1>3, <1>n DEF Chained
<1>5. CASE c = Chan(k)
  <2>1. k * CSADCDMA <= taken /\ tPoll <= (k + 1) * CSADCDMA
    BY <1>2, <1>n
  <2> QED BY <1>5, <2>1
<1>6. CASE c = Chan(k + 1) /\ o = 0 /\ k > 0
  <2>1. PICK b \in Nat : k = b + 1
    <3>1. k - 1 \in Nat /\ k = (k - 1) + 1
      BY <1>6
    <3> QED BY <3>1
  <2>2. Chan(b + 2) = Chan(b) /\ k + 1 = b + 2
    BY <2>1, ChanFacts
  <2>3. b * CSADCDMA <= taken /\ tPoll <= (b + 1) * CSADCDMA
    BY <1>2, <1>6, <2>1, <1>n
  <2> QED BY <1>6, <2>2, <2>3
<1> QED BY <1>4, <1>5, <1>6

\* padcRawEnd is moved to where the hardware was at some moment of the look.
LEMMA Unwrapped ==
  ASSUME TypeOK, SeenInv, trap = "none", NEW P \in Nat, Seen <= P, P - Seen <= MaxStall,
         phyAddr = P % CSRBUFF
  PROVE  NewEnd = rawEnd + (P - Seen)
<1>n. /\ CSRBUFF \in Nat \ {0} /\ MaxStall \in Nat /\ BacklogLimit \in Nat /\ BacklogLimit >= 1
      /\ BacklogLimit + MaxStall <= CSRBUFF
      /\ done \in Nat /\ rawStart \in 0 .. CSRBUFF - 1 /\ rawEnd \in Nat
  BY Bounds, AdcRingAssumption DEF TypeOK
<1> DEFINE r == P % CSRBUFF
           e == rawEnd + (P - Seen)
           q == done \div CSRBUFF
           p == P \div CSRBUFF
<1>1. /\ r \in 0 .. CSRBUFF - 1 /\ P = CSRBUFF * p + r /\ p \in Nat
  BY <1>n, DivMod
<1>2. /\ done = CSRBUFF * q + rawStart /\ q \in Nat
  BY <1>n, DivMod DEF SeenInv
<1>3. rawEnd - rawStart < BacklogLimit /\ rawStart <= rawEnd
  BY DEF SeenInv
<1>4. Seen = done + (rawEnd - rawStart)
  BY DEF Seen
<1>5. NewEnd = Unwrap(r)
  <2>1. phyAddr = r /\ phyAddr # NoAddr
    BY <1>1, <1>n DEF NoAddr
  <2> QED BY <2>1 DEF NewEnd
<1> HIDE DEF r, q, p
<1>6. e - r = CSRBUFF * (p - q)
  <2>1. P = done + (e - rawStart)
    BY <1>4, <1>n
  <2>2. CSRBUFF * (p - q) = CSRBUFF * p - CSRBUFF * q /\ CSRBUFF * p \in Nat /\ CSRBUFF * q \in Nat
    BY <1>1, <1>2, <1>n
  <2> QED BY <2>1, <2>2, <1>1, <1>2, <1>n, <1>4
<1>7. /\ e \in Nat /\ rawEnd <= e /\ e - CSRBUFF < rawEnd /\ e < 2 * CSRBUFF
  BY <1>3, <1>4, <1>n
<1> HIDE DEF e
<1>8. p - q = 0 \/ p - q = 1
  <2>1. p - q \in Int
    BY <1>1, <1>2
  <2>2. p - q <= -1 => CSRBUFF * (p - q) <= -CSRBUFF
    BY <2>1, <1>n
  <2>3. p - q >= 2 => CSRBUFF * (p - q) >= 2 * CSRBUFF
    BY <2>1, <1>n
  <2>4. e - r > -CSRBUFF /\ e - r < 2 * CSRBUFF
    BY <1>1, <1>7, <1>n
  <2> DEFINE m == p - q
             z == CSRBUFF * m
  <2>5. m \in Int /\ z \in Int /\ z > -CSRBUFF /\ z < 2 * CSRBUFF
        /\ (m <= -1 => z <= -CSRBUFF) /\ (m >= 2 => z >= 2 * CSRBUFF)
    BY <2>1, <2>2, <2>3, <2>4, <1>6, <1>1, <1>7, <1>n
  <2> HIDE DEF m, z
  <2>6. m = 0 \/ m = 1
    BY <2>5, <1>n
  <2> QED BY <2>6 DEF m
<1>9. e = r \/ e = r + CSRBUFF
  BY <1>1, <1>6, <1>7, <1>8, <1>n
<1>10. Unwrap(r) = e
  BY <1>1, <1>7, <1>9, <1>n DEF Unwrap
<1> QED BY <1>5, <1>10 DEF e

-----------------------------------------------------------------------------
(* The invariant.                                                          *)

StreamInv == IInv /\ HwInv /\ PollInv /\ SeenInv

\* Where padcRawEnd goes at the end of a look: never past the hardware, and while
\* the log runs no further behind it than a stall.
LEMMA EndSeen ==
  ASSUME TypeOK, PollInv, SeenInv, trap = "none", pc = "update"
  PROVE  /\ NewEnd \in Nat /\ rawEnd <= NewEnd /\ done + (NewEnd - rawStart) <= taken
         /\ state = "Running" => taken - (done + (NewEnd - rawStart)) <= MaxStall
         /\ state # "Running" => NewEnd = rawEnd
<1>n. /\ rawEnd \in Nat /\ rawStart \in Nat /\ done \in Nat /\ taken \in Nat /\ MaxStall \in Nat
      /\ Seen = done + (rawEnd - rawStart) /\ Seen <= taken
      /\ state = "Running" => taken - Seen <= MaxStall
  <2>1. 0 .. CSRBUFF - 1 \subseteq Nat
    BY Bounds
  <2> QED BY <2>1, AdcRingAssumption DEF TypeOK, Seen, SeenInv
<1>1. CASE phyAddr = NoAddr
  <2>1. NewEnd = rawEnd
    BY <1>1 DEF NewEnd
  <2> QED BY <2>1, <1>n
<1>2. CASE phyAddr # NoAddr
  <2>1. /\ state = "Running"
        /\ \E P \in Nat : Seen <= P /\ P <= taken /\ phyAddr = P % CSRBUFF
    BY <1>2 DEF PollInv
  <2>2. PICK P \in Nat : Seen <= P /\ P <= taken /\ phyAddr = P % CSRBUFF
    BY <2>1
  <2>3. P - Seen <= MaxStall
    BY <2>1, <2>2, <1>n
  <2>4. NewEnd = rawEnd + (P - Seen)
    BY <2>2, <2>3, Unwrapped
  <2> QED BY <2>1, <2>2, <2>4, <1>n
<1> QED BY <1>1, <1>2

\* A pass delivers what is there, before the ring has been lapped.
LEMMA PassSeen ==
  ASSUME IInv, PollInv, SeenInv, trap = "none", ConvertPass
  PROVE  /\ SeenInv' /\ PollInv'
         /\ taken - done <= CSRBUFF /\ done <= done' /\ done' <= taken /\ done' \in Nat
<1> DEFINE used == Groups * NCh
<1>1. /\ used \in Nat /\ used <= Backlog /\ rawStart + used <= CSRBUFF
  BY PassFacts DEF IInv, ConvertPass
<1>2. /\ NewEnd \in Nat /\ rawEnd <= NewEnd /\ done + (NewEnd - rawStart) <= taken
      /\ state = "Running" => taken - (done + (NewEnd - rawStart)) <= MaxStall
      /\ state # "Running" => NewEnd = rawEnd
  BY EndSeen DEF IInv, ConvertPass
<1>3. Backlog = NewEnd - rawStart /\ NCh <= Backlog /\ Backlog < BacklogLimit
  <2>1. Backlog = NewEnd - rawStart
    BY DEF Backlog
  <2>2. NCh <= Backlog /\ ~(Backlog >= BacklogLimit)
    BY DEF ConvertPass, Behind
  <2>3. Backlog \in Int /\ BacklogLimit \in Nat
    <3>1. 0 .. CSRBUFF - 1 \subseteq Nat
      BY Bounds
    <3> QED BY <2>1, <1>2, <3>1, AdcRingAssumption DEF IInv, TypeOK
  <2> HIDE DEF Backlog
  <2> QED BY <2>1, <2>2, <2>3
<1>4. /\ rawStart' = IF rawStart + used = CSRBUFF THEN 0 ELSE rawStart + used
      /\ rawEnd' = (IF LastPass THEN rawStart + used ELSE NewEnd)
                     - (IF rawStart + used >= CSRBUFF THEN CSRBUFF ELSE 0)
      /\ done' = done + used
      /\ state' = IF LastPass THEN "Finishing" ELSE state
      /\ pc' = "loop" /\ UNCHANGED <<taken, timerOn>>
  BY PassStep DEF ConvertPass, hardware
<1>5. /\ rawStart \in 0 .. CSRBUFF - 1 /\ CSRBUFF \in Nat \ {0} /\ done \in Nat /\ taken \in Nat
      /\ rawEnd \in Nat /\ NCh \in Nat /\ NCh >= 1 /\ MaxStall \in Nat /\ BacklogLimit \in Nat
      /\ BacklogLimit + MaxStall <= CSRBUFF
  BY Bounds, AdcRingAssumption DEF IInv, TypeOK
<1>6. /\ rawStart = done % CSRBUFF /\ rawStart <= rawEnd
      /\ Seen <= taken /\ Seen = done + (rawEnd - rawStart)
      /\ state = "Running" \/ rawEnd # rawStart => taken - Seen <= MaxStall
      /\ timerOn /\ state # "Running" => rawEnd = rawStart
      /\ state = "Running" => timerOn
  BY DEF SeenInv, Seen
<1> HIDE DEF used, Backlog, Groups, LastPass, NewEnd
<1>7. rawStart' = done' % CSRBUFF
  <2>1. (done % CSRBUFF) + used <= CSRBUFF
    BY <1>1, <1>6
  <2>2. (done + used) % CSRBUFF
          = IF (done % CSRBUFF) + used = CSRBUFF THEN 0 ELSE (done % CSRBUFF) + used
    BY <2>1, <1>1, <1>5, Advance, ZenonT(30)
  <2> QED BY <2>2, <1>4, <1>6, Zenon
<1>8. state = "Running" \/ rawEnd # rawStart
  BY <1>2, <1>3, <1>5
<1>9. taken - Seen <= MaxStall
  BY <1>6, <1>8
<1>10. rawEnd' - rawStart' = IF LastPass THEN 0 ELSE NewEnd - rawStart - used
  BY <1>1, <1>2, <1>4, <1>5
<1>11. rawStart' \in Nat /\ rawEnd' \in Int
  BY <1>1, <1>2, <1>4, <1>5
<1>12. Seen' = done + used + (IF LastPass THEN 0 ELSE NewEnd - rawStart - used)
  BY <1>4, <1>10, <1>11 DEF Seen
<1>13. rawStart' <= rawEnd' /\ rawEnd' - rawStart' < BacklogLimit
  <2>1. CASE LastPass
    <3>1. rawEnd' = rawStart'
      BY <2>1, <1>4, <1>10, <1>11
    <3>2. 0 < BacklogLimit
      BY Bounds, AdcRingAssumption
    <3>3. rawEnd' - rawStart' = 0
      BY <2>1, <1>10
    <3> QED BY <3>1, <3>2, <3>3, <1>11
  <2>2. CASE ~LastPass
    <3>1. rawEnd' - rawStart' = NewEnd - rawStart - used
      BY <2>2, <1>10
    <3>2. NewEnd - rawStart - used >= 0 /\ NewEnd - rawStart - used < BacklogLimit
      BY <1>1, <1>2, <1>3, <1>5
    <3> QED BY <3>1, <3>2, <1>11
  <2> QED BY <2>1, <2>2
<1>14. Seen' <= taken
  BY <1>1, <1>2, <1>3, <1>5, <1>12
<1>15. state' = "Running" \/ rawEnd' # rawStart' => taken - Seen' <= MaxStall
  <2>1. CASE LastPass
    <3>1. state' # "Running" /\ rawEnd' = rawStart'
      BY <2>1, <1>4, <1>10, <1>11
    <3> QED BY <3>1
  <2>2. CASE ~LastPass
    <3>1. Seen' = done + (NewEnd - rawStart)
      BY <2>2, <1>1, <1>2, <1>5, <1>12
    <3> QED BY <3>1, <1>2, <1>6, <1>9, <1>5
  <2> QED BY <2>1, <2>2
<1>16. timerOn' /\ state' # "Running" => rawEnd' = rawStart'
  <2>1. CASE LastPass
    BY <2>1, <1>4, <1>10, <1>11
  <2>2. CASE ~LastPass
    <3>1. ~(timerOn /\ state # "Running")
      BY <1>2, <1>3, <1>5, <1>6
    <3> QED BY <3>1, <2>2, <1>4
  <2> QED BY <2>1, <2>2
<1>17. state' = "Running" => timerOn'
  BY <1>4, <1>6
<1>18. SeenInv'
  BY <1>4, <1>7, <1>13, <1>14, <1>15, <1>16, <1>17 DEF SeenInv
<1>19. PollInv'
  BY <1>4 DEF PollInv, PollSteps
<1>20. taken - done <= CSRBUFF
  <2>1. rawEnd - rawStart < BacklogLimit
    BY DEF SeenInv
  <2> QED BY <2>1, <1>9, <1>6, <1>5
<1>21. done <= done' /\ done' <= taken /\ done' \in Nat
  BY <1>1, <1>2, <1>3, <1>4, <1>5
<1> QED BY <1>18, <1>19, <1>20, <1>21

\* What is left of a pass that converts nothing.
LEMMA NoPassSeen ==
  ASSUME TypeOK, PollInv, SeenInv, trap = "none", TooFarBehind \/ NoGroup
  PROVE  SeenInv' /\ PollInv'
<1>1. /\ pc = "update" /\ pc' = "loop"
      /\ UNCHANGED <<rawStart, done, taken, timerOn, state>>
  BY DEF TooFarBehind, NoGroup, hardware
<1>2. /\ NewEnd \in Nat /\ rawEnd <= NewEnd /\ done + (NewEnd - rawStart) <= taken
      /\ state = "Running" => taken - (done + (NewEnd - rawStart)) <= MaxStall
      /\ state # "Running" => NewEnd = rawEnd
  BY <1>1, EndSeen
<1>3. /\ rawStart = done % CSRBUFF /\ rawStart <= rawEnd
      /\ Seen <= taken /\ Seen = done + (rawEnd - rawStart)
      /\ state = "Running" \/ rawEnd # rawStart => taken - Seen <= MaxStall
      /\ timerOn /\ state # "Running" => rawEnd = rawStart
      /\ state = "Running" => timerOn
  BY DEF SeenInv, Seen
<1>n. /\ rawEnd \in Nat /\ rawStart \in Nat /\ done \in Nat /\ taken \in Nat /\ MaxStall \in Nat
      /\ NCh \in Nat /\ NCh < BacklogLimit /\ BacklogLimit \in Nat
  <2>1. 0 .. CSRBUFF - 1 \subseteq Nat
    BY Bounds
  <2> QED BY <2>1, Bounds, AdcRingAssumption DEF TypeOK
<1>4. \/ rawEnd' = NewEnd /\ (trap' = "none" => NewEnd - rawStart < BacklogLimit)
      \/ rawEnd' = rawStart /\ state # "Running"
  <2>1. CASE TooFarBehind
    BY <2>1 DEF TooFarBehind
  <2>2. CASE NoGroup
    <3>1. NewEnd - rawStart < NCh /\ rawEnd' = IF state # "Running" THEN rawStart ELSE NewEnd
      BY <2>2 DEF NoGroup, Backlog, Leftover
    <3> QED BY <3>1, <1>2, <1>n
  <2> QED BY <2>1, <2>2
<1>5. Seen' = done + (rawEnd' - rawStart)
  BY <1>1 DEF Seen
<1> HIDE DEF NewEnd
<1>6. SeenInv'
  <2>1. CASE rawEnd' = NewEnd /\ (trap' = "none" => NewEnd - rawStart < BacklogLimit)
    <3>1. Seen' = done + (NewEnd - rawStart)
      BY <2>1, <1>5
    <3>2. rawStart' <= rawEnd' /\ Seen' <= taken'
      BY <2>1, <3>1, <1>1, <1>2, <1>3, <1>n
    <3>3. state' = "Running" \/ rawEnd' # rawStart' => taken' - Seen' <= MaxStall
      BY <2>1, <3>1, <1>1, <1>2, <1>3, <1>n
    <3>4. timerOn' /\ state' # "Running" => rawEnd' = rawStart'
      BY <2>1, <1>1, <1>2, <1>3
    <3> QED BY <2>1, <3>2, <3>3, <3>4, <1>1, <1>3 DEF SeenInv
  <2>2. CASE rawEnd' = rawStart /\ state # "Running"
    <3>1. Seen' = done /\ done <= taken
      BY <2>2, <1>5, <1>3, <1>n
    <3>2. rawEnd' - rawStart' < BacklogLimit /\ rawStart' <= rawEnd'
      BY <2>2, <1>1, <1>n, Bounds
    <3> QED BY <2>2, <3>1, <3>2, <1>1, <1>3 DEF SeenInv
  <2> QED BY <1>4, <2>1, <2>2
<1>7. PollInv'
  BY <1>1 DEF PollInv, PollSteps
<1> QED BY <1>6, <1>7

\* A sample that is taken leaves what a look has found so far.
LEMMA SampleSeen ==
  ASSUME TypeOK, PollInv, SeenInv, NEW c \in Dma, Sample(c)
  PROVE  SeenInv' /\ PollInv'
<1>n. /\ taken \in Nat /\ tPoll \in Nat /\ MaxStall \in Nat /\ PollLag \in Nat /\ Seen \in Int
      /\ rawEnd \in Nat
  <2>1. 0 .. CSRBUFF - 1 \subseteq Nat
    BY Bounds
  <2> QED BY <2>1, AdcRingAssumption DEF TypeOK, Seen
<1>1. /\ taken' = taken + 1 /\ timerOn /\ timerOn'
      /\ UNCHANGED <<state, rawStart, rawEnd, done, pc, reg, phyOffset, phyAddr, trap, tPoll>>
      /\ state = "Running" => taken - Seen < MaxStall
      /\ pc \in PollSteps => taken - tPoll < PollLag
  BY DEF Sample, log, task
<1>2. Seen' = Seen
  BY <1>1 DEF Seen
<1> HIDE DEF Seen
<1>3. SeenInv'
  <2>1. rawEnd # rawStart => state = "Running"
    BY <1>1 DEF SeenInv
  <2>2. state' = "Running" \/ rawEnd' # rawStart' => taken' - Seen' <= MaxStall
    BY <1>1, <1>2, <1>n, <2>1
  <2>3. Seen' <= taken'
    BY <1>1, <1>2, <1>n DEF SeenInv
  <2> QED BY <1>1, <2>2, <2>3 DEF SeenInv
<1>4. \A b \in Nat : Near(b) => Near(b)'
  <2>1. \A b \in Nat : b * CSADCDMA \in Nat
    BY Bounds
  <2> QED BY <2>1, <1>1, <1>n DEF Near
<1>5. \A b \in Nat : Over(b) => Over(b)'
  <2>1. \A b \in Nat : (b + 1) * CSADCDMA \in Nat
    BY Bounds
  <2> QED BY <2>1, <1>1, <1>n DEF Over
<1>6. \A P \in Nat : During(P) => During(P)'
  BY <1>1, <1>n DEF During
<1>7. pc \in PollSteps => /\ state' = "Running" /\ tPoll' <= taken'
                          /\ taken' - tPoll' <= PollLag /\ Seen' <= tPoll'
  BY <1>1, <1>2, <1>n DEF PollInv
<1>8. pc = "offset" => \E b \in Nat : Near(b)'
  BY <1>4 DEF PollInv
<1>9. pc = "address" => \E b \in Nat :
        /\ Near(b)'
        /\ \/ \E P \in Nat : During(P)' /\ P < (b + 1) * CSADCDMA /\ P = b * CSADCDMA + phyOffset'
           \/ Over(b)'
  BY <1>1, <1>4, <1>5, <1>6 DEF PollInv
<1>10. pc = "test" => \/ \E P \in Nat : During(P)' /\ phyAddr' = P % CSRBUFF
                      \/ \E b \in Nat : Near(b)' /\ Over(b)'
  BY <1>1, <1>4, <1>5, <1>6 DEF PollInv
<1>11. pc = "update" /\ phyAddr # NoAddr =>
         /\ state' = "Running"
         /\ \E P \in Nat : Seen' <= P /\ P <= taken' /\ phyAddr' = P % CSRBUFF
  BY <1>1, <1>2, <1>n DEF PollInv
<1>12. pc \in PollSteps \ {"test"} => phyAddr' = NoAddr
  BY <1>1 DEF PollInv
<1>13. PollInv'
  BY <1>1, <1>7, <1>8, <1>9, <1>10, <1>11, <1>12 DEF PollInv
<1> QED BY <1>3, <1>13

\* The steps that touch neither the log nor the look.
LEMMA HardwareSeen ==
  ASSUME PollInv, SeenInv, trap = "none", UNCHANGED <<timerOn, log, task, taken, done, tPoll>>
  PROVE  SeenInv' /\ PollInv'
<1>1. Seen' = Seen
  BY DEF Seen, log
<1>2. SeenInv'
  BY <1>1 DEF SeenInv, log
<1>3. PollInv'
  BY <1>1 DEF PollInv, Near, Over, During, log, task
<1> QED BY <1>2, <1>3

\* A look begins.
LEMMA LookPoll ==
  ASSUME TypeOK, SeenInv, state = "Running", Look
  PROVE  PollInv'
<1>1. /\ pc' = "poll1" /\ phyAddr' = NoAddr /\ tPoll' = taken
      /\ UNCHANGED <<state, rawStart, rawEnd, done, taken>>
  BY DEF Look, Registers, log
<1>2. Seen' = Seen /\ Seen <= taken
  BY <1>1 DEF Seen, SeenInv
<1>3. taken \in Nat /\ PollLag \in Nat
  BY AdcRingAssumption DEF TypeOK
<1>4. tPoll' <= taken' /\ taken' - tPoll' <= PollLag /\ Seen' <= tPoll'
  BY <1>1, <1>2, <1>3
<1> QED BY <1>1, <1>4 DEF PollInv, PollSteps

\* A look goes on, with the channel it found enabled.
LEMMA FindPoll ==
  ASSUME TypeOK, HwInv, PollInv, SeenInv, NEW c \in Dma, pc \in {"poll1", "poll2"},
         UNCHANGED <<hardware, log, trap, taken, done, phyOffset, phyAddr, tPoll>>, reg' = c,
         pc' \in {"offset", "poll2", "poll3"}, pc' = "offset" => chen[c]
  PROVE  PollInv'
<1>1. /\ state = "Running" /\ tPoll <= taken /\ taken - tPoll <= PollLag /\ Seen <= tPoll
      /\ phyAddr = NoAddr
  BY DEF PollInv, PollSteps
<1>2. Seen' = Seen /\ timerOn /\ state' = "Running" /\ phyAddr' = NoAddr
  BY <1>1 DEF Seen, log, SeenInv
<1>3. pc' = "offset" => \E b \in Nat : Near(b)'
  <2> SUFFICES ASSUME pc' = "offset" PROVE \E b \in Nat : Near(b)'
    OBVIOUS
  <2>1. PICK b \in Nat : c = Chan(b) /\ b * CSADCDMA <= taken /\ tPoll <= (b + 1) * CSADCDMA
    BY <1>1, <1>2, Found
  <2>2. Near(b)'
    BY <2>1 DEF Near
  <2> QED BY <2>2
<1> QED BY <1>1, <1>2, <1>3 DEF PollInv, PollSteps

\* The offset is read: that of the moment, or none when the block is over.
LEMMA OffsetPoll ==
  ASSUME TypeOK, HwInv, PollInv, SeenInv, ReadOffset
  PROVE  PollInv'
<1>1. /\ pc = "offset" /\ pc' = "address" /\ phyOffset' = dptr[reg]
      /\ UNCHANGED <<hardware, log, trap, taken, done, reg, phyAddr, tPoll>>
  BY DEF ReadOffset, Registers
<1>2. /\ state = "Running" /\ tPoll <= taken /\ taken - tPoll <= PollLag /\ Seen <= tPoll
      /\ phyAddr = NoAddr /\ timerOn
  BY <1>1 DEF PollInv, PollSteps, SeenInv
<1>3. PICK b \in Nat : Near(b)
  BY <1>1 DEF PollInv
<1>4. /\ taken < (b + 1) * CSADCDMA => taken = b * CSADCDMA + dptr[reg]
      /\ taken >= (b + 1) * CSADCDMA => dptr[reg] = 0
  BY <1>2, <1>3, Place
<1>5. Near(b)'
  BY <1>1, <1>3 DEF Near
<1>n. taken \in Nat /\ (b + 1) * CSADCDMA \in Nat
  BY Bounds DEF TypeOK
<1>6. \/ \E P \in Nat : During(P)' /\ P < (b + 1) * CSADCDMA /\ P = b * CSADCDMA + phyOffset'
      \/ Over(b)'
  <2>1. CASE taken < (b + 1) * CSADCDMA
    <3>1. During(taken)'
      BY <1>1, <1>2, <1>n DEF During
    <3> QED BY <2>1, <3>1, <1>1, <1>4, <1>n
  <2>2. CASE taken >= (b + 1) * CSADCDMA
    BY <2>2, <1>1, <1>4, <1>n DEF Over
  <2> QED BY <2>1, <2>2, <1>n
<1>7. Seen' = Seen /\ state' = state
  BY <1>1 DEF Seen, log
<1> QED BY <1>1, <1>2, <1>5, <1>6, <1>7 DEF PollInv, PollSteps

\* The address is read: it is that of the block whose offset was read.
LEMMA AddressPoll ==
  ASSUME IInv, HwInv, PollInv, SeenInv, ReadAddress
  PROVE  PollInv'
<1>1. /\ pc = "address" /\ pc' = "test" /\ phyAddr' = dsa[reg] + phyOffset
      /\ UNCHANGED <<hardware, log, trap, taken, done, reg, phyOffset, tPoll>>
  BY DEF ReadAddress, Registers
<1>2. /\ state = "Running" /\ tPoll <= taken /\ taken - tPoll <= PollLag /\ Seen <= tPoll
      /\ timerOn
  BY <1>1 DEF PollInv, PollSteps, SeenInv
<1>3. PICK b \in Nat :
        /\ Near(b)
        /\ \/ \E P \in Nat : During(P) /\ P < (b + 1) * CSADCDMA /\ P = b * CSADCDMA + phyOffset
           \/ Over(b)
  BY <1>1 DEF PollInv
<1>4. TypeOK /\ Blocks
  BY DEF IInv
<1>5. dsa[reg] = Addr(b)
  BY <1>2, <1>3, <1>4, Place
<1>6. Seen' = Seen /\ state' = state
  BY <1>1 DEF Seen, log
<1>7. \/ \E P \in Nat : During(P)' /\ phyAddr' = P % CSRBUFF
      \/ \E k \in Nat : Near(k)' /\ Over(k)'
  <2>1. CASE Over(b)
    <3>1. Near(b)' /\ Over(b)'
      BY <2>1, <1>1, <1>3 DEF Near, Over
    <3> QED BY <3>1
  <2>2. CASE \E P \in Nat : During(P) /\ P < (b + 1) * CSADCDMA /\ P = b * CSADCDMA + phyOffset
    <3>1. PICK P \in Nat : During(P) /\ P < (b + 1) * CSADCDMA /\ P = b * CSADCDMA + phyOffset
      BY <2>2
    <3>2. phyOffset \in 0 .. CSADCDMA - 1
      BY <1>4 DEF TypeOK
    <3>3. P % CSRBUFF = Addr(b) + phyOffset
      <4>1. dsa[Chan(b)] = Addr(b)
        BY <1>3, <1>5 DEF Near
      <4>2. (b * CSADCDMA + phyOffset) % CSRBUFF = Addr(b) + phyOffset
        BY <3>2, <4>1, <1>4, AddrFacts
      <4> QED BY <3>1, <4>2
    <3>4. During(P)' /\ phyAddr' = P % CSRBUFF
      BY <3>1, <3>3, <1>1, <1>5 DEF During
    <3> QED BY <3>4
  <2> QED BY <1>3, <2>1, <2>2
<1> QED BY <1>1, <1>2, <1>6, <1>7 DEF PollInv, PollSteps

\* A block that is over is told by its flag, so what is kept was true in the look.
LEMMA TestPoll ==
  ASSUME TypeOK, HwInv, PollInv, SeenInv, TestComplete
  PROVE  PollInv'
<1>1. pc = "test"
  BY DEF TestComplete
<1>2. /\ state = "Running" /\ tPoll <= taken /\ taken - tPoll <= PollLag /\ Seen <= tPoll
      /\ timerOn
  BY <1>1 DEF PollInv, PollSteps, SeenInv
<1>3. CASE BlockComplete /\ Look
  BY <1>2, <1>3, LookPoll
<1>4. CASE /\ ~BlockComplete /\ pc' = "update"
           /\ UNCHANGED <<hardware, log, trap, taken, done, reg, phyOffset, phyAddr, tPoll>>
  <2>1. \A b \in Nat : ~(Near(b) /\ Over(b))
    <3> SUFFICES ASSUME NEW b \in Nat, Near(b), Over(b) PROVE FALSE
      OBVIOUS
    <3>1. taken >= (b + 1) * CSADCDMA /\ phyOffset = 0
      <4>1. taken \in Nat /\ (b + 1) * CSADCDMA \in Nat
        BY Bounds DEF TypeOK
      <4> QED BY <4>1 DEF Over
    <3>2. halfFull[reg]
      BY <3>1, <1>2, Place
    <3> QED BY <3>1, <3>2, <1>4 DEF BlockComplete
  <2>2. PICK P \in Nat : During(P) /\ phyAddr = P % CSRBUFF
    BY <2>1, <1>1 DEF PollInv
  <2>3. Seen' = Seen /\ state' = state
    BY <1>4 DEF Seen, log
  <2>4. Seen' <= P /\ P <= taken'
    <3>1. Seen \in Int /\ tPoll \in Nat /\ taken \in Nat
      <4>1. 0 .. CSRBUFF - 1 \subseteq Nat
        BY Bounds
      <4> QED BY <4>1 DEF TypeOK, Seen
    <3> HIDE DEF Seen
    <3> QED BY <3>1, <2>2, <2>3, <1>2, <1>4 DEF During
  <2> QED BY <2>2, <2>3, <2>4, <1>2, <1>4 DEF PollInv, PollSteps
<1> QED BY <1>3, <1>4 DEF TestComplete, Registers

-----------------------------------------------------------------------------
(* All steps.                                                              *)

LEMMA LookSteps ==
  ASSUME IInv, HwInv, PollInv, SeenInv, trap = "none",
         TaskBegin \/ PollEnabled1 \/ PollEnabled2 \/ PollNeither \/ ReadOffset \/ ReadAddress
           \/ TestComplete
  PROVE  HwInv' /\ PollInv' /\ SeenInv' /\ UNCHANGED <<timerOn, taken, done>>
<1>1. UNCHANGED <<hardware, log, trap, taken, done>>
  BY DEF TaskBegin, PollEnabled1, PollEnabled2, PollNeither, ReadOffset, ReadAddress,
         TestComplete, Look, Registers
<1>2. HwInv'
  BY <1>1 DEF HwInv, hardware, At, Programmed, Chained
<1>3. SeenInv'
  <2>1. Seen' = Seen
    BY <1>1 DEF Seen, log
  <2> QED BY <1>1, <2>1 DEF SeenInv, hardware, log
<1>t. TypeOK /\ Dma = {1, 2}
  BY Bounds DEF IInv
<1>4. PollInv'
  <2>1. CASE TaskBegin
    <3>1. CASE state = "Running" /\ Look
      BY <3>1, <1>t, LookPoll
    <3>2. CASE pc' = "update" /\ phyAddr' = NoAddr
      BY <3>2 DEF PollInv, PollSteps
    <3> QED BY <2>1, <3>1, <3>2 DEF TaskBegin, Registers
  <2>2. CASE PollEnabled1
    <3>1. /\ pc = "poll1" /\ reg' = 1 /\ UNCHANGED <<phyOffset, phyAddr, tPoll>>
          /\ pc' = IF chen[1] THEN "offset" ELSE "poll2"
      BY <2>2 DEF PollEnabled1, Registers
    <3>2. 1 \in Dma /\ pc' \in {"offset", "poll2", "poll3"} /\ (pc' = "offset" => chen[1])
      BY <3>1, <1>t
    <3> QED BY <3>1, <3>2, <1>1, <1>t, FindPoll
  <2>3. CASE PollEnabled2
    <3>1. /\ pc = "poll2" /\ reg' = 2 /\ UNCHANGED <<phyOffset, phyAddr, tPoll>>
          /\ pc' = IF chen[2] THEN "offset" ELSE "poll3"
      BY <2>3 DEF PollEnabled2, Registers
    <3>2. 2 \in Dma /\ pc' \in {"offset", "poll2", "poll3"} /\ (pc' = "offset" => chen[2])
      BY <3>1, <1>t
    <3> QED BY <3>1, <3>2, <1>1, <1>t, FindPoll
  <2>4. CASE PollNeither
    <3>1. pc = "poll3" /\ state = "Running" /\ phyAddr = NoAddr
      BY <2>4 DEF PollNeither, PollInv, PollSteps
    <3>2. CASE Look
      BY <3>1, <3>2, <1>t, LookPoll
    <3>3. CASE pc' = "update" /\ phyAddr' = phyAddr
      BY <3>1, <3>3 DEF PollInv, PollSteps
    <3> QED BY <2>4, <3>2, <3>3 DEF PollNeither, Registers
  <2>5. CASE ReadOffset
    BY <2>5, <1>t, OffsetPoll
  <2>6. CASE ReadAddress
    BY <2>6, AddressPoll
  <2>7. CASE TestComplete
    BY <2>7, <1>t, TestPoll
  <2> QED BY <2>1, <2>2, <2>3, <2>4, <2>5, <2>6, <2>7
<1> QED BY <1>1, <1>2, <1>3, <1>4 DEF hardware

LEMMA RunSteps ==
  ASSUME IInv, HwInv, PollInv, SeenInv, trap = "none", LogRun \/ LogStop \/ TargetStopped
  PROVE  HwInv' /\ PollInv' /\ SeenInv'
<1>n. /\ CSRBUFF \in Nat \ {0} /\ MaxStall \in Nat /\ BacklogLimit \in Nat /\ 0 < BacklogLimit
      /\ Dma = {1, 2}
  BY Bounds, AdcRingAssumption
<1>1. pc' = "loop"
  BY DEF LogRun, LogStop, TargetStopped, task
<1>2. PollInv'
  BY <1>1 DEF PollInv, PollSteps
<1>3. CASE LogRun /\ timerOn
  <2>1. UNCHANGED <<hardware, log, taken, done>>
    BY <1>3 DEF LogRun
  <2>2. Seen' = Seen /\ trap' # "none"
    BY <2>1, <1>3 DEF Seen, log, LogRun
  <2>3. SeenInv'
    BY <2>1, <2>2 DEF SeenInv, hardware, log
  <2>4. HwInv'
    BY <2>1 DEF HwInv, hardware, At, Programmed, Chained
  <2> QED BY <1>2, <2>3, <2>4
<1>4. CASE LogRun /\ ~timerOn
  <2>1. /\ timerOn' /\ state' = "Running" /\ rawStart' = 0 /\ rawEnd' = 0 /\ done' = 0 /\ taken' = 0
    BY <1>4 DEF LogRun
  <2>2. Seen' = 0
    BY <2>1 DEF Seen
  <2>3. 0 % CSRBUFF = 0
    BY <1>n
  <2>4. SeenInv'
    BY <2>1, <2>2, <2>3, <1>n DEF SeenInv
  <2> QED BY <1>2, <1>4, <2>4, RunHw
<1>5. CASE LogStop
  <2>1. /\ ~timerOn' /\ chainTo' = 0
        /\ chen' = [c \in Dma |-> FALSE] /\ pending' = [c \in Dma |-> FALSE]
        /\ state' # "Running" /\ UNCHANGED <<rawStart, rawEnd, done, taken, trap>>
    BY <1>5 DEF LogStop
  <2>2. HwInv'
    BY <2>1, <1>n DEF HwInv
  <2>3. Seen' = Seen
    BY <2>1 DEF Seen
  <2>4. SeenInv'
    BY <2>1, <2>3 DEF SeenInv
  <2> QED BY <1>2, <2>2, <2>4
<1>6. CASE TargetStopped
  <2>1. /\ state = "Finishing" /\ state' = "Stopped"
        /\ UNCHANGED <<hardware, rawStart, rawEnd, done, taken, trap>>
    BY <1>6 DEF TargetStopped
  <2>2. Seen' = Seen
    BY <2>1 DEF Seen
  <2>3. SeenInv'
    BY <2>1, <2>2 DEF SeenInv, hardware
  <2>4. HwInv'
    BY <2>1 DEF HwInv, hardware, At, Programmed, Chained
  <2> QED BY <1>2, <2>3, <2>4
<1> QED BY <1>3, <1>4, <1>5, <1>6

LEMMA InitStream == Init => HwInv /\ PollInv /\ SeenInv
<1> SUFFICES ASSUME Init PROVE HwInv /\ PollInv /\ SeenInv
  OBVIOUS
<1>n. /\ CSRBUFF \in Nat \ {0} /\ BacklogLimit \in Nat /\ 0 < BacklogLimit /\ Dma = {1, 2}
  BY Bounds, AdcRingAssumption
<1>1. /\ ~timerOn /\ chainTo = 0
      /\ chen = [c \in Dma |-> FALSE] /\ pending = [c \in Dma |-> FALSE]
      /\ state = "Idle" /\ rawStart = 0 /\ rawEnd = 0 /\ done = 0 /\ taken = 0 /\ pc = "loop"
  BY DEF Init
<1>2. HwInv
  BY <1>1, <1>n DEF HwInv
<1>3. PollInv
  BY <1>1 DEF PollInv, PollSteps
<1>4. SeenInv
  <2>1. Seen = 0 /\ 0 % CSRBUFF = 0
    BY <1>1, <1>n DEF Seen
  <2> QED BY <1>1, <1>n, <2>1 DEF SeenInv
<1> QED BY <1>2, <1>3, <1>4

LEMMA NextStream == StreamInv /\ [Next]_vars => StreamInv'
<1> SUFFICES ASSUME StreamInv, [Next]_vars PROVE HwInv' /\ PollInv' /\ SeenInv'
  BY NextIInv DEF StreamInv
<1>s. IInv /\ HwInv /\ PollInv /\ SeenInv /\ TypeOK
  BY DEF StreamInv, IInv
<1>1. ASSUME trap = "none", NEW c \in Dma, Sample(c) PROVE HwInv' /\ PollInv' /\ SeenInv'
  BY <1>1, <1>s, SampleHw, SampleSeen
<1>2. ASSUME trap = "none", (ChainOn \/ \E c \in Dma : BlockOff(c)) PROVE HwInv' /\ PollInv' /\ SeenInv'
  <2>1. UNCHANGED <<timerOn, log, task, taken, done, tPoll>>
    BY <1>2 DEF ChainOn, BlockOff
  <2> QED BY <1>2, <1>s, <2>1, ChainHw, HardwareSeen
<1>3. ASSUME trap = "none", Toggle1to2 \/ Toggle2to1 PROVE HwInv' /\ PollInv' /\ SeenInv'
  <2>1. UNCHANGED <<timerOn, log, task, taken, done, tPoll>>
    BY <1>3 DEF Toggle1to2, Toggle2to1, ServeHalf
  <2> QED BY <1>3, <1>s, <2>1, ToggleHw, HardwareSeen
<1>4. ASSUME trap = "none", LogRun \/ LogStop \/ TargetStopped PROVE HwInv' /\ PollInv' /\ SeenInv'
  BY <1>4, <1>s, RunSteps
<1>5. ASSUME trap = "none",
             TaskBegin \/ PollEnabled1 \/ PollEnabled2 \/ PollNeither \/ ReadOffset \/ ReadAddress
               \/ TestComplete
      PROVE  HwInv' /\ PollInv' /\ SeenInv'
  BY <1>5, <1>s, LookSteps
<1>6. ASSUME trap = "none", ConvertPass \/ TooFarBehind \/ NoGroup PROVE HwInv' /\ PollInv' /\ SeenInv'
  <2>1. UNCHANGED <<hardware, taken>>
    BY <1>6 DEF ConvertPass, TooFarBehind, NoGroup
  <2>2. HwInv'
    BY <2>1, <1>s DEF HwInv, hardware, At, Programmed, Chained
  <2>3. SeenInv' /\ PollInv'
    BY <1>6, <1>s, PassSeen, NoPassSeen
  <2> QED BY <2>2, <2>3
<1>7. CASE UNCHANGED vars
  <2>1. UNCHANGED <<hardware, log, task, trap, taken, done, tPoll>> /\ Seen' = Seen
    BY <1>7 DEF vars, Seen, log
  <2>2. HwInv'
    BY <2>1, <1>s DEF HwInv, hardware, At, Programmed, Chained
  <2>3. SeenInv'
    BY <2>1, <1>s DEF SeenInv, hardware, log
  <2>4. PollInv'
    BY <2>1, <1>s DEF PollInv, Near, Over, During, log, task
  <2> QED BY <2>2, <2>3, <2>4
<1> QED BY <1>1, <1>2, <1>3, <1>4, <1>5, <1>6, <1>7 DEF Next, ADCTask, Hardware, Command

LEMMA AlwaysStream == Spec => []StreamInv
<1>1. Init => StreamInv
  BY InitIInv, InitStream DEF StreamInv
<1> QED BY <1>1, NextStream, PTL DEF Spec

\* The channels fill the ring without a gap or an overlap, whatever the size of ring
\* and blocks: each ISR gives the other channel its address in time (ADC.cpp, the ISRs).
THEOREM ChannelsFollow == Spec => []Contiguous
<1>1. ASSUME StreamInv PROVE Contiguous
  <2> SUFFICES ASSUME NEW c \in Dma, chen[c], ~blockDone PROVE dsa[c] + dptr[c] = taken % CSRBUFF
    BY DEF Contiguous
  <2>1. Dma = {1, 2} /\ TypeOK /\ Blocks /\ HwInv
    BY <1>1, Bounds DEF StreamInv, IInv
  <2>2. timerOn
    BY <2>1 DEF HwInv
  <2>3. PICK b \in Nat, o \in 0 .. CSADCDMA - 1 :
          /\ At(b, o) /\ Programmed(b, o, Chan(b), Chan(b + 1)) /\ Chained(b, o, Chan(b), Chan(b + 1))
    BY <2>1, <2>2, Now
  <2>4. c = Chan(b)
    BY <2>1, <2>3, ChanFacts DEF Chained
  <2>5. dsa[c] = Addr(b) /\ dptr[c] = o /\ taken = b * CSADCDMA + o
    BY <2>3, <2>4 DEF Programmed, At
  <2>6. (b * CSADCDMA + o) % CSRBUFF = Addr(b) + o
    BY <2>1, <2>4, <2>5, AddrFacts
  <2> QED BY <2>5, <2>6
<1> QED BY <1>1, AlwaysStream, PTL

\* However the register reads fall against the end of a block, padcRawEnd covers only
\* samples the hardware has written (ADC.cpp, ADCTask).
THEOREM NoneInvented == Spec => []NothingInvented
<1>1. StreamInv => NothingInvented
  BY DEF StreamInv, SeenInv, NothingInvented
<1> QED BY <1>1, AlwaysStream, PTL

\* The log is the stream of samples, in order, once each and before the ring laps
\* them, for any scan, sizes and limit (ADC.cpp, the acquisition as a whole).
THEOREM LogIsStream == Spec => ImplementsStream
<1>1. Init => Stream!Init
  BY DEF Init, Stream!Init
<1>2. StreamInv /\ [Next]_vars => [Stream!Next]_(Stream!vars)
  <2> SUFFICES ASSUME StreamInv, [Next]_vars PROVE Stream!Next \/ UNCHANGED <<timerOn, taken, done>>
    BY DEF Stream!vars
  <2>s. IInv /\ HwInv /\ PollInv /\ SeenInv /\ TypeOK
    BY DEF StreamInv, IInv
  <2>1. ASSUME NEW c \in Dma, Sample(c) PROVE Stream!Take
    BY <2>1 DEF Sample, Stream!Take
  <2>2. CASE LogRun
    BY <2>2 DEF LogRun, hardware, Stream!Next, Stream!Start
  <2>3. CASE LogStop
    BY <2>3 DEF LogStop, Stream!Next, Stream!Stop
  <2>4. CASE trap = "none" /\ ConvertPass
    <3>1. taken - done <= CSRBUFF /\ done <= done' /\ done' <= taken /\ done' \in Nat
      BY <2>4, <2>s, PassSeen
    <3>2. UNCHANGED <<timerOn, taken>> /\ done \in Nat /\ taken \in Nat
      BY <2>4, <2>s DEF ConvertPass, hardware, TypeOK
    <3>3. CASE done' = done
      BY <3>2, <3>3
    <3>4. CASE done' # done
      <4>1. done' \in done + 1 .. taken
        BY <3>1, <3>2, <3>4
      <4> QED BY <3>1, <3>2, <4>1 DEF Stream!Next, Stream!Deliver
    <3> QED BY <3>3, <3>4
  <2>5. CASE TaskBegin \/ PollEnabled1 \/ PollEnabled2 \/ PollNeither \/ ReadOffset \/ ReadAddress
               \/ TestComplete \/ TooFarBehind \/ NoGroup \/ TargetStopped
               \/ ChainOn \/ (\E c \in Dma : BlockOff(c)) \/ Toggle1to2 \/ Toggle2to1
    BY <2>5 DEF TaskBegin, PollEnabled1, PollEnabled2, PollNeither, ReadOffset, ReadAddress,
                TestComplete, Look, Registers, TooFarBehind, NoGroup, TargetStopped, ChainOn,
                BlockOff, Toggle1to2, Toggle2to1, ServeHalf, hardware
  <2>6. CASE UNCHANGED vars
    BY <2>6 DEF vars, hardware
  <2> QED BY <2>1, <2>2, <2>3, <2>4, <2>5, <2>6 DEF Next, ADCTask, Hardware, Command, Stream!Next
<1> QED BY <1>1, <1>2, AlwaysStream, PTL DEF Spec, ImplementsStream, Stream!Spec

=============================================================================
