--------------------------- MODULE SdTargetProofs ---------------------------
(***************************************************************************)
(* What SdTarget keeps, for rings, files, batches and logs of any size and *)
(* whichever calls fail: its files follow one another, its assertions hold *)
(* unless a file cannot be opened or closed, a log that says it stopped    *)
(* normally is complete, and its files and header are a true log.          *)
(***************************************************************************)
EXTENDS SdTarget, TLAPS

-----------------------------------------------------------------------------
(* Arithmetic.                                                             *)

LEMMA DivMod ==
  ASSUME NEW x \in Nat, NEW N \in Nat \ {0}
  PROVE  /\ x % N \in 0 .. N - 1 /\ x % N <= x
         /\ (x \div N) \in Nat /\ x = N * (x \div N) + (x % N)
<1>1. x % N \in 0 .. N - 1 /\ x % N <= x
  OBVIOUS
<1>2. (x \div N) \in Nat
  OBVIOUS
<1>3. x = N * (x \div N) + (x % N)
  OBVIOUS
<1> QED BY <1>1, <1>2, <1>3

LEMMA Remainder ==
  ASSUME NEW q \in Nat, NEW N \in Nat \ {0}, NEW r \in 0 .. N - 1
  PROVE  (N * q + r) % N = r /\ (N * q + r) \div N = q
OBVIOUS

\* Whole scans stay whole scans.
LEMMA WholeScans ==
  ASSUME NEW x \in Nat, NEW N \in Nat \ {0}, x % N = 0, NEW n \in Nat
  PROVE  (x + n * N) % N = 0 /\ (x \div N) * N = x
<1> DEFINE q == x \div N
<1>1. q \in Nat /\ x = N * q
  BY DivMod
<1> HIDE DEF q
<1>2. x + n * N = N * (q + n) + 0 /\ q + n \in Nat
  BY <1>1
<1>3. (N * (q + n) + 0) % N = 0
  BY <1>2, Remainder
<1>4. q * N = x
  BY <1>1
<1> QED BY <1>2, <1>3, <1>4 DEF q

LEMMA LeastOfTwo ==
  ASSUME NEW a \in Int, NEW b \in Int
  PROVE  Least({a, b}) = IF a <= b THEN a ELSE b
<1>1. CASE a <= b
  <2>1. a \in {a, b} /\ \A y \in {a, b} : a <= y
    BY <1>1
  <2>2. \A x \in {a, b} : (\A y \in {a, b} : x <= y) => x = a
    BY <1>1
  <2> QED BY <1>1, <2>1, <2>2 DEF Least
<1>2. CASE ~(a <= b)
  <2>1. b \in {a, b} /\ \A y \in {a, b} : b <= y
    BY <1>2
  <2>2. \A x \in {a, b} : (\A y \in {a, b} : x <= y) => x = b
    BY <1>2
  <2> QED BY <1>2, <2>1, <2>2 DEF Least
<1> QED BY <1>1, <1>2

LEMMA Bounds ==
  /\ CSVBUFF \in Nat \ {0} /\ CActiveCh \in Nat \ {0} /\ CsMax \in Int /\ CsFile \in Nat \ {0}
  /\ CsPiece \in Nat \ {0} /\ FreeSizes \subseteq Nat /\ MaxErr \in Nat /\ MaxBurst \in Nat \ {0}
BY SdTargetAssumption

\* A file takes a scan at least, if there is room for one.
LEMMA FileSizeIs ==
  ASSUME NEW free \in FreeSizes, free >= CActiveCh
  PROVE  FileSize(free) \in Nat /\ FileSize(free) > 0
<1>1. CsFile >= CActiveCh
  <2>1. CsFile % CActiveCh = 0 /\ CsFile = CActiveCh * (CsFile \div CActiveCh) + (CsFile % CActiveCh)
        /\ (CsFile \div CActiveCh) \in Nat
    BY Bounds, SdTargetAssumption, DivMod
  <2>2. CsFile \div CActiveCh >= 1
    <3> SUFFICES ASSUME CsFile \div CActiveCh = 0 PROVE FALSE
      BY <2>1
    <3> QED BY <2>1, Bounds
  <2>3. \A q \in Nat : q >= 1 => CActiveCh * q >= CActiveCh
    BY Bounds
  <2> QED BY <2>1, <2>2, <2>3, Bounds
<1> DEFINE cs == Least({free, CsFile})
<1>2. cs \in Nat /\ cs >= CActiveCh
  BY <1>1, LeastOfTwo, Bounds
<1> HIDE DEF cs
<1>3. cs % CActiveCh \in 0 .. CActiveCh - 1
  BY <1>2, Bounds, DivMod
<1> QED BY <1>2, <1>3, Bounds DEF FileSize, cs

\* Where a batch starts and how long it may be.
LEMMA BatchIs ==
  ASSUME NEW total \in Nat, NEW back \in 1 .. CSVBUFF, back <= total
  PROVE  LET at == (total % CSVBUFF) - back IN
         /\ RingStart(at) = (total - back) % CSVBUFF
         /\ RingStart(at) \in 0 .. CSVBUFF - 1
         /\ RingPart(back, at) \in 1 .. back
         /\ RingStart(at) + RingPart(back, at) <= CSVBUFF
<1> DEFINE B == CSVBUFF
           q == total \div B
           r == total % B
           at == r - back
<1>1. B \in Nat \ {0} /\ q \in Nat /\ r \in 0 .. B - 1 /\ total = B * q + r
  BY Bounds, DivMod
<1> HIDE DEF B, q, r
<1>2. CASE at >= 0
  <2>1. total - back = B * q + at /\ at \in 0 .. B - 1
    BY <1>1, <1>2
  <2>2. (B * q + at) % B = at
    BY <1>1, <2>1, Remainder
  <2> QED BY <1>1, <1>2, <2>1, <2>2 DEF RingStart, RingPart, B, q, r
<1>3. CASE at < 0
  <2>1. q >= 1
    <3> SUFFICES ASSUME q = 0 PROVE FALSE
      BY <1>1
    <3> QED BY <1>1, <1>3
  <2>2. B * q = B * (q - 1) + B /\ q - 1 \in Nat
    BY <1>1, <2>1
  <2>3. total - back = B * (q - 1) + (at + B) /\ at + B \in 0 .. B - 1
    BY <1>1, <1>3, <2>2 DEF B
  <2>4. (B * (q - 1) + (at + B)) % B = at + B
    BY <1>1, <2>2, <2>3, Remainder
  <2> QED BY <1>1, <1>3, <2>3, <2>4 DEF RingStart, RingPart, B, q, r
<1> QED BY <1>1, <1>2, <1>3

-----------------------------------------------------------------------------
(* The types.                                                              *)

TrgType == [state : TrgStates, nextState : {"Idle", "Running", "Pending", "Done"},
            uri : Nat, csProcessed : Nat, csEOF : Nat, seek : {"start", "header"}, stcd : Reasons,
            at : 0 .. CSVBUFF - 1, cs : Nat, csWritten : Nat]
FpType  == [open : BOOLEAN, err : BOOLEAN, pos : {"data", "header"}]
Types ==
  /\ logState \in {"Running", "Finishing", "Stopped"}
  /\ csTotal \in Nat /\ rawLeft \in Nat
  /\ trg \in TrgType /\ fp \in FpType
  /\ usage \in {NoFile} \cup Nat /\ holder \in {NoFile} \cup Nat
  /\ DOMAIN disk \subseteq Nat /\ disk \in [DOMAIN disk -> Nat]
  /\ header \in [count : Nat, stop : Reasons, last : BOOLEAN]
  /\ bad \subseteq {"overwritten", "full", "not opened", "not closed"}
  /\ errs \in 0 .. MaxErr /\ trap \in Traps

\* What a failure makes of the target.
LEMMA OnErrorIs ==
  ASSUME NEW t \in TrgType
  PROVE  LET e == OnError(t) IN
         /\ e \in TrgType /\ e.stcd = "STCDError"
         /\ e.uri = t.uri /\ e.csProcessed = t.csProcessed /\ e.csEOF = t.csEOF
         /\ t.nextState # "Pending" => e.state = "Finishing" /\ e.nextState = t.nextState
         /\ t.nextState = "Pending" /\ fp.open => e.state = "FILEclose" /\ e.nextState = "Done"
         /\ t.nextState = "Pending" /\ ~fp.open => e.state = "Done" /\ e.nextState = "Pending"
<1>1. CASE t.nextState # "Pending"
  BY <1>1 DEF OnError, TrgType, TrgStates, Reasons
<1>2. CASE t.nextState = "Pending" /\ fp.open
  BY <1>2 DEF OnError, TrgType, TrgStates, Reasons
<1>3. CASE t.nextState = "Pending" /\ ~fp.open
  BY <1>3 DEF OnError, TrgType, TrgStates, Reasons
<1> QED BY <1>1, <1>2, <1>3

-----------------------------------------------------------------------------
(* The inductive invariant.                                                *)

\* Which state is left for which.
Shape ==
  LET s == trg.state  n == trg.nextState IN
  \/ s = "Running" /\ n \in {"Idle", "Running"}
  \/ s = "FILEwrite" /\ n \in {"Running", "Done"}
  \/ s = "FILEclose" /\ n \in {"Running", "Pending", "Done"}
  \/ s = "FILEgetsize" /\ n = "Running"
  \/ s \in {"FILEopen", "FILEopening", "FILEseek"} /\ n \in {"Running", "Pending"}
  \/ s = "Finishing" /\ n \in {"Idle", "Running", "Done"}
  \/ s = "Pending" /\ n = "Pending"
  \/ s \in {"Done", "Idle"} /\ n \in {"Pending", "Done"}

\* The log is still being written: to a file that is open, or between two files.
Writing == trg.nextState \in {"Idle", "Running"} /\ trg.state # "Finishing"
InFile  == trg.state \in {"Running", "FILEwrite", "FILEseek", "FILEclose"}

\* The samples on the card, those of the batch that is being written included.
Stored == trg.csProcessed + IF trg.state = "FILEwrite" /\ trg.nextState = "Running"
                            THEN trg.csWritten ELSE 0

\* The file that was made last holds the last samples.
Newest(n) == n \in DOMAIN disk /\ \A m \in DOMAIN disk : m <= n
Abut == \A n \in DOMAIN disk \ {0} : \E p \in DOMAIN disk : p < n /\ p + disk[p] = n
CardInv ==
  /\ \E n \in DOMAIN disk : Newest(n) /\ n + disk[n] = Stored
  /\ Abut
  /\ Writing /\ InFile => usage = trg.uri /\ Newest(usage)
  /\ Writing /\ ~InFile => \A m \in DOMAIN disk : m < trg.csProcessed

\* How far a file and a batch go.
RangeInv ==
  /\ trg.csProcessed <= csTotal
  /\ Writing => trg.csProcessed <= trg.csEOF
  /\ Writing /\ trg.state # "FILEgetsize" => trg.uri < trg.csEOF
  /\ Writing /\ trg.state \in {"FILEclose", "FILEgetsize"} => trg.csProcessed = trg.csEOF
  /\ Writing /\ trg.state \in {"FILEopen", "FILEopening"} => trg.uri = trg.csProcessed
  /\ trg.state = "FILEwrite" /\ trg.nextState = "Running" =>
       /\ trg.csWritten <= trg.cs
       /\ trg.csProcessed + trg.cs <= trg.csEOF /\ trg.csProcessed + trg.cs <= csTotal

\* The reason and the count in the header.
Complete ==
  \/ trg.csProcessed = csTotal /\ logState \in {"Finishing", "Stopped"} /\ rawLeft = 0
  \/ "full" \in bad
Closing == trg.state \in {"Done", "Idle"} \/ (trg.state = "FILEclose" /\ trg.nextState = "Done")
HeaderInv ==
  /\ ~Writing /\ trg.stcd = "STCDNormal" => Complete
  /\ trg.state = "FILEwrite" /\ trg.nextState = "Done" => trg.cs = trg.csProcessed \div CActiveCh
  /\ header # FirstHeader =>
       /\ Closing
       /\ header.count = trg.csProcessed \div CActiveCh /\ header.stop \in Reasons
       /\ header.stop = "STCDNormal" => Complete
  /\ header = FirstHeader /\ Closing => trg.stcd = "STCDError"
  /\ csTotal % CActiveCh = 0

\* The file and its entry in fileTask, as long as every file could be opened and closed.
NoBad == bad \cap {"not opened", "not closed"} = {}
FileInv ==
  /\ NoBad =>
       /\ trap = "none"
       /\ trg.state \in {"Running", "FILEwrite", "FILEseek", "FILEclose", "Pending"} =>
            fp.open /\ usage # NoFile
       /\ trg.state \in {"FILEgetsize", "FILEopen", "Done", "Idle"} => ~fp.open /\ usage = NoFile
       /\ trg.state = "FILEopening" => ~fp.open /\ usage = trg.uri
       /\ trg.state = "Finishing" => (fp.open <=> usage # NoFile)
  /\ ~NoBad => \/ trap # "none"
               \/ trg.state \in {"Finishing", "FILEopen", "Done"} /\ usage # NoFile /\ ~fp.open

IInv == Types /\ Shape /\ CardInv /\ RangeInv /\ BatchInRing /\ HeaderInv /\ FileInv

-----------------------------------------------------------------------------
(* What several actions need.                                              *)

\* There is one newest file.
LEMMA OneNewest ==
  ASSUME Types, NEW n, NEW m, Newest(n), Newest(m)
  PROVE  n = m /\ n \in Nat /\ disk[n] \in Nat
<1>1. n \in Nat /\ m \in Nat /\ n <= m /\ m <= n
  BY DEF Types, Newest
<1>2. disk[n] \in Nat
  BY DEF Types, Newest
<1> QED BY <1>1, <1>2

\* When the files are left alone and the log is not written any more.
LEMMA CardKeeps ==
  ASSUME CardInv, disk' = disk, Stored' = Stored, ~Writing'
  PROVE  CardInv'
<1>1. \E n \in DOMAIN disk' : Newest(n)' /\ n + disk'[n] = Stored'
  BY DEF CardInv, Newest
<1>2. Abut'
  BY DEF CardInv, Abut
<1> QED BY <1>1, <1>2 DEF CardInv

\* When the files are left alone and the log goes on in the same way.
LEMMA CardGoesOn ==
  ASSUME CardInv, disk' = disk, Stored' = Stored, Writing, Writing', InFile <=> InFile',
         trg'.uri = trg.uri \/ ~InFile, trg'.csProcessed = trg.csProcessed \/ InFile,
         usage' = usage \/ ~InFile
  PROVE  CardInv'
<1>1. \E n \in DOMAIN disk' : Newest(n)' /\ n + disk'[n] = Stored'
  BY DEF CardInv, Newest
<1>2. Abut'
  BY DEF CardInv, Abut
<1>3. CASE InFile
  <2>1. usage = trg.uri /\ Newest(usage) /\ usage' = usage /\ trg'.uri = trg.uri
    BY <1>3 DEF CardInv
  <2>2. Newest(usage)'
    BY <2>1 DEF Newest
  <2> QED BY <1>1, <1>2, <1>3, <2>1, <2>2 DEF CardInv
<1>4. CASE ~InFile
  BY <1>1, <1>2, <1>4 DEF CardInv
<1> QED BY <1>3, <1>4

\* The reason for a complete log does not go away.
LEMMA CompleteStays ==
  ASSUME Complete, trg'.csProcessed = trg.csProcessed, UNCHANGED <<csTotal, rawLeft>>,
         logState' = logState \/ logState' = "Stopped", bad \subseteq bad'
  PROVE  Complete'
BY DEF Complete

\* Only a target that has written its header, and goes on to close the file, has one.
LEMMA NoHeaderYet ==
  ASSUME HeaderInv, ~(trg.state \in {"Done", "Idle"}), ~(trg.state = "FILEclose" /\ trg.nextState = "Done")
  PROVE  header = FirstHeader /\ ~Closing
BY DEF HeaderInv, Closing

LEMMA ErrsCounted ==
  ASSUME Types, NEW kind, Fails(kind)
  PROVE  errs' \in 0 .. MaxErr
<1>1. errs \in 0 .. MaxErr /\ errs < MaxErr /\ errs' = errs + 1
  BY DEF Types, Fails
<1> QED BY <1>1, Bounds

\* In the middle of the work on a file it is open and in fileTask.
LEMMA FileIsOpen ==
  ASSUME FileInv, trap = "none",
         trg.state \in {"Running", "FILEwrite", "FILEseek", "FILEclose", "Pending"}
  PROVE  NoBad /\ fp.open /\ usage # NoFile
BY DEF FileInv

LEMMA Numbers ==
  ASSUME IInv
  PROVE  /\ trg \in TrgType /\ csTotal \in Nat /\ trg.csProcessed \in Nat /\ trg.csEOF \in Nat
         /\ trg.uri \in Nat /\ trg.cs \in Nat /\ trg.csWritten \in Nat /\ Stored \in Nat
<1>1. trg \in TrgType /\ csTotal \in Nat
  BY DEF IInv, Types
<1>2. /\ trg.csProcessed \in Nat /\ trg.csEOF \in Nat
      /\ trg.uri \in Nat /\ trg.cs \in Nat /\ trg.csWritten \in Nat
  BY <1>1 DEF TrgType
<1> QED BY <1>1, <1>2 DEF Stored

-----------------------------------------------------------------------------
(* Init and one lemma per action.                                          *)

LEMMA InitInv == Init => IInv
<1> SUFFICES ASSUME Init PROVE IInv
  OBVIOUS
<1>1. PICK free \in FreeSizes :
        /\ free >= CActiveCh
        /\ trg = [state |-> "Running", nextState |-> "Idle", uri |-> 0, csProcessed |-> 0,
                  csEOF |-> FileSize(free), seek |-> "start", stcd |-> "STCDNormal",
                  at |-> 0, cs |-> 0, csWritten |-> 0]
  BY DEF Init
<1>2. FileSize(free) \in Nat /\ FileSize(free) > 0
  BY <1>1, FileSizeIs
<1>3. trg \in TrgType /\ trg.state = "Running" /\ trg.nextState = "Idle" /\ trg.uri = 0
      /\ trg.csProcessed = 0 /\ trg.csEOF > 0 /\ trg.csEOF \in Nat
  BY <1>1, <1>2, Bounds DEF TrgType, TrgStates, Reasons
<1>4. Types
  <2>1. DOMAIN disk = {0} /\ disk \in [DOMAIN disk -> Nat] /\ disk[0] = 0
    BY DEF Init
  <2>2. header \in [count : Nat, stop : Reasons, last : BOOLEAN]
    BY DEF Init, FirstHeader, Reasons
  <2> QED BY <1>3, <2>1, <2>2, Bounds DEF Init, Types, FpType, Traps
<1>5. Shape /\ RangeInv /\ BatchInRing
  BY <1>3 DEF Init, Shape, RangeInv, BatchInRing, Writing
<1>6. CardInv
  <2>1. disk = [n \in {0} |-> 0] /\ usage = 0
    BY DEF Init
  <2>2. Newest(0) /\ 0 + disk[0] = 0 /\ 0 \in DOMAIN disk
    BY <2>1 DEF Newest
  <2>3. Stored = 0 /\ InFile
    BY <1>3 DEF Stored, InFile
  <2>4. Abut
    BY <2>1 DEF Abut
  <2> QED BY <1>3, <2>1, <2>2, <2>3, <2>4 DEF CardInv
<1>7. HeaderInv
  <2>1. csTotal % CActiveCh = 0 /\ header = FirstHeader
    BY Bounds DEF Init
  <2> QED BY <1>3, <2>1 DEF HeaderInv, Closing, Writing
<1>8. FileInv
  BY <1>3 DEF Init, FileInv, NoBad, NoFile
<1> QED BY <1>4, <1>5, <1>6, <1>7, <1>8 DEF IInv

LEMMA RunningInv ==
  ASSUME IInv, trap = "none", TrgRunning
  PROVE  IInv'
<1>1. /\ trg.state = "Running" /\ trg.nextState \in {"Idle", "Running"} /\ Writing /\ InFile
      /\ NoBad /\ fp.open /\ usage # NoFile /\ header = FirstHeader
  BY FileIsOpen, NoHeaderYet DEF IInv, TrgRunning, Shape, Writing, InFile
<1>2. UNCHANGED <<logState, csTotal, rawLeft, holder, fp, usage, disk, header, bad, errs, trap>>
  BY <1>1 DEF TrgRunning, log
<1>3. /\ trg \in TrgType /\ csTotal \in Nat /\ trg.csProcessed \in Nat /\ trg.csEOF \in Nat /\ trg.uri \in Nat
      /\ trg.csProcessed <= csTotal /\ trg.csProcessed <= trg.csEOF /\ trg.uri < trg.csEOF
      /\ csTotal % CActiveCh = 0 /\ Stored = trg.csProcessed
  BY <1>1, Numbers DEF IInv, RangeInv, HeaderInv, Stored
<1>4. CASE Backlog \in 1 .. CSVBUFF /\ SetUpWrite
  <2> DEFINE at   == (csTotal % CSVBUFF) - Backlog
             part == RingPart(Backlog, at)
             room == trg.csEOF - trg.csProcessed
             cs   == Least({part, room})
  <2>1. trg' = [trg EXCEPT !.state = "FILEwrite", !.nextState = "Running",
                           !.at = RingStart(at), !.cs = cs, !.csWritten = 0]
    BY <1>4 DEF SetUpWrite
  <2>2. /\ RingStart(at) = trg.csProcessed % CSVBUFF /\ RingStart(at) \in 0 .. CSVBUFF - 1
        /\ part \in 1 .. Backlog /\ RingStart(at) + part <= CSVBUFF
    <3>1. Backlog <= csTotal /\ csTotal - Backlog = trg.csProcessed
      BY <1>3 DEF Backlog
    <3> QED BY <1>3, <1>4, <3>1, BatchIs
  <2>3. cs \in Nat /\ cs <= part /\ cs <= room
    BY <1>3, <1>4, <2>2, LeastOfTwo
  <2> HIDE DEF part, cs, at
  <2>4. /\ trg' \in TrgType /\ trg'.state = "FILEwrite" /\ trg'.nextState = "Running" /\ trg'.uri = trg.uri
        /\ trg'.csProcessed = trg.csProcessed /\ trg'.csEOF = trg.csEOF /\ trg'.stcd = trg.stcd
        /\ trg'.at = RingStart(at) /\ trg'.cs = cs /\ trg'.csWritten = 0
    BY <1>3, <2>1, <2>2, <2>3 DEF TrgType, TrgStates
  <2>5. trg'.csProcessed + trg'.cs <= trg'.csEOF /\ trg'.csProcessed + trg'.cs <= csTotal
        /\ trg'.at + trg'.cs <= CSVBUFF /\ trg'.at = trg'.csProcessed % CSVBUFF
    BY <1>3, <1>4, <2>2, <2>3, <2>4, Bounds DEF Backlog
  <2>6. Writing' /\ InFile' /\ Stored' = trg.csProcessed
    BY <1>3, <2>4 DEF Writing, InFile, Stored
  <2>7. Types'
    BY <1>2, <2>4 DEF IInv, Types
  <2>8. Shape'
    BY <2>4 DEF Shape
  <2>9. CardInv'
    <3>1. CardInv
      BY DEF IInv
    <3> QED BY <1>1, <1>2, <1>3, <2>4, <2>6, <3>1, CardGoesOn
  <2>10. RangeInv' /\ BatchInRing'
    BY <1>2, <1>3, <2>3, <2>4, <2>5 DEF RangeInv, BatchInRing
  <2>11. HeaderInv'
    BY <1>1, <1>2, <1>3, <2>4, <2>6 DEF HeaderInv, Closing
  <2>12. FileInv'
    BY <1>1, <1>2, <2>4 DEF FileInv, NoBad
  <2> QED BY <2>7, <2>8, <2>9, <2>10, <2>11, <2>12 DEF IInv
<1>5. ASSUME NEW r \in Reasons, trg' = [trg EXCEPT !.state = "Finishing", !.stcd = r],
             r = "STCDNormal" => Backlog = 0 /\ FFinish
      PROVE  IInv'
  <2>1. /\ trg' \in TrgType /\ trg'.state = "Finishing" /\ trg'.nextState = trg.nextState
        /\ trg'.csProcessed = trg.csProcessed /\ trg'.stcd = r
    BY <1>3, <1>5 DEF TrgType, TrgStates
  <2>2. ~Writing' /\ Stored' = trg.csProcessed
    BY <1>3, <2>1 DEF Writing, Stored
  <2>3. Types'
    BY <1>2, <2>1 DEF IInv, Types
  <2>4. Shape'
    BY <1>1, <2>1 DEF Shape
  <2>5. CardInv'
    <3>1. CardInv
      BY DEF IInv
    <3> QED BY <1>2, <1>3, <2>2, <3>1, CardKeeps
  <2>6. RangeInv' /\ BatchInRing'
    BY <1>2, <1>3, <2>1, <2>2 DEF RangeInv, BatchInRing
  <2>7. HeaderInv'
    <3>1. r = "STCDNormal" => Complete'
      BY <1>2, <1>3, <1>5, <2>1 DEF Complete, Backlog, FFinish
    <3> QED BY <1>1, <1>2, <1>3, <2>1, <3>1 DEF HeaderInv, Closing
  <2>8. FileInv'
    BY <1>1, <1>2, <2>1 DEF FileInv, NoBad
  <2> QED BY <2>3, <2>4, <2>5, <2>6, <2>7, <2>8 DEF IInv
<1> QED BY <1>1, <1>4, <1>5 DEF TrgRunning, Reasons

LEMMA WriteSamplesInv ==
  ASSUME IInv, trap = "none", WriteSamples
  PROVE  IInv'
<1>1. /\ trg.state = "FILEwrite" /\ trg.nextState = "Running" /\ Writing /\ InFile
      /\ NoBad /\ fp.open /\ usage # NoFile /\ header = FirstHeader
  BY FileIsOpen, NoHeaderYet DEF IInv, WriteSamples, Writing, InFile
<1>2. UNCHANGED <<logState, csTotal, rawLeft, holder, fp, usage, header, errs>>
  BY DEF WriteSamples, log
<1>3. /\ trg \in TrgType /\ csTotal \in Nat /\ trg.csProcessed \in Nat /\ trg.csEOF \in Nat
      /\ trg.uri \in Nat /\ trg.cs \in Nat /\ trg.csWritten \in Nat
  BY Numbers
<1>4. /\ trg.csWritten <= trg.cs /\ trg.uri < trg.csEOF
      /\ trg.csProcessed + trg.cs <= trg.csEOF /\ trg.csProcessed + trg.cs <= csTotal
      /\ Stored = trg.csProcessed + trg.csWritten
  BY <1>1 DEF IInv, RangeInv, Stored
<1> DEFINE piece == Least({CsPiece, trg.cs - trg.csWritten})
<1>5. piece \in Nat /\ piece <= trg.cs - trg.csWritten /\ (trg.csWritten < trg.cs => piece > 0)
  BY <1>3, <1>4, LeastOfTwo, Bounds
<1>6. PICK k \in 0 .. piece :
        /\ disk' = [disk EXCEPT ![usage] = @ + k]
        /\ bad \subseteq bad' /\ bad' \subseteq bad \cup {"overwritten", "full"}
        /\ k < piece => "full" \in bad'
        /\ LET t == [trg EXCEPT !.csWritten = @ + k] IN
              IF k > 0 /\ t.csWritten < t.cs THEN trg' = t /\ UNCHANGED trap
              ELSE /\ trg' = BatchDone(Processed(t))
                   /\ trap' = IF Processed(t).csProcessed > t.csEOF THEN "past end of file" ELSE trap
  BY Zenon DEF WriteSamples
<1> HIDE DEF piece
<1> DEFINE w == trg.csWritten + k
           t == [trg EXCEPT !.csWritten = @ + k]
<1>7. k \in Nat /\ w \in Nat /\ w <= trg.cs /\ (trg.csWritten < trg.cs /\ k = 0 => "full" \in bad')
  <2>1. k < piece => "full" \in bad'
    BY <1>6, Zenon
  <2>2. k \in 0 .. piece
    OBVIOUS
  <2> QED BY <1>3, <1>4, <1>5, <2>1, <2>2
<1>8. /\ t \in TrgType /\ t.csWritten = w /\ t.cs = trg.cs /\ t.csEOF = trg.csEOF /\ t.uri = trg.uri
      /\ t.csProcessed = trg.csProcessed /\ t.stcd = trg.stcd /\ t.state = "FILEwrite"
      /\ t.nextState = "Running" /\ t.at = trg.at
  BY <1>1, <1>3, <1>7 DEF TrgType
<1>9. NoBad'
  BY <1>1, <1>6 DEF NoBad
<1> HIDE DEF t, w
\* The file that is written grows by k samples.
<1>10. ASSUME Stored' = trg.csProcessed + w, trg'.uri = trg.uri,
              ~Writing' \/ InFile'
       PROVE  CardInv'
  <2>1. PICK n \in DOMAIN disk : Newest(n) /\ n + disk[n] = Stored
    BY DEF IInv, CardInv
  <2>2. usage = trg.uri /\ Newest(usage) /\ Abut
    BY <1>1 DEF IInv, CardInv
  <2>3. n = usage /\ usage \in Nat /\ disk[usage] \in Nat
    BY <2>1, <2>2, OneNewest DEF IInv
  <2>4. DOMAIN disk' = DOMAIN disk /\ usage \in DOMAIN disk /\ disk'[usage] = disk[usage] + k
        /\ \A m \in DOMAIN disk : m # usage => disk'[m] = disk[m]
    BY <1>6, <2>2 DEF Newest
  <2>5. Newest(usage)' /\ usage' + disk'[usage'] = Stored'
    BY <1>2, <1>3, <1>4, <1>7, <1>10, <2>1, <2>2, <2>3, <2>4 DEF Newest, w
  <2>6. Abut'
    <3>1. ASSUME NEW m \in DOMAIN disk \ {0}
          PROVE  \E p \in DOMAIN disk : p < m /\ p + disk'[p] = m
      <4>1. PICK p \in DOMAIN disk : p < m /\ p + disk[p] = m
        BY <2>2, <3>1 DEF Abut
      <4>2. m \in Nat /\ p \in Nat /\ m <= usage
        BY <2>2, <3>1 DEF IInv, Types, Newest
      <4>3. p # usage
        BY <2>3, <4>1, <4>2
      <4> QED BY <2>4, <4>1, <4>3
    <3> QED BY <2>4, <3>1 DEF Abut
  <2> QED BY <1>2, <1>10, <2>2, <2>4, <2>5, <2>6 DEF CardInv, Newest
<1>11. DOMAIN disk' \subseteq Nat /\ disk' \in [DOMAIN disk' -> Nat]
  <2>1. disk \in [DOMAIN disk -> Nat] /\ DOMAIN disk \subseteq Nat
    BY DEF IInv, Types
  <2>2. DOMAIN disk' = DOMAIN disk /\ \A m \in DOMAIN disk : disk'[m] \in Nat
    <3>1. disk' = [disk EXCEPT ![usage] = @ + k]
      BY <1>6, Zenon
    <3> QED BY <1>7, <2>1, <3>1
  <2>3. disk' = [m \in DOMAIN disk' |-> disk'[m]]
    BY <1>6
  <2> QED BY <2>1, <2>2, <2>3
<1>12. ASSUME trg' \in TrgType, trap' = trap
       PROVE  Types'
  <2>1. bad' \subseteq {"overwritten", "full", "not opened", "not closed"}
    BY <1>6 DEF IInv, Types
  <2> QED BY <1>2, <1>11, <1>12, <2>1 DEF IInv, Types
\* There is more of the batch to write.
<1>13. CASE k > 0 /\ w < trg.cs
  <2>1. trg' = t /\ trap' = trap
    BY <1>6, <1>8, <1>13 DEF t
  <2>2. Writing' /\ InFile' /\ Stored' = trg.csProcessed + w
    BY <1>8, <2>1 DEF Writing, InFile, Stored
  <2>3. Types' /\ CardInv'
    BY <1>8, <1>10, <1>12, <2>1, <2>2
  <2>4. Shape' /\ RangeInv' /\ BatchInRing'
    <3>1. BatchInRing
      BY DEF IInv
    <3> QED BY <1>1, <1>2, <1>3, <1>4, <1>7, <1>8, <1>13, <2>1, <3>1 DEF Shape, RangeInv, BatchInRing
  <2>5. HeaderInv'
    <3>1. csTotal % CActiveCh = 0
      BY DEF IInv, HeaderInv
    <3> QED BY <1>1, <1>2, <1>8, <2>1, <2>2, <3>1 DEF HeaderInv, Closing
  <2>6. FileInv'
    BY <1>1, <1>2, <1>8, <1>9, <2>1, Zenon DEF FileInv
  <2> QED BY <2>3, <2>4, <2>5, <2>6 DEF IInv
\* The batch is written, or the card is full.
<1>14. CASE ~(k > 0 /\ w < trg.cs)
  <2> DEFINE u == Processed(t)
  <2>1. /\ u \in TrgType /\ u.csProcessed = trg.csProcessed + w /\ u.cs = trg.cs /\ u.csWritten = w
        /\ u.csEOF = trg.csEOF /\ u.uri = trg.uri /\ u.stcd = trg.stcd /\ u.nextState = "Running"
    BY <1>3, <1>7, <1>8 DEF Processed, TrgType
  <2>2. trg' = BatchDone(u) /\ trap' = trap
    <3>1. u.csProcessed <= t.csEOF
      BY <1>3, <1>4, <1>7, <1>8, <2>1
    <3>2. ~(u.csProcessed > t.csEOF)
      BY <1>3, <1>8, <2>1, <3>1, <1>7
    <3>3. ~(k > 0 /\ t.csWritten < t.cs)
      BY <1>8, <1>14
    <3> QED BY <1>6, <3>2, <3>3 DEF t
  <2> HIDE DEF u
  <2>3. /\ trg' \in TrgType /\ trg'.csProcessed = u.csProcessed /\ trg'.csEOF = u.csEOF /\ trg'.uri = u.uri
        /\ trg'.stcd = u.stcd /\ trg'.nextState = "Running"
        /\ \/ trg'.state = "Finishing" /\ w < trg.cs
           \/ trg'.state = "FILEclose" /\ u.csProcessed >= u.csEOF
           \/ trg'.state = "Running"
    <3>1. CASE u.csWritten < u.cs
      BY <2>1, <2>2, <3>1 DEF BatchDone, TrgType, TrgStates
    <3>2. CASE u.csWritten = u.cs /\ u.csProcessed >= u.csEOF /\ (CsMax < 0 \/ u.csProcessed < CsMax)
      <4>1. trg' = [u EXCEPT !.state = "FILEclose", !.seek = "start"]
        BY <1>3, <2>1, <2>2, <3>2 DEF BatchDone
      <4> QED BY <2>1, <3>2, <4>1 DEF TrgType, TrgStates
    <3>3. CASE ~(u.csWritten < u.cs) /\ ~(u.csWritten = u.cs /\ u.csProcessed >= u.csEOF /\ (CsMax < 0 \/ u.csProcessed < CsMax))
      <4>1. trg' = [u EXCEPT !.state = "Running"]
        BY <2>2, <3>3 DEF BatchDone
      <4> QED BY <2>1, <4>1 DEF TrgType, TrgStates
    <3> QED BY <3>1, <3>2, <3>3
  <2>4. Stored' = trg.csProcessed + w /\ (~Writing' \/ InFile') /\ (~Writing' <=> trg'.state = "Finishing")
    BY <1>3, <1>7, <2>1, <2>3 DEF Writing, InFile, Stored
  <2>5. Types' /\ CardInv'
    BY <1>10, <1>12, <2>1, <2>2, <2>3, <2>4
  <2>6. trg'.csProcessed <= trg'.csEOF /\ trg'.csProcessed <= csTotal
    BY <1>3, <1>4, <1>7, <2>1, <2>3
  <2>7. Shape'
    BY <2>3 DEF Shape
  <2>8. RangeInv' /\ BatchInRing'
    <3>1. trg'.state = "FILEclose" => trg'.csProcessed = trg'.csEOF
      BY <1>3, <1>7, <2>1, <2>3, <2>6
    <3> QED BY <1>2, <1>4, <2>1, <2>3, <2>4, <2>6, <3>1 DEF RangeInv, BatchInRing
  <2>9. HeaderInv'
    <3>1. csTotal % CActiveCh = 0
      BY DEF IInv, HeaderInv
    <3>2. trg'.state = "Finishing" => "full" \in bad'
      <4>1. SUFFICES ASSUME trg'.state = "Finishing" PROVE "full" \in bad'
        OBVIOUS
      <4>2. w < trg.cs
        BY <2>3, <4>1
      <4>3. k = 0
        BY <1>7, <1>14, <4>2
      <4> QED BY <1>3, <1>7, <4>2, <4>3 DEF w
    <3> QED BY <1>1, <1>2, <2>3, <2>4, <3>1, <3>2 DEF HeaderInv, Closing, Complete
  <2>10. FileInv'
    BY <1>1, <1>2, <1>9, <2>2, <2>3, Zenon DEF FileInv
  <2> QED BY <2>5, <2>7, <2>8, <2>9, <2>10 DEF IInv
<1> QED BY <1>13, <1>14

LEMMA WriteHeaderInv ==
  ASSUME IInv, trap = "none", WriteHeader
  PROVE  IInv'
<1>1. /\ trg.state = "FILEwrite" /\ trg.nextState = "Done" /\ ~Writing
      /\ NoBad /\ fp.open /\ usage # NoFile
  BY FileIsOpen DEF IInv, WriteHeader, Writing
<1>2. UNCHANGED <<logState, csTotal, rawLeft, holder, fp, usage, disk, bad, errs, trap>>
      /\ header' = [count |-> trg.cs, stop |-> trg.stcd, last |-> TRUE] /\ trg' = [trg EXCEPT !.state = "FILEclose"]
  BY DEF WriteHeader, log
<1>3. /\ trg \in TrgType /\ trg.csProcessed \in Nat /\ trg.cs \in Nat
      /\ trg.csProcessed <= csTotal /\ Stored = trg.csProcessed
  BY <1>1, Numbers DEF IInv, RangeInv, Stored
<1>4. /\ trg' \in TrgType /\ trg'.state = "FILEclose" /\ trg'.nextState = "Done" /\ trg'.stcd = trg.stcd
      /\ trg'.csProcessed = trg.csProcessed /\ trg.stcd \in Reasons
  BY <1>1, <1>2, <1>3 DEF TrgType, TrgStates
<1>5. ~Writing' /\ Stored' = trg.csProcessed
  BY <1>3, <1>4 DEF Writing, Stored
<1>6. Types'
  <2>1. header' \in [count : Nat, stop : Reasons, last : BOOLEAN]
    BY <1>2, <1>3, <1>4
  <2> QED BY <1>2, <1>4, <2>1 DEF IInv, Types
<1>7. CardInv'
  <2>1. CardInv
    BY DEF IInv
  <2> QED BY <1>2, <1>3, <1>5, <2>1, CardKeeps
<1>8. Shape' /\ RangeInv' /\ BatchInRing'
  BY <1>2, <1>3, <1>4, <1>5 DEF Shape, RangeInv, BatchInRing
<1>9. HeaderInv'
  <2>1. trg.cs = trg.csProcessed \div CActiveCh /\ csTotal % CActiveCh = 0
        /\ (trg.stcd = "STCDNormal" => Complete)
    BY <1>1 DEF IInv, HeaderInv
  <2>2. trg.stcd = "STCDNormal" => Complete'
    BY <1>2, <1>4, <2>1, CompleteStays
  <2>3. header'.count = trg'.csProcessed \div CActiveCh /\ header'.stop = trg.stcd
    BY <1>2, <1>4, <2>1
  <2> QED BY <1>2, <1>4, <2>1, <2>2, <2>3 DEF HeaderInv, Closing, FirstHeader
<1>10. FileInv'
  BY <1>1, <1>2, <1>4 DEF IInv, FileInv, NoBad
<1> QED BY <1>6, <1>7, <1>8, <1>9, <1>10 DEF IInv

LEMMA WriteFailedInv ==
  ASSUME IInv, trap = "none", WriteFailed
  PROVE  IInv'
<1>1. /\ trg.state = "FILEwrite" /\ trg.nextState \in {"Running", "Done"}
      /\ NoBad /\ fp.open /\ usage # NoFile /\ header = FirstHeader
  BY FileIsOpen, NoHeaderYet DEF IInv, WriteFailed, Shape
<1>2. UNCHANGED <<logState, csTotal, rawLeft, holder, usage, disk, header, bad, trap>>
      /\ fp' = [fp EXCEPT !.err = TRUE] /\ errs' \in 0 .. MaxErr
  <2>1. errs \in 0 .. MaxErr
    BY DEF IInv, Types
  <2> QED BY <2>1, Bounds DEF WriteFailed, Fails, log
<1>3. fp' \in FpType /\ fp'.open
  BY <1>1, <1>2 DEF IInv, Types, FpType
<1>4. /\ trg \in TrgType /\ csTotal \in Nat /\ trg.csProcessed \in Nat /\ trg.csEOF \in Nat
      /\ trg.uri \in Nat /\ trg.cs \in Nat /\ trg.csWritten \in Nat
      /\ trg.csProcessed <= csTotal /\ Stored <= csTotal
  <2>1. /\ trg \in TrgType /\ csTotal \in Nat /\ trg.csProcessed \in Nat /\ trg.csEOF \in Nat
        /\ trg.uri \in Nat /\ trg.cs \in Nat /\ trg.csWritten \in Nat
    BY Numbers
  <2>2. RangeInv
    BY DEF IInv
  <2> QED BY <2>1, <2>2 DEF RangeInv, Stored
<1> DEFINE t == IF trg.nextState = "Running" THEN Processed(trg) ELSE [trg EXCEPT !.nextState = "Done"]
<1>5. t \in TrgType /\ t.nextState \in {"Running", "Done"} /\ t.csProcessed = Stored /\ t.csEOF = trg.csEOF
  BY <1>1, <1>4 DEF Processed, TrgType, Stored
<1>6. trg' = OnError(t)
  BY DEF WriteFailed
<1> HIDE DEF t
<1>7. /\ trg' \in TrgType /\ trg'.state = "Finishing" /\ trg'.nextState \in {"Running", "Done"}
      /\ trg'.csProcessed = Stored /\ trg'.stcd = "STCDError"
  BY <1>5, <1>6, OnErrorIs
<1>8. Stored \in Nat
  BY Numbers
<1>9. ~Writing' /\ Stored' = Stored
  <2>1. Stored' = trg'.csProcessed + 0
    BY <1>7 DEF Stored
  <2> QED BY <1>7, <1>8, <2>1 DEF Writing
<1>10. Types'
  BY <1>2, <1>3, <1>7 DEF IInv, Types
<1>11. CardInv'
  <2>1. CardInv
    BY DEF IInv
  <2> QED BY <1>2, <1>9, <2>1, CardKeeps
<1>12. Shape' /\ RangeInv' /\ BatchInRing'
  BY <1>2, <1>4, <1>7, <1>9 DEF Shape, RangeInv, BatchInRing
<1>13. HeaderInv'
  <2>1. csTotal % CActiveCh = 0
    BY DEF IInv, HeaderInv
  <2> QED BY <1>1, <1>2, <1>7, <2>1 DEF HeaderInv
<1>14. FileInv'
  BY <1>1, <1>2, <1>3, <1>7 DEF IInv, FileInv, NoBad
<1> QED BY <1>10, <1>11, <1>12, <1>13, <1>14 DEF IInv

LEMMA CloseFileInv ==
  ASSUME IInv, trap = "none", CloseFile
  PROVE  IInv'
<1>1. /\ trg.state = "FILEclose" /\ trg.nextState \in {"Running", "Pending", "Done"}
      /\ NoBad /\ fp.open /\ usage # NoFile
  BY FileIsOpen DEF IInv, CloseFile, Shape
<1>2. /\ trg \in TrgType /\ csTotal \in Nat /\ trg.csProcessed \in Nat /\ trg.csEOF \in Nat /\ trg.uri \in Nat
      /\ trg.csProcessed <= csTotal /\ Stored = trg.csProcessed /\ csTotal % CActiveCh = 0
  BY <1>1, Numbers DEF IInv, RangeInv, HeaderInv, Stored
<1>3. CASE /\ fp.open /\ Fails("close")
           /\ bad' = bad \cup {"not closed"}
           /\ trap' = "clear while open"
           /\ UNCHANGED <<log, trg, fp, usage, disk, header>>
  <2>1. UNCHANGED <<logState, csTotal, rawLeft, holder, trg, fp, usage, disk, header>>
    BY <1>3 DEF log
  <2>2. Types'
    <3>1. errs' \in 0 .. MaxErr
      BY <1>3, ErrsCounted DEF IInv
    <3>2. trap' \in Traps
      BY <1>3 DEF Traps
    <3>3. bad' \subseteq {"overwritten", "full", "not opened", "not closed"}
      BY <1>3 DEF IInv, Types
    <3> QED BY <2>1, <3>1, <3>2, <3>3 DEF IInv, Types
  <2>3. Shape' /\ RangeInv' /\ BatchInRing'
    BY <2>1 DEF IInv, Shape, RangeInv, BatchInRing, Writing
  <2>4. CardInv'
    <3>1. CardInv /\ Stored' = Stored /\ Writing' = Writing /\ InFile' = InFile
      BY <2>1 DEF IInv, Stored, Writing, InFile
    <3> QED BY <2>1, <3>1, CardKeeps, CardGoesOn
  <2>5. HeaderInv'
    <3>1. Complete => Complete'
      BY <1>3, <2>1, CompleteStays
    <3>2. HeaderInv /\ Writing' = Writing
      BY <2>1 DEF IInv, Writing
    <3> QED BY <2>1, <3>1, <3>2 DEF HeaderInv, Closing
  <2>6. FileInv'
    BY <1>3 DEF FileInv, NoBad
  <2> QED BY <2>2, <2>3, <2>4, <2>5, <2>6 DEF IInv
<1>4. CASE /\ fp' = [fp EXCEPT !.open = FALSE]
           /\ usage' = NoFile
           /\ trg' = [trg EXCEPT !.state = CASE trg.nextState = "Done"    -> "Done"
                                              [] trg.nextState = "Pending" -> "FILEopen"
                                              [] OTHER                     -> "FILEgetsize"]
           /\ UNCHANGED <<log, disk, header, bad, errs, trap>>
  <2>1. UNCHANGED <<logState, csTotal, rawLeft, holder, disk, header, bad, errs, trap>>
    BY <1>4 DEF log
  <2>2. /\ trg' \in TrgType /\ trg'.nextState = trg.nextState /\ trg'.stcd = trg.stcd /\ trg'.uri = trg.uri
        /\ trg'.csProcessed = trg.csProcessed /\ trg'.csEOF = trg.csEOF
        /\ \/ trg.nextState = "Done" /\ trg'.state = "Done"
           \/ trg.nextState = "Pending" /\ trg'.state = "FILEopen"
           \/ trg.nextState = "Running" /\ trg'.state = "FILEgetsize"
    <3>1. CASE trg.nextState = "Done"
      BY <1>2, <1>4, <3>1 DEF TrgType, TrgStates
    <3>2. CASE trg.nextState = "Pending"
      BY <1>2, <1>4, <3>2 DEF TrgType, TrgStates
    <3>3. CASE trg.nextState = "Running"
      BY <1>2, <1>4, <3>3 DEF TrgType, TrgStates
    <3> QED BY <1>1, <3>1, <3>2, <3>3
  <2>3. fp' \in FpType /\ ~fp'.open
    BY <1>4 DEF IInv, Types, FpType
  <2>4. /\ Stored' = Stored /\ Writing' = Writing /\ (Writing <=> trg.nextState = "Running")
    BY <1>1, <1>2, <2>2 DEF Stored, Writing
  <2>5. trg.nextState = "Running" => trg.csProcessed = trg.csEOF /\ trg.uri < trg.csEOF
    BY <1>1, <2>4 DEF IInv, RangeInv
  <2>6. Types'
    BY <1>4, <2>1, <2>2, <2>3 DEF IInv, Types
  <2>7. Shape' /\ RangeInv' /\ BatchInRing'
    BY <1>2, <2>1, <2>2, <2>4, <2>5 DEF Shape, RangeInv, BatchInRing
  <2>8. CardInv'
    <3>1. CASE Writing
      <4>1. usage = trg.uri /\ Newest(usage) /\ Abut
        BY <1>1, <3>1 DEF IInv, CardInv, InFile
      <4>2. \A m \in DOMAIN disk : m < trg.csProcessed
        <5>1. DOMAIN disk \subseteq Nat /\ usage < trg.csProcessed /\ usage \in Nat
          BY <1>2, <2>4, <2>5, <3>1, <4>1 DEF IInv, Types
        <5>2. \A m \in DOMAIN disk : m <= usage
          BY <4>1 DEF Newest
        <5> QED BY <1>2, <5>1, <5>2
      <4>3. ~InFile'
        BY <2>2, <2>4, <3>1 DEF InFile
      <4>4. PICK n \in DOMAIN disk : Newest(n) /\ n + disk[n] = Stored
        BY DEF IInv, CardInv
      <4>5. Newest(n)' /\ n + disk'[n] = Stored' /\ n \in DOMAIN disk'
        BY <2>1, <2>4, <4>4 DEF Newest
      <4>6. Abut'
        BY <2>1, <4>1 DEF Abut
      <4>7. \A m \in DOMAIN disk' : m < trg'.csProcessed
        BY <2>1, <2>2, <4>2
      <4> QED BY <4>3, <4>5, <4>6, <4>7 DEF CardInv
    <3>2. CASE ~Writing
      <4>1. CardInv
        BY DEF IInv
      <4> QED BY <2>1, <2>4, <3>2, <4>1, CardKeeps
    <3> QED BY <3>1, <3>2
  <2>9. HeaderInv'
    <3>1. Complete => Complete'
      BY <2>1, <2>2, CompleteStays
    <3>2. HeaderInv
      BY DEF IInv
    <3>3. header # FirstHeader => trg'.state = "Done"
      BY <1>1, <2>2, NoHeaderYet, <3>2
    <3>4. header = FirstHeader /\ Closing' => trg'.stcd = "STCDError"
      BY <1>1, <2>2, <3>2 DEF HeaderInv, Closing
    <3>5. header # FirstHeader => Closing'
      BY <3>3 DEF Closing
    <3> QED BY <1>2, <2>1, <2>2, <2>4, <3>1, <3>2, <3>4, <3>5 DEF HeaderInv
  <2>10. FileInv'
    BY <1>1, <1>4, <2>1, <2>2, <2>3 DEF IInv, FileInv, NoBad
  <2> QED BY <2>6, <2>7, <2>8, <2>9, <2>10 DEF IInv
<1> QED BY <1>1, <1>3, <1>4 DEF CloseFile

LEMMA GetSizeInv ==
  ASSUME IInv, trap = "none", GetSize
  PROVE  IInv'
<1>1. /\ trg.state = "FILEgetsize" /\ trg.nextState = "Running" /\ Writing /\ ~InFile
      /\ NoBad /\ ~fp.open /\ usage = NoFile /\ header = FirstHeader
  <2>1. trg.state = "FILEgetsize" /\ trg.nextState = "Running"
    BY DEF IInv, GetSize, Shape
  <2>2. NoBad /\ ~fp.open /\ usage = NoFile
    BY <2>1 DEF IInv, FileInv
  <2> QED BY <2>1, <2>2, NoHeaderYet DEF IInv, Writing, InFile
<1>2. /\ trg \in TrgType /\ csTotal \in Nat /\ trg.csProcessed \in Nat /\ trg.csEOF \in Nat /\ trg.uri \in Nat
      /\ trg.csProcessed <= csTotal /\ trg.csProcessed = trg.csEOF /\ Stored = trg.csProcessed
      /\ csTotal % CActiveCh = 0
  BY <1>1, Numbers DEF IInv, RangeInv, HeaderInv, Stored
<1>3. UNCHANGED <<logState, csTotal, rawLeft, holder, fp, usage, disk, header, trap>>
  BY DEF GetSize, log
<1> DEFINE next(free) == IF free < CActiveCh THEN [trg EXCEPT !.state = "Finishing"]
                         ELSE NextFile(trg, FileSize(free))
<1>4. PICK free \in FreeSizes :
        /\ \/ trg' = next(free) /\ UNCHANGED errs
           \/ Fails("getfree") /\ trg' = OnError(next(free))
        /\ bad' = IF free < CActiveCh THEN bad \cup {"full"} ELSE bad
  BY DEF GetSize
<1>5. /\ next(free) \in TrgType /\ next(free).nextState = "Running"
      /\ next(free).csProcessed = trg.csProcessed
      /\ \/ free < CActiveCh /\ next(free).state = "Finishing"
         \/ /\ ~(free < CActiveCh) /\ next(free).state = "FILEopen"
            /\ next(free).uri = trg.csProcessed /\ next(free).csEOF > trg.csEOF
  <2>1. CASE free < CActiveCh
    BY <1>1, <1>2, <2>1 DEF TrgType, TrgStates
  <2>2. CASE ~(free < CActiveCh)
    <3>1. FileSize(free) \in Nat /\ FileSize(free) > 0
      BY <2>2, FileSizeIs, Bounds
    <3>2. next(free) = [trg EXCEPT !.uri = trg.csEOF, !.csEOF = trg.csEOF + FileSize(free), !.state = "FILEopen"]
      BY <2>2 DEF NextFile
    <3>3. trg.csEOF + FileSize(free) \in Nat /\ trg.csEOF + FileSize(free) > trg.csEOF
      BY <1>2, <3>1
    <3> HIDE DEF next
    <3> QED BY <1>1, <1>2, <2>2, <3>2, <3>3 DEF TrgType, TrgStates
  <2> QED BY <2>1, <2>2
<1> HIDE DEF next
<1>6. bad' \subseteq {"overwritten", "full", "not opened", "not closed"} /\ NoBad' /\ bad \subseteq bad'
      /\ (free < CActiveCh => "full" \in bad')
  BY <1>1, <1>4 DEF IInv, Types, NoBad
<1>7. errs' \in 0 .. MaxErr
  BY <1>4, ErrsCounted DEF IInv, Types
\* The card is full, or cannot tell.
<1>8. ASSUME trg' \in TrgType, trg'.state = "Finishing", trg'.nextState = "Running",
             trg'.csProcessed = trg.csProcessed, trg'.stcd = "STCDNormal" => "full" \in bad'
      PROVE  IInv'
  <2>1. ~Writing' /\ Stored' = trg.csProcessed
    BY <1>2, <1>8 DEF Writing, Stored
  <2>2. Types'
    BY <1>3, <1>6, <1>7, <1>8 DEF IInv, Types
  <2>3. CardInv'
    <3>1. CardInv
      BY DEF IInv
    <3> QED BY <1>2, <1>3, <2>1, <3>1, CardKeeps
  <2>4. Shape' /\ RangeInv' /\ BatchInRing'
    BY <1>2, <1>3, <1>8, <2>1 DEF Shape, RangeInv, BatchInRing
  <2>5. HeaderInv'
    BY <1>1, <1>2, <1>3, <1>8 DEF HeaderInv, Closing, Complete
  <2>6. FileInv'
    BY <1>1, <1>3, <1>6, <1>8 DEF IInv, FileInv
  <2> QED BY <2>2, <2>3, <2>4, <2>5, <2>6 DEF IInv
<1>9. CASE trg' = next(free) /\ ~(free < CActiveCh)
  <2>1. /\ trg' \in TrgType /\ trg'.state = "FILEopen" /\ trg'.nextState = "Running" /\ trg'.uri = trg.csProcessed
        /\ trg'.csProcessed = trg.csProcessed /\ trg'.csEOF > trg.csEOF /\ trg'.csEOF \in Nat
    BY <1>5, <1>9 DEF TrgType
  <2>2. Writing' /\ ~InFile' /\ Stored' = trg.csProcessed
    BY <1>2, <2>1 DEF Writing, InFile, Stored
  <2>3. Types'
    BY <1>3, <1>6, <1>7, <2>1 DEF IInv, Types
  <2>4. CardInv'
    <3>1. CardInv
      BY DEF IInv
    <3> QED BY <1>1, <1>2, <1>3, <2>1, <2>2, <3>1, CardGoesOn
  <2>5. Shape' /\ RangeInv' /\ BatchInRing'
    BY <1>2, <1>3, <2>1, <2>2 DEF Shape, RangeInv, BatchInRing
  <2>6. HeaderInv'
    BY <1>1, <1>2, <1>3, <2>1, <2>2 DEF HeaderInv, Closing
  <2>7. FileInv'
    BY <1>1, <1>3, <1>6, <2>1 DEF IInv, FileInv
  <2> QED BY <2>3, <2>4, <2>5, <2>6, <2>7 DEF IInv
<1>10. CASE trg' = next(free) /\ free < CActiveCh
  BY <1>5, <1>6, <1>8, <1>10
<1>11. CASE trg' = OnError(next(free))
  <2>1. /\ trg' \in TrgType /\ trg'.stcd = "STCDError" /\ trg'.csProcessed = trg.csProcessed
        /\ trg'.state = "Finishing" /\ trg'.nextState = "Running"
    BY <1>5, <1>11, OnErrorIs
  <2> QED BY <1>8, <2>1
<1> QED BY <1>4, <1>9, <1>10, <1>11

\* A target that does not write the log, and leaves the card alone.
LEMMA NotWriting ==
  ASSUME IInv, UNCHANGED <<csTotal, disk>>, trg' \in TrgType, trg'.csProcessed = trg.csProcessed,
         trg.state # "FILEwrite", ~Writing', trg'.state = "FILEwrite" => trg'.nextState = "Done"
  PROVE  CardInv' /\ RangeInv' /\ BatchInRing' /\ Stored' = Stored
<1>1. trg.csProcessed \in Nat /\ trg.csProcessed <= csTotal
  BY Numbers DEF IInv, RangeInv
<1>2. Stored' = Stored
  BY <1>1 DEF Stored
<1>3. CardInv'
  <2>1. CardInv
    BY DEF IInv
  <2> QED BY <1>2, <2>1, CardKeeps
<1>4. RangeInv' /\ BatchInRing'
  BY <1>1 DEF RangeInv, BatchInRing
<1> QED BY <1>2, <1>3, <1>4

LEMMA TakeNameInv ==
  ASSUME IInv, trap = "none", TakeName
  PROVE  IInv'
<1>1. /\ trg.state = "FILEopen" /\ trg.nextState \in {"Running", "Pending"} /\ ~InFile /\ ~fp.open
      /\ (Writing <=> trg.nextState = "Running") /\ header = FirstHeader
  <2>1. trg.state = "FILEopen" /\ trg.nextState \in {"Running", "Pending"}
    BY DEF IInv, TakeName, Shape
  <2>2. ~fp.open
    BY <2>1 DEF IInv, FileInv
  <2> QED BY <2>1, <2>2, NoHeaderYet DEF IInv, Writing, InFile
<1>2. /\ trg \in TrgType /\ csTotal \in Nat /\ trg.csProcessed \in Nat /\ trg.csEOF \in Nat /\ trg.uri \in Nat
      /\ trg.csProcessed <= csTotal /\ Stored = trg.csProcessed /\ csTotal % CActiveCh = 0
  BY <1>1, Numbers DEF IInv, RangeInv, HeaderInv, Stored
\* There is a name in fileTask still: a file could not be closed.
<1>3. CASE usage # NoFile
  <2>1. trap' = "path still set" /\ UNCHANGED <<logState, csTotal, rawLeft, holder, trg, fp, usage, disk, header, bad, errs>>
    BY <1>3 DEF TakeName, FailedAssert, log
  <2>2. ~NoBad
    BY <1>1, <1>3 DEF IInv, FileInv
  <2>3. Types'
    BY <2>1 DEF IInv, Types, Traps
  <2>4. Shape' /\ RangeInv' /\ BatchInRing' /\ HeaderInv'
    BY <2>1 DEF IInv, Shape, RangeInv, BatchInRing, HeaderInv, Closing, Writing, Complete
  <2>5. CardInv'
    BY <2>1 DEF IInv, CardInv, Newest, Abut, Stored, Writing, InFile
  <2>6. FileInv'
    BY <2>1, <2>2 DEF FileInv, NoBad
  <2> QED BY <2>3, <2>4, <2>5, <2>6 DEF IInv
\* Someone else reads this file.
<1>4. CASE usage = NoFile /\ holder = trg.uri
  <2>1. trg' = OnError(trg) /\ UNCHANGED <<logState, csTotal, rawLeft, holder, usage, fp, disk, header, bad, errs, trap>>
    BY <1>4 DEF TakeName, log
  <2>2. /\ trg' \in TrgType /\ trg'.stcd = "STCDError" /\ trg'.csProcessed = trg.csProcessed
        /\ \/ trg'.state = "Finishing" /\ trg'.nextState = "Running"
           \/ trg'.state = "Done" /\ trg'.nextState = "Pending"
    BY <1>1, <1>2, <2>1, OnErrorIs
  <2>3. ~Writing'
    BY <2>2 DEF Writing
  <2>4. CardInv' /\ RangeInv' /\ BatchInRing'
    BY <1>1, <2>1, <2>2, <2>3, NotWriting
  <2>5. Types' /\ Shape'
    BY <2>1, <2>2 DEF IInv, Types, Shape
  <2>6. HeaderInv'
    BY <1>1, <1>2, <2>1, <2>2 DEF HeaderInv
  <2>7. FileInv'
    BY <1>1, <1>4, <2>1, <2>2 DEF IInv, FileInv, NoBad
  <2> QED BY <2>4, <2>5, <2>6, <2>7 DEF IInv
<1>5. CASE usage = NoFile /\ holder # trg.uri
  <2>1. usage' = trg.uri /\ trg' = [trg EXCEPT !.state = "FILEopening"]
        /\ UNCHANGED <<logState, csTotal, rawLeft, holder, fp, disk, header, bad, errs, trap>>
    BY <1>5 DEF TakeName, log
  <2>2. /\ trg' \in TrgType /\ trg'.state = "FILEopening" /\ trg'.nextState = trg.nextState
        /\ trg'.csProcessed = trg.csProcessed /\ trg'.uri = trg.uri /\ trg'.csEOF = trg.csEOF
        /\ trg'.stcd = trg.stcd
    BY <1>2, <2>1 DEF TrgType, TrgStates
  <2>3. (Writing' <=> Writing) /\ ~InFile' /\ Stored' = Stored
    BY <1>1, <1>2, <2>2 DEF Writing, InFile, Stored
  <2>4. Types' /\ Shape'
    BY <1>1, <1>2, <2>1, <2>2 DEF IInv, Types, Shape
  <2>5. CardInv'
    <3>1. CardInv
      BY DEF IInv
    <3> QED BY <1>1, <2>1, <2>2, <2>3, <3>1, CardKeeps, CardGoesOn
  <2>6. RangeInv' /\ BatchInRing'
    <3>1. RangeInv
      BY DEF IInv
    <3> QED BY <1>1, <2>1, <2>2, <2>3, <3>1 DEF RangeInv, BatchInRing
  <2>7. HeaderInv'
    <3>1. HeaderInv /\ (Complete => Complete')
      BY <2>1, <2>2, CompleteStays DEF IInv
    <3> QED BY <1>1, <2>1, <2>2, <2>3, <3>1 DEF HeaderInv, Closing
  <2>8. FileInv'
    BY <1>1, <1>2, <1>5, <2>1, <2>2 DEF IInv, FileInv, NoBad
  <2> QED BY <2>4, <2>5, <2>6, <2>7, <2>8 DEF IInv
<1> QED BY <1>3, <1>4, <1>5

LEMMA OpenFileInv ==
  ASSUME IInv, trap = "none", OpenFile
  PROVE  IInv'
<1>1. /\ trg.state = "FILEopening" /\ trg.nextState \in {"Running", "Pending"} /\ ~InFile /\ ~fp.open
      /\ (Writing <=> trg.nextState = "Running") /\ header = FirstHeader /\ NoBad /\ usage = trg.uri
  <2>1. trg.state = "FILEopening" /\ trg.nextState \in {"Running", "Pending"}
    BY DEF IInv, OpenFile, Shape
  <2>2. NoBad /\ ~fp.open /\ usage = trg.uri
    BY <2>1 DEF IInv, FileInv
  <2> QED BY <2>1, <2>2, NoHeaderYet DEF IInv, Writing, InFile
<1>2. /\ trg \in TrgType /\ csTotal \in Nat /\ trg.csProcessed \in Nat /\ trg.csEOF \in Nat /\ trg.uri \in Nat
      /\ trg.csProcessed <= csTotal /\ Stored = trg.csProcessed /\ csTotal % CActiveCh = 0
  BY <1>1, Numbers DEF IInv, RangeInv, HeaderInv, Stored
<1>3. UNCHANGED <<logState, csTotal, rawLeft, holder, usage, header, trap>>
  BY DEF OpenFile, log
<1>4. CASE /\ fp' = [open |-> TRUE, err |-> FALSE, pos |-> "data"]
           /\ disk' = IF trg.nextState = "Pending" THEN disk
                      ELSE [n \in DOMAIN disk \cup {trg.uri} |-> IF n = trg.uri THEN 0 ELSE disk[n]]
           /\ trg' = [trg EXCEPT !.state = "FILEseek"]
           /\ UNCHANGED <<errs, bad>>
  <2>1. /\ trg' \in TrgType /\ trg'.state = "FILEseek" /\ trg'.nextState = trg.nextState
        /\ trg'.csProcessed = trg.csProcessed /\ trg'.uri = trg.uri /\ trg'.csEOF = trg.csEOF
        /\ trg'.stcd = trg.stcd
    BY <1>2, <1>4 DEF TrgType, TrgStates
  <2>2. (Writing' <=> Writing) /\ InFile' /\ Stored' = Stored
    BY <1>1, <1>2, <2>1 DEF Writing, InFile, Stored
  <2>3. fp' \in FpType /\ fp'.open
    BY <1>4 DEF FpType
  <2>4. ASSUME trg.nextState = "Pending"
        PROVE  /\ CardInv' /\ RangeInv' /\ BatchInRing'
               /\ DOMAIN disk' \subseteq Nat /\ disk' \in [DOMAIN disk' -> Nat]
    <3>1. disk' = disk /\ ~Writing'
      BY <1>1, <1>4, <2>2, <2>4
    <3>2. CardInv' /\ RangeInv' /\ BatchInRing'
      BY <1>1, <1>3, <2>1, <3>1, NotWriting
    <3>3. DOMAIN disk' \subseteq Nat /\ disk' \in [DOMAIN disk' -> Nat]
      BY <3>1 DEF IInv, Types
    <3> QED BY <3>2, <3>3
  \* The new file starts where the newest one ends.
  <2>5. ASSUME trg.nextState = "Running"
        PROVE  /\ CardInv' /\ RangeInv' /\ BatchInRing'
               /\ DOMAIN disk' \subseteq Nat /\ disk' \in [DOMAIN disk' -> Nat]
    <3>1. disk' = [n \in DOMAIN disk \cup {trg.uri} |-> IF n = trg.uri THEN 0 ELSE disk[n]]
      BY <1>4, <2>5
    <3>2. DOMAIN disk' = DOMAIN disk \cup {trg.uri} /\ disk'[trg.uri] = 0
          /\ \A m \in DOMAIN disk : m # trg.uri => disk'[m] = disk[m]
      BY <3>1
    <3>3. DOMAIN disk \subseteq Nat /\ \A m \in DOMAIN disk : disk[m] \in Nat
      BY DEF IInv, Types
    <3>4. DOMAIN disk' \subseteq Nat /\ disk' \in [DOMAIN disk' -> Nat]
      <4>1. \A m \in DOMAIN disk' : disk'[m] \in Nat
        BY <3>2, <3>3
      <4>2. disk' = [m \in DOMAIN disk' |-> disk'[m]]
        BY <3>1
      <4> QED BY <1>2, <3>2, <3>3, <4>1, <4>2
    <3>5. /\ trg.uri = trg.csProcessed /\ trg.csProcessed <= trg.csEOF /\ trg.uri < trg.csEOF
          /\ \A m \in DOMAIN disk : m < trg.uri
      <4>1. RangeInv /\ CardInv
        BY DEF IInv
      <4> QED BY <1>1, <2>5, <4>1 DEF RangeInv, CardInv
    <3>6. PICK n \in DOMAIN disk : Newest(n) /\ n + disk[n] = trg.uri
      BY <1>2, <3>5 DEF IInv, CardInv
    <3>7. n \in Nat /\ n < trg.uri /\ disk'[n] = disk[n]
      <4>1. n \in Nat /\ n < trg.uri
        BY <3>3, <3>5
      <4> QED BY <1>2, <3>2, <4>1
    <3>8. usage' = trg'.uri /\ usage' \in DOMAIN disk' /\ \A m \in DOMAIN disk' : m <= usage'
      <4>1. \A m \in DOMAIN disk' : m <= trg.uri
        BY <1>2, <3>2, <3>3, <3>5
      <4> QED BY <1>1, <1>3, <2>1, <3>2, <4>1
    <3>9. Abut'
      <4>1. ASSUME NEW m \in DOMAIN disk' \ {0}
            PROVE  \E p \in DOMAIN disk' : p < m /\ p + disk'[p] = m
        <5>1. CASE m = trg.uri
          BY <3>2, <3>6, <3>7, <5>1
        <5>2. CASE m # trg.uri
          <6>1. m \in DOMAIN disk \ {0}
            BY <3>2, <4>1, <5>2
          <6>2. PICK p \in DOMAIN disk : p < m /\ p + disk[p] = m
            BY <6>1 DEF IInv, CardInv, Abut
          <6>3. p # trg.uri
            <7>1. p \in Nat /\ p < trg.uri
              BY <3>3, <3>5
            <7> QED BY <1>2, <7>1
          <6> QED BY <3>2, <6>2, <6>3
        <5> QED BY <5>1, <5>2
      <4> QED BY <4>1 DEF Abut
    <3>10. CardInv'
      <4>1. Newest(usage)'
        BY <3>8 DEF Newest
      <4>2. usage' + disk'[usage'] = Stored'
        BY <1>2, <2>1, <2>2, <3>2, <3>5, <3>8
      <4>3. \E f \in DOMAIN disk' : Newest(f)' /\ f + disk'[f] = Stored'
        BY <3>8, <4>2 DEF Newest
      <4> QED BY <2>2, <3>8, <3>9, <4>1, <4>3 DEF CardInv
    <3>11. RangeInv' /\ BatchInRing'
      BY <1>2, <1>3, <2>1, <3>5 DEF RangeInv, BatchInRing
    <3> QED BY <3>4, <3>10, <3>11
  <2>6. Types' /\ Shape'
    <3>1. DOMAIN disk' \subseteq Nat /\ disk' \in [DOMAIN disk' -> Nat]
      BY <1>1, <2>4, <2>5
    <3> QED BY <1>1, <1>3, <1>4, <2>1, <2>3, <3>1 DEF IInv, Types, Shape
  <2>7. HeaderInv'
    <3>1. HeaderInv /\ (Complete => Complete')
      BY <1>3, <1>4, <2>1, CompleteStays DEF IInv
    <3> QED BY <1>1, <1>3, <2>1, <2>2, <3>1 DEF HeaderInv, Closing
  <2>8. FileInv'
    <3>1. usage' # NoFile
      BY <1>1, <1>2, <1>3 DEF NoFile
    <3>2. NoBad' /\ trap' = "none"
      BY <1>1, <1>3, <1>4 DEF NoBad
    <3> QED BY <2>1, <2>3, <3>1, <3>2 DEF FileInv
  <2> QED BY <1>1, <2>4, <2>5, <2>6, <2>7, <2>8 DEF IInv
<1>5. CASE /\ Fails("open")
           /\ trg' = OnError(trg) /\ bad' = bad \cup {"not opened"}
           /\ UNCHANGED <<fp, disk>>
  <2>1. /\ trg' \in TrgType /\ trg'.stcd = "STCDError" /\ trg'.csProcessed = trg.csProcessed
        /\ \/ trg'.state = "Finishing" /\ trg'.nextState = "Running"
           \/ trg'.state = "Done" /\ trg'.nextState = "Pending"
    BY <1>1, <1>2, <1>5, OnErrorIs
  <2>2. ~Writing'
    BY <2>1 DEF Writing
  <2>3. CardInv' /\ RangeInv' /\ BatchInRing'
    BY <1>1, <1>3, <1>5, <2>1, <2>2, NotWriting
  <2>4. Types' /\ Shape'
    <3>1. errs' \in 0 .. MaxErr
      BY <1>5, ErrsCounted DEF IInv
    <3> QED BY <1>3, <1>5, <2>1, <3>1 DEF IInv, Types, Shape
  <2>5. HeaderInv'
    BY <1>1, <1>2, <1>3, <2>1 DEF HeaderInv
  <2>6. FileInv'
    <3>1. usage' # NoFile
      BY <1>1, <1>2, <1>3 DEF NoFile
    <3>2. ~NoBad' /\ ~fp'.open
      BY <1>1, <1>5 DEF NoBad
    <3> QED BY <2>1, <3>1, <3>2 DEF FileInv
  <2> QED BY <2>3, <2>4, <2>5, <2>6 DEF IInv
<1> QED BY <1>4, <1>5 DEF OpenFile

LEMMA SeekInv ==
  ASSUME IInv, trap = "none", Seek
  PROVE  IInv'
<1>1. /\ trg.state = "FILEseek" /\ trg.nextState \in {"Running", "Pending"} /\ InFile
      /\ (Writing <=> trg.nextState = "Running") /\ header = FirstHeader
      /\ NoBad /\ fp.open /\ usage # NoFile
  BY FileIsOpen, NoHeaderYet DEF IInv, Seek, Shape, Writing, InFile
<1>2. /\ trg \in TrgType /\ csTotal \in Nat /\ trg.csProcessed \in Nat /\ trg.csEOF \in Nat /\ trg.uri \in Nat
      /\ trg.csProcessed <= csTotal /\ Stored = trg.csProcessed /\ csTotal % CActiveCh = 0
  BY <1>1, Numbers DEF IInv, RangeInv, HeaderInv, Stored
<1>3. UNCHANGED <<logState, csTotal, rawLeft, holder, usage, disk, header, bad, trap>>
  BY DEF Seek, log
<1>4. fp' \in FpType /\ fp'.open
  <2>1. fp \in FpType
    BY DEF IInv, Types
  <2>2. CASE fp' = fp
    BY <1>1, <2>1, <2>2
  <2>3. CASE fp' = [fp EXCEPT !.err = TRUE]
    BY <1>1, <2>1, <2>3 DEF FpType
  <2>4. CASE \E p \in {"data", "header"} : fp' = [fp EXCEPT !.pos = p]
    BY <1>1, <2>1, <2>4 DEF FpType
  <2> QED BY <2>2, <2>3, <2>4 DEF Seek
<1>5. errs' \in 0 .. MaxErr
  <2>1. errs' = errs \/ Fails("seek")
    BY DEF Seek
  <2> QED BY <2>1, ErrsCounted DEF IInv, Types
<1>6. NoBad' /\ usage' # NoFile /\ trap' = "none"
  BY <1>1, <1>3 DEF NoBad
<1>7. CASE trg' = [trg EXCEPT !.state = trg.nextState]
  <2>1. /\ trg' \in TrgType /\ trg'.state = trg.nextState /\ trg'.nextState = trg.nextState
        /\ trg'.csProcessed = trg.csProcessed /\ trg'.uri = trg.uri /\ trg'.csEOF = trg.csEOF
        /\ trg'.stcd = trg.stcd
    BY <1>1, <1>2, <1>7 DEF TrgType, TrgStates
  <2>2. (Writing' <=> Writing) /\ Stored' = Stored /\ InFile' = (trg.nextState = "Running")
    BY <1>1, <1>2, <2>1 DEF Writing, InFile, Stored
  <2>3. Types' /\ Shape'
    BY <1>1, <1>3, <1>4, <1>5, <2>1 DEF IInv, Types, Shape
  <2>4. CardInv'
    <3>1. CardInv
      BY DEF IInv
    <3> QED BY <1>1, <1>3, <2>1, <2>2, <3>1, CardKeeps, CardGoesOn
  <2>5. RangeInv' /\ BatchInRing'
    <3>1. RangeInv
      BY DEF IInv
    <3> QED BY <1>1, <1>3, <2>1, <2>2, <3>1 DEF RangeInv, BatchInRing
  <2>6. HeaderInv'
    <3>1. HeaderInv /\ (Complete => Complete')
      BY <1>3, <2>1, CompleteStays DEF IInv
    <3> QED BY <1>1, <1>3, <2>1, <2>2, <3>1 DEF HeaderInv, Closing
  <2>7. FileInv'
    BY <1>1, <1>4, <1>6, <2>1 DEF FileInv
  <2> QED BY <2>3, <2>4, <2>5, <2>6, <2>7 DEF IInv
<1>8. CASE trg' = OnError(trg)
  <2>1. /\ trg' \in TrgType /\ trg'.stcd = "STCDError" /\ trg'.csProcessed = trg.csProcessed
        /\ \/ trg'.state = "Finishing" /\ trg'.nextState = "Running"
           \/ trg'.state = "FILEclose" /\ trg'.nextState = "Done"
    BY <1>1, <1>2, <1>8, OnErrorIs
  <2>2. ~Writing'
    BY <2>1 DEF Writing
  <2>3. CardInv' /\ RangeInv' /\ BatchInRing'
    BY <1>1, <1>3, <2>1, <2>2, NotWriting
  <2>4. Types' /\ Shape'
    BY <1>3, <1>4, <1>5, <2>1 DEF IInv, Types, Shape
  <2>5. HeaderInv'
    BY <1>1, <1>2, <1>3, <2>1 DEF HeaderInv
  <2>6. FileInv'
    BY <1>4, <1>6, <2>1 DEF FileInv
  <2> QED BY <2>3, <2>4, <2>5, <2>6 DEF IInv
<1> QED BY <1>7, <1>8 DEF Seek

LEMMA FinishingInv ==
  ASSUME IInv, trap = "none", TrgFinishing
  PROVE  IInv'
<1>1. /\ trg.state = "Finishing" /\ ~Writing /\ header = FirstHeader
  BY NoHeaderYet DEF IInv, TrgFinishing, Writing
<1>2. /\ trg \in TrgType /\ csTotal % CActiveCh = 0
      /\ UNCHANGED <<logState, csTotal, rawLeft, holder, fp, usage, disk, header, bad, errs, trap>>
  BY Numbers DEF IInv, HeaderInv, TrgFinishing, log
<1>3. /\ \/ ToHeader(trg) = "FILEopen" /\ ~fp.open
         \/ ToHeader(trg) \in {"FILEseek", "FILEclose"} /\ fp.open
  BY DEF ToHeader
<1>4. /\ trg' \in TrgType /\ trg'.state = ToHeader(trg) /\ trg'.nextState = "Pending"
      /\ trg'.csProcessed = trg.csProcessed /\ trg'.stcd = trg.stcd
  BY <1>2, <1>3 DEF TrgFinishing, TrgType, TrgStates
<1>5. ~Writing' /\ trg'.state \in {"FILEopen", "FILEseek", "FILEclose"}
  BY <1>3, <1>4 DEF Writing
<1>6. CardInv' /\ RangeInv' /\ BatchInRing'
  BY <1>1, <1>2, <1>4, <1>5, NotWriting
<1>7. Types' /\ Shape'
  BY <1>2, <1>4, <1>5 DEF IInv, Types, Shape
<1>8. HeaderInv'
  <2>1. HeaderInv /\ (Complete => Complete')
    BY <1>2, <1>4, CompleteStays DEF IInv
  <2> QED BY <1>1, <1>2, <1>4, <1>5, <2>1 DEF HeaderInv, Closing
<1>9. FileInv'
  <2>1. FileInv
    BY DEF IInv
  <2>2. CASE ~fp.open
    BY <1>1, <1>2, <1>3, <1>4, <2>1, <2>2 DEF FileInv, NoBad
  <2>3. CASE fp.open
    BY <1>1, <1>2, <1>3, <1>4, <2>1, <2>3 DEF FileInv, NoBad
  <2> QED BY <2>2, <2>3
<1> QED BY <1>6, <1>7, <1>8, <1>9 DEF IInv

LEMMA PendingInv ==
  ASSUME IInv, trap = "none", TrgPending
  PROVE  IInv'
<1>1. /\ trg.state = "Pending" /\ ~Writing /\ header = FirstHeader
      /\ NoBad /\ fp.open /\ usage # NoFile
  BY FileIsOpen, NoHeaderYet DEF IInv, TrgPending, Writing, Shape
<1>2. /\ trg \in TrgType /\ csTotal % CActiveCh = 0 /\ trg.csProcessed \in Nat
      /\ UNCHANGED <<logState, csTotal, rawLeft, holder, fp, usage, disk, header, bad, errs, trap>>
      /\ trg' = [trg EXCEPT !.state = "FILEwrite", !.nextState = "Done", !.cs = ActualCount, !.csWritten = 0]
  BY Numbers DEF IInv, HeaderInv, TrgPending, log
<1>3. ActualCount \in Nat
  BY <1>2, DivMod, Bounds DEF ActualCount
<1>4. /\ trg' \in TrgType /\ trg'.state = "FILEwrite" /\ trg'.nextState = "Done"
      /\ trg'.csProcessed = trg.csProcessed /\ trg'.stcd = trg.stcd /\ trg'.cs = ActualCount
  BY <1>2, <1>3 DEF TrgType, TrgStates
<1>5. ~Writing'
  BY <1>4 DEF Writing
<1>6. CardInv' /\ RangeInv' /\ BatchInRing'
  BY <1>1, <1>2, <1>4, <1>5, NotWriting
<1>7. Types' /\ Shape'
  BY <1>2, <1>4 DEF IInv, Types, Shape
<1>8. HeaderInv'
  <2>1. HeaderInv /\ (Complete => Complete')
    BY <1>2, <1>4, CompleteStays DEF IInv
  <2>2. trg'.cs = trg'.csProcessed \div CActiveCh
    BY <1>4 DEF ActualCount
  <2> QED BY <1>1, <1>2, <1>4, <1>5, <2>1, <2>2 DEF HeaderInv, Closing
<1>9. FileInv'
  BY <1>1, <1>2, <1>4 DEF IInv, FileInv, NoBad
<1> QED BY <1>6, <1>7, <1>8, <1>9 DEF IInv

LEMMA DoneInv ==
  ASSUME IInv, trap = "none", TrgDone
  PROVE  IInv'
<1>1. /\ trg.state = "Done" /\ trg.nextState \in {"Pending", "Done"} /\ ~Writing /\ ~fp.open
  <2>1. trg.state = "Done" /\ trg.nextState \in {"Pending", "Done"}
    BY DEF IInv, TrgDone, Shape
  <2> QED BY <2>1 DEF IInv, FileInv, Writing
<1>2. CASE usage # NoFile
  <2>1. trap' = "path still set" /\ UNCHANGED <<logState, csTotal, rawLeft, holder, trg, fp, usage, disk, header, bad, errs>>
    BY <1>1, <1>2 DEF TrgDone, FailedAssert, log
  <2>2. ~NoBad
    BY <1>1, <1>2 DEF IInv, FileInv
  <2>3. Types'
    BY <2>1 DEF IInv, Types, Traps
  <2>4. Shape' /\ RangeInv' /\ BatchInRing' /\ HeaderInv'
    BY <2>1 DEF IInv, Shape, RangeInv, BatchInRing, HeaderInv, Closing, Writing, Complete
  <2>5. CardInv'
    BY <2>1 DEF IInv, CardInv, Newest, Abut, Stored, Writing, InFile
  <2>6. FileInv'
    BY <2>1, <2>2 DEF FileInv, NoBad
  <2> QED BY <2>3, <2>4, <2>5, <2>6 DEF IInv
<1>3. CASE usage = NoFile
  <2>1. /\ UNCHANGED <<logState, csTotal, rawLeft, holder, fp, usage, disk, header, bad, errs, trap>>
        /\ trg' = [trg EXCEPT !.state = "Idle"]
    BY <1>1, <1>3 DEF TrgDone, log
  <2>2. /\ trg \in TrgType /\ trg' \in TrgType /\ trg'.state = "Idle" /\ trg'.nextState = trg.nextState
        /\ trg'.csProcessed = trg.csProcessed /\ trg'.stcd = trg.stcd
    BY <2>1, Numbers DEF TrgType, TrgStates
  <2>3. ~Writing'
    BY <1>1, <2>2 DEF Writing
  <2>4. CardInv' /\ RangeInv' /\ BatchInRing'
    BY <1>1, <2>1, <2>2, <2>3, NotWriting
  <2>5. Types' /\ Shape'
    BY <1>1, <2>1, <2>2 DEF IInv, Types, Shape
  <2>6. HeaderInv'
    <3>1. HeaderInv /\ (Complete => Complete')
      BY <2>1, <2>2, CompleteStays DEF IInv
    <3> QED BY <1>1, <2>1, <2>2, <3>1 DEF HeaderInv, Closing
  <2>7. FileInv'
    BY <1>1, <1>3, <2>1, <2>2 DEF IInv, FileInv, NoBad
  <2> QED BY <2>4, <2>5, <2>6, <2>7 DEF IInv
<1> QED BY <1>2, <1>3

LEMMA StoppedInv ==
  ASSUME IInv, trap = "none", LogStopped
  PROVE  IInv'
<1>1. logState' = "Stopped" /\ UNCHANGED <<csTotal, rawLeft, holder, trg, fp, usage, disk, header, bad, errs, trap>>
  BY DEF LogStopped, world
<1>2. Complete => Complete'
  BY <1>1, CompleteStays
<1>3. Types' /\ Shape' /\ RangeInv' /\ BatchInRing'
  BY <1>1 DEF IInv, Types, Shape, RangeInv, BatchInRing, Writing
<1>4. CardInv'
  BY <1>1 DEF IInv, CardInv, Newest, Abut, Stored, Writing, InFile
<1>5. HeaderInv' /\ FileInv'
  BY <1>1, <1>2 DEF IInv, HeaderInv, Closing, FileInv, NoBad, Writing
<1> QED BY <1>3, <1>4, <1>5 DEF IInv

\* Conversion: what is not converted yet keeps the log from being complete.
LEMMA ConvertInv ==
  ASSUME IInv, trap = "none", NEW n \in 1 .. MaxBurst, Convert(n)
  PROVE  IInv' /\ csTotal' \in Nat /\ csTotal' > csTotal
<1>1. UNCHANGED <<holder, trg, fp, usage, disk, header, bad, errs, trap>>
  BY DEF Convert, world
<1> DEFINE cs   == csTotal + n * CActiveCh
           last == CsMax > 0 /\ cs >= CsMax
<1>2. /\ csTotal \in Nat /\ csTotal % CActiveCh = 0 /\ n \in Nat /\ n > 0
      /\ trg.csProcessed <= csTotal /\ trg.csProcessed \in Nat /\ rawLeft \in Nat
  <2>1. n \in Nat /\ n > 0
    BY Bounds
  <2>2. csTotal % CActiveCh = 0 /\ trg.csProcessed <= csTotal /\ rawLeft \in Nat
    BY DEF IInv, HeaderInv, RangeInv, Types
  <2> QED BY <2>1, <2>2, Numbers
<1>3. cs \in Nat /\ cs > csTotal /\ cs % CActiveCh = 0
  <2>1. n * CActiveCh \in Nat /\ n * CActiveCh > 0
    BY <1>2, Bounds
  <2>2. (csTotal + n * CActiveCh) % CActiveCh = 0
    <3>1. csTotal \in Nat /\ n \in Nat /\ CActiveCh \in Nat \ {0} /\ csTotal % CActiveCh = 0
      BY <1>2, Bounds
    <3> QED BY <3>1, WholeScans
  <2> QED BY <1>2, <2>1, <2>2
<1>4. /\ CsMax > 0 => csTotal < CsMax
      /\ csTotal' = IF last THEN CsMax ELSE cs
      /\ logState' = IF last THEN "Finishing" ELSE logState
      /\ \/ logState = "Running" /\ UNCHANGED rawLeft
         \/ logState = "Finishing" /\ n <= rawLeft /\ rawLeft' = IF last THEN 0 ELSE rawLeft - n
  BY DEF Convert
<1> HIDE DEF cs
<1>5. csTotal' \in Nat /\ csTotal' > csTotal /\ csTotal' % CActiveCh = 0
  BY <1>2, <1>3, <1>4, Bounds, SdTargetAssumption
<1>6. logState' \in {"Running", "Finishing", "Stopped"} /\ rawLeft' \in Nat
  BY <1>2, <1>4
<1>7. Complete => Complete'
  BY <1>1, <1>2, <1>4 DEF Complete
<1>8. Types' /\ Shape'
  BY <1>1, <1>5, <1>6 DEF IInv, Types, Shape
<1>9. RangeInv' /\ BatchInRing'
  <2>1. RangeInv /\ BatchInRing /\ trg.cs \in Nat
    BY Numbers DEF IInv
  <2> QED BY <1>1, <1>2, <1>5, <2>1 DEF RangeInv, BatchInRing, Writing
<1>10. CardInv'
  BY <1>1 DEF IInv, CardInv, Newest, Abut, Stored, Writing, InFile
<1>11. HeaderInv' /\ FileInv'
  BY <1>1, <1>5, <1>7 DEF IInv, HeaderInv, Closing, FileInv, NoBad, Writing
<1> QED BY <1>5, <1>8, <1>9, <1>10, <1>11 DEF IInv

LEMMA OthersInv ==
  ASSUME IInv, trap = "none", Stop \/ Hold \/ Release
  PROVE  IInv'
<1>1. UNCHANGED <<csTotal, trg, fp, usage, disk, header, bad, errs, trap>>
  BY DEF Stop, Hold, Release, world
<1>2. logState' \in {"Running", "Finishing", "Stopped"} /\ rawLeft' \in Nat /\ (Complete => Complete')
  <2>1. logState \in {"Running", "Finishing", "Stopped"} /\ rawLeft \in Nat
    BY DEF IInv, Types
  <2>2. CASE Stop
    <3>1. logState = "Running" /\ logState' = "Finishing" /\ rawLeft' \in 0 .. MaxBurst
      BY <2>2 DEF Stop
    <3> QED BY <1>1, <3>1, Bounds DEF Complete
  <2>3. CASE Hold \/ Release
    <3>1. UNCHANGED <<logState, rawLeft>>
      BY <2>3 DEF Hold, Release
    <3> QED BY <1>1, <2>1, <3>1 DEF Complete
  <2> QED BY <2>2, <2>3
<1>3. holder' \in {NoFile} \cup Nat
  BY DEF IInv, Types, Stop, Hold, Release
<1>4. Types' /\ Shape' /\ RangeInv' /\ BatchInRing'
  BY <1>1, <1>2, <1>3 DEF IInv, Types, Shape, RangeInv, BatchInRing, Writing
<1>5. CardInv'
  BY <1>1 DEF IInv, CardInv, Newest, Abut, Stored, Writing, InFile
<1>6. HeaderInv' /\ FileInv'
  BY <1>1, <1>2 DEF IInv, HeaderInv, Closing, FileInv, NoBad, Writing
<1> QED BY <1>4, <1>5, <1>6 DEF IInv

LEMMA NextInv == IInv /\ [Next]_vars => IInv'
<1> SUFFICES ASSUME IInv, [Next]_vars PROVE IInv'
  OBVIOUS
<1>1. CASE trap = "none" /\ ADCSDTask
  BY <1>1, RunningInv, WriteSamplesInv, WriteHeaderInv, WriteFailedInv, CloseFileInv, GetSizeInv,
     TakeNameInv, OpenFileInv, SeekInv, FinishingInv, PendingInv, DoneInv DEF ADCSDTask
<1>2. CASE trap = "none" /\ (LogStopped \/ Environment)
  BY <1>2, StoppedInv, ConvertInv, OthersInv DEF Environment
<1>3. CASE UNCHANGED vars
  <2>1. UNCHANGED <<logState, csTotal, rawLeft, trg, fp, usage, holder, disk, header, bad, errs, trap>>
    BY <1>3 DEF vars
  <2>2. Types' /\ Shape' /\ FileInv'
    BY <2>1, ZenonT(30) DEF IInv, Types, Shape, FileInv, NoBad
  <2>3. RangeInv' /\ BatchInRing'
    BY <2>1 DEF IInv, RangeInv, BatchInRing, Writing
  <2>4. HeaderInv'
    BY <2>1 DEF IInv, HeaderInv, Closing, Complete, Writing
  <2>5. CardInv'
    BY <2>1 DEF IInv, CardInv, Newest, Abut, Stored, Writing, InFile
  <2> QED BY <2>2, <2>3, <2>4, <2>5 DEF IInv
<1> QED BY <1>1, <1>2, <1>3 DEF Next

-----------------------------------------------------------------------------
(* The theorems.                                                           *)

LEMMA Invariant == Spec => []IInv
<1> QED BY InitInv, NextInv, PTL DEF Spec

\* The target's state stays what the code's types allow.
THEOREM TypeCorrect == Spec => []TypeOK
<1>1. ASSUME IInv PROVE TypeOK
  <2>1. trg \in TrgType /\ fp \in FpType /\ header.count \in Nat /\ header.stop \in Reasons /\ header.last \in BOOLEAN
    BY <1>1 DEF IInv, Types
  <2>2. \A n \in DOMAIN disk : n \in Nat /\ disk[n] \in Nat
    BY <1>1 DEF IInv, Types
  <2> QED BY <1>1, <2>1, <2>2 DEF IInv, Types, TypeOK, TrgType, FpType
<1> QED BY <1>1, Invariant, PTL

\* Whichever calls fail, on rings, files and cards of any size, no assertion about a file, its
\* entry in fileTask or the end of a file fails unless a file could not be opened or closed.
THEOREM AssertsHold == Spec => []NoAssert
<1>1. ASSUME IInv PROVE NoAssert
  BY <1>1 DEF IInv, FileInv, NoAssert, NoBad
<1> QED BY <1>1, Invariant, PTL

\* The files of a log of any length follow one another without a gap or an overlap, and the
\* open one ends with the last sample that is counted as written.
THEOREM FilesFollow == Spec => []FilesAbut
<1>1. ASSUME IInv PROVE FilesAbut
  <2>1. \A n \in DOMAIN disk \ {0} : \E p \in DOMAIN disk : p < n /\ p + disk[p] = n
    BY <1>1 DEF IInv, CardInv, Abut
  <2>2. ASSUME trg.state = "Running"
        PROVE  trg.uri = usage /\ usage + disk[usage] = trg.csProcessed
    <3>1. Writing /\ InFile
      BY <1>1, <2>2 DEF IInv, Shape, Writing, InFile
    <3>2. usage = trg.uri /\ Newest(usage)
      BY <1>1, <3>1 DEF IInv, CardInv
    <3>3. PICK n \in DOMAIN disk : Newest(n) /\ n + disk[n] = Stored
      BY <1>1 DEF IInv, CardInv
    <3>4. n = usage
      BY <1>1, <3>2, <3>3, OneNewest DEF IInv
    <3>5. Stored = trg.csProcessed
      BY <1>1, <2>2, Numbers DEF Stored
    <3> QED BY <3>2, <3>3, <3>4, <3>5
  <2> QED BY <2>1, <2>2 DEF FilesAbut
<1> QED BY <1>1, Invariant, PTL

\* A batch is found in the ring where its first sample is, and does not wrap.
THEOREM BatchesFit == Spec => []BatchInRing
<1>1. ASSUME IInv PROVE BatchInRing
  BY <1>1 DEF IInv
<1> QED BY <1>1, Invariant, PTL

\* A log that says it stopped normally has all its samples, or met a full card, or could not
\* be told why it stopped, which was an error: its header is still the first one.
THEOREM NormalHolds == Spec => []NormalIsComplete
<1>1. ASSUME IInv PROVE NormalIsComplete
  <2> SUFFICES ASSUME trg.state = "Idle", header.stop = "STCDNormal", "full" \notin bad,
                      ~(header = FirstHeader /\ trg.stcd = "STCDError")
               PROVE  header.count * CActiveCh = csTotal
    BY DEF NormalIsComplete
  <2>1. header # FirstHeader
    BY <1>1 DEF IInv, HeaderInv, Closing
  <2>2. header.count = trg.csProcessed \div CActiveCh /\ trg.csProcessed = csTotal
        /\ csTotal % CActiveCh = 0
    BY <1>1, <2>1 DEF IInv, HeaderInv, Complete
  <2>3. (csTotal \div CActiveCh) * CActiveCh = csTotal
    <3>1. csTotal \in Nat /\ 0 \in Nat /\ CActiveCh \in Nat \ {0}
      BY <1>1, Numbers, Bounds
    <3> QED BY <2>2, <3>1, WholeScans
  <2> QED BY <2>2, <2>3
<1> QED BY <1>1, Invariant, PTL

-----------------------------------------------------------------------------
(* The files and the header are a true log.                                *)

LEMMA OnCardIs ==
  ASSUME IInv
  PROVE  OnCard = Stored
<1>1. PICK n \in DOMAIN disk : Newest(n) /\ n + disk[n] = Stored
  BY DEF IInv, CardInv
<1>2. n \in DOMAIN disk /\ \A m \in DOMAIN disk : m <= n
  BY <1>1 DEF Newest
<1>3. \A x \in DOMAIN disk : (\A m \in DOMAIN disk : m <= x) => x = n
  BY <1>1, OneNewest DEF IInv, Newest
<1>4. (CHOOSE x \in DOMAIN disk : \A m \in DOMAIN disk : m <= x) = n
  BY <1>2, <1>3
<1> QED BY <1>1, <1>4 DEF OnCard

\* A write only adds samples.
LEMMA StoredGrows ==
  ASSUME IInv, WriteSamples
  PROVE  Stored' >= Stored
<1>1. trg.state = "FILEwrite" /\ trg.nextState = "Running"
  BY DEF WriteSamples
<1>2. /\ trg \in TrgType /\ trg.csProcessed \in Nat /\ trg.cs \in Nat /\ trg.csWritten \in Nat
      /\ trg.csWritten <= trg.cs
  BY <1>1, Numbers DEF IInv, RangeInv
<1>3. PICK k \in 0 .. Least({CsPiece, trg.cs - trg.csWritten}) :
        LET t == [trg EXCEPT !.csWritten = @ + k] IN
        trg' = t \/ trg' = BatchDone(Processed(t))
  BY Zenon DEF WriteSamples
<1> DEFINE t == [trg EXCEPT !.csWritten = @ + k]
<1>4. k \in Nat
  BY <1>2, LeastOfTwo, Bounds
<1>5. /\ t.state = "FILEwrite" /\ t.nextState = "Running" /\ t.csProcessed = trg.csProcessed
      /\ t.csWritten = trg.csWritten + k /\ t \in TrgType
  BY <1>1, <1>2, <1>4 DEF TrgType
<1> HIDE DEF t
<1>6. CASE trg' = t
  BY <1>1, <1>2, <1>4, <1>5, <1>6 DEF Stored
<1>7. CASE trg' = BatchDone(Processed(t))
  <2> DEFINE u == Processed(t)
  <2>1. u \in TrgType /\ u.csProcessed = trg.csProcessed + trg.csWritten + k
    BY <1>2, <1>4, <1>5 DEF Processed, TrgType
  <2> HIDE DEF u
  <2>2. trg'.csProcessed = u.csProcessed /\ trg'.state # "FILEwrite"
    <3>1. trg' \in {[u EXCEPT !.state = "Finishing"], [u EXCEPT !.state = "FILEclose", !.seek = "start"],
                    [u EXCEPT !.state = "Running"]}
      BY <1>7 DEF BatchDone, u
    <3> QED BY <2>1, <3>1 DEF TrgType
  <2> QED BY <1>1, <1>2, <1>4, <2>1, <2>2 DEF Stored
<1> QED BY <1>3, <1>6, <1>7 DEF t

LEMMA OpenFileStores ==
  ASSUME IInv, OpenFile
  PROVE  Stored' = Stored
<1>1. trg \in TrgType /\ trg.state = "FILEopening" /\ trg.csProcessed \in Nat
      /\ trg.nextState \in {"Running", "Pending"}
  BY Numbers DEF OpenFile, IInv, Shape
<1>2. trg'.csProcessed = trg.csProcessed /\ trg'.state # "FILEwrite"
  <2>1. CASE trg' = [trg EXCEPT !.state = "FILEseek"]
    BY <1>1, <2>1 DEF TrgType
  <2>2. CASE trg' = OnError(trg)
    BY <1>1, <2>2, OnErrorIs
  <2> QED BY <2>1, <2>2 DEF OpenFile
<1> QED BY <1>1, <1>2 DEF Stored

LEMMA StoreInit == Init => Store!LInit
<1> SUFFICES ASSUME Init PROVE Store!LInit
  OBVIOUS
<1>1. IInv
  BY InitInv
<1>2. Stored = 0
  BY DEF Init, Stored
<1>3. OnCard = 0
  BY <1>1, <1>2, OnCardIs
<1> QED BY <1>3 DEF Init, Store!LInit, FirstHeader, Store!FirstHeader

\* What the card holds, and that it has been taken.
OnCardInv == IInv /\ OnCard = Stored /\ Stored \in Nat /\ Stored <= csTotal

LEMMA CardInvariant == IInv => OnCardInv
<1> SUFFICES ASSUME IInv PROVE OnCardInv
  OBVIOUS
<1>1. /\ trg.csProcessed \in Nat /\ trg.cs \in Nat /\ trg.csWritten \in Nat /\ csTotal \in Nat
      /\ Stored \in Nat
  BY Numbers
<1>2. RangeInv
  BY DEF IInv
<1>3. Stored <= csTotal
  BY <1>1, <1>2 DEF RangeInv, Stored
<1> QED BY <1>1, <1>3, OnCardIs DEF OnCardInv

LEMMA StoreStep == OnCardInv /\ OnCardInv' /\ [Next]_vars => [Store!LNext]_<<csTotal, OnCard, header>>
<1> SUFFICES ASSUME OnCardInv, OnCardInv', [Next]_vars
             PROVE  [Store!LNext]_<<csTotal, OnCard, header>>
  OBVIOUS
<1>1. IInv /\ OnCard = Stored /\ Stored \in Nat
  BY DEF OnCardInv
<1>2. OnCard' = Stored'
  BY DEF OnCardInv
<1>3. Stored' \in Nat /\ Stored' <= csTotal'
  BY DEF OnCardInv
<1>4. disk' = disk => OnCard' = OnCard
  BY DEF OnCard
<1>5. ASSUME trap = "none", NEW n \in 1 .. MaxBurst, Convert(n)
      PROVE  Store!Offer
  <2>1. csTotal' \in Nat /\ csTotal' > csTotal
    BY <1>1, <1>5, ConvertInv
  <2>2. disk' = disk /\ header' = header
    BY <1>5 DEF Convert, world
  <2> QED BY <1>4, <2>1, <2>2 DEF Store!Offer
<1>6. CASE WriteSamples
  <2>1. UNCHANGED <<csTotal, header>> /\ header = FirstHeader
    BY <1>1, <1>6, NoHeaderYet DEF IInv, WriteSamples, log
  <2>2. Stored' >= Stored
    BY <1>1, <1>3, <1>6, StoredGrows
  <2>3. CASE Stored' = Stored
    BY <1>1, <1>2, <2>1, <2>3
  <2>4. CASE Stored' > Stored
    <3>1. OnCard' \in OnCard + 1 .. csTotal
      BY <1>1, <1>2, <1>3, <2>1, <2>4
    <3> QED BY <2>1, <3>1 DEF Store!Append, FirstHeader, Store!FirstHeader, Store!LNext
  <2> QED BY <1>1, <1>3, <2>2, <2>3, <2>4
<1>7. CASE WriteHeader
  <2>1. /\ trg.state = "FILEwrite" /\ trg.nextState = "Done" /\ UNCHANGED <<csTotal, disk>>
        /\ header' = [count |-> trg.cs, stop |-> trg.stcd, last |-> TRUE]
    BY <1>7 DEF WriteHeader, log
  <2>2. header = FirstHeader /\ trg.cs = trg.csProcessed \div CActiveCh /\ trg.stcd \in Reasons
    BY <1>1, <2>1, NoHeaderYet DEF IInv, HeaderInv, Types, TrgType
  <2>3. OnCard = trg.csProcessed
    BY <1>1, <2>1, Numbers DEF Stored
  <2> QED BY <1>4, <2>1, <2>2, <2>3 DEF Store!Close, FirstHeader, Store!FirstHeader, Store!LNext
<1>8. CASE trap = "none" /\ OpenFile
  <2>1. UNCHANGED <<csTotal, header>> /\ Stored' = Stored
    BY <1>1, <1>8, OpenFileStores DEF OpenFile, log
  <2> QED BY <1>1, <1>2, <2>1
<1>9. CASE TrgRunning \/ WriteFailed \/ CloseFile \/ GetSize \/ TakeName \/ Seek
           \/ TrgFinishing \/ TrgPending \/ TrgDone \/ LogStopped \/ Stop \/ Hold \/ Release
  <2>1. UNCHANGED <<csTotal, disk, header>>
    BY <1>9 DEF TrgRunning, WriteFailed, CloseFile, GetSize, TakeName, Seek, TrgFinishing, TrgPending,
       TrgDone, LogStopped, Stop, Hold, Release, FailedAssert, log, world
  <2> QED BY <1>4, <2>1
<1>10. CASE UNCHANGED vars
  <2>1. UNCHANGED <<csTotal, disk, header>>
    BY <1>10 DEF vars
  <2> QED BY <1>4, <2>1
<1> QED BY <1>5, <1>6, <1>7, <1>8, <1>9, <1>10 DEF Next, ADCSDTask, Environment, Store!LNext

\* Whatever fails, the samples on the card are a prefix of those taken, and a header, once it
\* is written, counts them and is the end of it.
THEOREM CardIsTrueLog == Spec => ImplementsStore
<1> QED BY Invariant, CardInvariant, StoreInit, StoreStep, PTL DEF Spec, ImplementsStore, Store!LSpec, Store!lsVars
=============================================================================
