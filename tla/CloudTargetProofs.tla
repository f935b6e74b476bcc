------------------------- MODULE CloudTargetProofs -------------------------
(***************************************************************************)
(* What TLAPS proves of CloudTarget, for a ring, posts and bursts of any   *)
(* size and any number of channels: the server has the scans of the log,   *)
(* each once and in order, a post is as long as its header says, no ASSERT *)
(* of ADCCloudTask fails, and a normal end is complete.                    *)
(***************************************************************************)
EXTENDS CloudTarget, TLAPS

-----------------------------------------------------------------------------
(* Whole scans, and places in the ring.                                    *)

LEMMA Bounds ==
  /\ CSVBUFF \in Nat \ {0} /\ CActiveCh \in Nat \ {0} /\ CSVBUFF % CActiveCh = 0
  /\ CsPost \in Nat \ {0} /\ CsPost < CSVBUFF /\ Slow \in BOOLEAN
  /\ MaxBurst \in Nat \ {0} /\ MaxTotal \in Nat
BY CloudTargetAssumption

LEMMA DivMod ==
  ASSUME NEW a \in Nat, NEW b \in Nat \ {0}
  PROVE  /\ a \div b \in Nat /\ a % b \in 0 .. b - 1
         /\ a = b * (a \div b) + (a % b)
BY Z3

LEMMA Remainder ==
  ASSUME NEW b \in Nat \ {0}, NEW q \in Nat, NEW r \in 0 .. b - 1
  PROVE  (b * q + r) % b = r
BY Z3

Whole == {k * CActiveCh : k \in Nat}

LEMMA WholeIs == \A x : x \in Whole <=> \E k \in Nat : x = k * CActiveCh
BY DEF Whole

LEMMA WholeNat == Whole \subseteq Nat /\ 0 \in Whole /\ CActiveCh \in Whole
<1>1. 0 = 0 * CActiveCh /\ CActiveCh = 1 * CActiveCh
  BY Bounds
<1>2. \A k \in Nat : k * CActiveCh \in Nat
  BY Bounds
<1> QED BY <1>1, <1>2, WholeIs

LEMMA WholeSum ==
  ASSUME NEW a \in Whole, NEW b \in Whole
  PROVE  a + b \in Whole /\ (a >= b => a - b \in Whole) /\ (a < b => a + CActiveCh <= b)
<1> DEFINE C == CActiveCh
<1>1. PICK j \in Nat, k \in Nat : a = j * C /\ b = k * C
  BY WholeIs
<1>2. C \in Nat \ {0}
  BY Bounds
<1> HIDE DEF C
<1>3. a + b = (j + k) * C /\ j + k \in Nat
  BY <1>1, <1>2
<1>4. ASSUME a >= b PROVE a - b \in Whole
  <2>1. j >= k
    BY <1>1, <1>2, <1>4
  <2>2. a - b = (j - k) * C /\ j - k \in Nat
    BY <1>1, <1>2, <2>1
  <2> QED BY <2>2, WholeIs DEF C
<1>5. ASSUME a < b PROVE a + C <= b
  <2>1. j + 1 <= k
    BY <1>1, <1>2, <1>5
  <2>2. a + C = (j + 1) * C /\ \E d \in Nat : k = (j + 1) + d
    <3>1. k - (j + 1) \in Nat /\ k = (j + 1) + (k - (j + 1))
      BY <2>1
    <3>2. (j + 1) * C = j * C + C
      BY <1>2
    <3> QED BY <1>1, <3>1, <3>2
  <2>3. PICK d \in Nat : k = (j + 1) + d
    BY <2>2
  <2>4. k * C = (j + 1) * C + d * C /\ d * C >= 0
    BY <1>2, <2>3
  <2>5. (j + 1) * C \in Nat /\ d * C \in Nat
    BY <1>2
  <2> QED BY <1>1, <2>2, <2>4, <2>5
<1> QED BY <1>3, <1>4, <1>5, WholeIs DEF C

LEMMA WholeRest ==
  ASSUME NEW a \in Whole
  PROVE  /\ a % CSVBUFF \in Whole /\ a % CActiveCh = 0
         /\ a \div CActiveCh \in Nat /\ (a \div CActiveCh) * CActiveCh = a
<1> DEFINE C == CActiveCh
           B == CSVBUFF
<1>1. PICK k \in Nat : a = k * C
  BY WholeIs
<1>2. C \in Nat \ {0} /\ B \in Nat \ {0} /\ B % C = 0 /\ a \in Nat
  BY Bounds, WholeNat
<1> HIDE DEF B, C
<1>3. a = C * k + 0 /\ 0 \in 0 .. C - 1
  BY <1>1, <1>2
<1>4. a % C = 0
  <2>1. (C * k + 0) % C = 0
    BY <1>2, <1>3, Remainder
  <2> QED BY <1>3, <2>1
<1>5. (a \div C) \in Nat /\ (a \div C) * C = a
  <2>1. a = C * (a \div C) + (a % C) /\ (a \div C) \in Nat
    BY <1>2, DivMod
  <2>2. C * (a \div C) = (a \div C) * C
    BY <1>2, <2>1
  <2> QED BY <1>2, <1>4, <2>1, <2>2
<1>6. a % B \in Whole
  <2> DEFINE q == a \div B
             r == a % B
             n == B \div C
  <2>1. a = B * q + r /\ q \in Nat /\ r \in 0 .. B - 1
    BY <1>2, DivMod
  <2>2. B = C * n /\ n \in Nat
    <3>1. B = C * (B \div C) + (B % C) /\ B \div C \in Nat
      BY <1>2, DivMod
    <3>2. C * (B \div C) \in Nat
      BY <1>2, <3>1
    <3> QED BY <1>2, <3>1, <3>2
  <2> HIDE DEF q, r, n
  <2>3. B * q = (n * q) * C /\ n * q \in Nat
    BY <1>2, <2>1, <2>2
  <2>4. B * q \in Whole /\ a \in Whole
    BY <2>3, WholeIs DEF C
  <2>5. B * q \in Nat
    BY <1>2, <2>1
  <2>6. a >= B * q /\ a - B * q = r
    BY <1>2, <2>1, <2>5
  <2> QED BY <2>4, <2>6, WholeSum DEF r
<1> QED BY <1>4, <1>5, <1>6 DEF B, C

\* Two positions of the same place in the ring are a lap apart at least.
LEMMA OneLatest ==
  ASSUME NEW m \in Nat, NEW n \in Nat, m % CSVBUFF = n % CSVBUFF, m <= n, n < m + CSVBUFF
  PROVE  m = n
<1> DEFINE B == CSVBUFF
           p == m \div B
           q == n \div B
           r == m % B
<1>1. B \in Nat \ {0}
  BY Bounds
<1>2. m = B * p + r /\ n = B * q + r /\ p \in Nat /\ q \in Nat /\ r \in 0 .. B - 1
  <2>1. m = B * p + r /\ p \in Nat /\ r \in 0 .. B - 1
    BY <1>1, DivMod
  <2>2. n = B * q + (n % B) /\ q \in Nat
    BY <1>1, DivMod
  <2>3. n % B = r
    OBVIOUS
  <2> HIDE DEF p, q, r
  <2> QED BY <2>1, <2>2, <2>3
<1> HIDE DEF B, p, q, r
<1>3. CASE q <= p
  <2>1. p - q \in Nat /\ B * p = B * q + B * (p - q) /\ B * (p - q) >= 0
    BY <1>1, <1>2, <1>3
  <2>2. B * p \in Nat /\ B * q \in Nat /\ B * (p - q) \in Nat
    BY <1>1, <1>2, <2>1
  <2>3. m <= n /\ m \in Nat /\ n \in Nat
    OBVIOUS
  <2> QED BY <1>2, <2>1, <2>2, <2>3
<1>4. CASE q > p
  <2>1. q - (p + 1) \in Nat /\ B * q = B * p + B + B * (q - (p + 1)) /\ B * (q - (p + 1)) >= 0
    BY <1>1, <1>2, <1>4
  <2>2. B * p \in Nat /\ B * q \in Nat /\ B * (q - (p + 1)) \in Nat
    BY <1>1, <1>2, <2>1
  <2>3. n < m + B /\ m \in Nat /\ n \in Nat
    BY DEF B
  <2> QED BY <1>1, <1>2, <2>1, <2>2, <2>3
<1> QED BY <1>2, <1>3, <1>4

\* The places after that of x, up to the end of the ring.
LEMMA PlaceAfter ==
  ASSUME NEW x \in Nat, NEW d \in Nat, (x % CSVBUFF) + d < CSVBUFF
  PROVE  (x + d) % CSVBUFF = (x % CSVBUFF) + d
<1> DEFINE B == CSVBUFF
           q == x \div B
           r == x % B
<1>1. B \in Nat \ {0} /\ q \in Nat /\ r \in 0 .. B - 1 /\ x = B * q + r /\ r + d < B
  BY Bounds, DivMod
<1> HIDE DEF B, q, r
<1>2. x + d = B * q + (r + d) /\ r + d \in 0 .. B - 1
  <2>1. B * q \in Nat
    BY <1>1
  <2> QED BY <1>1, <2>1
<1>3. (B * q + (r + d)) % B = r + d
  BY <1>1, <1>2, Remainder
<1> QED BY <1>2, <1>3 DEF B, r

\* What is read at a place after that of x is the sample so far after x, when the ring
\* has not lapped x.
LEMMA LatestIs ==
  ASSUME csTotal \in Nat, NEW x \in Nat, NEW d \in Nat, (x % CSVBUFF) + d < CSVBUFF,
         x + d < csTotal, csTotal <= x + CSVBUFF
  PROVE  Latest((x % CSVBUFF) + d) = x + d
<1> DEFINE p == (x % CSVBUFF) + d
           Is(n) == n % CSVBUFF = p /\ n + CSVBUFF >= csTotal
<1>1. x + d \in 0 .. csTotal - 1 /\ Is(x + d)
  <2>1. (x + d) % CSVBUFF = p
    BY PlaceAfter
  <2>2. x + d \in 0 .. csTotal - 1 /\ (x + d) + CSVBUFF >= csTotal
    BY Bounds
  <2> HIDE DEF p
  <2> QED BY <2>1, <2>2
<1>2. ASSUME NEW n \in 0 .. csTotal - 1, Is(n) PROVE n = x + d
  <2>1. n \in Nat /\ x + d \in Nat /\ n % CSVBUFF = (x + d) % CSVBUFF
    BY <1>1, <1>2
  <2>2. n < x + d + CSVBUFF /\ x + d < n + CSVBUFF
    BY <1>2, Bounds
  <2> HIDE DEF Is
  <2>3. CASE n <= x + d
    BY <2>1, <2>2, <2>3, OneLatest
  <2>4. CASE x + d <= n
    BY <2>1, <2>2, <2>4, OneLatest
  <2> QED BY <2>1, <2>3, <2>4
<1>3. Latest(p) = CHOOSE n \in 0 .. csTotal - 1 : Is(n)
  BY DEF Latest
<1> HIDE DEF Is, p
<1>4. (CHOOSE n \in 0 .. csTotal - 1 : Is(n)) = x + d
  BY <1>1, <1>2
<1> QED BY <1>3, <1>4 DEF p

\* A batch ends with the samples or with the ring, whichever is first.
LEMMA BatchIs ==
  ASSUME csTotal \in Whole, trg.csProcessed \in Whole, trg.csProcessed < csTotal, Behind <= CsPost
  PROVE  /\ Batch \in Whole /\ Batch > 0 /\ trg.csProcessed + Batch <= csTotal
         /\ (trg.csProcessed % CSVBUFF) + Batch <= CSVBUFF
         /\ csTotal <= trg.csProcessed + CSVBUFF
         /\ (csTotal - Behind) % CSVBUFF = trg.csProcessed % CSVBUFF
<1> DEFINE B == CSVBUFF
           x == trg.csProcessed
           t == csTotal
           q == x \div B
           r == x % B
           d == t - x
<1>1. /\ t \in Nat /\ x \in Nat /\ d \in Nat /\ d > 0 /\ d < B /\ d \in Whole
      /\ r \in Whole /\ t % B \in Whole
  <2>1. t \in Nat /\ x \in Nat /\ x < t /\ d <= CsPost
    BY WholeNat DEF Behind
  <2>2. t - x \in Whole /\ r \in Whole /\ t % B \in Whole
    BY <2>1, WholeSum, WholeRest
  <2> QED BY <2>1, <2>2, Bounds
<1>2. B \in Nat \ {0} /\ q \in Nat /\ r \in 0 .. B - 1 /\ x = B * q + r /\ B * q \in Nat
  <2>1. B \in Nat \ {0} /\ q \in Nat /\ r \in 0 .. B - 1 /\ x = B * q + r
    BY <1>1, Bounds, DivMod
  <2> QED BY <2>1
<1>3. Behind = d /\ t - d = x /\ t = x + d
  BY <1>1 DEF Behind
<1>4. Batch = IF (t % B) - d < 0 THEN -((t % B) - d) ELSE d
  BY <1>3 DEF Batch
<1> HIDE DEF B, q, r, d
<1>5. CASE r + d < B
  <2>1. t % B = r + d
    BY <1>1, <1>3, <1>5, PlaceAfter DEF B, r
  <2> QED BY <1>1, <1>2, <1>3, <1>4, <1>5, <2>1 DEF B, r
<1>6. CASE r + d >= B
  <2> DEFINE s == r + d - B
             k == q + 1
  <2>1. t = B * k + s /\ s \in 0 .. B - 1 /\ k \in Nat
    <3>1. B * (q + 1) = B * q + B
      BY <1>2
    <3> QED BY <1>1, <1>2, <1>3, <1>6, <3>1
  <2> HIDE DEF t, s, k
  <2>2. (B * k + s) % B = s
    BY <1>2, <2>1, Remainder
  <2>3. t % B = s /\ s < d
    BY <1>1, <1>2, <2>1, <2>2 DEF s
  <2>4. Batch = d - s /\ d - s = B - r
    BY <1>1, <1>2, <1>4, <2>1, <2>3 DEF s
  <2>5. d - s \in Whole
    <3>1. s \in Whole /\ d >= s
      BY <1>1, <2>1, <2>3
    <3> QED BY <1>1, <3>1, WholeSum
  <2>6. B - r > 0 /\ B - r <= d /\ r + (B - r) <= B /\ t <= x + B
    BY <1>1, <1>2, <1>3, <1>6
  <2>7. Batch \in Whole /\ Batch > 0 /\ x + Batch <= t /\ r + Batch <= B
    BY <1>1, <1>2, <1>3, <2>4, <2>5, <2>6
  <2> QED BY <1>3, <2>6, <2>7 DEF B, r, t
<1> QED BY <1>2, <1>1, <1>5, <1>6

-----------------------------------------------------------------------------
(* The inductive invariant.                                                *)

BuildStates == {"CLDWriteUpdate", "CLDWriteField", "CLDNextDelta"}
SentStates  == {"CLDEndDelta", "CLDRead", "Working"}

\* What the task is at, across the states that only write or wait.
Phase == IF trg.state \in {"CLDWrite", "CLDDisconnect"} THEN trg.nextState ELSE trg.state

\* The body is being made, or it is out and the server may still take it.
Between  == trg.state \in {"Running", "CLDConnect"}
Building == Phase \in BuildStates
Posted   == Phase \in SentStates \/ (In("Finishing") /\ trg.nextState = "Working" /\ reply = "none")

Over == logState # "Running" /\ rawLeft = 0
Held == Scans * CActiveCh
Sent == IF In("CLDWrite") THEN wire \o trg.out ELSE wire

\* The log ends with this post, and the time since is to be told.
Due == trg.fFinishTime /\ csTotal = trg.csProcessed + trg.csVSave

\* The deltas of a post: its scans, then the last one again.
Delta(k) ==
  IF k * CActiveCh <= trg.csVSave
  THEN [n |-> trg.csProcessed + (k - 1) * CActiveCh, pad |-> FALSE]
  ELSE [n |-> trg.csProcessed + trg.csVSave - CActiveCh, pad |-> TRUE]

\* Which state is left for which, and what of the connection goes with it.
Links ==
  /\ trg.state \in BuildStates \cup SentStates => trg.nextState = trg.state
  /\ In("CLDWrite") => trg.nextState \in BuildStates \cup {"CLDEndDelta", "CLDRead"}
  /\ In("CLDDisconnect") =>
       trg.nextState = "Working" \/ (trg.nextState = "Finishing" /\ trg.stcd = "STCDError")
  /\ Between => trg.nextState = "Idle" \/ (trg.nextState = "Working" /\ reply = "ok")
  /\ In("Finishing") => trg.nextState \in {"Idle", "Working", "Finishing"}
  /\ In("Idle") => trg.nextState = "Idle"
  /\ trg.state \in BuildStates \cup {"CLDEndDelta", "CLDWrite", "CLDRead", "CLDDisconnect"} => connected
  /\ Building \/ Phase = "CLDEndDelta" \/ In("CLDWrite") => reply = "none"
  /\ Phase \in {"CLDRead", "Working"} /\ trg.resp = "ok" => reply = "ok"

Counts ==
  /\ csTotal \in Whole /\ trg.csProcessed \in Whole /\ trg.csProcessed <= csTotal
  /\ trg.fFinishTime => Over /\ trg.csProcessed < csTotal
  /\ trg.fFinishTime /\ Posted => trg.csProcessed + trg.csVSave < csTotal
  /\ logState = "Stopped" => In("Idle")

\* The batch of a post: whole scans that have been converted, up to the end of the ring.
BatchInv ==
  In("CLDConnect") \/ Building \/ Posted =>
    /\ trg.csVSave \in Whole /\ trg.csVSave > 0 /\ trg.csBackLog = trg.csVSave
    /\ trg.csProcessed + trg.csVSave <= csTotal
    /\ (trg.csProcessed % CSVBUFF) + trg.csVSave <= CSVBUFF
    /\ ~In("Finishing") => csTotal <= trg.csProcessed + CSVBUFF

\* How far the body is, and the length it is to have.
BuildInv ==
  /\ In("CLDConnect") => trg.csVSaved = 0
  /\ In("CLDConnect") \/ Building =>
       /\ trg.csVSaved \in Whole /\ trg.csVSaved <= trg.csVSave
       /\ trg.csVSaved = trg.csVSave => Due
       /\ trg.psVCur = (trg.csProcessed % CSVBUFF) + trg.csVSaved
       /\ trg.deltas * CActiveCh = trg.csVSave + (IF Due THEN CActiveCh ELSE 0)
  /\ Building => Len(Sent) * CActiveCh = trg.csVSaved

PostedInv ==
  Posted =>
    /\ trg.csVSaved = trg.csVSave /\ Len(Sent) = trg.deltas
    /\ \/ trg.deltas * CActiveCh = trg.csVSave
       \/ /\ trg.deltas * CActiveCh = trg.csVSave + CActiveCh
          /\ Over /\ csTotal = trg.csProcessed + trg.csVSave

WireInv == Building \/ Posted => \A k \in DOMAIN Sent : Sent[k] = Delta(k)

\* What the server has: the scans counted, or those of the post it took as well.
HeldInv ==
  /\ trg.csProcessed <= Held /\ Held <= csTotal
  /\ Between \/ Building \/ (Posted /\ reply # "ok") => Held = trg.csProcessed
  /\ Posted /\ reply = "ok" => Held = trg.csProcessed + trg.csVSave
  /\ Len(server) # Scans => Over /\ Held = csTotal
ServerInv ==
  /\ \A k \in DOMAIN server :
       server[k] = [n |-> (IF k > Scans THEN k - 2 ELSE k - 1) * CActiveCh, pad |-> k > Scans]
  /\ Scans = 0 => server = <<>>

\* Why a log ends normally.
EndInv ==
  Phase \in {"Finishing", "Idle"} /\ trg.stcd = "STCDNormal" =>
    Over /\ trg.csProcessed = csTotal /\ ~trg.fFinishTime

Inv == TypeOK /\ Links /\ Counts /\ BatchInv /\ BuildInv /\ PostedInv /\ WireInv /\ HeldInv
       /\ ServerInv /\ EndInv

-----------------------------------------------------------------------------
(* What several actions need.                                              *)

LEMMA Fields ==
  ASSUME Inv
  PROVE  /\ trg.state \in States /\ trg.nextState \in States
         /\ trg.csProcessed \in Nat /\ trg.csBackLog \in Nat /\ trg.cSampleWait \in Nat
         /\ trg.fFinishTime \in BOOLEAN /\ trg.psVCur \in Nat /\ trg.csVSave \in Nat
         /\ trg.csVSaved \in Nat /\ trg.deltas \in Nat /\ trg.out \in Seq(DeltaType)
         /\ trg.stcd \in {"STCDNormal", "STCDOverflow", "STCDError"}
         /\ trg.resp \in {"none", "ok", "refused"}
         /\ csTotal \in Nat /\ Sent \in Seq(DeltaType)
         /\ Scans \in Nat /\ Held \in Nat /\ Len(server) \in {Scans, Scans + 1}
<1>1. TypeOK
  BY DEF Inv
<1>2. trg \in TrgType /\ csTotal \in Nat /\ wire \in Seq(DeltaType) /\ server \in Seq(DeltaType)
  BY <1>1 DEF TypeOK
<1>3. /\ trg.csProcessed \in Nat /\ trg.csBackLog \in Nat /\ trg.cSampleWait \in Nat
      /\ trg.fFinishTime \in BOOLEAN /\ trg.psVCur \in Nat /\ trg.csVSave \in Nat
      /\ trg.csVSaved \in Nat /\ trg.deltas \in Nat /\ trg.out \in Seq(DeltaType)
      /\ trg.stcd \in {"STCDNormal", "STCDOverflow", "STCDError"}
      /\ trg.resp \in {"none", "ok", "refused"} /\ trg.state \in States /\ trg.nextState \in States
  BY <1>2 DEF TrgType
<1>4. Sent \in Seq(DeltaType)
  BY <1>2, <1>3 DEF Sent
<1>5. Scans \in Nat /\ Len(server) \in {Scans, Scans + 1}
  BY <1>2 DEF Scans
<1>6. Held \in Nat
  BY <1>5, Bounds DEF Held
<1> QED BY <1>2, <1>3, <1>4, <1>5, <1>6

\* A post whose body goes on being made, or which is out, and of which nothing else changes.
Steady ==
  /\ UNCHANGED <<csTotal, rawLeft, server>> /\ logState' \in {logState, "Stopped"}
  /\ trg'.csProcessed = trg.csProcessed /\ trg'.csBackLog = trg.csBackLog
  /\ trg'.fFinishTime = trg.fFinishTime /\ trg'.psVCur = trg.psVCur
  /\ trg'.csVSave = trg.csVSave /\ trg'.csVSaved = trg.csVSaved /\ trg'.deltas = trg.deltas

LEMMA ScansStay ==
  ASSUME server' = server
  PROVE  Scans' = Scans /\ Held' = Held
BY DEF Scans, Held

LEMMA SteadyFacts ==
  ASSUME Steady
  PROVE  /\ Scans' = Scans /\ Held' = Held /\ (Over => Over')
         /\ Due' <=> Due
         /\ \A k : Delta(k)' = Delta(k)
BY DEF Steady, Scans, Held, Over, Due, Delta

\* The post goes on.
LEMMA SamePost ==
  ASSUME Inv, Steady, Sent' = Sent, Building' <=> Building, Posted' <=> Posted,
         In("CLDConnect")' <=> In("CLDConnect"), Between' <=> Between,
         In("Finishing") => In("Finishing")', In("Idle") => In("Idle")', logState' = logState,
         Posted => (reply' = "ok" <=> reply = "ok"),
         Phase' \in {"Finishing", "Idle"} /\ trg'.stcd = "STCDNormal" =>
           Phase \in {"Finishing", "Idle"} /\ trg.stcd = "STCDNormal"
  PROVE  Counts' /\ BatchInv' /\ BuildInv' /\ PostedInv' /\ WireInv' /\ HeldInv' /\ ServerInv' /\ EndInv'
<1>1. Counts'
  BY DEF Inv, Counts, Steady, Over
<1>2. BatchInv'
  BY DEF Inv, BatchInv, Steady
<1>3. BuildInv'
  BY SteadyFacts DEF Inv, BuildInv, Steady
<1>4. PostedInv'
  BY SteadyFacts DEF Inv, PostedInv, Steady
<1>5. WireInv'
  BY SteadyFacts DEF Inv, WireInv
<1>6. HeldInv'
  BY SteadyFacts DEF Inv, HeldInv, Steady
<1>7. ServerInv'
  BY SteadyFacts DEF Inv, ServerInv, Steady
<1>8. EndInv'
  BY SteadyFacts DEF Inv, EndInv, Steady
<1> QED BY <1>1, <1>2, <1>3, <1>4, <1>5, <1>6, <1>7, <1>8

\* Or there is none any more, and the target ends or starts anew.
LEMMA NoPost ==
  ASSUME Inv, Steady, ~Building', ~Posted', ~In("CLDConnect")', Between' => Between,
         logState' = logState \/ In("Idle")', In("Idle") => In("Idle")',
         Phase' \in {"Finishing", "Idle"} /\ trg'.stcd = "STCDNormal" =>
           Over /\ trg.csProcessed = csTotal /\ ~trg.fFinishTime
  PROVE  Counts' /\ BatchInv' /\ BuildInv' /\ PostedInv' /\ WireInv' /\ HeldInv' /\ ServerInv' /\ EndInv'
<1>1. Counts'
  BY SteadyFacts DEF Inv, Counts, Steady
<1>2. BatchInv' /\ BuildInv' /\ PostedInv' /\ WireInv'
  BY DEF BatchInv, BuildInv, PostedInv, WireInv
<1>3. HeldInv'
  BY SteadyFacts DEF Inv, HeldInv, Steady
<1>4. ServerInv'
  BY SteadyFacts DEF Inv, ServerInv, Steady
<1>5. EndInv'
  BY SteadyFacts DEF EndInv, Steady
<1> QED BY <1>1, <1>2, <1>3, <1>4, <1>5

-----------------------------------------------------------------------------
(* Init and one lemma per action.                                          *)

LEMMA InitInv == Init => Inv
<1> SUFFICES ASSUME Init PROVE Inv
  OBVIOUS
<1>1. /\ csTotal = 0 /\ rawLeft = 0 /\ logState = "Running" /\ reply = "none"
      /\ trg.state = "Running" /\ trg.nextState = "Idle" /\ trg.csProcessed = 0 /\ trg.fFinishTime = FALSE
      /\ server = <<>>
  BY DEF Init
<1>2. TypeOK
  <2>1. trg \in TrgType
    BY DEF Init, TrgType, States, Posting
  <2>2. <<>> \in Seq(DeltaType) /\ wire = <<>> /\ ready = FALSE /\ connected = FALSE
    BY DEF Init
  <2> QED BY <1>1, <2>1, <2>2 DEF TypeOK
<1>3. Phase = "Running" /\ Between /\ ~Building /\ ~Posted /\ ~In("CLDConnect") /\ Scans = 0 /\ Held = 0
  <2>1. 0 * CActiveCh = 0
    BY Bounds
  <2> QED BY <1>1, <2>1 DEF Phase, Between, Building, Posted, In, BuildStates, SentStates, Scans, Held
<1>4. Links
  BY <1>1, <1>3 DEF Links, In, BuildStates, SentStates
<1>5. Counts
  BY <1>1, WholeNat DEF Counts
<1>6. BatchInv /\ BuildInv /\ PostedInv /\ WireInv
  BY <1>3 DEF BatchInv, BuildInv, PostedInv, WireInv
<1>7. HeldInv /\ ServerInv /\ EndInv
  BY <1>1, <1>3 DEF HeldInv, ServerInv, EndInv
<1> QED BY <1>2, <1>4, <1>5, <1>6, <1>7 DEF Inv

LEMMA ClockInv == ASSUME Inv, Clock PROVE Inv'
<1>1. UNCHANGED <<logState, csTotal, rawLeft, trg, connected, wire, reply, server>> /\ ready' \in BOOLEAN
  BY DEF Clock, Inv, TypeOK, log, net
<1>2. TypeOK' /\ Links'
  BY <1>1 DEF Inv, TypeOK, Links, Phase, Between, Building, In
<1>3. Steady /\ Sent' = Sent /\ Phase' = Phase /\ (Building' <=> Building) /\ (Posted' <=> Posted)
      /\ (Between' <=> Between) /\ \A s : In(s)' <=> In(s)
  BY <1>1 DEF Steady, Sent, Phase, Building, Posted, Between, In
<1>4. Counts' /\ BatchInv' /\ BuildInv' /\ PostedInv' /\ WireInv' /\ HeldInv' /\ ServerInv' /\ EndInv'
  BY <1>1, <1>3, SamePost
<1> QED BY <1>2, <1>4 DEF Inv

LEMMA ServerRefusesInv == ASSUME Inv, ServerRefuses PROVE Inv'
<1>1. /\ UNCHANGED <<logState, csTotal, rawLeft, trg, ready, connected, wire, server>>
      /\ reply = "none" /\ reply' = "refused" /\ trg.state = "CLDRead"
  BY DEF ServerRefuses, log, In
<1>2. TypeOK'
  BY <1>1 DEF Inv, TypeOK
<1>3. trg.nextState = "CLDRead" /\ Phase = "CLDRead"
  BY <1>1 DEF Inv, Links, Phase, SentStates
<1>4. Steady /\ Sent' = Sent /\ Phase' = Phase /\ (Building' <=> Building) /\ (Posted' <=> Posted)
      /\ (Between' <=> Between) /\ \A s : In(s)' <=> In(s)
  BY <1>1, <1>3 DEF Steady, Sent, Phase, Building, Posted, Between, In, SentStates
<1>5. Links'
  BY <1>1, <1>3, <1>4 DEF Inv, Links, Phase, Between, Building, In, SentStates, BuildStates
<1>6. Counts' /\ BatchInv' /\ BuildInv' /\ PostedInv' /\ WireInv' /\ HeldInv' /\ ServerInv' /\ EndInv'
  BY <1>1, <1>4, SamePost
<1> QED BY <1>2, <1>5, <1>6 DEF Inv

\* A piece of the body is handed over, or the connection made: only states change.
LEMMA Handed ==
  ASSUME Inv, NEW s \in States, Write(<<>>, trg, s), UNCHANGED <<csTotal, rawLeft, logState, server>>
  PROVE  Steady /\ trg'.state = "CLDWrite" /\ trg'.nextState = s /\ trg'.out = <<>> /\ trg'.stcd = trg.stcd
         /\ trg'.resp = trg.resp /\ trg' \in TrgType
<1>1. trg \in TrgType
  BY DEF Inv, TypeOK
<1>2. <<>> \in Seq(DeltaType) /\ "CLDWrite" \in States
  BY DEF States, Posting
<1> QED BY <1>1, <1>2 DEF Write, Steady, TrgType

LEMMA WriteUpdateInv == ASSUME Inv, WriteUpdate PROVE Inv'
<1>1. /\ UNCHANGED <<logState, csTotal, rawLeft, ready, connected, wire, reply, server>>
      /\ trg.state = "CLDWriteUpdate"
  BY DEF WriteUpdate, log, net, In
<1>2. Steady /\ trg'.state = "CLDWrite" /\ trg'.nextState = "CLDWriteField" /\ trg'.out = <<>>
      /\ trg'.stcd = trg.stcd /\ trg' \in TrgType
  BY <1>1, Handed DEF WriteUpdate, States, Posting
<1>3. TypeOK'
  BY <1>1, <1>2 DEF Inv, TypeOK
<1>4. trg.nextState = "CLDWriteUpdate" /\ Phase = "CLDWriteUpdate" /\ Phase' = "CLDWriteField"
      /\ reply = "none" /\ connected
  BY <1>1, <1>2 DEF Inv, Links, Phase, BuildStates, Building
<1>5. Links'
  BY <1>1, <1>2, <1>4 DEF Links, Phase, Between, Building, In, SentStates, BuildStates
<1>6. Building /\ Building' /\ ~Posted /\ ~Posted' /\ ~Between /\ ~Between'
  BY <1>1, <1>2, <1>4 DEF Building, Posted, Between, In, SentStates, BuildStates
<1>7. Sent' = Sent
  <2>1. wire \in Seq(DeltaType)
    BY DEF Inv, TypeOK
  <2> QED BY <1>1, <1>2, <2>1 DEF Sent, In
<1>8. Counts' /\ BatchInv' /\ BuildInv' /\ PostedInv' /\ WireInv' /\ HeldInv' /\ ServerInv' /\ EndInv'
  BY <1>1, <1>2, <1>4, <1>6, <1>7, SamePost DEF In
<1> QED BY <1>3, <1>5, <1>8 DEF Inv

LEMMA NextDeltaInv == ASSUME Inv, NextDelta PROVE Inv'
<1>1. /\ UNCHANGED <<logState, csTotal, rawLeft, ready, connected, wire, reply, server>>
      /\ trg.state = "CLDNextDelta"
  BY DEF NextDelta, log, net, In
<1>2. Steady /\ trg'.state = "CLDWrite" /\ trg'.nextState = "CLDWriteField" /\ trg'.out = <<>>
      /\ trg'.stcd = trg.stcd /\ trg' \in TrgType
  BY <1>1, Handed DEF NextDelta, States, Posting
<1>3. TypeOK'
  BY <1>1, <1>2 DEF Inv, TypeOK
<1>4. trg.nextState = "CLDNextDelta" /\ Phase = "CLDNextDelta" /\ Phase' = "CLDWriteField"
      /\ reply = "none" /\ connected
  BY <1>1, <1>2 DEF Inv, Links, Phase, BuildStates, Building
<1>5. Links'
  BY <1>1, <1>2, <1>4 DEF Links, Phase, Between, Building, In, SentStates, BuildStates
<1>6. Building /\ Building' /\ ~Posted /\ ~Posted' /\ ~Between /\ ~Between'
  BY <1>1, <1>2, <1>4 DEF Building, Posted, Between, In, SentStates, BuildStates
<1>7. Sent' = Sent
  <2>1. wire \in Seq(DeltaType)
    BY DEF Inv, TypeOK
  <2> QED BY <1>1, <1>2, <2>1 DEF Sent, In
<1>8. Counts' /\ BatchInv' /\ BuildInv' /\ PostedInv' /\ WireInv' /\ HeldInv' /\ ServerInv' /\ EndInv'
  BY <1>1, <1>2, <1>4, <1>6, <1>7, SamePost DEF In
<1> QED BY <1>3, <1>5, <1>8 DEF Inv

LEMMA EndDeltaInv == ASSUME Inv, EndDelta PROVE Inv'
<1> DEFINE t == [trg EXCEPT !.resp = "none"]
<1>1. /\ UNCHANGED <<logState, csTotal, rawLeft, ready, connected, wire, reply, server>>
      /\ trg.state = "CLDEndDelta" /\ Write(<<>>, t, "CLDRead")
  BY DEF EndDelta, log, net, In
<1>2. /\ Steady /\ trg'.state = "CLDWrite" /\ trg'.nextState = "CLDRead" /\ trg'.out = <<>>
      /\ trg'.stcd = trg.stcd /\ trg' \in TrgType /\ trg'.resp = "none"
  <2>1. trg \in TrgType /\ <<>> \in Seq(DeltaType)
    BY DEF Inv, TypeOK
  <2> QED BY <1>1, <2>1 DEF Write, Steady, TrgType, States, Posting
<1>3. TypeOK'
  BY <1>1, <1>2 DEF Inv, TypeOK
<1>4. trg.nextState = "CLDEndDelta" /\ Phase = "CLDEndDelta" /\ Phase' = "CLDRead"
      /\ reply = "none" /\ connected
  BY <1>1, <1>2 DEF Inv, Links, Phase, BuildStates, SentStates
<1>5. Links'
  BY <1>1, <1>2, <1>4 DEF Links, Phase, Between, Building, In, SentStates, BuildStates
<1>6. ~Building /\ ~Building' /\ Posted /\ Posted' /\ ~Between /\ ~Between'
  BY <1>1, <1>2, <1>4 DEF Building, Posted, Between, In, SentStates, BuildStates
<1>7. Sent' = Sent
  <2>1. wire \in Seq(DeltaType)
    BY DEF Inv, TypeOK
  <2> QED BY <1>1, <1>2, <2>1 DEF Sent, In
<1>8. Counts' /\ BatchInv' /\ BuildInv' /\ PostedInv' /\ WireInv' /\ HeldInv' /\ ServerInv' /\ EndInv'
  BY <1>1, <1>2, <1>4, <1>6, <1>7, SamePost DEF In
<1> QED BY <1>3, <1>5, <1>8 DEF Inv

LEMMA WrittenInv == ASSUME Inv, Written PROVE Inv'
<1>1. /\ UNCHANGED <<logState, csTotal, rawLeft, ready, connected, reply, server>>
      /\ trg.state = "CLDWrite" /\ wire' = wire \o trg.out
      /\ trg' = [trg EXCEPT !.state = trg.nextState, !.out = <<>>]
  BY DEF Written, log, In
<1>2. trg \in TrgType /\ trg.nextState \in BuildStates \cup {"CLDEndDelta", "CLDRead"} /\ reply = "none" /\ connected
  BY <1>1 DEF Inv, TypeOK, Links, In
<1>3. /\ Steady /\ trg'.state = trg.nextState /\ trg'.nextState = trg.nextState /\ trg'.out = <<>>
      /\ trg'.stcd = trg.stcd /\ trg' \in TrgType /\ trg'.resp = trg.resp
  <2>1. <<>> \in Seq(DeltaType)
    OBVIOUS
  <2> QED BY <1>1, <1>2, <2>1 DEF Steady, TrgType
<1>4. TypeOK'
  <2>1. wire \in Seq(DeltaType) /\ trg.out \in Seq(DeltaType)
    BY Fields DEF Inv, TypeOK
  <2>2. wire' \in Seq(DeltaType)
    BY <1>1, <2>1
  <2> QED BY <1>1, <1>3, <2>2 DEF Inv, TypeOK
<1>5. Phase = trg.nextState /\ Phase' = trg.nextState
  BY <1>1, <1>2, <1>3 DEF Phase, BuildStates
<1>6. Links'
  BY <1>1, <1>2, <1>3, <1>5 DEF Inv, Links, Phase, Between, Building, In, SentStates, BuildStates
<1>7. (Building' <=> Building) /\ (Posted' <=> Posted) /\ ~Between /\ ~Between'
      /\ \A s \in {"CLDConnect", "Finishing", "Idle"} : ~In(s) /\ ~In(s)'
  BY <1>1, <1>2, <1>3, <1>5 DEF Building, Posted, Between, In, SentStates, BuildStates
<1>8. Sent' = Sent
  BY <1>1, <1>2, <1>3 DEF Sent, In, BuildStates
<1>9. Counts' /\ BatchInv' /\ BuildInv' /\ PostedInv' /\ WireInv' /\ HeldInv' /\ ServerInv' /\ EndInv'
  BY <1>1, <1>3, <1>5, <1>7, <1>8, SamePost
<1> QED BY <1>4, <1>6, <1>9 DEF Inv

LEMMA ReadReplyInv == ASSUME Inv, ReadReply PROVE Inv'
<1>1. /\ UNCHANGED <<logState, csTotal, rawLeft, ready, connected, wire, reply, server>>
      /\ trg.state = "CLDRead" /\ reply # "none" /\ trg' = [trg EXCEPT !.resp = reply]
  BY DEF ReadReply, log, net, In
<1>2. trg \in TrgType /\ trg.nextState = "CLDRead" /\ connected /\ reply \in {"none", "ok", "refused"}
  BY <1>1 DEF Inv, TypeOK, Links, SentStates
<1>3. /\ Steady /\ trg'.state = "CLDRead" /\ trg'.nextState = "CLDRead" /\ trg'.out = trg.out
      /\ trg'.stcd = trg.stcd /\ trg' \in TrgType /\ trg'.resp = reply
  BY <1>1, <1>2 DEF Steady, TrgType
<1>4. TypeOK'
  BY <1>1, <1>3 DEF Inv, TypeOK
<1>5. Phase = "CLDRead" /\ Phase' = "CLDRead"
  BY <1>1, <1>2, <1>3 DEF Phase
<1>6. Links'
  BY <1>1, <1>2, <1>3, <1>5 DEF Inv, Links, Phase, Between, Building, In, SentStates, BuildStates
<1>7. ~Building /\ ~Building' /\ Posted /\ Posted' /\ ~Between /\ ~Between' /\ Sent' = Sent
  BY <1>1, <1>2, <1>3, <1>5 DEF Building, Posted, Between, In, Sent, SentStates, BuildStates
<1>8. Counts' /\ BatchInv' /\ BuildInv' /\ PostedInv' /\ WireInv' /\ HeldInv' /\ ServerInv' /\ EndInv'
  BY <1>1, <1>3, <1>5, <1>7, SamePost DEF In
<1> QED BY <1>4, <1>6, <1>8 DEF Inv

LEMMA CloseReadInv == ASSUME Inv, CloseRead PROVE Inv'
<1>1. /\ UNCHANGED <<logState, csTotal, rawLeft, ready, connected, wire, reply, server>>
      /\ trg.state = "CLDRead" /\ trg' = [trg EXCEPT !.state = "CLDDisconnect", !.nextState = "Working"]
  BY DEF CloseRead, log, In
<1>2. trg \in TrgType /\ trg.nextState = "CLDRead" /\ connected
  BY <1>1 DEF Inv, TypeOK, Links, SentStates
<1>3. /\ Steady /\ trg'.state = "CLDDisconnect" /\ trg'.nextState = "Working" /\ trg'.out = trg.out
      /\ trg'.stcd = trg.stcd /\ trg' \in TrgType /\ trg'.resp = trg.resp
  BY <1>1, <1>2 DEF Steady, TrgType, States, Posting
<1>4. TypeOK'
  BY <1>1, <1>3 DEF Inv, TypeOK
<1>5. Phase = "CLDRead" /\ Phase' = "Working"
  BY <1>1, <1>2, <1>3 DEF Phase
<1>6. Links'
  BY <1>1, <1>2, <1>3, <1>5 DEF Inv, Links, Phase, Between, Building, In, SentStates, BuildStates
<1>7. ~Building /\ ~Building' /\ Posted /\ Posted' /\ ~Between /\ ~Between' /\ Sent' = Sent
  BY <1>1, <1>2, <1>3, <1>5 DEF Building, Posted, Between, In, Sent, SentStates, BuildStates
<1>8. Counts' /\ BatchInv' /\ BuildInv' /\ PostedInv' /\ WireInv' /\ HeldInv' /\ ServerInv' /\ EndInv'
  BY <1>1, <1>3, <1>5, <1>7, SamePost DEF In
<1> QED BY <1>4, <1>6, <1>8 DEF Inv

LEMMA DisconnectedInv == ASSUME Inv, Disconnected PROVE Inv'
<1>1. /\ UNCHANGED <<logState, csTotal, rawLeft, ready, wire, reply, server>> /\ connected' = FALSE
      /\ trg.state = "CLDDisconnect" /\ trg' = [trg EXCEPT !.state = trg.nextState]
  BY DEF Disconnected, Goto, log, In
<1>2. trg \in TrgType /\ (trg.nextState = "Working" \/ (trg.nextState = "Finishing" /\ trg.stcd = "STCDError"))
  BY <1>1 DEF Inv, TypeOK, Links, In
<1>3. /\ Steady /\ trg'.state = trg.nextState /\ trg'.nextState = trg.nextState /\ trg'.out = trg.out
      /\ trg'.stcd = trg.stcd /\ trg' \in TrgType /\ trg'.resp = trg.resp
  BY <1>1, <1>2 DEF Steady, TrgType
<1>4. TypeOK'
  BY <1>1, <1>3 DEF Inv, TypeOK
<1>5. Phase = trg.nextState /\ Phase' = trg.nextState
  BY <1>1, <1>2, <1>3 DEF Phase
<1>6. Links'
  BY <1>1, <1>2, <1>3, <1>5 DEF Inv, Links, Phase, Between, Building, In, SentStates, BuildStates
<1>7. ~Building /\ ~Building' /\ (Posted' <=> Posted) /\ ~Between /\ ~Between' /\ Sent' = Sent
      /\ ~In("CLDConnect") /\ ~In("CLDConnect")' /\ ~In("Idle") /\ ~In("Finishing")
  BY <1>1, <1>2, <1>3, <1>5 DEF Building, Posted, Between, In, Sent, SentStates, BuildStates
<1>8. Counts' /\ BatchInv' /\ BuildInv' /\ PostedInv' /\ WireInv' /\ HeldInv' /\ ServerInv' /\ EndInv'
  BY <1>1, <1>3, <1>5, <1>7, SamePost
<1> QED BY <1>4, <1>6, <1>8 DEF Inv

LEMMA WriteFailsInv == ASSUME Inv, WriteFails PROVE Inv'
<1>1. /\ UNCHANGED <<logState, csTotal, rawLeft, ready, connected, wire, reply, server>>
      /\ trg.state = "CLDWrite" /\ trg' = Broken
  BY DEF WriteFails, Fails, log, In
<1>2. trg \in TrgType /\ connected
  BY <1>1 DEF Inv, TypeOK, Links, In
<1>3. /\ Steady /\ trg'.state = "CLDDisconnect" /\ trg'.nextState = "Finishing"
      /\ trg'.stcd = "STCDError" /\ trg' \in TrgType
  BY <1>1, <1>2 DEF Broken, Steady, TrgType, States, Posting
<1>4. TypeOK'
  BY <1>1, <1>3 DEF Inv, TypeOK
<1>5. Phase' = "Finishing"
  BY <1>3 DEF Phase
<1>6. Links'
  BY <1>1, <1>2, <1>3, <1>5 DEF Links, Phase, Between, Building, In, SentStates, BuildStates
<1>7. ~Building' /\ ~Posted' /\ ~Between' /\ ~In("CLDConnect")' /\ ~In("Idle")
  BY <1>1, <1>3, <1>5 DEF Building, Posted, Between, In, SentStates, BuildStates
<1>8. Counts' /\ BatchInv' /\ BuildInv' /\ PostedInv' /\ WireInv' /\ HeldInv' /\ ServerInv' /\ EndInv'
  BY <1>1, <1>3, <1>7, NoPost
<1> QED BY <1>4, <1>6, <1>8 DEF Inv

LEMMA NoConnectionInv == ASSUME Inv, NoConnection PROVE Inv'
<1>1. /\ UNCHANGED <<logState, csTotal, rawLeft, ready, connected, wire, reply, server>>
      /\ trg.state = "CLDConnect" /\ trg' = AfterRefused
  BY DEF NoConnection, Fails, log, In
<1>2. trg \in TrgType /\ Between /\ ~In("Idle")
      /\ (trg.nextState = "Idle" \/ (trg.nextState = "Working" /\ reply = "ok"))
  BY <1>1 DEF Inv, TypeOK, Links, Between, In
<1>3. /\ Steady /\ trg' \in TrgType
      /\ \/ /\ trg'.state = "CLDDisconnect" /\ trg'.nextState = "Finishing" /\ trg'.stcd = "STCDError" /\ connected
         \/ trg'.state = "Finishing" /\ trg'.nextState = trg.nextState /\ trg'.stcd = "STCDError"
         \/ trg'.state = "Running" /\ trg'.nextState = trg.nextState /\ trg'.stcd = trg.stcd
  <2>1. CASE FFinish /\ connected
    BY <1>1, <1>2, <2>1 DEF AfterRefused, Broken, Steady, TrgType, States, Posting
  <2>2. CASE FFinish /\ ~connected
    BY <1>1, <1>2, <2>2 DEF AfterRefused, Broken, Steady, TrgType, States, Posting
  <2>3. CASE ~FFinish
    BY <1>1, <1>2, <2>3 DEF AfterRefused, Steady, TrgType, States, Posting
  <2> QED BY <2>1, <2>2, <2>3
<1>4. TypeOK'
  BY <1>1, <1>3 DEF Inv, TypeOK
<1>5. Phase' \in {"Finishing", "Running"} /\ (Phase' = "Finishing" => trg'.stcd = "STCDError")
  BY <1>3 DEF Phase
<1>6. Links'
  BY <1>1, <1>2, <1>3, <1>5 DEF Links, Phase, Between, Building, In, SentStates, BuildStates
<1>7. ~Building' /\ ~Posted' /\ ~In("CLDConnect")'
  BY <1>1, <1>2, <1>3, <1>5 DEF Building, Posted, In, SentStates, BuildStates
<1>8. Counts' /\ BatchInv' /\ BuildInv' /\ PostedInv' /\ WireInv' /\ HeldInv' /\ ServerInv' /\ EndInv'
  BY <1>1, <1>2, <1>3, <1>5, <1>7, NoPost
<1> QED BY <1>4, <1>6, <1>8 DEF Inv

LEMMA FinishingInv == ASSUME Inv, Finishing PROVE Inv'
<1>1. /\ UNCHANGED <<logState, csTotal, rawLeft, ready, connected, wire, reply, server>>
      /\ trg.state = "Finishing" /\ trg' = [trg EXCEPT !.state = "Idle", !.nextState = "Idle"]
  BY DEF Finishing, log, net, In
<1>2. trg \in TrgType
  BY DEF Inv, TypeOK
<1>3. /\ Steady /\ trg'.state = "Idle" /\ trg'.nextState = "Idle" /\ trg'.stcd = trg.stcd /\ trg' \in TrgType
  BY <1>1, <1>2 DEF Steady, TrgType, States, Posting
<1>4. TypeOK'
  BY <1>1, <1>3 DEF Inv, TypeOK
<1>5. Phase = "Finishing" /\ Phase' = "Idle"
  BY <1>1, <1>3 DEF Phase
<1>6. Links'
  BY <1>1, <1>2, <1>3, <1>5 DEF Links, Phase, Between, Building, In, SentStates, BuildStates
<1>7. ~Building' /\ ~Posted' /\ ~Between' /\ ~In("CLDConnect")' /\ In("Idle")'
  BY <1>1, <1>3, <1>5 DEF Building, Posted, Between, In, SentStates, BuildStates
<1>8. Counts' /\ BatchInv' /\ BuildInv' /\ PostedInv' /\ WireInv' /\ HeldInv' /\ ServerInv' /\ EndInv'
  BY <1>1, <1>3, <1>5, <1>7, NoPost DEF Inv, EndInv
<1> QED BY <1>4, <1>6, <1>8 DEF Inv

LEMMA LogStopsInv == ASSUME Inv, LogStops PROVE Inv'
<1>1. /\ UNCHANGED <<csTotal, rawLeft, trg, ready, connected, wire, reply, server>>
      /\ trg.state = "Idle" /\ logState = "Finishing" /\ logState' = "Stopped"
  BY DEF LogStops, net, In
<1>2. trg' \in TrgType /\ trg'.state = "Idle" /\ trg'.nextState = "Idle" /\ trg'.stcd = trg.stcd /\ Steady
  BY <1>1 DEF Inv, TypeOK, Links, In, Steady
<1>3. TypeOK'
  BY <1>1, <1>2 DEF Inv, TypeOK
<1>4. Phase = "Idle" /\ Phase' = "Idle"
  BY <1>1, <1>2 DEF Phase
<1>5. Links'
  BY <1>1, <1>2, <1>4 DEF Links, Phase, Between, Building, In, SentStates, BuildStates
<1>6. ~Building' /\ ~Posted' /\ ~Between' /\ ~In("CLDConnect")' /\ In("Idle")'
  BY <1>1, <1>2, <1>4 DEF Building, Posted, Between, In, SentStates, BuildStates
<1>7. Counts' /\ BatchInv' /\ BuildInv' /\ PostedInv' /\ WireInv' /\ HeldInv' /\ ServerInv' /\ EndInv'
  BY <1>1, <1>2, <1>4, <1>6, NoPost DEF Inv, EndInv
<1> QED BY <1>3, <1>5, <1>7 DEF Inv

LEMMA DoneInv == ASSUME Inv, Done PROVE Inv'
<1>1. /\ UNCHANGED <<logState, csTotal, rawLeft, ready, connected, wire, reply, server>>
      /\ trg.state = "Running" /\ FFinish /\ csTotal = trg.csProcessed
      /\ trg' = [trg EXCEPT !.state = "Finishing", !.stcd = "STCDNormal"]
  BY DEF Done, log, net, In
<1>2. trg \in TrgType /\ Between /\ ~In("Idle") /\ Over
      /\ (trg.nextState = "Idle" \/ (trg.nextState = "Working" /\ reply = "ok"))
  BY <1>1 DEF Inv, TypeOK, Links, Between, In, FFinish, Over
<1>3. ~trg.fFinishTime
  BY <1>1, Fields DEF Inv, Counts
<1>4. /\ Steady /\ trg'.state = "Finishing" /\ trg'.nextState = trg.nextState /\ trg'.stcd = "STCDNormal"
      /\ trg' \in TrgType
  BY <1>1, <1>2 DEF Steady, TrgType, States, Posting
<1>5. TypeOK'
  BY <1>1, <1>4 DEF Inv, TypeOK
<1>6. Phase' = "Finishing"
  BY <1>4 DEF Phase
<1>7. Links'
  BY <1>1, <1>2, <1>4, <1>6 DEF Links, Phase, Between, Building, In, SentStates, BuildStates
<1>8. ~Building' /\ ~Posted' /\ ~Between' /\ ~In("CLDConnect")'
  BY <1>1, <1>2, <1>4, <1>6 DEF Building, Posted, Between, In, SentStates, BuildStates
<1>9. Counts' /\ BatchInv' /\ BuildInv' /\ PostedInv' /\ WireInv' /\ HeldInv' /\ ServerInv' /\ EndInv'
  BY <1>1, <1>2, <1>3, <1>4, <1>8, NoPost
<1> QED BY <1>5, <1>7, <1>9 DEF Inv

\* The tests of the Running state are made with something to post, or while the log goes on.
LEMMA GoingOn ==
  ASSUME Inv, Going
  PROVE  /\ trg \in TrgType /\ trg.state = "Running" /\ Phase = "Running" /\ Between
         /\ (trg.nextState = "Idle" \/ (trg.nextState = "Working" /\ reply = "ok"))
         /\ ~Building /\ ~Posted /\ Held = trg.csProcessed /\ logState # "Stopped"
         /\ FFinish => trg.csProcessed < csTotal
<1>1. trg \in TrgType /\ trg.state = "Running" /\ Phase = "Running" /\ Between
      /\ (trg.nextState = "Idle" \/ (trg.nextState = "Working" /\ reply = "ok"))
  BY DEF Going, In, Inv, TypeOK, Links, Between, Phase
<1>2. ~Building /\ ~Posted /\ ~In("Idle")
  BY <1>1 DEF Building, Posted, In, SentStates, BuildStates
<1>3. Held = trg.csProcessed /\ logState # "Stopped" /\ trg.csProcessed <= csTotal
  BY <1>1, <1>2 DEF Inv, HeldInv, Counts
<1>4. FFinish => trg.csProcessed < csTotal
  BY <1>3, Fields DEF Going
<1> QED BY <1>1, <1>2, <1>3, <1>4

LEMMA WaitToPostInv == ASSUME Inv, WaitToPost PROVE Inv'
<1>1. /\ UNCHANGED <<logState, csTotal, rawLeft, ready, connected, wire, reply, server>> /\ Going
      /\ trg' = [trg EXCEPT !.fFinishTime = @ \/ FFinish, !.cSampleWait = csTotal]
  BY DEF WaitToPost, log, net
<1>2. /\ trg \in TrgType /\ trg.state = "Running" /\ Phase = "Running" /\ Between
      /\ (trg.nextState = "Idle" \/ (trg.nextState = "Working" /\ reply = "ok"))
      /\ Held = trg.csProcessed /\ logState # "Stopped" /\ csTotal \in Nat
      /\ FFinish => trg.csProcessed < csTotal
  BY <1>1, GoingOn, Fields
<1>3. /\ trg' \in TrgType /\ trg'.state = "Running" /\ trg'.nextState = trg.nextState
      /\ trg'.csProcessed = trg.csProcessed /\ trg'.csVSave = trg.csVSave
      /\ (trg'.fFinishTime <=> trg.fFinishTime \/ FFinish)
  BY <1>1, <1>2 DEF TrgType
<1>4. TypeOK'
  BY <1>1, <1>3 DEF Inv, TypeOK
<1>5. Phase' = "Running" /\ Between' /\ ~Building' /\ ~Posted' /\ ~In("CLDConnect")'
  BY <1>3 DEF Phase, Between, Building, Posted, In, SentStates, BuildStates
<1>6. Links'
  BY <1>1, <1>2, <1>3, <1>5 DEF Links, In, SentStates, BuildStates
<1>7. Counts'
  BY <1>1, <1>2, <1>3, <1>5 DEF Inv, Counts, Over, FFinish
<1>8. BatchInv' /\ BuildInv' /\ PostedInv' /\ WireInv' /\ EndInv'
  BY <1>5 DEF BatchInv, BuildInv, PostedInv, WireInv, EndInv
<1>9. HeldInv' /\ ServerInv'
  BY <1>1, <1>2, <1>3, <1>5, ScansStay DEF Inv, HeldInv, ServerInv, Over
<1> QED BY <1>4, <1>6, <1>7, <1>8, <1>9 DEF Inv

LEMMA ConnectInv == ASSUME Inv, Connect PROVE Inv'
<1>1. /\ UNCHANGED <<logState, csTotal, rawLeft, ready, server>> /\ trg.state = "CLDConnect"
      /\ connected' = TRUE /\ wire' = <<>> /\ reply' = "none" /\ Write(<<>>, trg, "CLDWriteUpdate")
  BY DEF Connect, log, In
<1>2. Steady /\ trg'.state = "CLDWrite" /\ trg'.nextState = "CLDWriteUpdate" /\ trg'.out = <<>>
      /\ trg'.stcd = trg.stcd /\ trg' \in TrgType
  BY <1>1, Handed DEF States, Posting
<1>3. TypeOK'
  <2>1. wire' \in Seq(DeltaType)
    BY <1>1
  <2> QED BY <1>1, <1>2, <2>1 DEF Inv, TypeOK
<1>4. /\ Phase = "CLDConnect" /\ Phase' = "CLDWriteUpdate" /\ Between /\ ~Between' /\ Building' /\ ~Posted /\ ~Posted'
      /\ \A s \in {"CLDConnect", "Idle", "Finishing"} : ~In(s)'
      /\ In("CLDConnect")
  BY <1>1, <1>2 DEF Phase, Between, Building, Posted, In, SentStates, BuildStates
<1>5. Links'
  BY <1>1, <1>2, <1>4 DEF Links, In, SentStates, BuildStates
<1>6. Sent' = <<>> /\ Len(Sent') = 0 /\ DOMAIN Sent' = {}
  BY <1>1, <1>2 DEF Sent, In
<1>7. Counts'
  BY <1>1, <1>2, <1>4, SteadyFacts DEF Inv, Counts, Steady, In
<1>8. BatchInv'
  BY <1>1, <1>2, <1>4 DEF Inv, BatchInv, Steady, In
<1>9. BuildInv'
  <2>1. 0 * CActiveCh = 0
    BY Bounds
  <2>2. trg'.csVSaved = 0 /\ Len(Sent') * CActiveCh = 0
    BY <1>2, <1>4, <1>6, <2>1 DEF Inv, BuildInv, Steady
  <2> QED BY <1>2, <1>4, <2>2, SteadyFacts DEF Inv, BuildInv, Steady
<1>a. PostedInv' /\ WireInv' /\ EndInv'
  BY <1>4, <1>6 DEF PostedInv, WireInv, EndInv
<1>b. HeldInv' /\ ServerInv'
  BY <1>2, <1>4, SteadyFacts DEF Inv, HeldInv, ServerInv, Steady
<1> QED BY <1>3, <1>5, <1>7, <1>8, <1>9, <1>a, <1>b DEF Inv

LEMMA WorkingInv == ASSUME Inv, Working PROVE Inv'
<1>1. /\ UNCHANGED <<logState, csTotal, rawLeft, ready, connected, wire, reply, server>> /\ trg.state = "Working"
      /\ trg' = IF Succeeded
                THEN [trg EXCEPT !.csProcessed = @ + trg.csVSaved, !.state = "Running", !.csBackLog = 0]
                ELSE [trg EXCEPT !.stcd = "STCDError", !.state = "Finishing"]
  BY DEF Working, log, net, In
<1>2. trg \in TrgType /\ trg.nextState = "Working" /\ Phase = "Working" /\ ~Building /\ Posted /\ ~Between
      /\ ~In("Idle") /\ ~In("Finishing") /\ ~In("CLDConnect") /\ ~In("CLDWrite")
  BY <1>1 DEF Inv, TypeOK, Links, In, Phase, Building, Posted, Between, SentStates, BuildStates
<1>3. CASE Succeeded
  <2>1. reply = "ok" /\ trg.csVSaved = trg.csVSave /\ Held = trg.csProcessed + trg.csVSave
    BY <1>2, <1>3 DEF Succeeded, Inv, Links, PostedInv, HeldInv
  <2>2. trg.csProcessed \in Nat /\ trg.csVSave \in Nat
    BY Fields
  <2>3. /\ trg' \in TrgType /\ trg'.state = "Running" /\ trg'.nextState = "Working"
        /\ trg'.csProcessed = trg.csProcessed + trg.csVSave /\ trg'.fFinishTime = trg.fFinishTime
        /\ trg'.csVSave = trg.csVSave /\ trg'.stcd = trg.stcd
    <3>1. trg.csProcessed + trg.csVSaved \in Nat
      BY <2>1, <2>2
    <3> QED BY <1>1, <1>2, <1>3, <2>1, <3>1 DEF TrgType, States
  <2>4. TypeOK'
    BY <1>1, <2>3 DEF Inv, TypeOK
  <2>5. Phase' = "Running" /\ Between' /\ ~Building' /\ ~Posted' /\ ~In("CLDConnect")'
    BY <2>3 DEF Phase, Between, Building, Posted, In, SentStates, BuildStates
  <2>6. Links'
    BY <1>1, <2>1, <2>3, <2>5 DEF Links, In, SentStates, BuildStates
  <2>7. trg.csProcessed + trg.csVSave \in Whole /\ trg.csProcessed + trg.csVSave <= csTotal
    BY <1>2, WholeSum DEF Inv, Counts, BatchInv
  <2>8. Counts'
    BY <1>1, <1>2, <2>3, <2>5, <2>7 DEF Inv, Counts, Over
  <2>9. BatchInv' /\ BuildInv' /\ PostedInv' /\ WireInv' /\ EndInv'
    BY <2>5 DEF BatchInv, BuildInv, PostedInv, WireInv, EndInv
  <2>a. HeldInv' /\ ServerInv'
    <3>1. Scans' = Scans /\ Held' = Held /\ (Over' <=> Over)
      BY <1>1, ScansStay DEF Over
    <3>2. ServerInv'
      BY <1>1, <3>1 DEF Inv, ServerInv
    <3>3. HeldInv'
      BY <1>1, <2>1, <2>2, <2>3, <2>5, <2>7, <3>1 DEF Inv, HeldInv
    <3> QED BY <3>2, <3>3
  <2> QED BY <2>4, <2>6, <2>8, <2>9, <2>a DEF Inv
<1>4. CASE ~Succeeded
  <2>1. /\ Steady /\ trg' \in TrgType /\ trg'.state = "Finishing" /\ trg'.nextState = "Working"
        /\ trg'.stcd = "STCDError"
    BY <1>1, <1>2, <1>4 DEF Steady, TrgType, States
  <2>2. TypeOK'
    BY <1>1, <2>1 DEF Inv, TypeOK
  <2>3. Phase' = "Finishing" /\ ~Between' /\ ~Building' /\ ~In("CLDConnect")' /\ (Posted' <=> reply = "none")
        /\ Sent' = Sent
    BY <1>1, <1>2, <2>1 DEF Phase, Between, Building, Posted, In, Sent, SentStates, BuildStates
  <2>4. Links'
    BY <1>1, <2>1, <2>3 DEF Links, In, SentStates, BuildStates
  <2>5. Counts' /\ BatchInv' /\ BuildInv' /\ PostedInv' /\ WireInv' /\ HeldInv' /\ ServerInv' /\ EndInv'
    <3>1. CASE reply = "none"
      BY <1>1, <1>2, <2>1, <2>3, <3>1, SamePost
    <3>2. CASE reply # "none"
      BY <1>1, <1>2, <2>1, <2>3, <3>2, NoPost
    <3> QED BY <3>1, <3>2
  <2> QED BY <2>2, <2>4, <2>5 DEF Inv
<1> QED BY <1>3, <1>4

\* While the log goes on, no finish time has been taken and nothing has been padded.
LEMMA NotOver ==
  ASSUME Inv, ~Over
  PROVE  /\ ~trg.fFinishTime /\ Len(server) = Scans
         /\ Posted => trg.deltas * CActiveCh = trg.csVSave
         /\ ~(Phase \in {"Finishing", "Idle"} /\ trg.stcd = "STCDNormal")
<1>1. ~trg.fFinishTime
  BY Fields DEF Inv, Counts
<1> QED BY <1>1 DEF Inv, HeldInv, PostedInv, EndInv

LEMMA StopInv == ASSUME Inv, Stop PROVE Inv'
<1>1. /\ UNCHANGED <<csTotal, trg, ready, connected, wire, reply, server>> /\ rawLeft' \in Nat
      /\ logState = "Running" /\ logState' = "Finishing"
  BY Bounds DEF Stop, net
<1>2. /\ ~Over /\ ~trg.fFinishTime /\ Len(server) = Scans
      /\ Posted => trg.deltas * CActiveCh = trg.csVSave
      /\ ~(Phase \in {"Finishing", "Idle"} /\ trg.stcd = "STCDNormal")
  <2>1. ~Over
    BY <1>1 DEF Over
  <2> QED BY <2>1, NotOver
<1>3. /\ Phase' = Phase /\ (Between' <=> Between) /\ (Building' <=> Building) /\ (Posted' <=> Posted) /\ Sent' = Sent
      /\ \A s : In(s)' <=> In(s)
  BY <1>1 DEF Phase, Between, Building, Posted, In, Sent
<1>4. Scans' = Scans /\ Held' = Held /\ (Due' <=> Due) /\ (\A k : Delta(k)' = Delta(k))
  BY <1>1 DEF Scans, Held, Due, Delta
<1>5. TypeOK' /\ Links'
  <2>1. TypeOK'
    BY <1>1 DEF Inv, TypeOK
  <2>2. Links'
    BY <1>1, <1>3 DEF Inv, Links
  <2> QED BY <2>1, <2>2
<1>6. Counts' /\ BatchInv'
  BY <1>1, <1>2, <1>3 DEF Inv, Counts, BatchInv
<1>7. BuildInv' /\ PostedInv' /\ WireInv'
  <2>1. BuildInv'
    BY <1>1, <1>3, <1>4 DEF Inv, BuildInv
  <2>2. PostedInv' /\ WireInv'
    BY <1>1, <1>2, <1>3, <1>4 DEF Inv, PostedInv, WireInv
  <2> QED BY <2>1, <2>2
<1>8. HeldInv' /\ ServerInv' /\ EndInv'
  BY <1>1, <1>2, <1>3, <1>4 DEF Inv, HeldInv, ServerInv, EndInv
<1> QED BY <1>5, <1>6, <1>7, <1>8 DEF Inv

LEMMA ConvertInv == ASSUME Inv, NEW n \in 1 .. MaxBurst, Convert(n) PROVE Inv'
<1>1. /\ UNCHANGED <<logState, trg, ready, connected, wire, reply, server>>
      /\ csTotal' = csTotal + n * CActiveCh
      /\ trg.state \notin {"Running", "Finishing", "Idle"} => csTotal' <= trg.csProcessed + CSVBUFF
  BY DEF Convert, net
<1>2. csTotal \in Nat /\ n \in Nat \ {0} /\ rawLeft \in Nat /\ csTotal \in Whole /\ trg.csProcessed \in Nat
  BY Bounds, Fields DEF Inv, TypeOK, Counts
<1>3. /\ rawLeft' \in Nat
      /\ logState = "Running" \/ (logState = "Finishing" /\ rawLeft > 0)
  <2>1. CASE logState = "Running" /\ UNCHANGED rawLeft
    BY <1>2, <2>1
  <2>2. CASE logState = "Finishing" /\ n <= rawLeft /\ rawLeft' = rawLeft - n
    BY <1>2, <2>2
  <2> QED BY <2>1, <2>2 DEF Convert
<1>4. /\ ~Over /\ ~trg.fFinishTime /\ Len(server) = Scans
      /\ Posted => trg.deltas * CActiveCh = trg.csVSave
      /\ ~(Phase \in {"Finishing", "Idle"} /\ trg.stcd = "STCDNormal")
  <2>1. ~Over
    BY <1>2, <1>3 DEF Over
  <2> QED BY <2>1, NotOver
<1>5. csTotal' \in Nat /\ csTotal' \in Whole /\ csTotal <= csTotal'
  <2> DEFINE more == n * CActiveCh
  <2>1. more \in Whole /\ more \in Nat
    BY <1>2, Bounds, WholeIs
  <2>2. csTotal' = csTotal + more
    BY <1>1
  <2> HIDE DEF more
  <2> QED BY <1>2, <2>1, <2>2, WholeSum
<1>6. /\ Phase' = Phase /\ (Between' <=> Between) /\ (Building' <=> Building) /\ (Posted' <=> Posted) /\ Sent' = Sent
      /\ \A s : In(s)' <=> In(s)
  BY <1>1 DEF Phase, Between, Building, Posted, In, Sent
<1>7. Scans' = Scans /\ Held' = Held /\ ~Due /\ ~Due' /\ (\A k : Delta(k)' = Delta(k))
  BY <1>1, <1>4 DEF Scans, Held, Due, Delta
<1>8. TypeOK' /\ Links'
  <2>1. TypeOK'
    BY <1>1, <1>3, <1>5 DEF Inv, TypeOK
  <2>2. Links'
    BY <1>1, <1>6 DEF Inv, Links
  <2> QED BY <2>1, <2>2
<1>9. Counts'
  BY <1>1, <1>2, <1>4, <1>5, <1>6 DEF Inv, Counts
<1>a. BatchInv'
  <2>1. In("CLDConnect") \/ Building \/ Posted => In("Finishing") \/ trg.state \notin {"Running", "Finishing", "Idle"}
    BY DEF In, Building, Posted, Phase, BuildStates, SentStates
  <2>2. trg.csProcessed + trg.csVSave \in Nat
    BY Fields
  <2> QED BY <1>1, <1>2, <1>5, <1>6, <2>1, <2>2 DEF Inv, BatchInv, In
<1>b. BuildInv'
  BY <1>1, <1>6, <1>7 DEF Inv, BuildInv
<1>c. PostedInv' /\ WireInv'
  BY <1>1, <1>4, <1>6, <1>7 DEF Inv, PostedInv, WireInv
<1>d. HeldInv' /\ ServerInv' /\ EndInv'
  <2>1. HeldInv'
    BY <1>1, <1>2, <1>4, <1>5, <1>6, <1>7, Fields DEF Inv, HeldInv
  <2>2. ServerInv' /\ EndInv'
    BY <1>1, <1>4, <1>6, <1>7 DEF Inv, ServerInv, EndInv
  <2> QED BY <2>1, <2>2
<1> QED BY <1>8, <1>9, <1>a, <1>b, <1>c, <1>d DEF Inv

LEMMA Joined ==
  ASSUME NEW T, NEW s \in Seq(T), NEW t \in Seq(T)
  PROVE  /\ s \o t \in Seq(T) /\ Len(s \o t) = Len(s) + Len(t)
         /\ DOMAIN (s \o t) = 1 .. Len(s) + Len(t)
         /\ \A j \in 1 .. Len(s) : (s \o t)[j] = s[j]
         /\ \A j \in Len(s) + 1 .. Len(s) + Len(t) : (s \o t)[j] = t[j - Len(s)]
OBVIOUS

LEMMA ServerTakesInv == ASSUME Inv, ServerTakes PROVE Inv'
<1> DEFINE C == CActiveCh
           d == trg.deltas
           m == Scans
           p == trg.csProcessed
           v == trg.csVSave
<1>1. /\ UNCHANGED <<logState, csTotal, rawLeft, trg, ready, connected, wire>>
      /\ reply = "none" /\ reply' = "ok" /\ trg.nextState \in {"CLDRead", "Working"} /\ trg.state # "CLDWrite"
      /\ server' = server \o SubSeq(wire, 1, d)
  BY DEF ServerTakes, log
<1>2. trg \in TrgType /\ wire \in Seq(DeltaType) /\ server \in Seq(DeltaType) /\ trg.state \in States
  BY Fields DEF Inv, TypeOK
<1>3. Posted /\ ~Building /\ ~Between /\ ~In("CLDConnect") /\ Phase # "CLDEndDelta" /\ ~In("CLDWrite")
  BY <1>1, <1>2 DEF Inv, Links, Posted, Building, Between, Phase, In, States, Posting, BuildStates, SentStates
<1>4. /\ Phase' = Phase /\ (Between' <=> Between) /\ (Building' <=> Building) /\ Sent' = Sent /\ Sent = wire
      /\ \A s : In(s)' <=> In(s)
      /\ Posted' => Posted
  BY <1>1, <1>3 DEF Phase, Between, Building, Posted, In, Sent
<1>5. /\ C \in Nat \ {0} /\ d \in Nat /\ m \in Nat /\ p \in Nat /\ v \in Nat /\ v > 0
      /\ m * C = p /\ p + v <= csTotal /\ csTotal \in Nat
  BY <1>1, <1>3, Bounds, Fields DEF Inv, BatchInv, HeldInv, Held
<1>6. Len(server) = m
  BY <1>1, <1>3, <1>5 DEF Inv, HeldInv
<1>7. Len(wire) = d /\ (d * C = v \/ (d * C = v + C /\ Over /\ csTotal = p + v))
      /\ \A k \in 1 .. d : wire[k] = Delta(k)
  <2>1. Len(wire) = d /\ (d * C = v \/ (d * C = v + C /\ Over /\ csTotal = p + v))
    BY <1>3, <1>4 DEF Inv, PostedInv
  <2>2. DOMAIN wire = 1 .. d
    BY <1>2, <2>1
  <2> QED BY <1>3, <1>4, <2>1, <2>2 DEF Inv, WireInv
<1>8. /\ server' \in Seq(DeltaType) /\ Len(server') = m + d /\ DOMAIN server' = 1 .. m + d
      /\ \A j \in 1 .. m : server'[j] = server[j]
      /\ \A j \in m + 1 .. m + d : server'[j] = wire[j - m]
  <2>1. SubSeq(wire, 1, d) = wire
    BY <1>2, <1>7
  <2>2. server' = server \o wire
    BY <1>1, <2>1
  <2> HIDE DEF d, m
  <2>3. server' \in Seq(DeltaType) /\ Len(server') = m + d /\ DOMAIN server' = 1 .. m + d
    <3>1. Len(wire) = d /\ Len(server) = m
      BY <1>6, <1>7
    <3>2. /\ server \o wire \in Seq(DeltaType) /\ Len(server \o wire) = Len(server) + Len(wire)
          /\ DOMAIN (server \o wire) = 1 .. Len(server) + Len(wire)
      BY <1>2, Joined
    <3> QED BY <2>2, <3>1, <3>2
  <2>4. \A j \in 1 .. m : server'[j] = server[j]
    BY <1>2, <1>6, <2>2, Joined
  <2>5. \A j \in m + 1 .. m + d : server'[j] = wire[j - m]
    <3>1. \A j \in Len(server) + 1 .. Len(server) + Len(wire) : (server \o wire)[j] = wire[j - Len(server)]
      BY <1>2, Joined
    <3> QED BY <1>6, <1>7, <2>2, <3>1
  <2> QED BY <2>3, <2>4, <2>5
<1>9. \A j \in 1 .. m : server'[j] = [n |-> (j - 1) * C, pad |-> FALSE]
  <2>1. DOMAIN server = 1 .. m
    BY <1>2, <1>6
  <2>2. ASSUME NEW j \in 1 .. m PROVE server[j] = [n |-> (j - 1) * C, pad |-> FALSE]
    <3>1. server[j] = [n |-> (IF j > Scans THEN j - 2 ELSE j - 1) * CActiveCh, pad |-> j > Scans]
      BY <2>1 DEF Inv, ServerInv
    <3>2. ~(j > Scans) /\ (j > Scans) = FALSE
      BY <1>5
    <3> QED BY <3>1, <3>2, Zenon
  <2> QED BY <1>8, <2>2
<1> DEFINE Scan(j) == [n |-> (j - 1) * C, pad |-> FALSE]
<1>a. ASSUME NEW k \in 1 .. d, k * C <= v PROVE server'[m + k] = Scan(m + k)
  <2>1. server'[m + k] = Delta(k)
    <3>1. m + k \in m + 1 .. m + d /\ (m + k) - m = k
      BY <1>5
    <3> QED BY <1>7, <1>8, <3>1
  <2>2. Delta(k) = [n |-> p + (k - 1) * C, pad |-> FALSE]
    BY <1>a DEF Delta
  <2>3. p + (k - 1) * C = ((m + k) - 1) * C
    BY <1>5
  <2> QED BY <2>1, <2>2, <2>3
<1> HIDE DEF C, d, m, p, v
<1>b. /\ m' * C = p + v /\ m' \in Nat /\ m' > 0
      /\ \A j \in DOMAIN server' :
           server'[j] = [n |-> (IF j > m' THEN j - 2 ELSE j - 1) * C, pad |-> j > m']
      /\ Len(server') # m' => Over /\ csTotal = p + v
  <2>1. CASE d * C = v
    <3>1. d > 0 /\ \A k \in 1 .. d : k * C <= v
      <4>1. d # 0
        BY <1>5, <2>1
      <4>2. ASSUME NEW k \in 1 .. d PROVE k * C <= d * C
        <5>1. d * C = k * C + (d - k) * C /\ (d - k) * C \in Nat /\ k * C \in Nat
          BY <1>5
        <5> QED BY <5>1
      <4> QED BY <1>5, <2>1, <4>1, <4>2
    <3>2. \A j \in 1 .. m + d : server'[j] = Scan(j)
      <4> SUFFICES ASSUME NEW j \in 1 .. m + d PROVE server'[j] = Scan(j)
        OBVIOUS
      <4>1. CASE j <= m
        BY <1>5, <1>9, <4>1
      <4>2. CASE j > m
        <5>1. j - m \in 1 .. d /\ m + (j - m) = j
          BY <1>5, <4>2
        <5>2. server'[m + (j - m)] = Scan(m + (j - m))
          BY <1>a, <3>1, <5>1
        <5> QED BY <5>1, <5>2
      <4> QED BY <1>5, <4>1, <4>2
    <3>3. ~server'[Len(server')].pad /\ server' # <<>>
      <4>1. m + d \in 1 .. m + d /\ m + d # 0
        BY <1>5, <3>1
      <4>2. server'[m + d].pad = FALSE
        <5>1. server'[m + d] = Scan(m + d)
          BY <3>2, <4>1
        <5> QED BY <5>1
      <4> QED BY <1>8, <4>1, <4>2
    <3>4. m' = m + d
      BY <1>8, <3>3 DEF m, Scans
    <3>5. (m + d) * C = p + v
      BY <1>5, <2>1
    <3>6. ASSUME NEW j \in DOMAIN server'
          PROVE server'[j] = [n |-> (IF j > m' THEN j - 2 ELSE j - 1) * C, pad |-> j > m']
      <4>1. j \in 1 .. m + d /\ ~(j > m')
        BY <1>5, <1>8, <3>4
      <4>2. server'[j] = Scan(j)
        BY <3>2, <4>1
      <4>3. (j > m') = FALSE
        BY <4>1
      <4> QED BY <4>2, <4>3, Zenon
    <3> QED BY <1>5, <1>8, <3>1, <3>4, <3>5, <3>6
  <2>2. CASE d * C = v + C /\ Over /\ csTotal = p + v
    <3>1. d > 1 /\ (d - 1) * C = v /\ \A k \in 1 .. d - 1 : k * C <= v
      <4>1. d # 0 /\ d # 1
        BY <1>5, <2>2
      <4>2. (d - 1) * C = v /\ d - 1 \in Nat
        BY <1>5, <2>2, <4>1
      <4>3. ASSUME NEW k \in 1 .. d - 1 PROVE k * C <= (d - 1) * C
        <5>1. (d - 1) * C = k * C + (d - 1 - k) * C /\ (d - 1 - k) * C \in Nat /\ k * C \in Nat
          BY <1>5
        <5> QED BY <5>1
      <4> QED BY <1>5, <4>1, <4>2, <4>3
    <3>2. \A j \in 1 .. m + d - 1 : server'[j] = Scan(j)
      <4> SUFFICES ASSUME NEW j \in 1 .. m + d - 1 PROVE server'[j] = Scan(j)
        OBVIOUS
      <4>1. CASE j <= m
        BY <1>5, <1>9, <4>1
      <4>2. CASE j > m
        <5>1. j - m \in 1 .. d - 1 /\ j - m \in 1 .. d /\ m + (j - m) = j
          BY <1>5, <4>2
        <5>2. server'[m + (j - m)] = Scan(m + (j - m))
          BY <1>a, <3>1, <5>1
        <5> QED BY <5>1, <5>2
      <4> QED BY <1>5, <4>1, <4>2
    <3>3. server'[m + d] = [n |-> (m + d - 2) * C, pad |-> TRUE]
      <4>1. m + d \in m + 1 .. m + d /\ (m + d) - m = d /\ d \in 1 .. d
        BY <1>5, <3>1
      <4>2. server'[m + d] = Delta(d)
        BY <1>7, <1>8, <4>1
      <4>3. ~(d * C <= v)
        BY <1>5, <2>2
      <4>4. Delta(d) = [n |-> p + v - C, pad |-> TRUE]
        BY <4>3 DEF Delta, C, p, v
      <4>5. p + v - C = (m + d - 2) * C
        BY <1>5, <2>2
      <4> QED BY <4>2, <4>4, <4>5
    <3>4. m' = m + d - 1
      <4>1. server' # <<>> /\ server'[Len(server')].pad
        BY <1>5, <1>8, <3>1, <3>3
      <4>2. m' = Len(server') - 1
        BY <4>1, Zenon DEF m, Scans
      <4> QED BY <1>5, <1>8, <4>2
    <3>5. (m + d - 1) * C = p + v
      BY <1>5, <2>2
    <3>6. ASSUME NEW j \in DOMAIN server'
          PROVE server'[j] = [n |-> (IF j > m' THEN j - 2 ELSE j - 1) * C, pad |-> j > m']
      <4>1. CASE j = m + d
        <5>1. j > m' /\ (j > m') = TRUE
          BY <1>5, <3>4, <4>1
        <5>2. server'[j] = [n |-> (j - 2) * C, pad |-> TRUE]
          <6>1. server'[j] = server'[m + d] /\ j - 2 = m + d - 2
            BY <1>5, <1>8, <4>1
          <6> QED BY <3>3, <6>1, Zenon
        <5> QED BY <5>1, <5>2, Zenon
      <4>2. CASE j # m + d
        <5>1. j \in 1 .. m + d - 1
          BY <1>5, <1>8, <4>2
        <5>2. server'[j] = Scan(j)
          BY <3>2, <5>1
        <5>3. (j > m') = FALSE
          BY <1>5, <3>4, <5>1
        <5> QED BY <5>2, <5>3, Zenon
      <4> QED BY <4>1, <4>2
    <3> QED BY <1>5, <1>8, <2>2, <3>1, <3>4, <3>5, <3>6
  <2> QED BY <1>7, <2>1, <2>2
<1>c. TypeOK'
  BY <1>1, <1>2, <1>8 DEF Inv, TypeOK
<1>d. Links'
  BY <1>1, <1>3, <1>4 DEF Inv, Links
<1>e. Counts' /\ BatchInv' /\ BuildInv'
  BY <1>1, <1>3, <1>4 DEF Inv, Counts, BatchInv, BuildInv, Over
<1>f. PostedInv' /\ WireInv'
  <2>1. (Over' <=> Over) /\ \A k : Delta(k)' = Delta(k)
    BY <1>1 DEF Over, Delta
  <2> QED BY <1>1, <1>3, <1>4, <2>1 DEF Inv, PostedInv, WireInv
<1>g. ServerInv'
  BY <1>b DEF ServerInv, C, m
<1>h. HeldInv'
  <2>1. Held' = p + v /\ (Over' <=> Over)
    BY <1>1, <1>b DEF Held, C, m, Over
  <2> QED BY <1>1, <1>3, <1>4, <1>5, <1>b, <2>1 DEF HeldInv, p, v, m
<1>i. EndInv'
  BY <1>1, <1>4 DEF Inv, EndInv, Over
<1> QED BY <1>c, <1>d, <1>e, <1>f, <1>g, <1>h, <1>i DEF Inv

LEMMA PostInv == ASSUME Inv, Post PROVE Inv'
<1>1. /\ UNCHANGED <<logState, csTotal, rawLeft, connected, wire, reply, server>> /\ Going /\ ready' = FALSE
      /\ CASE Behind = 0 -> UNCHANGED trg
           [] Behind > CsPost -> trg' = [trg EXCEPT !.state = "Finishing", !.stcd = "STCDOverflow"]
           [] OTHER ->
                trg' = [trg EXCEPT !.state = "CLDConnect", !.csVSave = Batch, !.csVSaved = 0,
                                   !.csBackLog = Batch, !.deltas = Deltas(Batch),
                                   !.psVCur = (csTotal - Behind) % CSVBUFF]
  BY DEF Post, log, net
<1>2. /\ trg \in TrgType /\ trg.state = "Running" /\ Phase = "Running" /\ Between /\ ~Building /\ ~Posted
      /\ (trg.nextState = "Idle" \/ (trg.nextState = "Working" /\ reply = "ok"))
      /\ Held = trg.csProcessed /\ logState # "Stopped"
  BY <1>1, GoingOn
<1>3. /\ csTotal \in Nat /\ trg.csProcessed \in Nat /\ trg.csProcessed <= csTotal
      /\ csTotal \in Whole /\ trg.csProcessed \in Whole /\ Behind = csTotal - trg.csProcessed
  BY Fields DEF Inv, Counts, Behind
<1>4. CASE Behind = 0
  <2>1. UNCHANGED trg
    <3>1. ~(Behind > CsPost)
      BY <1>4, Bounds
    <3> QED BY <1>1, <1>4, <3>1
  <2>2. /\ Steady /\ Sent' = Sent /\ Phase' = Phase /\ (Building' <=> Building) /\ (Posted' <=> Posted)
        /\ (Between' <=> Between) /\ \A s : In(s)' <=> In(s)
    BY <1>1, <2>1 DEF Steady, Sent, Phase, Building, Posted, Between, In
  <2>3. TypeOK' /\ Links'
    BY <1>1, <2>1, <2>2 DEF Inv, TypeOK, Links
  <2>4. Counts' /\ BatchInv' /\ BuildInv' /\ PostedInv' /\ WireInv' /\ HeldInv' /\ ServerInv' /\ EndInv'
    BY <1>1, <2>1, <2>2, SamePost
  <2> QED BY <2>3, <2>4 DEF Inv
<1>5. CASE Behind > CsPost
  <2>1. Behind # 0
    BY <1>3, <1>5, Bounds
  <2>2. trg' = [trg EXCEPT !.state = "Finishing", !.stcd = "STCDOverflow"]
    BY <1>1, <1>5, <2>1
  <2>3. /\ Steady /\ trg' \in TrgType /\ trg'.state = "Finishing" /\ trg'.nextState = trg.nextState
        /\ trg'.stcd = "STCDOverflow"
    BY <1>1, <1>2, <2>2 DEF Steady, TrgType, States
  <2>4. TypeOK'
    BY <1>1, <2>3 DEF Inv, TypeOK
  <2>5. Phase' = "Finishing" /\ ~Between' /\ ~Building' /\ ~Posted' /\ ~In("CLDConnect")' /\ ~In("Idle")
    BY <1>1, <1>2, <2>3 DEF Phase, Between, Building, Posted, In, SentStates, BuildStates
  <2>6. Links'
    BY <1>1, <1>2, <2>3, <2>5 DEF Links, In, SentStates, BuildStates
  <2>7. Counts' /\ BatchInv' /\ BuildInv' /\ PostedInv' /\ WireInv' /\ HeldInv' /\ ServerInv' /\ EndInv'
    BY <1>1, <2>3, <2>5, NoPost
  <2> QED BY <2>4, <2>6, <2>7 DEF Inv
<1>6. CASE Behind # 0 /\ ~(Behind > CsPost)
  <2> DEFINE cs == Batch
             p == trg.csProcessed
  <2>1. /\ cs \in Whole /\ cs > 0 /\ p + cs <= csTotal /\ (p % CSVBUFF) + cs <= CSVBUFF
        /\ csTotal <= p + CSVBUFF /\ (csTotal - Behind) % CSVBUFF = p % CSVBUFF
    <3>1. p < csTotal /\ Behind <= CsPost
      BY <1>3, <1>6, Bounds
    <3> QED BY <1>3, <3>1, BatchIs
  <2>2. cs \in Nat /\ p % CSVBUFF \in Nat /\ cs % CActiveCh = 0
        /\ cs \div CActiveCh \in Nat /\ (cs \div CActiveCh) * CActiveCh = cs
    BY <1>3, <2>1, WholeNat, WholeRest
  <2>3. trg' = [trg EXCEPT !.state = "CLDConnect", !.csVSave = cs, !.csVSaved = 0, !.csBackLog = cs,
                           !.deltas = Deltas(cs), !.psVCur = p % CSVBUFF]
    BY <1>1, <1>6, <2>1
  <2> HIDE DEF cs
  <2>4. Deltas(cs) \in Nat
    BY <2>2 DEF Deltas
  <2>5. /\ trg' \in TrgType /\ trg'.state = "CLDConnect" /\ trg'.nextState = trg.nextState
        /\ trg'.csProcessed = p /\ trg'.fFinishTime = trg.fFinishTime /\ trg'.csVSave = cs
        /\ trg'.csVSaved = 0 /\ trg'.csBackLog = cs /\ trg'.deltas = Deltas(cs) /\ trg'.psVCur = p % CSVBUFF
        /\ trg'.stcd = trg.stcd
    BY <1>2, <2>2, <2>3, <2>4 DEF TrgType, States, Posting
  <2>6. TypeOK'
    BY <1>1, <2>5 DEF Inv, TypeOK
  <2>7. /\ Phase' = "CLDConnect" /\ Between' /\ ~Building' /\ ~Posted' /\ In("CLDConnect")' /\ ~In("Finishing")'
    BY <2>5 DEF Phase, Between, Building, Posted, In, SentStates, BuildStates
  <2>8. Links'
    BY <1>1, <1>2, <2>5, <2>7 DEF Links, In, SentStates, BuildStates
  <2>9. Counts'
    BY <1>1, <1>2, <2>5, <2>7 DEF Inv, Counts, Over
  <2>a. BatchInv'
    BY <1>1, <2>1, <2>5, <2>7 DEF BatchInv
  <2>b. BuildInv'
    <3>1. Due' <=> (trg.fFinishTime /\ csTotal = p + cs)
      BY <1>1, <2>5 DEF Due
    <3>2. Deltas(cs) * CActiveCh = cs + (IF trg.fFinishTime /\ csTotal = p + cs THEN CActiveCh ELSE 0)
      <4>1. CASE trg.fFinishTime /\ csTotal = p + cs
        <5>1. Deltas(cs) = cs \div CActiveCh + 1
          BY <4>1 DEF Deltas
        <5>2. (cs \div CActiveCh + 1) * CActiveCh = (cs \div CActiveCh) * CActiveCh + CActiveCh
          BY <2>2, Bounds
        <5> QED BY <2>2, <4>1, <5>1, <5>2
      <4>2. CASE ~(trg.fFinishTime /\ csTotal = p + cs)
        <5>1. Deltas(cs) = cs \div CActiveCh + 0
          BY <4>2 DEF Deltas
        <5> QED BY <2>2, <4>2, <5>1
      <4> QED BY <4>1, <4>2
    <3>3. trg'.deltas * CActiveCh = trg'.csVSave + (IF Due' THEN CActiveCh ELSE 0)
      BY <2>5, <3>1, <3>2
    <3>4. 0 \in Whole /\ 0 <= cs /\ 0 # cs /\ p % CSVBUFF = (p % CSVBUFF) + 0
      BY <2>1, <2>2, WholeNat
    <3> QED BY <2>5, <2>7, <3>3, <3>4 DEF BuildInv
  <2>c. PostedInv' /\ WireInv' /\ EndInv'
    BY <2>7 DEF PostedInv, WireInv, EndInv
  <2>d. HeldInv' /\ ServerInv'
    BY <1>1, <1>2, <2>5, <2>7, ScansStay DEF Inv, HeldInv, ServerInv, Over
  <2> QED BY <2>6, <2>8, <2>9, <2>a, <2>b, <2>c, <2>d DEF Inv
<1> QED BY <1>4, <1>5, <1>6

\* A product by the number of channels tells the factor.
LEMMA OneFactor ==
  ASSUME NEW a \in Nat, NEW b \in Nat, a * CActiveCh = b * CActiveCh
  PROVE  a = b
<1> DEFINE C == CActiveCh
<1>1. C \in Nat \ {0} /\ a * C = b * C
  BY Bounds
<1> HIDE DEF C
<1> QED BY <1>1

\* The field after the ones that are out is the next delta.
LEMMA FieldIs ==
  ASSUME Inv, trg.state = "CLDWriteField",
         trg'.state = "CLDWrite", wire' = wire, trg'.csProcessed = trg.csProcessed, trg'.csVSave = trg.csVSave,
         NEW n \in Nat, NEW pad \in BOOLEAN, trg'.out = <<[n |-> n, pad |-> pad]>>,
         \/ ~pad /\ n = trg.csProcessed + trg.csVSaved /\ trg.csVSaved < trg.csVSave
         \/ pad /\ n = trg.csProcessed + trg.csVSave - CActiveCh /\ trg.csVSaved = trg.csVSave
  PROVE  /\ Len(Sent') \in Nat /\ Len(Sent') * CActiveCh = trg.csVSaved + CActiveCh
         /\ \A k \in DOMAIN Sent' : Sent'[k] = Delta(k)'
         /\ trg'.out \in Seq(DeltaType)
<1> DEFINE e == [n |-> n, pad |-> pad]
           w == Len(wire)
           C == CActiveCh
<1>1. /\ Building /\ Sent = wire /\ wire \in Seq(DeltaType) /\ C \in Nat \ {0}
      /\ trg.csProcessed \in Nat /\ trg.csVSave \in Nat /\ trg.csVSaved \in Nat
      /\ trg.csVSaved \in Whole /\ trg.csVSave \in Whole
  <2>1. Building /\ Sent = wire
    BY DEF Building, Phase, BuildStates, Sent, In
  <2> QED BY <2>1, Fields, Bounds DEF Inv, TypeOK, BuildInv, BatchInv
<1>2. w \in Nat /\ w * C = trg.csVSaved /\ DOMAIN wire = 1 .. w /\ \A k \in 1 .. w : wire[k] = Delta(k)
  <2>1. w \in Nat /\ DOMAIN wire = 1 .. w
    BY <1>1
  <2>2. w * C = trg.csVSaved
    BY <1>1 DEF Inv, BuildInv
  <2> QED BY <1>1, <2>1, <2>2 DEF Inv, WireInv
<1>3. e \in DeltaType /\ <<e>> \in Seq(DeltaType)
  BY DEF DeltaType
<1>4. Sent' = wire \o <<e>>
  BY DEF Sent, In
<1> HIDE DEF e, w, C
<1>5. /\ Len(wire \o <<e>>) = w + 1 /\ DOMAIN (wire \o <<e>>) = 1 .. w + 1
      /\ \A k \in 1 .. w : (wire \o <<e>>)[k] = wire[k]
      /\ (wire \o <<e>>)[w + 1] = e
  BY <1>1, <1>3 DEF w
<1>6. (w + 1) * C = trg.csVSaved + C
  BY <1>1, <1>2
<1>7. \A k : Delta(k)' = Delta(k)
  BY DEF Delta
<1>8. Delta(w + 1) = e
  <2>1. ((w + 1) - 1) * C = trg.csVSaved
    BY <1>2
  <2>2. CASE ~pad /\ n = trg.csProcessed + trg.csVSaved /\ trg.csVSaved < trg.csVSave
    <3>1. trg.csVSaved + C <= trg.csVSave
      BY <1>1, <2>2, WholeSum DEF C
    <3>2. e = [n |-> trg.csProcessed + trg.csVSaved, pad |-> FALSE]
      BY <2>2 DEF e
    <3> QED BY <1>6, <2>1, <3>1, <3>2 DEF Delta, C
  <2>3. CASE pad /\ n = trg.csProcessed + trg.csVSave - C /\ trg.csVSaved = trg.csVSave
    <3>1. ~(trg.csVSaved + C <= trg.csVSave)
      BY <1>1, <2>3
    <3>2. e = [n |-> trg.csProcessed + trg.csVSave - C, pad |-> TRUE]
      BY <2>3 DEF e
    <3> QED BY <1>6, <3>1, <3>2 DEF Delta, C
  <2> QED BY <2>2, <2>3 DEF C
<1>9. \A k \in 1 .. w + 1 : Sent'[k] = Delta(k)'
  <2> SUFFICES ASSUME NEW k \in 1 .. w + 1 PROVE Sent'[k] = Delta(k)'
    OBVIOUS
  <2>1. CASE k \in 1 .. w
    BY <1>2, <1>4, <1>5, <1>7, <2>1
  <2>2. CASE k = w + 1
    BY <1>4, <1>5, <1>7, <1>8, <2>2
  <2> QED BY <1>2, <2>1, <2>2
<1>a. Len(Sent') = w + 1 /\ DOMAIN Sent' = 1 .. w + 1
  BY <1>4, <1>5
<1>b. trg'.out \in Seq(DeltaType)
  BY <1>3 DEF e
<1> QED BY <1>2, <1>6, <1>9, <1>a, <1>b DEF C

LEMMA WriteFieldInv == ASSUME Inv, WriteField PROVE Inv'
<1> DEFINE p == trg.csProcessed
           v == trg.csVSave
           s == trg.csVSaved
           C == CActiveCh
           pad == s # 0 /\ s = v
           here == IF pad THEN [trg EXCEPT !.fFinishTime = FALSE, !.psVCur = @ - C, !.csVSaved = @ - C]
                          ELSE trg
           past == [here EXCEPT !.psVCur = @ + C, !.csVSaved = @ + C]
           n == IF here.psVCur < CSVBUFF THEN Latest(here.psVCur) ELSE -1
           next == IF Last(past) \/ past.csVSaved # past.csVSave THEN "CLDNextDelta" ELSE "CLDEndDelta"
<1>1. /\ UNCHANGED <<logState, csTotal, rawLeft, ready, connected, wire, reply, server>>
      /\ trg.state = "CLDWriteField" /\ Write(<<[n |-> n, pad |-> pad]>>, past, next)
  BY DEF WriteField, log, net, In
<1>2. /\ trg \in TrgType /\ trg.nextState = "CLDWriteField" /\ Phase = "CLDWriteField" /\ Building
      /\ ~Posted /\ ~Between /\ ~In("Idle") /\ ~In("Finishing") /\ reply = "none" /\ connected
  BY <1>1 DEF Inv, TypeOK, Links, In, Phase, Building, Posted, Between, SentStates, BuildStates
<1>3. /\ C \in Nat \ {0} /\ p \in Nat /\ v \in Nat /\ s \in Nat /\ trg.psVCur \in Nat /\ trg.deltas \in Nat
      /\ s \in Whole /\ v \in Whole /\ C \in Whole /\ v > 0 /\ s <= v /\ (s = v => Due)
      /\ trg.psVCur = (p % CSVBUFF) + s /\ trg.deltas * C = v + (IF Due THEN C ELSE 0)
      /\ csTotal \in Nat /\ p + v <= csTotal /\ csTotal <= p + CSVBUFF /\ (p % CSVBUFF) + v <= CSVBUFF
      /\ p % CSVBUFF \in Nat /\ trg.csBackLog = v
  <2>a. trg.csProcessed \in Nat /\ CSVBUFF \in Nat \ {0} /\ CActiveCh \in Nat \ {0} /\ CActiveCh \in Whole
    BY Fields, Bounds, WholeNat
  <2>b. trg.csProcessed % CSVBUFF \in Nat
    BY <2>a, DivMod
  <2>1. p % CSVBUFF \in Nat /\ C \in Nat \ {0} /\ C \in Whole
    BY <2>a, <2>b
  <2> QED BY <1>2, <2>1, Fields DEF Inv, BatchInv, BuildInv
<1>r. /\ s < v => (p % CSVBUFF) + s < CSVBUFF /\ p + s < csTotal
      /\ v >= C => /\ v - C \in Nat /\ (p % CSVBUFF) + (v - C) < CSVBUFF /\ p + (v - C) < csTotal
                   /\ ((p % CSVBUFF) + v) - C = (p % CSVBUFF) + (v - C)
  <2> DEFINE r == p % CSVBUFF
  <2>1. /\ r \in Nat /\ r + v <= CSVBUFF /\ p \in Nat /\ v \in Nat /\ s \in Nat /\ C \in Nat \ {0}
        /\ csTotal \in Nat /\ p + v <= csTotal /\ CSVBUFF \in Nat
    BY <1>3, Bounds
  <2> HIDE DEF r, p, v, s, C
  <2>2. /\ s < v => r + s < CSVBUFF /\ p + s < csTotal
        /\ v >= C => v - C \in Nat /\ r + (v - C) < CSVBUFF /\ p + (v - C) < csTotal /\ (r + v) - C = r + (v - C)
    BY <2>1
  <2> QED BY <2>2 DEF r
<1>4. /\ trg'.state = "CLDWrite" /\ trg'.nextState = next /\ trg'.out = <<[n |-> n, pad |-> pad]>>
      /\ trg'.csProcessed = p /\ trg'.csVSave = v /\ trg'.csBackLog = v /\ trg'.deltas = trg.deltas
      /\ trg'.stcd = trg.stcd /\ trg'.resp = trg.resp /\ trg'.cSampleWait = trg.cSampleWait
      /\ trg'.csVSaved = past.csVSaved /\ trg'.psVCur = past.psVCur /\ trg'.fFinishTime = past.fFinishTime
      /\ DOMAIN trg' = DOMAIN trg
  <2>1. /\ past.csProcessed = p /\ past.csVSave = v /\ past.csBackLog = v /\ past.deltas = trg.deltas
        /\ past.stcd = trg.stcd /\ past.resp = trg.resp /\ past.cSampleWait = trg.cSampleWait
        /\ DOMAIN past = DOMAIN trg
        /\ {"state", "nextState", "out", "csVSaved", "psVCur", "fFinishTime", "csProcessed", "csVSave", "csBackLog",
            "deltas", "stcd", "resp", "cSampleWait"} \subseteq DOMAIN past
    <3>1. CASE pad
      BY <1>2, <1>3, <3>1 DEF TrgType
    <3>2. CASE ~pad
      BY <1>2, <1>3, <3>2 DEF TrgType
    <3> QED BY <3>1, <3>2
  <2> HIDE DEF past, n, next
  <2> QED BY <1>1, <2>1 DEF Write
<1>5. \/ /\ ~pad /\ s < v /\ n = p + s
         /\ past.csVSaved = s + C /\ past.psVCur = (p % CSVBUFF) + (s + C) /\ past.fFinishTime = trg.fFinishTime
      \/ /\ pad /\ s = v /\ Due /\ n = p + v - C /\ v >= C
         /\ past.csVSaved = v /\ past.psVCur = (p % CSVBUFF) + v /\ past.fFinishTime = FALSE
  <2>1. CASE ~pad
    <3>1. s < v
      BY <1>3, <2>1
    <3>2. here.psVCur = (p % CSVBUFF) + s /\ (p % CSVBUFF) + s < CSVBUFF /\ p + s < csTotal
      <4>1. here = trg
        BY <2>1
      <4> QED BY <1>3, <1>r, <3>1, <4>1
    <3>3. Latest((p % CSVBUFF) + s) = p + s
      BY <1>3, <3>2, LatestIs
    <3>4. n = p + s
      BY <3>2, <3>3
    <3>5. past.csVSaved = s + C /\ past.psVCur = trg.psVCur + C /\ past.fFinishTime = trg.fFinishTime
      BY <1>2, <2>1 DEF TrgType
    <3>6. trg.psVCur + C = (p % CSVBUFF) + (s + C)
      BY <1>3
    <3> QED BY <2>1, <3>1, <3>4, <3>5, <3>6
  <2>2. CASE pad
    <3>1. v >= C /\ v - C \in Nat
      <4>1. 0 \in Whole /\ 0 < v
        BY <1>3, WholeNat
      <4>2. 0 + C <= v
        BY <1>3, <4>1, WholeSum
      <4> QED BY <1>3, <4>2
    <3>2. here.psVCur = trg.psVCur - C /\ here.csVSaved = s - C /\ here.fFinishTime = FALSE
      BY <1>2, <2>2 DEF TrgType
    <3>3. trg.psVCur - C = (p % CSVBUFF) + (v - C) /\ (p % CSVBUFF) + (v - C) < CSVBUFF /\ p + (v - C) < csTotal
      <4>1. trg.psVCur = (p % CSVBUFF) + v
        BY <1>3, <2>2
      <4> QED BY <1>r, <3>1, <4>1
    <3>4. Latest((p % CSVBUFF) + (v - C)) = p + (v - C)
      BY <1>3, <3>1, <3>3, LatestIs
    <3>5. n = p + v - C
      BY <1>3, <3>1, <3>2, <3>3, <3>4
    <3>6. past.csVSaved = (s - C) + C /\ past.psVCur = (trg.psVCur - C) + C /\ past.fFinishTime = FALSE
      BY <1>2, <2>2 DEF TrgType
    <3>7. (s - C) + C = v /\ (trg.psVCur - C) + C = (p % CSVBUFF) + v
      BY <1>3, <2>2
    <3> QED BY <1>3, <2>2, <3>1, <3>5, <3>6, <3>7
  <2> QED BY <2>1, <2>2
<1>6. next = IF (past.fFinishTime /\ csTotal = p + past.csVSaved) \/ past.csVSaved # v
             THEN "CLDNextDelta" ELSE "CLDEndDelta"
  <2>1. past.csProcessed = p /\ past.csVSave = v
    <3>1. CASE pad
      BY <1>2, <3>1 DEF TrgType
    <3>2. CASE ~pad
      BY <1>2, <3>2 DEF TrgType
    <3> QED BY <3>1, <3>2
  <2> HIDE DEF past
  <2> QED BY <2>1 DEF Last
<1>7. pad \in BOOLEAN
  OBVIOUS
<1>t. trg.fFinishTime \in BOOLEAN
  BY Fields
<1> HIDE DEF past, here, n, next, pad
<1>8. past.csVSaved \in Nat /\ past.psVCur \in Nat /\ past.fFinishTime \in BOOLEAN /\ n \in Nat
  <2> DEFINE r == p % CSVBUFF
  <2>1. /\ r \in Nat /\ p \in Nat /\ v \in Nat /\ s \in Nat /\ C \in Nat
        /\ \/ n = p + s /\ past.csVSaved = s + C /\ past.psVCur = r + (s + C) /\ past.fFinishTime = trg.fFinishTime
           \/ n = p + v - C /\ v >= C /\ past.csVSaved = v /\ past.psVCur = r + v /\ past.fFinishTime = FALSE
    BY <1>3, <1>5
  <2> HIDE DEF r, p, v, s, C
  <2>2. past.csVSaved \in Nat /\ past.psVCur \in Nat /\ n \in Nat
    BY <2>1
  <2>3. past.fFinishTime \in BOOLEAN
    BY <1>t, <2>1, Zenon
  <2> QED BY <2>2, <2>3
<1>9. /\ Len(Sent') \in Nat /\ Len(Sent') * C = s + C
      /\ \A k \in DOMAIN Sent' : Sent'[k] = Delta(k)'
      /\ trg'.out \in Seq(DeltaType)
  BY <1>1, <1>4, <1>5, <1>7, <1>8, FieldIs
<1>a. TypeOK'
  <2>1. trg' = [state |-> trg'.state, nextState |-> trg'.nextState, stcd |-> trg'.stcd,
                csProcessed |-> trg'.csProcessed, csBackLog |-> trg'.csBackLog,
                cSampleWait |-> trg'.cSampleWait, fFinishTime |-> trg'.fFinishTime,
                psVCur |-> trg'.psVCur, csVSave |-> trg'.csVSave, csVSaved |-> trg'.csVSaved,
                deltas |-> trg'.deltas, out |-> trg'.out, resp |-> trg'.resp]
    BY <1>1, <1>2, <1>4, ZenonT(30) DEF Write, TrgType
  <2>2. trg'.state \in States /\ trg'.nextState \in States
    BY <1>4, <1>6 DEF States, Posting
  <2>3. trg' \in TrgType
    BY <1>3, <1>4, <1>8, <1>9, <2>1, <2>2, Fields DEF TrgType
  <2> QED BY <1>1, <2>3 DEF Inv, TypeOK
<1>b. /\ Phase' = next /\ ~Between' /\ ~In("Idle")' /\ ~In("Finishing")' /\ ~In("CLDConnect")' /\ In("CLDWrite")'
      /\ (Building' <=> next = "CLDNextDelta") /\ (Posted' <=> next = "CLDEndDelta")
  BY <1>4, <1>6 DEF Phase, Between, Building, Posted, In, SentStates, BuildStates
<1>c. Links'
  BY <1>1, <1>2, <1>4, <1>6, <1>b DEF Links, In, SentStates, BuildStates
<1>d. /\ past.csVSaved \in Whole /\ past.csVSaved <= v
      /\ past.psVCur = (p % CSVBUFF) + past.csVSaved
      /\ past.fFinishTime => trg.fFinishTime
  <2>1. s + C \in Whole /\ (s < v => s + C <= v)
    BY <1>3, WholeSum
  <2> QED BY <1>3, <1>5, <2>1
<1>e. Due' <=> (past.fFinishTime /\ csTotal = p + v)
  BY <1>1, <1>4 DEF Due
<1>f. Counts'
  <2>1. trg'.fFinishTime /\ Posted' => p + v < csTotal
    <3> SUFFICES ASSUME past.fFinishTime, next = "CLDEndDelta" PROVE p + v < csTotal
      BY <1>4, <1>b
    <3>1. past.csVSaved = v /\ csTotal # p + v
      BY <1>6
    <3>2. p \in Nat /\ v \in Nat /\ csTotal \in Nat /\ p + v <= csTotal
      BY <1>3
    <3> HIDE DEF p, v
    <3> QED BY <3>1, <3>2
  <2> QED BY <1>1, <1>2, <1>4, <1>b, <1>d, <2>1 DEF Inv, Counts, Over
<1>g. BatchInv'
  BY <1>1, <1>3, <1>4, <1>b DEF BatchInv
<1>h. BuildInv'
  <2> SUFFICES ASSUME next = "CLDNextDelta" PROVE BuildInv'
    BY <1>b DEF BuildInv
  <2>1. ~pad /\ past.csVSaved = s + C /\ past.fFinishTime = trg.fFinishTime
    BY <1>3, <1>5, <1>6
  <2>2. past.csVSaved = v => Due'
    BY <1>6, <1>e
  <2>3. Due' <=> Due
    BY <1>e, <2>1 DEF Due
  <2>4. Len(Sent') * C = trg'.csVSaved
    BY <1>4, <1>9, <2>1
  <2> QED BY <1>3, <1>4, <1>b, <1>d, <2>2, <2>3, <2>4 DEF BuildInv
<1>i. PostedInv'
  <2> SUFFICES ASSUME next = "CLDEndDelta" PROVE PostedInv'
    BY <1>b DEF PostedInv
  <2>1. past.csVSaved = v /\ ~(past.fFinishTime /\ csTotal = p + v)
    BY <1>3, <1>6
  <2>2. CASE pad
    <3>1. trg.deltas * C = v + C /\ s + C = v + C /\ Due
      BY <1>3, <1>5, <2>2
    <3>2. Len(Sent') = trg.deltas
      <4>1. Len(Sent') * C = trg.deltas * C
        BY <1>9, <3>1
      <4> QED BY <1>3, <1>9, <4>1, OneFactor
    <3>3. Over' /\ csTotal' = trg'.csProcessed + trg'.csVSave
      BY <1>1, <1>4, <3>1 DEF Due, Inv, Counts, Over
    <3> QED BY <1>4, <2>1, <3>1, <3>2, <3>3 DEF PostedInv
  <2>3. CASE ~pad
    <3>1. ~Due /\ s + C = v
      BY <1>5, <2>1, <2>3 DEF Due
    <3>2. trg.deltas * C = v
      BY <1>3, <3>1
    <3>3. Len(Sent') = trg.deltas
      <4>1. Len(Sent') * C = trg.deltas * C
        BY <1>9, <3>1, <3>2
      <4> QED BY <1>3, <1>9, <4>1, OneFactor
    <3> QED BY <1>4, <2>1, <3>2, <3>3 DEF PostedInv
  <2> QED BY <2>2, <2>3
<1>j. WireInv'
  BY <1>9 DEF WireInv
<1>k. HeldInv' /\ ServerInv' /\ EndInv'
  <2>1. Scans' = Scans /\ Held' = Held /\ (Over' <=> Over)
    BY <1>1, ScansStay DEF Over
  <2>2. HeldInv'
    BY <1>1, <1>2, <1>4, <1>b, <2>1 DEF Inv, HeldInv
  <2>3. ServerInv'
    BY <1>1, <2>1 DEF Inv, ServerInv
  <2>4. EndInv'
    BY <1>6, <1>b DEF EndInv
  <2> QED BY <2>2, <2>3, <2>4
<1> QED BY <1>a, <1>c, <1>f, <1>g, <1>h, <1>i, <1>j, <1>k DEF Inv

-----------------------------------------------------------------------------
(* The theorems.                                                           *)

LEMMA NextInv == Inv /\ [Next]_vars => Inv'
<1> SUFFICES ASSUME Inv, [Next]_vars PROVE Inv'
  OBVIOUS
<1>1. CASE UNCHANGED vars
  <2>1. /\ Steady /\ Sent' = Sent /\ Phase' = Phase /\ (Building' <=> Building) /\ (Posted' <=> Posted)
        /\ (Between' <=> Between) /\ \A s : In(s)' <=> In(s)
        /\ logState' = logState /\ reply' = reply /\ trg' = trg
    BY <1>1 DEF vars, Steady, Sent, Phase, Building, Posted, Between, In
  <2>2. TypeOK' /\ Links'
    BY <1>1, <2>1 DEF vars, Inv, TypeOK, Links
  <2>3. Counts' /\ BatchInv' /\ BuildInv' /\ PostedInv' /\ WireInv' /\ HeldInv' /\ ServerInv' /\ EndInv'
    BY <2>1, SamePost
  <2> QED BY <2>2, <2>3 DEF Inv
<1>2. CASE \E n \in 1 .. MaxBurst : Convert(n)
  BY <1>2, ConvertInv
<1>3. CASE Stop \/ Clock \/ ServerTakes \/ ServerRefuses
  BY <1>3, StopInv, ClockInv, ServerTakesInv, ServerRefusesInv
<1>4. CASE Done \/ WaitToPost \/ Post \/ Connect \/ NoConnection \/ WriteUpdate \/ WriteField
           \/ NextDelta \/ EndDelta
  BY <1>4, DoneInv, WaitToPostInv, PostInv, ConnectInv, NoConnectionInv, WriteUpdateInv, WriteFieldInv,
     NextDeltaInv, EndDeltaInv
<1>5. CASE Written \/ WriteFails \/ ReadReply \/ CloseRead \/ Disconnected \/ Working \/ Finishing \/ LogStops
  BY <1>5, WrittenInv, WriteFailsInv, ReadReplyInv, CloseReadInv, DisconnectedInv, WorkingInv, FinishingInv,
     LogStopsInv
<1> QED BY <1>1, <1>2, <1>3, <1>4, <1>5 DEF Next, ADCCloudTask

LEMMA AlwaysInv == Spec => []Inv
BY InitInv, NextInv, PTL DEF Spec

\* Every variable stays in its type; the deltas are records of a sample and a mark
\* (CloudTask.cpp).
THEOREM TypeCorrect == Spec => []TypeOK
<1>1. Inv => TypeOK
  BY DEF Inv
<1> QED BY <1>1, AlwaysInv, PTL

\* Whatever is posted in pieces, tried again or refused, the server has the first scans
\* of the log, each once and in order, and all that the logger counts (CloudTask.cpp,
\* ADCCloudTask Running, Working).
THEOREM EachPostedOnce == Spec => []PostedOnce
<1>1. Inv => PostedOnce
  BY DEF Inv, ServerInv, HeldInv, Held, PostedOnce
<1> QED BY <1>1, AlwaysInv, PTL

\* The body is as long as the header said before it was made, the padding included
\* (CloudTask.cpp, ADCCloudTask Running, CLDWriteField).
THEOREM LengthHolds == Spec => []LengthTrue
<1>1. ASSUME Inv, In("CLDRead") PROVE Len(wire) = trg.deltas
  <2>1. Posted /\ Sent = wire
    BY <1>1 DEF Posted, Phase, Sent, In, SentStates
  <2> QED BY <1>1, <2>1 DEF Inv, PostedInv
<1>2. Inv => LengthTrue
  BY <1>1 DEF LengthTrue
<1> QED BY <1>2, AlwaysInv, PTL

\* A log that ends normally is on the server whole, with its finish time if it had to
\* wait for the last post (CloudTask.cpp, ADCCloudTask Running).
THEOREM NormalHolds == Spec => []NormalIsComplete
<1>1. ASSUME Inv, In("Idle"), trg.stcd = "STCDNormal"
      PROVE  trg.csProcessed = csTotal /\ Held = csTotal /\ ~trg.fFinishTime
  <2>1. trg.csProcessed = csTotal /\ ~trg.fFinishTime
    BY <1>1 DEF Inv, EndInv, Phase, In
  <2>2. trg.csProcessed <= Held /\ Held <= csTotal /\ Held \in Nat /\ csTotal \in Nat
    BY <1>1, Fields DEF Inv, HeldInv
  <2> QED BY <2>1, <2>2
<1>2. Inv => NormalIsComplete
  BY <1>1 DEF NormalIsComplete, Held
<1> QED BY <1>2, AlwaysInv, PTL

\* The ASSERTs of ADCCloudTask hold: a post is of whole scans, and there is padding
\* only after the last scan of a log (CloudTask.cpp, lines 248, 317, 351).
THEOREM AssertsHold == Spec => []NoAssert
<1>1. ASSUME Inv, In("CLDConnect") PROVE trg.csVSave > 0 /\ trg.csVSave % CActiveCh = 0
  BY <1>1, WholeRest DEF Inv, BatchInv
<1>2. ASSUME Inv, In("CLDWriteField"), trg.csVSaved # 0, trg.csVSaved = trg.csVSave
      PROVE  trg.fFinishTime /\ trg.csVSaved >= CActiveCh /\ csTotal = trg.csProcessed + trg.csBackLog
  <2>1. Building
    BY <1>2 DEF Building, Phase, In, BuildStates
  <2>2. trg.csVSave \in Whole /\ trg.csVSave > 0 /\ trg.csBackLog = trg.csVSave /\ Due
    BY <1>2, <2>1 DEF Inv, BatchInv, BuildInv
  <2>3. 0 + CActiveCh <= trg.csVSave
    BY <2>2, WholeNat, WholeSum
  <2> QED BY <1>2, <2>2, <2>3, Bounds, WholeNat DEF Due
<1>3. ASSUME Inv, In("CLDWrite"), trg.nextState = "CLDNextDelta", Last(trg) PROVE trg.csVSaved = trg.csVSave
  <2>1. Building
    BY <1>3 DEF Building, Phase, In, BuildStates
  <2>2. trg.csVSaved <= trg.csVSave /\ trg.csProcessed + trg.csVSave <= csTotal
        /\ csTotal = trg.csProcessed + trg.csVSaved
    BY <1>3, <2>1 DEF Inv, BatchInv, BuildInv, Last
  <2> QED BY <1>3, <2>2, Fields
<1>4. Inv => NoAssert
  BY <1>1, <1>2, <1>3 DEF NoAssert
<1> QED BY <1>4, AlwaysInv, PTL

\* Every post is what its header announced, and no ASSERT about it fails.
THEOREM PostsSound == Spec => []PostSound
<1>1. LengthTrue /\ NoAssert => PostSound
  BY DEF PostSound
<1> QED BY <1>1, LengthHolds, AssertsHold, PTL

=============================================================================
