----------------------------- MODULE Clint_proofs -----------------------------
(***************************************************************************)
(* Proofs about the timer and about the program that uses it, for any      *)
(* width of the registers, any data software writes and any delay.         *)
(***************************************************************************)
EXTENDS TimerIsr, NatFacts

(***************************************************************************)
(* A number below Half^2 is a pair of numbers below Half                   *)
(***************************************************************************)
LEMMA HalfFacts ==
    /\ Half \in Nat /\ Half > 1
    /\ Half * Half \in Nat /\ Half * Half >= Half + Half
BY ClintConstants, Square

\* The halves of a number.
LEMMA Halves ==
    ASSUME NEW x \in 0..(Half * Half - 1)
    PROVE  /\ x % Half \in 0..(Half - 1)
           /\ x \div Half \in 0..(Half - 1)
           /\ (x \div Half) * Half + (x % Half) = x
BY HalfFacts, HalvesOf

\* A pair of halves is a number of twice the width.
LEMMA Pair ==
    ASSUME NEW h \in 0..(Half - 1), NEW l \in 0..(Half - 1)
    PROVE  h * Half + l \in 0..(Half * Half - 1)
BY HalfFacts, PairOf

(***************************************************************************)
(* The timer                                                               *)
(***************************************************************************)
LEMMA TimeType ==
    ASSUME ClintTypeOK, NEW tick \in BOOLEAN
    PROVE  /\ Mtime \in 0..(Half * Half - 1)
           /\ Mtimecmp \in 0..(Half * Half - 1)
           /\ NextMtime(tick) \in 0..(Half * Half - 1)
<1>1. \A n \in Registers : reg[n] \in 0..(Half - 1)
  BY DEF ClintTypeOK
<1>2. Mtime \in 0..(Half * Half - 1) /\ Mtimecmp \in 0..(Half * Half - 1)
  BY <1>1, Pair DEF Mtime, Mtimecmp, Registers
<1>3. Half * Half \in Nat /\ Half * Half > 0
  BY HalfFacts
<1>4. (Mtime + 1) % (Half * Half) \in 0..(Half * Half - 1)
  <2> DEFINE hh == Half * Half
             m == Mtime
  <2>1. hh \in Nat /\ hh > 0 /\ m \in Nat
    BY <1>2, <1>3
  <2> HIDE DEF hh, m
  <2>2. (m + 1) % hh \in 0..(hh - 1)
    BY <2>1
  <2>3. QED
    BY <2>2 DEF hh, m
<1>5. QED
  BY <1>2, <1>4 DEF NextMtime

\* What an edge leaves well typed.
LEMMA AfterEdgeType ==
    ASSUME ClintTypeOK, NEW tick \in BOOLEAN, NEW w,
           w = NoWrite \/ \E n \in Registers, d \in 0..(Half - 1) : w = Store(n, d)
    PROVE  /\ AfterEdge(tick, w) \in [Registers -> 0..(Half - 1)]
           /\ AfterEdge(tick, w)["msip"] \in {0, 1}
<1>1. Half \in Nat /\ Half > 1
  BY HalfFacts
<1>2. \A n \in Registers : Driven(n, tick) \in 0..(Half - 1)
  BY TimeType, Halves DEF Driven, ClintTypeOK
<1>3. w.data \in 0..(Half - 1)
  BY <1>1 DEF NoWrite, Store
<1>4. w.data % 2 \in {0, 1} /\ 0..1 \subseteq 0..(Half - 1)
  BY <1>1, <1>3
<1>5. \A n \in Registers :
         (IF w.valid /\ w.to = n THEN IF n = "msip" THEN w.data % 2 ELSE w.data
          ELSE Driven(n, tick)) \in 0..(Half - 1)
  BY <1>2, <1>3, <1>4
<1>6. AfterEdge(tick, w)["msip"] \in {0, 1}
  BY <1>4 DEF AfterEdge, Driven, ClintTypeOK, Registers
<1>7. QED
  BY <1>5, <1>6 DEF AfterEdge

\* A beat of each channel keeps the types.
LEMMA BeatType ==
    ASSUME ClintTypeOK, NEW tick \in BOOLEAN, NEW w,
           w = NoWrite \/ \E n \in Registers, d \in 0..(Half - 1) : w = Store(n, d),
           WriteBeat(tick, w),
           NoReadBeat \/ \E n \in Registers : ReadBeat(n)
    PROVE  ClintTypeOK'
<1>1. reg' \in [Registers -> 0..(Half - 1)] /\ reg'["msip"] \in {0, 1}
  BY AfterEdgeType DEF WriteBeat
<1>2. bresp_valid_r' \in BOOLEAN
  <2>1. w.valid = TRUE \/ w.valid = FALSE
    BY DEF NoWrite, Store
  <2>2. QED
    BY <2>1 DEF WriteBeat
<1>3. rresp_valid_r' \in BOOLEAN /\ rdata_r' \in 0..(Half - 1)
  BY DEF NoReadBeat, ReadBeat, ClintTypeOK
<1>4. QED
  BY <1>1, <1>2, <1>3 DEF ClintTypeOK

LEMMA RequestShape ==
    ASSUME NEW w \in Requests
    PROVE  w = NoWrite \/ \E n \in Registers, d \in 0..(Half - 1) : w = Store(n, d)
  BY ClintConstants DEF Requests

LEMMA ClintInitType == ClintInit => ClintTypeOK
<1>1. Half - 1 \in 0..(Half - 1) /\ 0 \in 0..(Half - 1)
  BY HalfFacts
<1>2. ASSUME ClintInit
      PROVE  reg \in [Registers -> 0..(Half - 1)] /\ reg["msip"] = 0
  BY <1>1, <1>2 DEF ClintInit, Registers
<1>3. QED
  BY <1>1, <1>2 DEF ClintInit, ClintTypeOK

\* Every register keeps to its width, whatever software writes when.
THEOREM ClintTypeCorrect == ClintSpec => []ClintTypeOK
<1>1. ClintTypeOK /\ [ClintNext]_clintVars => ClintTypeOK'
  <2>1. ASSUME ClintTypeOK, ClintNext
        PROVE  ClintTypeOK'
    BY <2>1, BeatType, RequestShape DEF ClintNext
  <2>2. ASSUME ClintTypeOK, UNCHANGED clintVars
        PROVE  ClintTypeOK'
    BY <2>2 DEF ClintTypeOK, clintVars
  <2>3. QED
    BY <2>1, <2>2
<1>2. QED
  BY <1>1, ClintInitType, PTL DEF ClintSpec

\* The registers of the timer after a beat.
LEMMA TimeAfterBeat ==
    ASSUME NEW tick \in BOOLEAN, NEW w, WriteBeat(tick, w)
    PROVE  \A n \in {"mtime_lo", "mtime_hi", "mtimecmp_lo", "mtimecmp_hi"} :
              reg'[n] = IF w.valid /\ w.to = n THEN w.data ELSE Driven(n, tick)
  BY DEF WriteBeat, AfterEdge, Registers

\* The halves of mtime are one counter, for every width and every interleaving
\* of ticks with software writes of either half.
THEOREM MtimeIsWide == ClintSpec => MtimeIsWideCounter
<1>1. ASSUME ClintTypeOK, NEW tick \in BOOLEAN, NEW w \in Requests, WriteBeat(tick, w)
      PROVE  Wide!Step(tick, LoadOf(w))
  <2> DEFINE v == NextMtime(tick)
  <2>1. v \in 0..(Half * Half - 1)
    BY <1>1, TimeType
  <2>2. v = Wide!Counted(tick)
    BY DEF NextMtime, Wide!Counted
  <2> HIDE DEF v
  <2>3. /\ reg'["mtime_lo"] = IF w.valid /\ w.to = "mtime_lo" THEN w.data ELSE v % Half
        /\ reg'["mtime_hi"] = IF w.valid /\ w.to = "mtime_hi" THEN w.data ELSE v \div Half
    BY <1>1, TimeAfterBeat DEF Driven, v
  <2>4. Mtime' = reg'["mtime_hi"] * Half + reg'["mtime_lo"]
    BY DEF Mtime
  <2>5. CASE w.valid /\ w.to = "mtime_lo"
    BY <2>2, <2>3, <2>4, <2>5 DEF LoadOf, Wide!Load, Wide!Step, Wide!High
  <2>6. CASE w.valid /\ w.to = "mtime_hi"
    BY <2>2, <2>3, <2>4, <2>6 DEF LoadOf, Wide!Load, Wide!Step, Wide!Low
  <2>7. CASE ~w.valid \/ w.to \notin {"mtime_lo", "mtime_hi"}
    <3>1. Mtime' = v
      BY <2>1, <2>3, <2>4, <2>7, Halves
    <3>2. LoadOf(w) = Wide!NoLoad
      BY <2>7 DEF LoadOf
    <3>3. QED
      BY <2>2, <3>1, <3>2 DEF Wide!NoLoad, Wide!Step
  <2>8. QED
    BY <2>5, <2>6, <2>7
<1>2. ClintTypeOK /\ [ClintNext]_clintVars
        => [\A tick \in BOOLEAN, w \in Requests :
               WriteBeat(tick, w) => Wide!Step(tick, LoadOf(w))]_clintVars
  BY <1>1
<1>3. QED
  BY <1>2, ClintTypeCorrect, PTL DEF ClintSpec, MtimeIsWideCounter

\* A beat that writes no half of the timer counts it.
LEMMA TimeCounts ==
    ASSUME ClintTypeOK, NEW tick \in BOOLEAN, NEW w, WriteBeat(tick, w),
           ~w.valid \/ w.to \notin {"mtime_lo", "mtime_hi"}
    PROVE  Mtime' = NextMtime(tick)
<1> DEFINE v == NextMtime(tick)
<1>1. v \in 0..(Half * Half - 1)
  BY TimeType
<1>2. reg'["mtime_lo"] = v % Half /\ reg'["mtime_hi"] = v \div Half
  BY TimeAfterBeat DEF Driven
<1> HIDE DEF v
<1>3. Mtime' = v
  BY <1>1, <1>2, Halves DEF Mtime
<1>4. QED
  BY <1>3 DEF v

\* One that writes no half of the comparator leaves it.
LEMMA ComparatorStays ==
    ASSUME NEW tick \in BOOLEAN, NEW w, WriteBeat(tick, w),
           ~w.valid \/ w.to \notin {"mtimecmp_lo", "mtimecmp_hi"}
    PROVE  /\ reg'["mtimecmp_lo"] = reg["mtimecmp_lo"]
           /\ reg'["mtimecmp_hi"] = reg["mtimecmp_hi"]
           /\ Mtimecmp' = Mtimecmp
  BY TimeAfterBeat DEF Driven, Mtimecmp

\* Counting moves the timer by one until it wraps.
LEMMA Counts ==
    ASSUME ClintTypeOK, NEW tick \in BOOLEAN, Mtime # Half * Half - 1
    PROVE  NextMtime(tick) = IF tick THEN Mtime + 1 ELSE Mtime
<1> DEFINE hh == Half * Half
           m == Mtime
<1>1. hh \in Nat /\ m \in 0..(hh - 1) /\ m # hh - 1
  BY TimeType, HalfFacts
<1> HIDE DEF hh, m
<1>2. (m + 1) % hh = m + 1
  BY <1>1
<1>3. QED
  BY <1>2 DEF NextMtime, hh, m

\* No carry between the halves withdraws a raised timer interrupt.
THEOREM MtipIsHeld == ClintSpec => MtipHeld
<1>1. ASSUME ClintTypeOK, ClintNext, Mtip, ~Mtip',
             ~ \E tick \in BOOLEAN, w \in Requests :
                  w.valid /\ w.to # "msip" /\ WriteBeat(tick, w)
      PROVE  Mtime = Half * Half - 1
  <2>1. PICK tick \in BOOLEAN, w \in Requests : WriteBeat(tick, w)
    BY <1>1 DEF ClintNext
  <2>2. Mtime' = NextMtime(tick) /\ Mtimecmp' = Mtimecmp
    <3>1. ~w.valid \/ w.to \notin {"mtime_lo", "mtime_hi", "mtimecmp_lo", "mtimecmp_hi"}
      BY <1>1, <2>1
    <3>2. QED
      BY <1>1, <2>1, <3>1, TimeCounts, ComparatorStays
  <2>3. Mtime \in Nat /\ Mtimecmp \in Nat
    BY <1>1, TimeType, HalfFacts
  <2>4. CASE Mtime # Half * Half - 1
    <3>1. Mtime' >= Mtime
      BY <1>1, <2>2, <2>3, <2>4, Counts
    <3>2. Mtime' \in Nat
      BY <1>1, <2>2, <2>3, <2>4, Counts
    <3>3. QED
      BY <1>1, <2>2, <2>3, <3>1, <3>2 DEF Mtip
  <2>5. QED
    BY <2>4
<1>2. ClintTypeOK /\ [ClintNext]_clintVars
        => [(Mtip /\ ~Mtip') =>
              \/ \E tick \in BOOLEAN, w \in Requests :
                    w.valid /\ w.to # "msip" /\ WriteBeat(tick, w)
              \/ Mtime = Half * Half - 1]_clintVars
  BY <1>1
<1>3. QED
  BY <1>2, ClintTypeCorrect, PTL DEF ClintSpec, MtipHeld

(***************************************************************************)
(* The timer program.  Its invariant follows the deadline from the read of *)
(* mtime_lo through t1 to the comparator; Fits says that the sum does not  *)
(* wrap at one word.                                                       *)
(***************************************************************************)
Fits == readAt + Delay < Half
Armed == {"armed", "waiting", "handler", "saved", "done"}

TimerInv ==
    /\ ClintTypeOK
    /\ pc \in {"start", "cleared", "loading", "loaded"} \cup Armed
    /\ readAt \in Nat /\ readAt <= Mtime
    /\ t1 \in 0..(Half - 1)
    /\ pc # "start" => reg["mtimecmp_hi"] = 0
    /\ pc = "loading" /\ Fits => rdata_r = readAt
    /\ pc \in {"loaded"} \cup Armed /\ Fits => t1 = readAt + Delay
    /\ pc \in Armed => reg["mtimecmp_lo"] = t1
    /\ pc \in {"handler", "saved"} /\ Fits => Mtime > readAt + Delay
    /\ pc = "handler" => Mtip
    /\ pc = "saved" => saved_mip
    /\ saw_trap => saved_mip

\* The clock runs, whatever the program does to the comparator.
LEMMA ClockRuns ==
    ASSUME ClintTypeOK, NEW w, WriteBeat(Tick, w),
           ~w.valid \/ w.to \notin {"mtime_lo", "mtime_hi"}
    PROVE  /\ Mtime \in Nat /\ Mtime' \in Nat /\ Mtime' >= Mtime
           /\ Mtime' > Mtime \/ Mtime >= Half
<1>1. Tick \in BOOLEAN
  BY DEF Tick
<1>2. Mtime \in 0..(Half * Half - 1) /\ Half * Half \in Nat /\ Half * Half >= Half + Half
      /\ Half \in Nat /\ Half > 1
  BY TimeType, HalfFacts
<1>3. Mtime' = NextMtime(Tick)
  BY <1>1, TimeCounts
<1>4. CASE Tick
  <2>1. Mtime # Half * Half - 1
    BY <1>2, <1>4 DEF Tick
  <2>2. Mtime' = Mtime + 1
    BY <1>1, <1>3, <1>4, <2>1, Counts
  <2>3. QED
    BY <1>2, <2>2
<1>5. CASE ~Tick
  <2>1. Mtime' = Mtime
    BY <1>3, <1>5 DEF NextMtime
  <2>2. Mtime >= Half
    BY <1>2, <1>5 DEF Tick
  <2>3. QED
    BY <1>2, <2>1, <2>2
<1>6. QED
  BY <1>4, <1>5

LEMMA TimerInitInv == TimerInit => TimerInv
<1>1. SUFFICES ASSUME TimerInit PROVE TimerInv
  OBVIOUS
<1>2. ClintTypeOK
  BY <1>1, ClintInitType DEF TimerInit
<1>3. Mtime = 0
  <2>1. reg["mtime_hi"] = 0 /\ reg["mtime_lo"] = 0
    BY <1>1 DEF TimerInit, ClintInit, Registers
  <2>2. QED
    BY <2>1, HalfFacts DEF Mtime
<1>4. 0 \in 0..(Half - 1)
  BY HalfFacts
<1>5. QED
  BY <1>1, <1>2, <1>3, <1>4 DEF TimerInit, TimerInv, Armed

\* A cycle without a bus access: the clock runs, the comparator and the read
\* data stay, and a raised interrupt stays raised.
LEMMA IdleCycle ==
    ASSUME TimerInv, NoBus
    PROVE  /\ ClintTypeOK'
           /\ Mtime \in Nat /\ Mtime' \in Nat /\ Mtime' >= Mtime
           /\ Mtime' > Mtime \/ Mtime >= Half
           /\ reg'["mtimecmp_lo"] = reg["mtimecmp_lo"]
           /\ reg'["mtimecmp_hi"] = reg["mtimecmp_hi"]
           /\ rdata_r' = rdata_r
           /\ Mtip => Mtip'
<1>1. ClintTypeOK /\ Tick \in BOOLEAN
  BY DEF TimerInv, Tick
<1>2. WriteBeat(Tick, NoWrite) /\ NoReadBeat /\ ~NoWrite.valid
  BY DEF NoBus, NoWrite
<1>3. ClintTypeOK'
  BY <1>1, <1>2, BeatType
<1>4. /\ Mtime \in Nat /\ Mtime' \in Nat /\ Mtime' >= Mtime
      /\ Mtime' > Mtime \/ Mtime >= Half
  BY <1>1, <1>2, ClockRuns
<1>5. /\ reg'["mtimecmp_lo"] = reg["mtimecmp_lo"]
      /\ reg'["mtimecmp_hi"] = reg["mtimecmp_hi"]
      /\ Mtimecmp' = Mtimecmp
  BY <1>1, <1>2, ComparatorStays
<1>6. rdata_r' = rdata_r
  BY <1>2 DEF NoReadBeat
<1>7. Mtimecmp \in Nat
  BY <1>1, TimeType, HalfFacts
<1>8. Mtip => Mtip'
  BY <1>4, <1>5, <1>7 DEF Mtip
<1>9. QED
  BY <1>3, <1>4, <1>5, <1>6, <1>8

\* So is a store to the comparator, which moves one half of it.
LEMMA StoreCycle ==
    ASSUME TimerInv, NEW n \in {"mtimecmp_lo", "mtimecmp_hi"}, NEW d \in 0..(Half - 1),
           WriteBeat(Tick, Store(n, d)), NoReadBeat
    PROVE  /\ ClintTypeOK'
           /\ Mtime \in Nat /\ Mtime' \in Nat /\ Mtime' >= Mtime
           /\ reg'[n] = d
           /\ \A m \in {"mtimecmp_lo", "mtimecmp_hi"} \ {n} : reg'[m] = reg[m]
<1>1. ClintTypeOK /\ Tick \in BOOLEAN
  BY DEF TimerInv, Tick
<1> DEFINE w == Store(n, d)
<1>2. w.valid /\ w.to = n /\ w.data = d
  BY DEF Store
<1>3. ClintTypeOK'
  BY <1>1, BeatType DEF Registers
<1>4. Mtime \in Nat /\ Mtime' \in Nat /\ Mtime' >= Mtime
  BY <1>1, <1>2, ClockRuns
<1>5. /\ reg'[n] = d
      /\ \A m \in {"mtimecmp_lo", "mtimecmp_hi"} \ {n} : reg'[m] = reg[m]
  BY <1>1, <1>2, TimeAfterBeat DEF Driven
<1>6. QED
  BY <1>3, <1>4, <1>5

\* A cycle of the program without a bus access.
LEMMA IdleSteps ==
    ASSUME TimerInv, AddDelay \/ EnableTraps \/ Trap \/ SaveMip \/ Disarm \/ Finish \/ Stall
    PROVE  TimerInv'
<1>1. NoBus
  BY DEF AddDelay, EnableTraps, Trap, SaveMip, Disarm, Finish, Stall
<1>2. /\ ClintTypeOK'
      /\ Mtime \in Nat /\ Mtime' \in Nat /\ Mtime' >= Mtime
      /\ Mtime' > Mtime \/ Mtime >= Half
      /\ reg'["mtimecmp_lo"] = reg["mtimecmp_lo"]
      /\ reg'["mtimecmp_hi"] = reg["mtimecmp_hi"]
      /\ rdata_r' = rdata_r
      /\ Mtip => Mtip'
  BY <1>1, IdleCycle
<1>3. Half \in Nat /\ Half > 1 /\ Delay \in 1..(Half - 1) /\ readAt \in Nat /\ readAt <= Mtime
  BY HalfFacts, DelayInRange DEF TimerInv
<1>4. readAt' = readAt /\ (Fits' <=> Fits)
  BY DEF AddDelay, EnableTraps, Trap, SaveMip, Disarm, Finish, Stall, progVars, Fits
<1>5. CASE AddDelay
  <2>1. rdata_r \in 0..(Half - 1)
    BY DEF TimerInv, ClintTypeOK
  <2>2. t1' \in 0..(Half - 1)
    BY <1>3, <1>5, <2>1 DEF AddDelay
  <2>3. Fits => t1' = readAt + Delay
    BY <1>3, <1>5 DEF AddDelay, TimerInv, Fits
  <2>4. QED
    BY <1>2, <1>3, <1>4, <1>5, <2>2, <2>3 DEF AddDelay, TimerInv, Armed
<1>6. CASE EnableTraps
  BY <1>2, <1>3, <1>4, <1>6 DEF EnableTraps, TimerInv, Armed
<1>7. CASE Trap
  <2>1. Fits => Mtime' > readAt + Delay
    <3>1. SUFFICES ASSUME Fits PROVE Mtime' > readAt + Delay
      OBVIOUS
    <3>2. Mtimecmp = readAt + Delay
      <4>1. reg["mtimecmp_hi"] = 0 /\ reg["mtimecmp_lo"] = readAt + Delay
        BY <1>7, <3>1 DEF Trap, TimerInv, Armed
      <4>2. QED
        BY <4>1, <1>3 DEF Mtimecmp
    <3>3. Mtime >= readAt + Delay /\ Half > readAt + Delay
      BY <1>3, <1>7, <3>1, <3>2 DEF Trap, Mtip, Fits
    <3>4. QED
      BY <1>2, <1>3, <3>3
  <2>2. QED
    BY <1>2, <1>3, <1>4, <1>7, <2>1 DEF Trap, TimerInv, Armed
<1>8. CASE SaveMip
  BY <1>2, <1>3, <1>4, <1>8 DEF SaveMip, TimerInv, Armed
<1>9. CASE Disarm
  BY <1>2, <1>3, <1>4, <1>9 DEF Disarm, TimerInv, Armed
<1>10. CASE Finish
  BY <1>2, <1>3, <1>4, <1>10 DEF Finish, TimerInv, Armed
<1>11. CASE Stall
  BY <1>2, <1>3, <1>4, <1>11 DEF Stall, progVars, TimerInv, Armed
<1>12. QED
  BY <1>5, <1>6, <1>7, <1>8, <1>9, <1>10, <1>11

\* A cycle with a store or with the load of the time.
LEMMA BusSteps ==
    ASSUME TimerInv, ClearHigh \/ StoreLow \/ LoadTime
    PROVE  TimerInv'
<1>1. Half \in Nat /\ Half > 1 /\ Delay \in 1..(Half - 1) /\ readAt \in Nat /\ readAt <= Mtime
  BY HalfFacts, DelayInRange DEF TimerInv
<1>2. CASE ClearHigh
  <2>1. WriteBeat(Tick, Store("mtimecmp_hi", 0)) /\ NoReadBeat /\ 0 \in 0..(Half - 1)
    BY <1>1, <1>2 DEF ClearHigh, StoreTo
  <2>2. ClintTypeOK' /\ Mtime \in Nat /\ Mtime' \in Nat /\ Mtime' >= Mtime
        /\ reg'["mtimecmp_hi"] = 0
    BY <2>1, StoreCycle
  <2>3. QED
    BY <1>1, <1>2, <2>2 DEF ClearHigh, StoreTo, TimerInv, Armed
<1>3. CASE StoreLow
  <2>1. WriteBeat(Tick, Store("mtimecmp_lo", t1)) /\ NoReadBeat /\ t1 \in 0..(Half - 1)
    BY <1>3 DEF StoreLow, StoreTo, TimerInv
  <2>2. ClintTypeOK' /\ Mtime \in Nat /\ Mtime' \in Nat /\ Mtime' >= Mtime
        /\ reg'["mtimecmp_lo"] = t1 /\ reg'["mtimecmp_hi"] = reg["mtimecmp_hi"]
    BY <2>1, StoreCycle
  <2>3. QED
    BY <1>1, <1>3, <2>2 DEF StoreLow, StoreTo, TimerInv, Armed, Fits
<1>4. CASE LoadTime
  <2>1. ClintTypeOK /\ Tick \in BOOLEAN /\ ~NoWrite.valid
    BY DEF TimerInv, Tick, NoWrite
  <2>2. WriteBeat(Tick, NoWrite) /\ ReadBeat("mtime_lo") /\ readAt' = Mtime
    BY <1>4 DEF LoadTime
  <2>3. ClintTypeOK'
    BY <2>1, <2>2, BeatType DEF Registers
  <2>4. Mtime \in Nat /\ Mtime' \in Nat /\ Mtime' >= Mtime
    BY <2>1, <2>2, ClockRuns
  <2>5. reg'["mtimecmp_hi"] = reg["mtimecmp_hi"]
    BY <2>1, <2>2, ComparatorStays
  <2>6. Fits' => rdata_r' = readAt'
    <3>1. SUFFICES ASSUME Mtime + Delay < Half PROVE reg["mtime_lo"] = Mtime
      BY <2>2 DEF Fits, ReadBeat
    <3>2. reg["mtime_hi"] \in 0..(Half - 1) /\ reg["mtime_lo"] \in 0..(Half - 1)
      BY <2>1 DEF ClintTypeOK, Registers
    <3>3. CASE reg["mtime_hi"] = 0
      BY <1>1, <3>2, <3>3 DEF Mtime
    <3>4. CASE reg["mtime_hi"] >= 1
      <4>1. reg["mtime_hi"] * Half >= Half /\ reg["mtime_hi"] * Half \in Nat
        BY <1>1, <3>2, <3>4
      <4>2. QED
        BY <1>1, <3>1, <3>2, <4>1 DEF Mtime
    <3>5. QED
      BY <3>2, <3>3, <3>4, <1>1
  <2>7. QED
    BY <1>1, <1>4, <2>2, <2>3, <2>4, <2>5, <2>6 DEF LoadTime, TimerInv, Armed
<1>5. QED
  BY <1>2, <1>3, <1>4

LEMMA TimerInvAlways == TimerSpec => []TimerInv
<1>1. TimerInv /\ [CpuStep \/ Stall]_timerVars => TimerInv'
  <2>1. ASSUME TimerInv, CpuStep \/ Stall
        PROVE  TimerInv'
    BY <2>1, IdleSteps, BusSteps DEF CpuStep
  <2>2. ASSUME TimerInv, UNCHANGED timerVars
        PROVE  TimerInv'
    BY <2>2 DEF TimerInv, ClintTypeOK, Mtime, Mtimecmp, Mtip, Fits, timerVars, clintVars, progVars
  <2>3. QED
    BY <2>1, <2>2
<1>2. QED
  BY TimerInitInv, <1>1, PTL DEF TimerSpec

\* At any speed of the CPU the trap comes no earlier than the program asked,
\* for every width and every delay whose deadline fits in one word
\* (timer_isr.S:63-72).
THEOREM TrapIsNotEarly == TimerSpec => []NoEarlyTrap
<1>1. TimerInv => NoEarlyTrap
  BY DEF TimerInv, NoEarlyTrap, Fits
<1>2. QED
  BY <1>1, TimerInvAlways, PTL

\* However late the handler looks, it finds MTIP pending (timer_isr.S:100-102).
THEOREM HandlerSeesMtip == TimerSpec => []MtipSeenInHandler
<1>1. TimerInv => MtipSeenInHandler
  BY DEF TimerInv, MtipSeenInHandler
<1>2. QED
  BY <1>1, TimerInvAlways, PTL

\* Once the comparator is armed, nothing the program does before it is
\* finished withdraws a raised interrupt: the wait for the trap, and the
\* handler's look at mip, race with nothing.
RaisedStaysRaised ==
    [][(pc \in Armed /\ Mtip) => (Mtip)']_timerVars

\* The armed timer interrupt stays raised, at any speed of the CPU.
THEOREM ArmedInterruptIsHeld == TimerSpec => RaisedStaysRaised
<1>1. ASSUME TimerInv, CpuStep \/ Stall, pc \in Armed, Mtip
      PROVE  Mtip'
  <2>1. NoBus
    BY <1>1 DEF CpuStep, Stall, Armed, ClearHigh, LoadTime, AddDelay, StoreLow, StoreTo,
                EnableTraps, Trap, SaveMip, Disarm, Finish
  <2>2. QED
    BY <1>1, <2>1, IdleCycle
<1>2. TimerInv /\ [CpuStep \/ Stall]_timerVars
        => [(pc \in Armed /\ Mtip) => (Mtip)']_timerVars
  BY <1>1
<1>3. QED
  BY <1>2, TimerInvAlways, PTL DEF TimerSpec, RaisedStaysRaised
===============================================================================
