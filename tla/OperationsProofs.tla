---------------------------- MODULE OperationsProofs ---------------------------
(***************************************************************************)
(* The record of a day never changes, every broker snapshot the ledger     *)
(* accepted has one request that was still open, and a day that passes was *)
(* earned by each of its slots, for any number of days, observers,         *)
(* attempts and faults (SafetyDay).  A source that cannot be read is       *)
(* reported, no restart goes by in silence, every urgent anomaly is paged  *)
(* and a marker means completed work, for any number of sentinels, runs    *)
(* and mishaps (SystemLoop).                                               *)
(***************************************************************************)
EXTENDS SafetyDay, SystemLoop, TotalsProofs, TLAPS

-------------------------------------------------------------------------------
(* The observers and the stores they share                                 *)

Parts == {"pc", "consumed", "unseen", "record", "call", "hurt"}

\* The steps of an observer that holds the record of a day.
Bearing == {"window", "get", "archive", "confirm", "set", "raced"}
ObserverIsSound(o) ==
  /\ obs[o].pc \in Bearing => obs[o].record.day \in Days
  /\ obs[o].pc = "set" => archive[obs[o].record.day] = obs[o].record
  /\ obs[o].pc = "raced" => daily[obs[o].record.day] # NoRecord

\* A kept record is of its own day, and what Redis publishes is the archived one.
StoresAgree == \A d \in Days :
  /\ archive[d] # NoRecord => archive[d].day = d
  /\ daily[d] \in {NoRecord, archive[d]}

Shape ==
  /\ day \in Days
  /\ archive = [d \in Days |-> archive[d]] /\ daily = [d \in Days |-> daily[d]]
  /\ obs = [o \in Observers |-> obs[o]] /\ \A o \in Observers : DOMAIN obs[o] = Parts
Sound == \A o \in Observers : ObserverIsSound(o)
DayInv == Shape /\ StoresAgree /\ Sound

\* What a step does to the archive and to the published records.
Keeps == \A d \in Days : /\ archive[d] # NoRecord => archive'[d] = archive[d]
                         /\ daily'[d] \in {NoRecord, archive'[d]}

\* Only o moves, and it stays an observer.
Moved(o) ==
  /\ obs' = [p \in Observers |-> obs'[p]] /\ \A p \in Observers : DOMAIN obs'[p] = Parts
  /\ \A p \in Observers : p # o => obs'[p] = obs[p]

LEMMA DaysAreNumbered ==
  /\ Days \subseteq Nat /\ NoDay \notin Days /\ 1 \in Days
  /\ \A d \in Days : d >= 1
  BY DayAssumption DEF Days, NoDay, DayAssumption

LEMMA NextDayInv == ASSUME Shape', StoresAgree', Sound' PROVE DayInv'
  BY DEF DayInv

\* A step that writes neither the archive nor a published record.
LEMMA QuietStep ==
  ASSUME DayInv, NEW o \in Observers, UNCHANGED <<day, archive, daily>>, Moved(o),
         ObserverIsSound(o)'
  PROVE  DayInv' /\ Keeps
  <1>1. Shape' /\ StoresAgree'
    BY DEF DayInv, Shape, StoresAgree, Moved
  <1>2. ASSUME NEW p \in Observers PROVE ObserverIsSound(p)'
    BY DEF DayInv, Sound, ObserverIsSound, Moved
  <1>3. Keeps
    BY DEF Keeps, DayInv, StoresAgree
  <1> QED BY <1>1, <1>2, <1>3, NextDayInv DEF Sound

\* Where an observer goes next, and what it carries there.
LEMMA ToMoves ==
  ASSUME DayInv, NEW o \in Observers, NEW pc, To(o, pc)
  PROVE  /\ Moved(o) /\ obs'[o].pc = pc
         /\ pc \notin AtRest => obs'[o].record = obs[o].record
  <1>1. /\ obs = [p \in Observers |-> obs[p]] /\ \A p \in Observers : DOMAIN obs[p] = Parts
    BY DEF DayInv, Shape
  <1>2. CASE pc \notin AtRest
    <2>1. obs' = [obs EXCEPT ![o] = [obs[o] EXCEPT !.pc = pc]]
      BY <1>2 DEF To
    <2> QED BY <1>1, <1>2, <2>1 DEF Moved, Parts
  <1>3. CASE pc \in AtRest
    <2>1. PICK hurt : obs' = [obs EXCEPT ![o] = [Idle EXCEPT !.pc = pc, !.hurt = hurt]]
      BY <1>3 DEF To
    <2> QED BY <1>1, <1>3, <2>1 DEF Moved, Parts, Idle
  <1> QED BY <1>2, <1>3

LEMMA StopMoves ==
  ASSUME DayInv, NEW o \in Observers, Stops(o)
  PROVE  Moved(o) /\ obs'[o].pc = "threw"
  BY DEF Stops, DayInv, Shape, Moved, Parts, Idle

LEMMA AdoptMoves ==
  ASSUME DayInv, NEW o \in Observers, NEW rec, NEW pc, Adopt(o, rec, pc)
  PROVE  Moved(o) /\ obs'[o].pc = pc /\ obs'[o].record = rec
  BY DEF Adopt, DayInv, Shape, Moved, Parts

\* An observer whose call failed carries nothing.
LEMMA StopStep ==
  ASSUME DayInv, NEW o \in Observers, Stops(o), UNCHANGED <<day, archive, daily>>
  PROVE  DayInv' /\ Keeps
  BY StopMoves, QuietStep DEF ObserverIsSound, Bearing

\* A step to somewhere that asks nothing more of the stores.
LEMMA ToStep ==
  ASSUME DayInv, NEW o \in Observers, NEW pc, pc \notin {"set", "raced"}, To(o, pc),
         pc \in Bearing => obs[o].pc \in Bearing, UNCHANGED <<day, archive, daily>>
  PROVE  DayInv' /\ Keeps
  <1>1. /\ Moved(o) /\ obs'[o].pc = pc
        /\ pc \notin AtRest => obs'[o].record = obs[o].record
    BY ToMoves
  <1>2. ObserverIsSound(o)'
    BY <1>1 DEF ObserverIsSound, DayInv, Sound, Bearing, AtRest
  <1> QED BY <1>1, <1>2, QuietStep

-------------------------------------------------------------------------------
(* The steps of an observer                                                *)

LEMMA CallStep == ASSUME DayInv, NEW o \in Observers, Call(o) PROVE DayInv' /\ Keeps
  <1>1. UNCHANGED <<day, archive, daily>>
    BY DEF Call, storeVars
  <1>2. /\ obs' = [p \in Observers |-> obs'[p]]
        /\ \A p \in Observers : /\ DOMAIN obs'[p] = Parts
                                /\ \/ obs'[p].pc = "consumed"
                                   \/ obs'[p].pc = obs[p].pc /\ obs'[p].record = obs[p].record
    <2>1. PICK hurt : obs' = [p \in Observers |->
              IF p = o THEN [Idle EXCEPT !.pc = "consumed", !.call = calls + 1, !.hurt = hurt]
              ELSE IF Running(p) THEN [obs[p] EXCEPT !.hurt = TRUE] ELSE obs[p]]
      BY DEF Call
    <2> QED BY <2>1 DEF Idle, Parts, DayInv, Shape
  <1>3. Shape' /\ StoresAgree' /\ Keeps
    BY <1>1, <1>2 DEF DayInv, Shape, StoresAgree, Keeps
  <1>4. ASSUME NEW p \in Observers PROVE ObserverIsSound(p)'
    BY <1>1, <1>2 DEF DayInv, Sound, ObserverIsSound, Bearing
  <1> QED BY <1>3, <1>4, NextDayInv DEF Sound

LEMMA ReadConsumedStep ==
  ASSUME DayInv, NEW o \in Observers, ReadConsumed(o) PROVE DayInv' /\ Keeps
  <1>1. /\ obs[o].pc = "consumed" /\ UNCHANGED <<day, archive, daily>>
        /\ \/ Stops(o) \/ To(o, "threw")
           \/ \E unseen, consumed : obs' = [obs EXCEPT ![o].pc = "gather", ![o].unseen = unseen,
                                                      ![o].consumed = consumed]
    BY DEF ReadConsumed, Breaks, Steps, storeVars
  <1>2. ASSUME NEW unseen, NEW consumed,
               obs' = [obs EXCEPT ![o].pc = "gather", ![o].unseen = unseen, ![o].consumed = consumed]
        PROVE  DayInv' /\ Keeps
    <2>1. Moved(o) /\ obs'[o].pc = "gather"
      BY <1>2 DEF DayInv, Shape, Moved, Parts
    <2> QED BY <1>1, <2>1, QuietStep DEF ObserverIsSound, Bearing
  <1> QED BY <1>1, <1>2, StopStep, ToStep DEF Bearing

LEMMA GatherStep ==
  ASSUME DayInv, NEW o \in Observers, GatherPhase0Evidence(o) PROVE DayInv' /\ Keeps
  <1>1. /\ UNCHANGED <<day, archive, daily>>
        /\ \/ Stops(o)
           \/ \E trust, skill, runs : obs' = [obs EXCEPT ![o].pc = "window",
                ![o].record = [day |-> day, by |-> obs[o].call, trust |-> trust,
                               skill |-> skill, runs |-> runs, unseen |-> obs[o].unseen]]
    BY DEF GatherPhase0Evidence, Breaks, storeVars
  <1>2. ASSUME NEW trust, NEW skill, NEW runs, obs' = [obs EXCEPT ![o].pc = "window",
                 ![o].record = [day |-> day, by |-> obs[o].call, trust |-> trust,
                                skill |-> skill, runs |-> runs, unseen |-> obs[o].unseen]]
        PROVE  DayInv' /\ Keeps
    <2>1. Moved(o) /\ obs'[o].pc = "window" /\ obs'[o].record.day = day
      BY <1>2 DEF DayInv, Shape, Moved, Parts
    <2>2. ObserverIsSound(o)'
      BY <1>1, <2>1 DEF ObserverIsSound, DayInv, Shape, Days
    <2> QED BY <1>1, <2>1, <2>2, QuietStep
  <1> QED BY <1>1, <1>2, StopStep

LEMMA WindowStep ==
  ASSUME DayInv, NEW o \in Observers, ObservationPersistenceWindowIsOpen(o) PROVE DayInv' /\ Keeps
  <1>1. /\ obs[o].pc = "window" /\ UNCHANGED <<day, archive, daily>>
        /\ Stops(o) \/ To(o, "get")
    BY DEF ObservationPersistenceWindowIsOpen, storeVars
  <1> QED BY <1>1, StopStep, ToStep DEF Bearing

\* A published or archived record of a day is a record of that day.
LEMMA KeptRecord ==
  ASSUME DayInv, NEW d \in Days
  PROVE  /\ archive[d] # NoRecord => archive[d].day = d
         /\ daily[d] # NoRecord => daily[d].day = d /\ daily[d] = archive[d]
  BY DEF DayInv, StoresAgree

LEMMA ReadCurrentStep ==
  ASSUME DayInv, NEW o \in Observers, ReadCurrent(o) PROVE DayInv' /\ Keeps
  <1> DEFINE d == obs[o].record.day
  <1>1. /\ obs[o].pc = "get" /\ UNCHANGED <<day, archive, daily>>
        /\ \/ Stops(o)
           \/ daily[d] # NoRecord /\ Adopt(o, daily[d], "confirm")
           \/ Adopt(o, ReplayedRecord(obs[o].record), "archive")
    BY DEF ReadCurrent, Breaks, storeVars
  <1>2. d \in Days
    BY <1>1 DEF DayInv, Sound, ObserverIsSound, Bearing
  <1>3. ASSUME NEW rec, NEW pc \in {"confirm", "archive"}, rec.day \in Days, Adopt(o, rec, pc)
        PROVE  DayInv' /\ Keeps
    <2>1. Moved(o) /\ obs'[o].pc = pc /\ obs'[o].record = rec
      BY <1>3, AdoptMoves
    <2>2. ObserverIsSound(o)'
      BY <1>3, <2>1 DEF ObserverIsSound, Days
    <2> QED BY <1>1, <2>1, <2>2, QuietStep
  <1>4. daily[d] # NoRecord => daily[d].day \in Days
    BY <1>2, KeptRecord
  <1>5. ReplayedRecord(obs[o].record).day \in Days
    BY <1>2, KeptRecord DEF ReplayedRecord
  <1> HIDE DEF d
  <1> QED BY <1>1, <1>3, <1>4, <1>5, StopStep

LEMMA ReadRacedStep ==
  ASSUME DayInv, NEW o \in Observers, ReadRaced(o) PROVE DayInv' /\ Keeps
  <1> DEFINE d == obs[o].record.day
  <1>1. /\ obs[o].pc = "raced" /\ UNCHANGED <<day, archive, daily>>
        /\ Stops(o) \/ Adopt(o, daily[d], "confirm")
    BY DEF ReadRaced, Breaks, storeVars
  <1>2. d \in Days /\ daily[d] # NoRecord
    BY <1>1 DEF DayInv, Sound, ObserverIsSound, Bearing
  <1>3. CASE Adopt(o, daily[d], "confirm")
    <2>1. Moved(o) /\ obs'[o].pc = "confirm" /\ obs'[o].record = daily[d]
      BY <1>3, AdoptMoves
    <2>2. ObserverIsSound(o)'
      BY <1>2, <2>1, KeptRecord DEF ObserverIsSound, Days
    <2> QED BY <1>1, <2>1, <2>2, QuietStep
  <1> QED BY <1>1, <1>3, StopStep

\* The archive is written once: another record of the day conflicts.
LEMMA ArchiveStep ==
  ASSUME DayInv, NEW o \in Observers, ArchivePhase0Observation(o) PROVE DayInv' /\ Keeps
  <1> DEFINE rec == obs[o].record
  <1>1. /\ obs[o].pc \in {"archive", "confirm"} /\ UNCHANGED <<day, daily>>
        /\ \/ To(o, "threw") /\ archive' = archive
           \/ /\ archive[rec.day] \in {NoRecord, rec} /\ archive' = [archive EXCEPT ![rec.day] = rec]
              /\ To(o, IF obs[o].pc = "archive" THEN "set" ELSE "index")
    BY DEF ArchivePhase0Observation, Conflict, Steps
  <1>2. rec.day \in Days
    BY <1>1 DEF DayInv, Sound, ObserverIsSound, Bearing
  <1>3. CASE To(o, "threw") /\ archive' = archive
    BY <1>1, <1>3, ToStep DEF Bearing
  <1>4. CASE /\ archive[rec.day] \in {NoRecord, rec} /\ archive' = [archive EXCEPT ![rec.day] = rec]
             /\ To(o, IF obs[o].pc = "archive" THEN "set" ELSE "index")
    <2>1. Moved(o) /\ obs'[o].pc \in {"set", "index"} /\ obs'[o].record = rec
      BY <1>4, ToMoves DEF AtRest
    <2>2. /\ archive' = [d \in Days |-> archive'[d]] /\ archive'[rec.day] = rec
          /\ \A d \in Days : d # rec.day => archive'[d] = archive[d]
          /\ \A d \in Days : archive[d] # NoRecord => archive'[d] = archive[d]
      BY <1>2, <1>4 DEF DayInv, Shape
    <2> HIDE DEF rec
    <2>3. Keeps /\ StoresAgree'
      BY <1>1, <1>2, <2>2 DEF Keeps, StoresAgree, DayInv
    <2>4. Shape'
      BY <1>1, <2>1, <2>2 DEF DayInv, Shape, Moved, Days
    <2>5. ObserverIsSound(o)'
      BY <1>2, <2>1, <2>2 DEF ObserverIsSound, Days
    <2>6. ASSUME NEW p \in Observers, p # o PROVE ObserverIsSound(p)'
      <3>1. ObserverIsSound(p) /\ obs'[p] = obs[p]
        BY <2>1, <2>6 DEF DayInv, Sound, Moved
      <3>2. obs[p].pc = "set" => archive'[obs[p].record.day] = obs[p].record
        <4>1. SUFFICES ASSUME obs[p].pc = "set" PROVE archive'[obs[p].record.day] = obs[p].record
          OBVIOUS
        <4>2. obs[p].record.day \in Days /\ archive[obs[p].record.day] = obs[p].record
          BY <3>1, <4>1 DEF ObserverIsSound, Bearing
        <4>3. obs[p].record # NoRecord
          BY <4>2, DaysAreNumbered DEF NoRecord
        <4> QED BY <2>2, <4>2, <4>3
      <3> QED BY <1>1, <3>1, <3>2 DEF ObserverIsSound, Days
    <2> QED BY <2>3, <2>4, <2>5, <2>6, NextDayInv DEF Sound
  <1> QED BY <1>1, <1>3, <1>4

\* What is published is the archived record.
LEMMA SetOnceStep ==
  ASSUME DayInv, NEW o \in Observers, SetOnce(o) PROVE DayInv' /\ Keeps
  <1> DEFINE rec == obs[o].record
  <1>1. /\ obs[o].pc = "set" /\ UNCHANGED <<day, archive>>
        /\ \/ Stops(o) \/ To(o, IF daily[rec.day] = NoRecord THEN "index" ELSE "raced")
        /\ \/ daily' = daily /\ Stops(o)
           \/ daily' = [daily EXCEPT ![rec.day] = IF daily[rec.day] = NoRecord THEN rec ELSE daily[rec.day]]
    BY DEF SetOnce, Breaks, Steps
  <1>2. rec.day \in Days /\ archive[rec.day] = rec
    BY <1>1 DEF DayInv, Sound, ObserverIsSound, Bearing
  <1>3. /\ daily' = [d \in Days |-> daily'[d]]
        /\ \A d \in Days : daily'[d] \in {daily[d], archive[d]}
        /\ \A d \in Days : daily[d] # NoRecord => daily'[d] = daily[d]
    BY <1>1, <1>2 DEF DayInv, Shape
  <1>4. /\ Moved(o) /\ obs'[o].pc \in {"threw", "index", "raced"}
        /\ obs'[o].pc = "raced" => obs'[o].record = rec /\ daily[rec.day] # NoRecord
    BY <1>1, StopMoves, ToMoves DEF AtRest
  <1> HIDE DEF rec
  <1>5. StoresAgree' /\ Keeps
    BY <1>1, <1>3 DEF DayInv, StoresAgree, Keeps
  <1>6. Shape'
    BY <1>1, <1>3, <1>4 DEF DayInv, Shape, Moved, Days
  <1>7. ObserverIsSound(o)'
    BY <1>2, <1>3, <1>4 DEF ObserverIsSound, Bearing, Days
  <1>8. ASSUME NEW p \in Observers, p # o PROVE ObserverIsSound(p)'
    <2>1. ObserverIsSound(p) /\ obs'[p] = obs[p]
      BY <1>4, <1>8 DEF DayInv, Sound, Moved
    <2> QED BY <1>1, <1>3, <2>1 DEF ObserverIsSound, Bearing, Days
  <1> QED BY <1>5, <1>6, <1>7, <1>8, NextDayInv DEF Sound

LEMMA PublishedStep ==
  ASSUME DayInv, NEW o \in Observers,
         EnsureObservationIndex(o) \/ ReadSentMarker(o) \/ Send(o) \/ MarkSent(o)
  PROVE  DayInv' /\ Keeps
  <1>1. /\ UNCHANGED <<day, archive, daily>>
        /\ Stops(o) \/ \E pc \in {"marker", "done", "send", "mark"} : To(o, pc)
    BY DEF EnsureObservationIndex, ReadSentMarker, Send, MarkSent, Breaks, Steps, storeVars
  <1> QED BY <1>1, StopStep, ToStep DEF Bearing

LEMMA ObserveStep == ASSUME DayInv, NEW o \in Observers, Observe(o) PROVE DayInv' /\ Keeps
  BY CallStep, ReadConsumedStep, GatherStep, WindowStep, ReadCurrentStep, ArchiveStep, SetOnceStep,
     ReadRacedStep, PublishedStep, Zenon DEF Observe

-------------------------------------------------------------------------------
(* The days                                                                *)

\* No observer is running when the day ends, so what expires is nobody's.
LEMMA NextDayStep == ASSUME DayInv, NextDay PROVE DayInv' /\ Keeps
  <1>1. /\ day' \in Days /\ UNCHANGED <<archive, obs>> /\ \A o \in Observers : ~ Running(o)
        /\ daily' = [d \in Days |-> IF day' - d < Retention THEN daily[d] ELSE NoRecord]
    BY DEF NextDay
  <1>2. daily' = [d \in Days |-> daily'[d]] /\ \A d \in Days : daily'[d] \in {daily[d], NoRecord}
    BY <1>1
  <1>3. Shape'
    BY <1>1, <1>2 DEF DayInv, Shape, Days
  <1>4. StoresAgree' /\ Keeps
    BY <1>1, <1>2 DEF DayInv, StoresAgree, Keeps
  <1>5. ASSUME NEW o \in Observers PROVE ObserverIsSound(o)'
    BY <1>1 DEF ObserverIsSound, Running, AtRest, Bearing
  <1> QED BY <1>3, <1>4, <1>5, NextDayInv DEF Sound

LEMMA UntouchedStep ==
  ASSUME DayInv, UNCHANGED <<day, archive, daily, obs>> PROVE DayInv' /\ Keeps
  BY DEF DayInv, Shape, StoresAgree, Sound, ObserverIsSound, Keeps

LEMMA DayInit == ASSUME Init PROVE DayInv
  <1>1. /\ day = 1 /\ archive = [d \in Days |-> NoRecord] /\ daily = archive
        /\ obs = [o \in Observers |-> Idle]
    BY DEF Init
  <1> QED BY <1>1, DaysAreNumbered DEF DayInv, Shape, StoresAgree, Sound, ObserverIsSound, Idle,
             Parts, Bearing

LEMMA DayStep == ASSUME DayInv, [SafetyNext]_vars PROVE DayInv' /\ Keeps
  <1>1. ASSUME RunSlot PROVE DayInv' /\ Keeps
    <2>1. UNCHANGED <<day, archive, daily, obs>>
      BY <1>1 DEF RunSlot, WrapJob, QueueMcpReadJob, storeVars
    <2> QED BY <2>1, UntouchedStep
  <1>2. ASSUME Evening \/ \E r \in ResearchRuns : FinishScan(r) PROVE DayInv' /\ Keeps
    <2>1. UNCHANGED <<day, archive, daily, obs>>
      BY <1>2 DEF Evening, FinishScan, storeVars
    <2> QED BY <2>1, UntouchedStep
  <1>5. ASSUME (\E j \in BrokerReads : Reader(j)) \/ \E m \in marker : ExpireMarker(m) PROVE DayInv' /\ Keeps
    <2>1. UNCHANGED <<day, archive, daily, obs>>
      BY <1>5 DEF Reader, ReadBroker, AppendPerformanceRow, ReaderStops, Answer, ExpireMarker, storeVars
    <2> QED BY <2>1, UntouchedStep
  <1>3. ASSUME UNCHANGED vars PROVE DayInv' /\ Keeps
    <2>1. UNCHANGED <<day, archive, daily, obs>>
      BY <1>3 DEF vars, storeVars
    <2> QED BY <2>1, UntouchedStep
  <1>4. SafetyNext \/ UNCHANGED vars
    OBVIOUS
  <1> QED BY <1>1, <1>2, <1>3, <1>4, <1>5, ObserveStep, NextDayStep, Zenon DEF SafetyNext

(* The archived record of a day is the first one and stays it, and what    *)
(* Redis publishes is that record or nothing, whatever call fails and      *)
(* however the observers overlap.                                          *)
THEOREM RecordNeverChanges == Spec => DayRecordImmutable
  <1>1. ASSUME DayInv, [SafetyNext]_vars
        PROVE  [\A d \in Days : /\ archive[d] # NoRecord => archive'[d] = archive[d]
                                /\ daily'[d] \in {NoRecord, archive'[d]}]_vars
    BY <1>1, DayStep DEF Keeps
  <1> QED BY <1>1, DayInit, DayStep, PTL DEF Spec, DayRecordImmutable

-------------------------------------------------------------------------------
(* The requests for broker reads                                           *)

Of(j) == [job : {j}, day : Days, slot : Slots[j], id : Nat]
Requests == UNION {Of(j) : j \in BrokerReads}
Pcs == {"idle", "append", "ok", "failed"}

\* A request is queued, being read, on record or remembered by its marker.
Queued(q) == \E j \in BrokerReads : \E i \in DOMAIN queue[j] : q = queue[j][i]
InHand(q) == \E j \in BrokerReads : reading[j].pc # "idle" /\ q = reading[j].request
Made(q) == Queued(q) \/ InHand(q) \/ Recorded(q) \/ q \in marker

RequestTypes ==
  /\ day \in Days /\ marker \subseteq Requests /\ performance \in Seq(Requests)
  /\ queue = [j \in BrokerReads |-> queue[j]] /\ \A j \in BrokerReads : queue[j] \in Seq(Of(j))
  /\ \A j \in Live : tries[j] \in [Slots[j] -> Nat]

\* A request is read, under the job it asks for, for a row it may have.
ReaderTypes ==
  /\ reading \in [BrokerReads -> [pc : Pcs, request : Requests \cup {NoRequest}, recorded : BOOLEAN]]
  /\ \A j \in BrokerReads : reading[j].pc # "idle" => reading[j].request \in Of(j)

\* A request of today still has its marker: it is the only one of its slot.
OnePerSlot ==
  /\ \A q : Made(q) => q \in Requests /\ q.day <= day /\ (q.day = day => q \in marker)
  /\ \A p, q : Made(p) /\ Made(q) /\ SameSlot(p, q) => p = q

\* A request has one row, and who is about to write it knows whether it has.
RecordedOnce ==
  /\ \A i, k \in DOMAIN performance : performance[i] = performance[k] => i = k
  /\ \A j \in BrokerReads, q \in Requests :
       reading[j].pc = "append" /\ reading[j].request = q => (reading[j].recorded <=> Recorded(q))

RequestInv == RequestTypes /\ ReaderTypes /\ OnePerSlot /\ RecordedOnce

LEMMA NextRequestInv ==
  ASSUME RequestTypes', ReaderTypes', OnePerSlot', RecordedOnce' PROVE RequestInv'
  BY DEF RequestInv

\* Nothing new is asked for, and no marker of today goes.
LEMMA NothingAsked ==
  ASSUME OnePerSlot, day' = day, \A q : Made(q)' => Made(q),
         \A q \in marker : q.day = day => q \in marker'
  PROVE  OnePerSlot'
  <1>1. ASSUME NEW q, Made(q)' PROVE q \in Requests /\ q.day <= day /\ (q.day = day => q \in marker')
    BY <1>1 DEF OnePerSlot
  <1>2. ASSUME NEW p, NEW q, Made(p)', Made(q)', SameSlot(p, q) PROVE p = q
    BY <1>2 DEF OnePerSlot
  <1> QED BY <1>1, <1>2 DEF OnePerSlot, SameSlot, Requests, Of, Days

\* Nothing is asked, read or forgotten.
LEMMA NoRequestStep ==
  ASSUME RequestInv, day' \in Days, UNCHANGED <<day, brokerVars>>, \A j \in Live : tries'[j] \in [Slots[j] -> Nat]
  PROVE  RequestInv'
  <1>1. UNCHANGED <<day, queue, marker, reading, performance>>
    BY DEF brokerVars
  <1>2. \A q : Made(q)' => Made(q)
    BY <1>1 DEF Made, Queued, InHand, Recorded
  <1>3. OnePerSlot'
    BY <1>1, <1>2, NothingAsked DEF RequestInv
  <1>4. RequestTypes' /\ ReaderTypes'
    BY <1>1 DEF RequestInv, RequestTypes, ReaderTypes, Requests, Of, Days
  <1>5. RecordedOnce'
    BY <1>1 DEF RequestInv, RecordedOnce, Recorded
  <1> QED BY <1>3, <1>4, <1>5, NextRequestInv

LEMMA TriesCount ==
  ASSUME RequestInv, NEW job \in Live, NEW at \in Slots[job], Try(job, at)
  PROVE  \A j \in Live : tries'[j] \in [Slots[j] -> Nat]
  <1>1. tries' = [tries EXCEPT ![job][at] = tries[job][at] + 1]
    BY DEF Try
  <1>2. \A j \in Live : tries[j] \in [Slots[j] -> Nat]
    BY DEF RequestInv, RequestTypes
  <1>3. ASSUME NEW j \in Live, j # job PROVE tries'[j] \in [Slots[j] -> Nat]
    BY <1>1, <1>2, <1>3
  <1>4. tries'[job] \in [Slots[job] -> Nat]
    BY <1>1, <1>2
  <1> QED BY <1>3, <1>4

\* A request nobody knows is put at the end of the queue and marked.
LEMMA EnqueueKeeps ==
  ASSUME RequestInv, NEW job \in BrokerReads, NEW at \in Slots[job],
         EnqueueMcpReadRequest(job, at), UNCHANGED <<day, reading, performance>>,
         \A j \in Live : tries'[j] \in [Slots[j] -> Nat]
  PROVE  RequestInv'
  <1> DEFINE r == Request(job, at)
  <1>0. day \in Days /\ day \in Nat
    BY DaysAreNumbered DEF RequestInv, RequestTypes
  <1>1. CASE Known(job, at)
    BY <1>0, <1>1, NoRequestStep DEF EnqueueMcpReadRequest, brokerVars
  <1>2. CASE ~ Known(job, at)
    <2>1. queue' = [queue EXCEPT ![job] = Append(queue[job], r)] /\ marker' = marker \cup {r}
      BY <1>2 DEF EnqueueMcpReadRequest
    <2>2. r \in Of(job) /\ r \in Requests /\ r.job = job /\ r.day = day /\ r.slot = at
      <3>1. tries[job][at] \in Nat
        BY DEF RequestInv, RequestTypes, BrokerReads
      <3> QED BY <1>0, <3>1 DEF Request, Of, Requests
    <2> HIDE DEF r
    <2>3. \A q : Made(q) => ~ SameSlot(q, r) /\ ~ SameSlot(r, q)
      <3>1. ASSUME NEW q, Made(q), SameSlot(q, r) \/ SameSlot(r, q) PROVE FALSE
        <4>1. q.job = job /\ q.day = day /\ q.slot = at /\ q \in marker
          BY <2>2, <3>1 DEF SameSlot, RequestInv, OnePerSlot
        <4> QED BY <1>2, <4>1 DEF Known
      <3> QED BY <3>1
    <2>4. /\ queue' = [j \in BrokerReads |-> queue'[j]]
          /\ queue'[job] = Append(queue[job], r) /\ \A j \in BrokerReads : j # job => queue'[j] = queue[j]
      BY <2>1 DEF RequestInv, RequestTypes
    <2>5. /\ queue[job] \in Seq(Of(job)) /\ queue'[job] \in Seq(Of(job)) /\ Len(queue[job]) \in Nat
          /\ DOMAIN queue[job] = 1 .. Len(queue[job]) /\ DOMAIN queue'[job] = 1 .. (Len(queue[job]) + 1)
          /\ queue'[job][Len(queue[job]) + 1] = r
          /\ \A i \in DOMAIN queue[job] : queue'[job][i] = queue[job][i]
      BY <2>2, <2>4 DEF RequestInv, RequestTypes
    <2>6. \A q : Made(q)' => Made(q) \/ q = r
      <3>1. \A q : Queued(q)' => Queued(q) \/ q = r
        <4>1. ASSUME NEW q, NEW j \in BrokerReads, NEW i \in DOMAIN queue'[j], q = queue'[j][i]
              PROVE  Queued(q) \/ q = r
          <5>1. CASE j = job
            BY <2>5, <4>1, <5>1 DEF Queued
          <5>2. CASE j # job
            BY <2>4, <4>1, <5>2 DEF Queued
          <5> QED BY <5>1, <5>2
        <4> QED BY <4>1 DEF Queued
      <3> QED BY <2>1, <3>1 DEF Made, InHand, Recorded
    <2>7. RequestTypes'
      BY <1>0, <2>1, <2>2, <2>4, <2>5 DEF RequestInv, RequestTypes, Requests, Of, Days
    <2>8. OnePerSlot'
      <3>1. ASSUME NEW q, Made(q)' PROVE q \in Requests /\ q.day <= day /\ (q.day = day => q \in marker')
        BY <1>0, <2>1, <2>2, <2>6, <3>1 DEF RequestInv, OnePerSlot
      <3>2. ASSUME NEW p, NEW q, Made(p)', Made(q)', SameSlot(p, q) PROVE p = q
        BY <2>3, <2>6, <3>2 DEF RequestInv, OnePerSlot
      <3> QED BY <3>1, <3>2 DEF OnePerSlot, SameSlot, Requests, Of, Days
    <2>9. ReaderTypes' /\ RecordedOnce'
      BY DEF RequestInv, ReaderTypes, RecordedOnce, Recorded, Requests, Of, Days
    <2> QED BY <2>7, <2>8, <2>9, NextRequestInv
  <1> QED BY <1>1, <1>2

LEMMA RunSlotStep == ASSUME RequestInv, RunSlot PROVE RequestInv'
  <1>1. PICK j \in Live : \E s \in Slots[j] : WrapJob(j, s) \/ QueueMcpReadJob(j, s)
    BY DEF RunSlot
  <1>2. PICK s \in Slots[j] : WrapJob(j, s) \/ QueueMcpReadJob(j, s)
    BY <1>1
  <1>3. Try(j, s) /\ UNCHANGED <<day, reading, performance>>
    BY <1>2 DEF WrapJob, QueueMcpReadJob, brokerVars
  <1>4. UNCHANGED <<queue, marker>> \/ (j \in BrokerReads /\ EnqueueMcpReadRequest(j, s))
    BY <1>2 DEF WrapJob, QueueMcpReadJob, brokerVars
  <1>5. day' \in Days
    BY <1>3 DEF RequestInv, RequestTypes, Days
  <1> QED BY <1>3, <1>4, <1>5, TriesCount, NoRequestStep, EnqueueKeeps DEF brokerVars

-------------------------------------------------------------------------------
(* The reader                                                              *)

\* The oldest request of a kind is one of that kind.
LEMMA OldestRequest ==
  ASSUME RequestInv, NEW job \in BrokerReads, queue[job] # <<>>
  PROVE  Head(queue[job]) \in Of(job) /\ Head(queue[job]) \in Requests /\ Queued(Head(queue[job]))
  <1>1. /\ queue[job] \in Seq(Of(job)) /\ Len(queue[job]) \in Nat /\ Len(queue[job]) >= 1
        /\ DOMAIN queue[job] = 1 .. Len(queue[job]) /\ Head(queue[job]) = queue[job][1]
    BY DEF RequestInv, RequestTypes
  <1>2. 1 \in DOMAIN queue[job]
    BY <1>1
  <1> QED BY <1>1, <1>2 DEF Queued, Requests

\* What is being read of another kind is as it was, its row included.
LEMMA OneReaderMoves ==
  ASSUME RequestInv, NEW job \in BrokerReads, NEW r,
         reading' = [reading EXCEPT ![job] = r],
         r \in [pc : Pcs, request : Requests \cup {NoRequest}, recorded : BOOLEAN],
         r.pc # "idle" => r.request \in Of(job)
  PROVE  /\ ReaderTypes' /\ reading'[job] = r
         /\ \A j \in BrokerReads : j # job => reading'[j] = reading[j]
  <1>1. reading \in [BrokerReads -> [pc : Pcs, request : Requests \cup {NoRequest}, recorded : BOOLEAN]]
    BY DEF RequestInv, ReaderTypes
  <1>2. /\ reading' \in [BrokerReads -> [pc : Pcs, request : Requests \cup {NoRequest}, recorded : BOOLEAN]]
        /\ reading'[job] = r /\ \A j \in BrokerReads : j # job => reading'[j] = reading[j]
    BY <1>1
  <1>3. \A j \in BrokerReads : reading'[j].pc # "idle" => reading'[j].request \in Of(j)
    BY <1>2 DEF RequestInv, ReaderTypes
  <1> QED BY <1>2, <1>3 DEF ReaderTypes, Requests, Of, Days

LEMMA ReadStep == ASSUME RequestInv, NEW job \in BrokerReads, ReadBroker(job) PROVE RequestInv'
  <1> DEFINE q == Head(queue[job])
  <1>1. /\ queue[job] # <<>> /\ UNCHANGED <<day, queue, marker, performance, tries>>
        /\ \E pc \in {"append", "ok", "failed"}, known \in BOOLEAN :
             /\ pc = "append" => (known <=> Recorded(q))
             /\ reading' = [reading EXCEPT ![job] = [pc |-> pc, request |-> q, recorded |-> known]]
    BY DEF ReadBroker, Get, Recorded
  <1>2. q \in Of(job) /\ q \in Requests /\ Queued(q)
    BY <1>1, OldestRequest
  <1> HIDE DEF q
  <1>3. PICK pc \in {"append", "ok", "failed"}, known \in BOOLEAN :
          /\ pc = "append" => (known <=> Recorded(q))
          /\ reading' = [reading EXCEPT ![job] = [pc |-> pc, request |-> q, recorded |-> known]]
    BY <1>1
  <1>4. /\ ReaderTypes' /\ reading'[job] = [pc |-> pc, request |-> q, recorded |-> known]
        /\ \A j \in BrokerReads : j # job => reading'[j] = reading[j]
    <2>1. [pc |-> pc, request |-> q, recorded |-> known]
            \in [pc : Pcs, request : Requests \cup {NoRequest}, recorded : BOOLEAN]
      BY <1>2 DEF Pcs
    <2> QED BY <1>2, <1>3, <2>1, OneReaderMoves
  <1>5. \A p : Made(p)' => Made(p)
    <2>1. \A p : InHand(p)' => InHand(p) \/ p = q
      BY <1>4 DEF InHand
    <2> QED BY <1>1, <1>2, <2>1 DEF Made, Queued, Recorded
  <1>6. OnePerSlot'
    BY <1>1, <1>5, NothingAsked DEF RequestInv
  <1>7. RecordedOnce'
    <2>1. \A p : Recorded(p)' <=> Recorded(p)
      BY <1>1 DEF Recorded
    <2> QED BY <1>1, <1>3, <1>4, <2>1 DEF RequestInv, RecordedOnce, Requests, Of, Days
  <1>8. RequestTypes'
    BY <1>1 DEF RequestInv, RequestTypes, Requests, Of, Days
  <1> QED BY <1>4, <1>6, <1>7, <1>8, NextRequestInv

\* A row is written for a request that has none, or for none.
LEMMA AppendStep == ASSUME RequestInv, NEW job \in BrokerReads, AppendPerformanceRow(job) PROVE RequestInv'
  <1> DEFINE q == reading[job].request
             n == Len(performance) + 1
  <1>1. /\ reading[job].pc = "append" /\ UNCHANGED <<day, queue, marker, tries>>
        /\ \E pc \in {"ok", "failed"} : reading' = [reading EXCEPT ![job].pc = pc]
        /\ \/ performance' = performance
           \/ ~ reading[job].recorded /\ performance' = Append(performance, q)
    BY DEF AppendPerformanceRow
  <1>2. /\ q \in Of(job) /\ q \in Requests /\ InHand(q) /\ q.job = job
        /\ reading \in [BrokerReads -> [pc : Pcs, request : Requests \cup {NoRequest}, recorded : BOOLEAN]]
    BY <1>1 DEF RequestInv, ReaderTypes, InHand, Of, Requests
  <1>3. PICK pc \in {"ok", "failed"} : reading' = [reading EXCEPT ![job] = [reading[job] EXCEPT !.pc = pc]]
    BY <1>1
  <1>4. [reading[job] EXCEPT !.pc = pc] \in [pc : Pcs, request : Requests \cup {NoRequest}, recorded : BOOLEAN]
    BY <1>2 DEF Pcs
  <1>5. /\ [reading[job] EXCEPT !.pc = pc].request = q /\ [reading[job] EXCEPT !.pc = pc].pc = pc
    BY <1>2
  <1>6. /\ ReaderTypes' /\ reading'[job] = [reading[job] EXCEPT !.pc = pc]
        /\ \A j \in BrokerReads : j # job => reading'[j] = reading[j]
    BY <1>2, <1>3, <1>4, <1>5, OneReaderMoves
  <1>7. \A p : InHand(p)' => InHand(p)
    BY <1>2, <1>5, <1>6 DEF InHand
  <1>8. \A j \in BrokerReads : reading'[j].pc = "append" => j # job /\ reading[j].pc = "append"
                                                            /\ reading[j].request # q
    BY <1>2, <1>5, <1>6 DEF RequestInv, ReaderTypes, Of
  <1>9. CASE performance' = performance
    <2>1. \A p : Made(p)' => Made(p)
      BY <1>1, <1>7, <1>9 DEF Made, Queued, Recorded
    <2>2. OnePerSlot'
      BY <1>1, <2>1, NothingAsked DEF RequestInv
    <2>3. RecordedOnce'
      BY <1>6, <1>8, <1>9 DEF RequestInv, RecordedOnce, Recorded
    <2>4. RequestTypes'
      BY <1>1, <1>9 DEF RequestInv, RequestTypes, Requests, Of, Days
    <2> QED BY <1>6, <2>2, <2>3, <2>4, NextRequestInv
  <1>10. CASE ~ reading[job].recorded /\ performance' = Append(performance, q)
    <2>1. ~ Recorded(q)
      BY <1>1, <1>2, <1>10 DEF RequestInv, RecordedOnce
    <2> HIDE DEF q
    <2>2. /\ performance \in Seq(Requests) /\ performance' \in Seq(Requests) /\ Len(performance) \in Nat
          /\ DOMAIN performance = 1 .. Len(performance) /\ DOMAIN performance' = 1 .. n /\ performance'[n] = q
          /\ \A i \in DOMAIN performance : performance'[i] = performance[i]
      BY <1>2, <1>10 DEF RequestInv, RequestTypes
    <2>3. \A p : Recorded(p)' <=> Recorded(p) \/ p = q
      BY <2>2 DEF Recorded
    <2>4. \A p : Made(p)' => Made(p)
      BY <1>1, <1>2, <1>7, <2>3 DEF Made, Queued
    <2>5. OnePerSlot'
      BY <1>1, <2>4, NothingAsked DEF RequestInv
    <2>6. \A i, k \in DOMAIN performance' : performance'[i] = performance'[k] => i = k
      <3>1. \A i \in DOMAIN performance : performance[i] # q
        BY <2>1 DEF Recorded
      <3>2. \A i, k \in DOMAIN performance : performance[i] = performance[k] => i = k
        BY DEF RequestInv, RecordedOnce
      <3> QED BY <2>2, <3>1, <3>2
    <2>7. ASSUME NEW j \in BrokerReads, NEW p \in Requests, reading'[j].pc = "append", reading'[j].request = p
          PROVE  reading'[j].recorded <=> Recorded(p)'
      <3>1. reading'[j] = reading[j] /\ reading[j].pc = "append" /\ p # q
        BY <1>6, <1>8, <2>7
      <3> QED BY <2>3, <2>7, <3>1 DEF RequestInv, RecordedOnce
    <2>8. RecordedOnce'
      BY <2>6, <2>7 DEF RecordedOnce, Requests, Of, Days
    <2>9. RequestTypes'
      BY <1>1, <2>2 DEF RequestInv, RequestTypes, Requests, Of, Days
    <2> QED BY <1>6, <2>5, <2>8, <2>9, NextRequestInv
  <1> HIDE DEF q
  <1> QED BY <1>1, <1>9, <1>10

\* The reader lets its request go, which leaves the queue or stays.
LEMMA LetGoStep ==
  ASSUME RequestInv, NEW job \in BrokerReads, reading' = [reading EXCEPT ![job] = NoRead],
         UNCHANGED <<day, marker, performance, tries>>,
         \/ queue' = queue
         \/ queue[job] # <<>> /\ queue' = [queue EXCEPT ![job] = Tail(queue[job])]
  PROVE  RequestInv'
  <1>1. NoRead.pc = "idle" /\ NoRead \in [pc : Pcs, request : Requests \cup {NoRequest}, recorded : BOOLEAN]
    BY DEF NoRead, Pcs
  <1>2. /\ ReaderTypes' /\ reading'[job] = NoRead
        /\ \A j \in BrokerReads : j # job => reading'[j] = reading[j]
    BY <1>1, OneReaderMoves
  <1>3. /\ queue' = [j \in BrokerReads |-> queue'[j]]
        /\ \A j \in BrokerReads : queue'[j] = queue[j]
                                  \/ (j = job /\ queue[job] # <<>> /\ queue'[job] = Tail(queue[job]))
    BY DEF RequestInv, RequestTypes
  <1>4. ASSUME NEW j \in BrokerReads PROVE queue'[j] \in Seq(Of(j))
    <2>1. queue[j] \in Seq(Of(j))
      BY DEF RequestInv, RequestTypes
    <2> QED BY <1>3, <2>1
  <1>5. \A p : Queued(p)' => Queued(p)
    <2>1. ASSUME NEW j \in BrokerReads, NEW i \in DOMAIN queue'[j]
          PROVE  \E k \in DOMAIN queue[j] : queue'[j][i] = queue[j][k]
      <3>1. CASE queue'[j] = queue[j]
        BY <2>1, <3>1
      <3>2. CASE queue[j] # <<>> /\ queue'[j] = Tail(queue[j])
        <4>1. /\ queue[j] \in Seq(Of(j)) /\ Len(queue[j]) \in Nat /\ DOMAIN queue[j] = 1 .. Len(queue[j])
              /\ DOMAIN queue'[j] = 1 .. (Len(queue[j]) - 1) /\ queue'[j][i] = queue[j][i + 1]
          BY <2>1, <3>2 DEF RequestInv, RequestTypes
        <4> QED BY <2>1, <4>1
      <3> QED BY <1>3, <3>1, <3>2
    <2> QED BY <2>1 DEF Queued
  <1>6. \A p : Made(p)' => Made(p)
    BY <1>1, <1>2, <1>5 DEF Made, InHand, Recorded
  <1>7. OnePerSlot'
    BY <1>6, NothingAsked DEF RequestInv
  <1>8. RecordedOnce'
    BY <1>1, <1>2 DEF RequestInv, RecordedOnce, Recorded
  <1>9. RequestTypes'
    BY <1>3, <1>4 DEF RequestInv, RequestTypes, Requests, Of, Days
  <1> QED BY <1>2, <1>7, <1>8, <1>9, NextRequestInv

LEMMA ReaderStep == ASSUME RequestInv, NEW job \in BrokerReads, Reader(job) PROVE RequestInv'
  <1>1. ASSUME ReaderStops(job) PROVE RequestInv'
    BY <1>1, LetGoStep DEF ReaderStops
  <1>2. ASSUME Answer(job) PROVE RequestInv'
    <2>1. /\ reading' = [reading EXCEPT ![job] = NoRead] /\ UNCHANGED <<day, marker, performance, tries>>
          /\ Dequeue(job) \/ queue' = queue
      BY <1>2 DEF Answer
    <2>2. \/ queue' = queue
          \/ queue[job] # <<>> /\ queue' = [queue EXCEPT ![job] = Tail(queue[job])]
      BY <2>1 DEF Dequeue, RequestInv, RequestTypes
    <2> QED BY <2>1, <2>2, LetGoStep
  <1> QED BY <1>1, <1>2, ReadStep, AppendStep DEF Reader

\* A marker of another day goes, and with the last marker of a kind its queue.
LEMMA ExpireStep == ASSUME RequestInv, NEW m \in marker, ExpireMarker(m) PROVE RequestInv'
  <1>1. /\ Expired(m) /\ marker' = marker \ {m} /\ UNCHANGED <<day, reading, performance, tries>>
        /\ queue' = queue \/ queue' = [queue EXCEPT ![m.job] = <<>>]
    BY DEF ExpireMarker
  <1>2. m.day # day
    <2>1. day \in Nat
      BY DaysAreNumbered DEF RequestInv, RequestTypes
    <2> QED BY <1>1, <2>1 DEF Expired
  <1>3. /\ queue' = [j \in BrokerReads |-> queue'[j]]
        /\ \A j \in BrokerReads : queue'[j] = queue[j] \/ queue'[j] = <<>>
    BY <1>1 DEF RequestInv, RequestTypes
  <1>4. \A q : Made(q)' => Made(q)
    BY <1>1, <1>3 DEF Made, Queued, InHand, Recorded
  <1>5. OnePerSlot'
    BY <1>1, <1>2, <1>4, NothingAsked DEF RequestInv
  <1>8. ASSUME NEW j \in BrokerReads PROVE queue'[j] \in Seq(Of(j))
    <2>1. queue[j] \in Seq(Of(j)) /\ <<>> \in Seq(Of(j))
      BY DEF RequestInv, RequestTypes
    <2> QED BY <1>3, <2>1
  <1>6. RequestTypes'
    BY <1>1, <1>3, <1>8 DEF RequestInv, RequestTypes, Requests, Of, Days
  <1>7. ReaderTypes' /\ RecordedOnce'
    BY <1>1 DEF RequestInv, ReaderTypes, RecordedOnce, Recorded, Requests, Of, Days
  <1> QED BY <1>5, <1>6, <1>7, NextRequestInv

\* The requests of the day that ends are of another day from now on.
LEMMA NightStep == ASSUME RequestInv, NextDay PROVE RequestInv'
  <1>1. /\ day' = day + 1 /\ day' \in Days /\ UNCHANGED <<queue, marker, reading, performance>>
        /\ tries' = [j \in Live |-> [s \in Slots[j] |-> 0]]
    BY DEF NextDay, brokerVars
  <1>2. \A q : Made(q)' => Made(q)
    BY <1>1 DEF Made, Queued, InHand, Recorded
  <1>3. day \in Nat /\ \A q \in Requests : q.day \in Nat
    BY DaysAreNumbered DEF RequestInv, RequestTypes, Requests, Of
  <1>4. OnePerSlot'
    <2>1. ASSUME NEW q, Made(q)' PROVE q \in Requests /\ q.day <= day' /\ q.day # day'
      <3>1. q \in Requests /\ q.day <= day
        BY <1>2, <2>1 DEF RequestInv, OnePerSlot
      <3> QED BY <1>1, <1>3, <3>1
    <2>2. ASSUME NEW p, NEW q, Made(p)', Made(q)', SameSlot(p, q) PROVE p = q
      BY <1>2, <2>2 DEF RequestInv, OnePerSlot
    <2> QED BY <2>1, <2>2 DEF OnePerSlot, SameSlot, Requests, Of, Days
  <1>5. RequestTypes' /\ ReaderTypes' /\ RecordedOnce'
    BY <1>1 DEF RequestInv, RequestTypes, ReaderTypes, RecordedOnce, Recorded, Requests, Of, Days
  <1> QED BY <1>4, <1>5, NextRequestInv

LEMMA RequestInit == ASSUME Init PROVE RequestInv
  <1>1. /\ day = 1 /\ queue = [j \in BrokerReads |-> <<>>] /\ marker = {} /\ performance = <<>>
        /\ reading = [j \in BrokerReads |-> NoRead]
        /\ tries = [j \in Live |-> [s \in Slots[j] |-> 0]]
    BY DEF Init
  <1>2. \A q : ~ Made(q)
    BY <1>1 DEF Made, Queued, InHand, Recorded, NoRead
  <1>3. RequestTypes
    BY <1>1, DaysAreNumbered DEF RequestTypes
  <1> QED BY <1>1, <1>2, <1>3 DEF RequestInv, ReaderTypes, OnePerSlot, RecordedOnce, NoRead, Pcs

LEMMA RequestStep == ASSUME RequestInv, [SafetyNext]_vars PROVE RequestInv'
  <1>1. ASSUME UNCHANGED <<day, brokerVars, tries>> PROVE RequestInv'
    BY <1>1, NoRequestStep DEF RequestInv, RequestTypes, Days
  <1>2. ASSUME Evening \/ \E r \in ResearchRuns : FinishScan(r) PROVE RequestInv'
    BY <1>1, <1>2 DEF Evening, FinishScan, jobVars
  <1>3. ASSUME NEW o \in Observers, Observe(o) PROVE RequestInv'
    <2>1. UNCHANGED <<day, jobVars>>
      BY <1>3 DEF Observe, Call, ReadConsumed, GatherPhase0Evidence, ObservationPersistenceWindowIsOpen,
         ReadCurrent, ArchivePhase0Observation, SetOnce, ReadRaced, EnsureObservationIndex,
         ReadSentMarker, Send, MarkSent
    <2> QED BY <1>1, <2>1 DEF jobVars
  <1>4. ASSUME UNCHANGED vars PROVE RequestInv'
    BY <1>1, <1>4 DEF vars, jobVars
  <1>5. SafetyNext \/ UNCHANGED vars
    OBVIOUS
  <1> QED BY <1>2, <1>3, <1>4, <1>5, RunSlotStep, ReaderStep, ExpireStep, NightStep, Zenon DEF SafetyNext

(* A slot of a day has one request, wherever the request is, and at most   *)
(* one Performance row: however often the scheduler asks, whichever reply  *)
(* is lost, and however often the reader dies between the row and its      *)
(* receipt and reads the request again.                                    *)
THEOREM SnapshotsAnswerRequests == Spec => []SnapshotsHaveProvenance
  <1>1. ASSUME RequestInv PROVE SnapshotsHaveProvenance
    <2>1. ASSUME NEW q \in Asked PROVE Made(q)
      <3>1. \/ q \in UNION {{queue[j][i] : i \in DOMAIN queue[j]} : j \in BrokerReads}
            \/ q \in {reading[j].request : j \in {k \in BrokerReads : reading[k].pc # "idle"}}
            \/ q \in {performance[i] : i \in DOMAIN performance}
        BY DEF Asked
      <3>2. CASE q \in UNION {{queue[j][i] : i \in DOMAIN queue[j]} : j \in BrokerReads}
        <4>1. PICK j \in BrokerReads : q \in {queue[j][i] : i \in DOMAIN queue[j]}
          BY <3>2
        <4> QED BY <4>1 DEF Made, Queued
      <3> QED BY <3>1, <3>2 DEF Made, InHand, Recorded
    <2>2. \A p, q \in Asked : SameSlot(p, q) => p = q
      BY <1>1, <2>1 DEF RequestInv, OnePerSlot
    <2>3. \A i \in DOMAIN performance : Made(performance[i])
      BY DEF Made, Recorded
    <2>4. \A i, k \in DOMAIN performance : SameSlot(performance[i], performance[k]) => i = k
      BY <1>1, <2>3 DEF RequestInv, OnePerSlot, RecordedOnce
    <2> QED BY <2>2, <2>4 DEF SnapshotsHaveProvenance
  <1> QED BY <1>1, RequestInit, RequestStep, PTL DEF Spec

-------------------------------------------------------------------------------
(* The receipts of the day                                                 *)

Kept == [slot : UNION {Slots[j] : j \in Live}, day : Days, ok : BOOLEAN, skipped : BOOLEAN,
         signed : BOOLEAN, account : BOOLEAN, completed : Days, blocking : {{}},
         coverage : {Coverage(1, 1, 0, 0, 0), NoCoverage}]

\* What a receipt proves of its slot, and the last receipt of a slot.
Proves(j, r) == r.ok /\ (j = "intraday-monitor" => r.coverage # NoCoverage)
IsLast(h, i) == \A k \in DOMAIN h : k > i => h[k].slot # h[i].slot
ReceiptsOf(j) ==
  /\ history[j] \in Seq(Kept)
  /\ \A i \in DOMAIN history[j] :
       LET r == history[j][i]
       IN  /\ r.day = day
           /\ Proves(j, r) => <<j, r.slot>> \in worked
           /\ r.ok /\ IsLast(history[j], i) => <<j, r.slot>> \notin bad
ReceiptInv == history = [j \in Live |-> history[j]] /\ \A j \in Live : ReceiptsOf(j)

LEMMA SameReceipts ==
  ASSUME ReceiptInv, UNCHANGED <<day, history, bad>>, worked \subseteq worked' PROVE ReceiptInv'
  BY DEF ReceiptInv, ReceiptsOf, Kept, Days

\* A receipt is appended, and says what its slot is worth.
LEMMA AppendedReceipt ==
  ASSUME ReceiptInv, NEW job \in Live, NEW r \in Kept, r.day = day, day' = day,
         AppendJobInvocationHistory(job, r), worked \subseteq worked',
         Proves(job, r) => <<job, r.slot>> \in worked'
  PROVE  ReceiptInv'
  <1> DEFINE h == history[job]
             n == Len(h) + 1
             g == Append(h, r)
  <1>1. /\ h \in Seq(Kept) /\ Len(h) \in Nat /\ DOMAIN h = 1 .. Len(h)
        /\ g \in Seq(Kept) /\ DOMAIN g = 1 .. n /\ g[n] = r
        /\ \A i \in DOMAIN h : g[i] = h[i]
    BY DEF ReceiptInv, ReceiptsOf
  <1>2. history' = [history EXCEPT ![job] = g]
    BY DEF AppendJobInvocationHistory
  <1>3. /\ history' = [j \in Live |-> history'[j]] /\ history'[job] = g
        /\ \A j \in Live : j # job => history'[j] = history[j]
    BY <1>2 DEF ReceiptInv
  <1>4. /\ \A j, s : <<j, s>> # <<job, r.slot>> => (<<j, s>> \in bad' <=> <<j, s>> \in bad)
        /\ r.ok => <<job, r.slot>> \notin bad'
    BY DEF AppendJobInvocationHistory
  <1> HIDE DEF g
  <1>5. \A i \in DOMAIN h : /\ h[i].day = day /\ (Proves(job, h[i]) => <<job, h[i].slot>> \in worked)
                            /\ h[i].ok /\ IsLast(h, i) => <<job, h[i].slot>> \notin bad
    BY DEF ReceiptInv, ReceiptsOf
  <1> HIDE DEF h
  <1>6. ASSUME NEW i \in DOMAIN g
        PROVE  /\ g[i].day = day /\ (Proves(job, g[i]) => <<job, g[i].slot>> \in worked')
               /\ g[i].ok /\ IsLast(g, i) => <<job, g[i].slot>> \notin bad'
    <2>1. CASE i = n
      BY <1>1, <1>4, <2>1
    <2>2. CASE i \in DOMAIN h
      <3>1. IsLast(g, i) => g[i].slot # r.slot /\ IsLast(h, i)
        BY <1>1, <2>2 DEF IsLast
      <3>2. g[i] = h[i]
        BY <1>1, <2>2
      <3> QED BY <1>4, <1>5, <2>2, <3>1, <3>2
    <2> QED BY <1>1, <2>1, <2>2
  <1>7. ReceiptsOf(job)'
    BY <1>1, <1>3, <1>6 DEF ReceiptsOf, Kept, Days
  <1>8. ASSUME NEW j \in Live, j # job PROVE ReceiptsOf(j)'
    <2>1. \A s : <<j, s>> # <<job, r.slot>>
      BY <1>8
    <2>2. ReceiptsOf(j) /\ history'[j] = history[j]
      BY <1>3, <1>8 DEF ReceiptInv
    <2> QED BY <1>4, <2>1, <2>2 DEF ReceiptsOf, Kept, Days
  <1> QED BY <1>3, <1>7, <1>8 DEF ReceiptInv

LEMMA ReceiptIsKept ==
  ASSUME NEW job \in Live, NEW at \in Slots[job], day \in Days, NEW ok \in BOOLEAN
  PROVE  Receipt(at, day, ok) \in Kept /\ Receipt(at, day, ok).slot = at
         /\ Receipt(at, day, ok).day = day /\ Receipt(at, day, ok).ok = ok
         /\ Receipt(at, day, ok).coverage # NoCoverage
  BY DEF Receipt, Kept, Coverage, NoCoverage

LEMMA WrapJobReceipts ==
  ASSUME ReceiptInv, day \in Days, NEW job \in Live, NEW at \in Slots[job], WrapJob(job, at)
  PROVE  ReceiptInv'
  <1>1. day' = day
    BY DEF WrapJob
  <1>2. CASE UNCHANGED <<history, bad, worked>>
    BY <1>1, <1>2, SameReceipts
  <1>3. ASSUME NEW r \in {Receipt(at, day, TRUE), Receipt(at, day, FALSE),
                          [Receipt(at, day, TRUE) EXCEPT !.coverage = NoCoverage]},
               RecordRun(job, r), Succeed(job, at, r.ok /\ r.coverage # NoCoverage)
        PROVE  ReceiptInv'
    <2>1. /\ Receipt(at, day, TRUE) \in Kept /\ Receipt(at, day, FALSE) \in Kept
          /\ Receipt(at, day, TRUE).slot = at /\ Receipt(at, day, FALSE).slot = at
          /\ Receipt(at, day, TRUE).day = day /\ Receipt(at, day, FALSE).day = day
      BY ReceiptIsKept
    <2>2. [Receipt(at, day, TRUE) EXCEPT !.coverage = NoCoverage] \in Kept
      BY <2>1 DEF Kept
    <2>3. r \in Kept /\ r.slot = at /\ r.day = day
      BY <1>3, <2>1, <2>2 DEF Kept
    <2>4. /\ worked \subseteq worked'
          /\ r.ok /\ r.coverage # NoCoverage => <<job, at>> \in worked'
      BY <1>3 DEF Succeed
    <2>5. job = "intraday-monitor"
      BY DayAssumption DEF WrapJob, BrokerReads, DayAssumption
    <2>6. AppendJobInvocationHistory(job, r) \/ UNCHANGED <<history, bad>>
      BY <1>3 DEF RecordRun
    <2> QED BY <1>1, <2>3, <2>4, <2>5, <2>6, AppendedReceipt, SameReceipts DEF Proves
  <1> QED BY <1>2, <1>3 DEF WrapJob

LEMMA AnswerReceipts ==
  ASSUME ReceiptInv, RequestInv, NEW job \in BrokerReads, Answer(job) PROVE ReceiptInv'
  <1> DEFINE q == reading[job].request
  <1>1. /\ reading[job].pc \in {"ok", "failed"} /\ day' = day
        /\ \E ok \in BOOLEAN : \E r \in {[Receipt(q.slot, q.day, ok) EXCEPT !.completed = day, !.account = ok]} :
             \/ /\ q.day = day /\ AppendJobInvocationHistory(job, r)
                /\ Succeed(job, q.slot, ok)
             \/ UNCHANGED <<history, bad, worked>>
    BY DEF Answer
  <1>2. q \in Of(job) /\ day \in Days /\ job \in Live
    BY <1>1 DEF RequestInv, RequestTypes, ReaderTypes, BrokerReads
  <1> HIDE DEF q
  <1>3. ASSUME NEW ok \in BOOLEAN, q.day = day, NEW r,
               r = [Receipt(q.slot, q.day, ok) EXCEPT !.completed = day, !.account = ok],
               AppendJobInvocationHistory(job, r), Succeed(job, q.slot, ok)
        PROVE  ReceiptInv'
    <2>1. r \in Kept /\ r.slot = q.slot /\ r.day = day /\ r.ok = ok
      BY <1>2, <1>3 DEF Receipt, Kept, Coverage, Of
    <2>2. worked \subseteq worked' /\ (ok => <<job, q.slot>> \in worked')
      BY <1>3 DEF Succeed
    <2> QED BY <1>1, <1>2, <1>3, <2>1, <2>2, AppendedReceipt DEF Proves
  <1> QED BY <1>1, <1>3, SameReceipts

LEMMA ReceiptStep == ASSUME ReceiptInv, RequestInv, [SafetyNext]_vars PROVE ReceiptInv'
  <1>1. day \in Days
    BY DEF RequestInv, RequestTypes
  <1>2. ASSUME RunSlot PROVE ReceiptInv'
    <2>1. PICK j \in Live : \E s \in Slots[j] : WrapJob(j, s) \/ QueueMcpReadJob(j, s)
      BY <1>2 DEF RunSlot
    <2>2. PICK s \in Slots[j] : WrapJob(j, s) \/ QueueMcpReadJob(j, s)
      BY <2>1
    <2>3. CASE QueueMcpReadJob(j, s)
      BY <2>3, SameReceipts DEF QueueMcpReadJob
    <2> QED BY <1>1, <2>2, <2>3, WrapJobReceipts
  <1>3. ASSUME NextDay PROVE ReceiptInv'
    <2>1. history' = [j \in Live |-> <<>>]
      BY <1>3 DEF NextDay
    <2> QED BY <2>1 DEF ReceiptInv, ReceiptsOf
  <1>4. ASSUME Evening \/ \E r \in ResearchRuns : FinishScan(r) PROVE ReceiptInv'
    BY <1>4, SameReceipts DEF Evening, FinishScan, jobVars
  <1>8. ASSUME NEW j \in BrokerReads, Reader(j) PROVE ReceiptInv'
    BY <1>8, AnswerReceipts, SameReceipts DEF Reader, ReadBroker, AppendPerformanceRow, ReaderStops
  <1>9. ASSUME NEW m \in marker, ExpireMarker(m) PROVE ReceiptInv'
    BY <1>9, SameReceipts DEF ExpireMarker
  <1>5. ASSUME NEW o \in Observers, Observe(o) PROVE ReceiptInv'
    <2>1. UNCHANGED <<day, jobVars>>
      BY <1>5 DEF Observe, Call, ReadConsumed, GatherPhase0Evidence, ObservationPersistenceWindowIsOpen,
         ReadCurrent, ArchivePhase0Observation, SetOnce, ReadRaced, EnsureObservationIndex,
         ReadSentMarker, Send, MarkSent
    <2> QED BY <2>1, SameReceipts DEF jobVars
  <1>6. ASSUME UNCHANGED vars PROVE ReceiptInv'
    BY <1>6, SameReceipts DEF vars, jobVars
  <1>7. SafetyNext \/ UNCHANGED vars
    OBVIOUS
  <1> QED BY <1>2, <1>3, <1>4, <1>5, <1>6, <1>7, <1>8, <1>9, Zenon DEF SafetyNext

LEMMA ReceiptInit == ASSUME Init PROVE ReceiptInv
  <1>1. history = [j \in Live |-> <<>>]
    BY DEF Init
  <1> QED BY <1>1 DEF ReceiptInv, ReceiptsOf

-------------------------------------------------------------------------------
(* The verdict                                                             *)

\* Indices up to n have a greatest: n less the least distance to it.
LEMMA MaxOfIndices ==
  ASSUME NEW n \in Nat, NEW S \in SUBSET (1 .. n), S # {}
  PROVE  Max(S) \in S /\ \A k \in S : k <= Max(S)
  <1> DEFINE T == {t \in Nat : n - t \in S}
  <1>1. T \in SUBSET Nat /\ \A k \in S : n - k \in T
    OBVIOUS
  <1>2. \A t \in T : t \in Nat /\ n - t \in S
    OBVIOUS
  <1> HIDE DEF T
  <1>3. PICK t \in T : \A u \in T : t <= u
    BY <1>1, LeastNatural
  <1>4. \A k \in S : k \in Nat /\ n - t >= k
    BY <1>1, <1>2, <1>3
  <1>5. \E x \in S : \A y \in S : x >= y
    BY <1>2, <1>3, <1>4
  <1>6. Max(S) \in S /\ \A y \in S : Max(S) >= y
    BY <1>5 DEF Max
  <1> QED BY <1>4, <1>6

\* The check of the scheduled invocations is one of those that decide TRUST.
LEMMA PassNeedsSlots ==
  ASSUME NEW ev, BuildPhase0Observation(ev).trust = "PASS", NEW j \in HistoryJobs, NEW s \in Slots[j]
  PROVE  ~ SlotIssue(ev, j, s)
  <1> DEFINE Fine == \A i \in HistoryJobs : \A t \in Slots[i] : ~ SlotIssue(ev, i, t)
             c == Check("scheduled_invocations", "TRUST", If(Fine, "fail"))
  <1>1. Passes(Checks(ev), "TRUST")
    BY DEF BuildPhase0Observation
  <1>2. c \in Checks(ev)
    BY Zenon DEF Checks
  <1>3. c.domain = "TRUST" /\ c.status = If(Fine, "fail")
    BY DEF Check
  <1> HIDE DEF c
  <1>4. ~ Blocking(c)
    BY <1>1, <1>2, <1>3 DEF Passes
  <1>5. ~ Fine => If(Fine, "fail") = "fail"
    BY Zenon DEF If
  <1>6. Fine
    <2> HIDE DEF Fine
    <2> QED BY <1>3, <1>4, <1>5 DEF Blocking
  <1> QED BY <1>6

\* No exception of a day's evidence is for a job whose runs are modelled.
NoException == \A d \in Days : \A b \in Backdrop(d) : \A x \in b.exceptions : x.job \notin Live

\* What the evidence holds of the jobs whose runs are modelled.
LEMMA EvidenceIs ==
  ASSUME ReceiptInv, day \in Days, NEW b \in Backdrop(day), NEW consumed, NEW readable
  PROVE  /\ Evidence(b, consumed, readable).day = day
         /\ Evidence(b, consumed, readable).exceptions = b.exceptions
         /\ \A j \in Live : Evidence(b, consumed, readable).history[j] = history[j]
  <1>1. {"day", "weekday", "tradingDay", "history", "lastRun", "reports", "required", "exceptions"}
          \subseteq DOMAIN b
    BY DayAssumption DEF DayAssumption
  <1>2. Live \subseteq HistoryJobs
    BY DayAssumption, SlotAssumption DEF DayAssumption, SlotAssumption, HistoryJobs
  <1> QED BY <1>1, <1>2 DEF Evidence

LEMMA PassIsEarned ==
  ASSUME ReceiptInv, day \in Days, NoException, NEW b \in Backdrop(day), NEW consumed, NEW readable,
         BuildPhase0Observation(Evidence(b, consumed, readable)).trust = "PASS",
         NEW j \in Live, NEW s \in Slots[j]
  PROVE  <<j, s>> \in worked \ bad
  <1> DEFINE ev == Evidence(b, consumed, readable)
             h == history[j]
             A == {i \in DOMAIN h : h[i].slot = s /\ h[i].day = day}
             m == Max(A)
  <1>1. ev.day = day /\ ev.exceptions = b.exceptions /\ ev.history[j] = h
    BY EvidenceIs
  <1>2. j \in HistoryJobs
    BY DayAssumption, SlotAssumption DEF DayAssumption, SlotAssumption, HistoryJobs
  <1>3. ~ SlotIssue(ev, j, s)
    BY <1>2, PassNeedsSlots
  <1> HIDE DEF ev
  <1>4. ~ Excepted(ev, j, s)
    BY <1>1 DEF Excepted, NoException
  <1>5. Attempts(ev, j, s) = A /\ Final(ev, j, s) = h[m]
    BY <1>1 DEF Attempts, Final
  <1>6. /\ A # {} /\ h[m].ok
        /\ j = "intraday-monitor" => HoldingMonitorCoveragePasses(h[m].coverage)
    <2> HIDE DEF A, h, m
    <2> QED BY <1>3, <1>4, <1>5 DEF SlotIssue
  <1>7. /\ h \in Seq(Kept) /\ Len(h) \in Nat /\ DOMAIN h = 1 .. Len(h)
        /\ \A i \in DOMAIN h : /\ h[i].day = day /\ (Proves(j, h[i]) => <<j, h[i].slot>> \in worked)
                               /\ h[i].ok /\ IsLast(h, i) => <<j, h[i].slot>> \notin bad
    BY DEF ReceiptInv, ReceiptsOf
  <1> HIDE DEF h
  <1>8. A \in SUBSET (1 .. Len(h)) /\ \A i \in DOMAIN h : h[i].slot = s => i \in A
    BY <1>7
  <1>9. m \in A /\ \A k \in A : k <= m
    BY <1>6, <1>7, <1>8, MaxOfIndices
  <1>10. m \in DOMAIN h /\ m \in Nat /\ h[m].slot = s
    BY <1>7, <1>9
  <1> HIDE DEF A, m
  <1>11. IsLast(h, m)
    BY <1>7, <1>8, <1>9, <1>10 DEF IsLast
  <1>12. Proves(j, h[m])
    <2>1. ~ HoldingMonitorCoveragePasses(NoCoverage)
      BY DEF HoldingMonitorCoveragePasses, NoCoverage, Coverage
    <2> QED BY <1>6, <2>1 DEF Proves
  <1> QED BY <1>6, <1>7, <1>10, <1>11, <1>12

\* Only the gathering of the evidence gives an observer its verdict.
LEMMA OthersStay ==
  ASSUME DayInv, NEW o \in Observers, NEW p \in Observers, p # o, Observe(p)
  PROVE  obs'[o].pc = obs[o].pc
  <1>1. obs = [q \in Observers |-> obs[q]] /\ \A q \in Observers : DOMAIN obs[q] = Parts
    BY DEF DayInv, Shape
  <1>2. ASSUME Call(p) PROVE obs'[o].pc = obs[o].pc
    <2>1. obs'[o] = IF Running(o) THEN [obs[o] EXCEPT !.hurt = TRUE] ELSE obs[o]
      BY <1>2 DEF Call
    <2> QED BY <1>1, <2>1 DEF Parts
  <1>3. ASSUME NEW x, obs' = [obs EXCEPT ![p] = x] PROVE obs'[o].pc = obs[o].pc
    BY <1>1, <1>3
  <1>4. ASSUME NEW pc, To(p, pc) PROVE obs'[o].pc = obs[o].pc
    BY <1>4, ToMoves DEF Moved
  <1>5. ASSUME Stops(p) PROVE obs'[o].pc = obs[o].pc
    BY <1>5, StopMoves DEF Moved
  <1>6. ASSUME NEW rec, NEW pc, Adopt(p, rec, pc) PROVE obs'[o].pc = obs[o].pc
    BY <1>6, AdoptMoves DEF Moved
  <1>7. ASSUME ReadConsumed(p) PROVE obs'[o].pc = obs[o].pc
    <2>1. \/ Stops(p) \/ To(p, "threw")
          \/ \E unseen, consumed : obs' = [obs EXCEPT ![p].pc = "gather", ![p].unseen = unseen,
                                                      ![p].consumed = consumed]
      BY <1>7 DEF ReadConsumed, Breaks, Steps
    <2> QED BY <1>1, <1>4, <1>5, <2>1
  <1>8. ASSUME GatherPhase0Evidence(p) PROVE obs'[o].pc = obs[o].pc
    <2>1. \/ Stops(p)
          \/ \E rec : obs' = [obs EXCEPT ![p].pc = "window", ![p].record = rec]
      BY <1>8 DEF GatherPhase0Evidence, Breaks
    <2> QED BY <1>1, <1>5, <2>1
  <1>9. ASSUME ReadCurrent(p) \/ ReadRaced(p) PROVE obs'[o].pc = obs[o].pc
    <2>1. Stops(p) \/ \E rec, pc : Adopt(p, rec, pc)
      BY <1>9 DEF ReadCurrent, ReadRaced, Breaks
    <2> QED BY <1>5, <1>6, <2>1
  <1>10. ASSUME \/ ObservationPersistenceWindowIsOpen(p) \/ ArchivePhase0Observation(p) \/ SetOnce(p)
                \/ EnsureObservationIndex(p) \/ ReadSentMarker(p) \/ Send(p) \/ MarkSent(p)
         PROVE  obs'[o].pc = obs[o].pc
    <2>1. Stops(p) \/ \E pc : To(p, pc)
      BY <1>10 DEF ObservationPersistenceWindowIsOpen, ArchivePhase0Observation, SetOnce,
         EnsureObservationIndex, ReadSentMarker, Send, MarkSent, Breaks, Steps
    <2> QED BY <1>4, <1>5, <2>1
  <1> QED BY <1>2, <1>7, <1>8, <1>9, <1>10, Zenon DEF Observe

LEMMA OnlyGatherJudges ==
  ASSUME DayInv, [SafetyNext]_vars, NEW o \in Observers, obs[o].pc = "gather", obs'[o].pc = "window"
  PROVE  GatherPhase0Evidence(o)
  <1>1. obs' # obs
    OBVIOUS
  <1>2. \E p \in Observers : Observe(p)
    <2>1. \/ RunSlot \/ (\E j \in BrokerReads : Reader(j)) \/ (\E m \in marker : ExpireMarker(m))
          \/ (\E r \in ResearchRuns : FinishScan(r)) \/ Evening \/ NextDay
          => obs' = obs
      BY DEF RunSlot, WrapJob, QueueMcpReadJob, Reader, ReadBroker, AppendPerformanceRow, ReaderStops, Answer,
         ExpireMarker, FinishScan, Evening, NextDay
    <2>2. SafetyNext
      BY <1>1 DEF vars
    <2> QED BY <1>1, <2>1, <2>2, Zenon DEF SafetyNext
  <1>3. Observe(o)
    BY <1>2, OthersStay
  <1> QED BY <1>3 DEF Observe, Call, Running, AtRest, ReadConsumed, ObservationPersistenceWindowIsOpen,
         ReadCurrent, ArchivePhase0Observation, SetOnce, ReadRaced, EnsureObservationIndex,
         ReadSentMarker, Send, MarkSent

LEMMA GatherEarns ==
  ASSUME DayInv, ReceiptInv, NoException, NEW o \in Observers, GatherPhase0Evidence(o),
         obs'[o].pc = "window", obs'[o].record.trust = "PASS", NEW j \in Live, NEW s \in Slots[j]
  PROVE  <<j, s>> \in worked \ bad
  <1>1. ~ Stops(o)
    BY StopMoves
  <1>2. PICK b \in Backdrop(day) : \E readable \in BOOLEAN :
          \E v \in {BuildPhase0Observation(Evidence(b, obs[o].consumed, readable))} :
            obs' = [obs EXCEPT ![o].pc = "window",
                     ![o].record = [day |-> day, by |-> obs[o].call, trust |-> v.trust,
                                    skill |-> v.skill, runs |-> v.runs, unseen |-> obs[o].unseen]]
    BY <1>1, Zenon DEF GatherPhase0Evidence, Breaks
  <1>3. PICK readable \in BOOLEAN :
          \E v \in {BuildPhase0Observation(Evidence(b, obs[o].consumed, readable))} :
            obs' = [obs EXCEPT ![o].pc = "window",
                     ![o].record = [day |-> day, by |-> obs[o].call, trust |-> v.trust,
                                    skill |-> v.skill, runs |-> v.runs, unseen |-> obs[o].unseen]]
    BY <1>2, Zenon
  <1> DEFINE w == BuildPhase0Observation(Evidence(b, obs[o].consumed, readable))
  <1>4. obs' = [obs EXCEPT ![o].pc = "window",
                  ![o].record = [day |-> day, by |-> obs[o].call, trust |-> w.trust,
                                 skill |-> w.skill, runs |-> w.runs, unseen |-> obs[o].unseen]]
    BY <1>3, Zenon
  <1> HIDE DEF w
  <1>5. obs'[o].record.trust = w.trust
    BY <1>4 DEF DayInv, Shape, Parts
  <1>6. w.trust = "PASS" /\ day \in Days
    BY <1>5 DEF DayInv, Shape
  <1> QED BY <1>6, PassIsEarned DEF w

(* A day passes the safety window only when each slot of its jobs had an   *)
(* attempt that really succeeded and no failure recorded after it, if no   *)
(* approved exception waives one of them: receipts may be lost, answers    *)
(* come late, observers overlap, and the other jobs leave any evidence.    *)
THEOREM CleanDayIsEarned == ASSUME NoException PROVE Spec => CleanDayEarned
  <1>1. ASSUME DayInv, ReceiptInv, [SafetyNext]_vars
        PROVE  [\A o \in Observers :
                  obs'[o].pc = "window" /\ obs[o].pc = "gather" /\ obs'[o].record.trust = "PASS"
                    => \A j \in Live : \A s \in Slots[j] : <<j, s>> \in worked \ bad]_vars
    BY <1>1, OnlyGatherJudges, GatherEarns
  <1> QED BY <1>1, DayInit, DayStep, ReceiptInit, ReceiptStep, RequestInit, RequestStep, PTL
         DEF Spec, CleanDayEarned

-------------------------------------------------------------------------------
(* A source that cannot be read                                            *)

\* What the sentinel hands on of a source that failed.
LEMMA AssembledIs ==
  ASSUME NEW x, IsWorld(x), NEW gone \in SUBSET Sources
  PROVE  LET y == AssembleSnapshot(x, gone)
         IN  /\ y.lost = (Failing(gone) \cap Missing) \cup {z \in {"headers"} : "sheets" \in gone}
                            \cup {z \in {"proposals"} : "redis" \in gone}
             /\ "pm2" \in gone => y.pm2.list = "unreadable"
             /\ "health" \in gone => ~y.health.read
             /\ "companion" \in gone => y.companion = "never"
  <1> DEFINE y == AssembleSnapshot(x, gone)
  <1>1. {"lost", "pm2", "health", "companion"} \subseteq DOMAIN x
    BY DEF IsWorld, Slices
  <1>2. y.lost = (Failing(gone) \cap Missing) \cup {z \in {"headers"} : "sheets" \in gone}
                            \cup {z \in {"proposals"} : "redis" \in gone}
    BY <1>1 DEF AssembleSnapshot
  <1>3. "pm2" \in gone => y.pm2.list = "unreadable"
    BY <1>1 DEF AssembleSnapshot, IsWorld
  <1>4. "health" \in gone => ~y.health.read
    BY <1>1 DEF AssembleSnapshot, IsWorld
  <1>5. "companion" \in gone => y.companion = "never"
    BY <1>1 DEF AssembleSnapshot, Failing
  <1> QED
    BY <1>2, <1>3, <1>4, <1>5

\* The checks are all run: what one of them raises is in the snapshot.
LEMMA ChecksAreRun ==
  ASSUME NEW y
  PROVE  /\ CheckPm2(y.pm2) \subseteq RunChecks(y) /\ CheckHealthDeps(y.health) \subseteq RunChecks(y)
         /\ CheckJobFreshness(y) \subseteq RunChecks(y) /\ CheckPhase0ObservationContinuity(y) \subseteq RunChecks(y)
         /\ CheckApprovalsFlow(y) \subseteq RunChecks(y) /\ CheckCompanionHeartbeat(y) \subseteq RunChecks(y)
         /\ CheckRedisQueue(y) \subseteq RunChecks(y) /\ CheckProposalLifecycle(y) \subseteq RunChecks(y)
         /\ CheckReconciliationQueue(y) \subseteq RunChecks(y) /\ CheckSheetsSchema(y) \subseteq RunChecks(y)
         /\ CheckSheetsFreshness(y) \subseteq RunChecks(y) /\ CheckLogClusters(y) \subseteq RunChecks(y)
         /\ CheckDocPaths(y) \subseteq RunChecks(y)
  BY Zenon DEF RunChecks

\* A check that cannot answer says so, under its own name.
LEMMA SaysSo ==
  ASSUME NEW check, NEW severity
  PROVE  \E a \in Unavailable(check, severity) : a.check = check
  BY DEF Unavailable, Anomaly

\* A check that misses its source raises an anomaly of its own.
Raises(found, check) == \E a \in found : a.check = check
LEMMA LostIsRaised ==
  ASSUME NEW y
  PROVE  /\ "jobs" \in y.lost => Raises(CheckJobFreshness(y), "cron")
         /\ "index" \in y.lost => Raises(CheckPhase0ObservationContinuity(y), "phase0-continuity")
         /\ "ids" \in y.lost => Raises(CheckRedisQueue(y), "redis")
         /\ "reconciliations" \in y.lost => Raises(CheckReconciliationQueue(y), "reconciliation")
         /\ "performance" \in y.lost => Raises(CheckSheetsFreshness(y), "sheets-freshness")
         /\ "ledger" \in y.lost => Raises(CheckProposalLifecycle(y), "lifecycle")
         /\ "logs" \in y.lost => Raises(CheckLogClusters(y), "logs")
         /\ "docs" \in y.lost => Raises(CheckDocPaths(y), "docs")
         /\ "proposals" \in y.lost => Raises(CheckApprovalsFlow(y), "approvals")
         /\ "headers" \in y.lost => Raises(CheckSheetsSchema(y), "sheets")
         /\ y.pm2.list = "unreadable" => Raises(CheckPm2(y.pm2), "pm2")
         /\ ~y.health.read => Raises(CheckHealthDeps(y.health), "health")
         /\ y.companion = "never" => Raises(CheckCompanionHeartbeat(y), "companion")
  <1>1. "jobs" \in y.lost => Raises(CheckJobFreshness(y), "cron")
    BY SaysSo, Zenon DEF Raises, CheckJobFreshness
  <1>2. "index" \in y.lost => Raises(CheckPhase0ObservationContinuity(y), "phase0-continuity")
    BY SaysSo, Zenon DEF Raises, CheckPhase0ObservationContinuity
  <1>3. "ids" \in y.lost => Raises(CheckRedisQueue(y), "redis")
    BY SaysSo, Zenon DEF Raises, CheckRedisQueue
  <1>4. "reconciliations" \in y.lost => Raises(CheckReconciliationQueue(y), "reconciliation")
    BY SaysSo, Zenon DEF Raises, CheckReconciliationQueue
  <1>5. "performance" \in y.lost => Raises(CheckSheetsFreshness(y), "sheets-freshness")
    BY SaysSo, Zenon DEF Raises, CheckSheetsFreshness
  <1>6. "ledger" \in y.lost => Raises(CheckProposalLifecycle(y), "lifecycle")
    <2>1. CASE "proposals" \in y.lost
      BY <2>1, SaysSo, Zenon DEF Raises, CheckProposalLifecycle
    <2>2. ASSUME "proposals" \notin y.lost, "ledger" \in y.lost
          PROVE  Unavailable("lifecycle", "P2") \subseteq CheckProposalLifecycle(y)
      BY <2>2, Zenon DEF CheckProposalLifecycle
    <2> QED
      BY <2>1, <2>2, SaysSo, Zenon DEF Raises
  <1>7. "logs" \in y.lost => Raises(CheckLogClusters(y), "logs")
    BY SaysSo, Zenon DEF Raises, CheckLogClusters
  <1>8. "docs" \in y.lost => Raises(CheckDocPaths(y), "docs")
    BY SaysSo, Zenon DEF Raises, CheckDocPaths
  <1>9. "proposals" \in y.lost => Raises(CheckApprovalsFlow(y), "approvals")
    BY SaysSo, Zenon DEF Raises, CheckApprovalsFlow
  <1>10. "headers" \in y.lost => Raises(CheckSheetsSchema(y), "sheets")
    BY SaysSo, Zenon DEF Raises, CheckSheetsSchema
  <1>11. y.pm2.list = "unreadable" => Raises(CheckPm2(y.pm2), "pm2")
    <2>1. ASSUME y.pm2.list = "unreadable" PROVE CheckPm2(y.pm2) = Unavailable("pm2", "P1")
      BY <2>1 DEF CheckPm2
    <2> QED
      BY <2>1, SaysSo, Zenon DEF Raises
  <1>12. ~y.health.read => Raises(CheckHealthDeps(y.health), "health")
    BY SaysSo, Zenon DEF Raises, CheckHealthDeps
  <1>13. y.companion = "never" => Raises(CheckCompanionHeartbeat(y), "companion")
    BY DEF Raises, CheckCompanionHeartbeat, Anomaly
  <1> QED
    BY <1>1, <1>2, <1>3, <1>4, <1>5, <1>6, <1>7, <1>8, <1>9, <1>10, <1>11, <1>12, <1>13, Zenon

\* In every state a source that cannot be read is an anomaly of the check that answers for it.
LEMMA UnreadIsRaised ==
  ASSUME IsWorld(world), down \in SUBSET Sources
  PROVE  UnreadIsVisible
  <1> SUFFICES ASSUME NEW s \in down \ Silent
               PROVE  \E a \in Snapshot(world, down) : a.check = Answers[s]
    BY DEF UnreadIsVisible
  <1> DEFINE y == AssembleSnapshot(world, down)
  <1>1. /\ y.lost = (Failing(down) \cap Missing) \cup {z \in {"headers"} : "sheets" \in down}
                       \cup {z \in {"proposals"} : "redis" \in down}
        /\ "pm2" \in down => y.pm2.list = "unreadable"
        /\ "health" \in down => ~y.health.read
        /\ "companion" \in down => y.companion = "never"
    BY AssembledIs
  <1> HIDE DEF y
  <1>2. SUFFICES Raises(RunChecks(y), Answers[s])
    BY Zenon DEF Raises, Snapshot, y
  <1>3. \A found, check : found \subseteq RunChecks(y) /\ Raises(found, check) => Raises(RunChecks(y), check)
    BY Zenon DEF Raises
  <1>4. s \in Missing => s \in y.lost
    BY <1>1 DEF Failing
  <1>5. s = "redis" => "proposals" \in y.lost
    BY <1>1
  <1>6. s = "sheets" => "headers" \in y.lost
    BY <1>1
  <1>7. s \in {"jobs", "index", "ids", "reconciliations", "performance", "ledger", "logs", "docs",
               "redis", "pm2", "health", "sheets", "companion"}
    BY DEF Sources, Missing, Silent
  <1>8. CASE s = "jobs"
    BY <1>3, <1>4, <1>8, ChecksAreRun, LostIsRaised DEF Answers, Missing
  <1>9. CASE s = "index"
    BY <1>3, <1>4, <1>9, ChecksAreRun, LostIsRaised DEF Answers, Missing
  <1>10. CASE s = "ids"
    BY <1>3, <1>4, <1>10, ChecksAreRun, LostIsRaised DEF Answers, Missing
  <1>11. CASE s = "reconciliations"
    BY <1>3, <1>4, <1>11, ChecksAreRun, LostIsRaised DEF Answers, Missing
  <1>12. CASE s = "performance"
    BY <1>3, <1>4, <1>12, ChecksAreRun, LostIsRaised DEF Answers, Missing
  <1>13. CASE s = "ledger"
    BY <1>3, <1>4, <1>13, ChecksAreRun, LostIsRaised DEF Answers, Missing
  <1>14. CASE s = "logs"
    BY <1>3, <1>4, <1>14, ChecksAreRun, LostIsRaised DEF Answers, Missing
  <1>15. CASE s = "docs"
    BY <1>3, <1>4, <1>15, ChecksAreRun, LostIsRaised DEF Answers, Missing
  <1>16. CASE s = "redis"
    BY <1>3, <1>5, <1>16, ChecksAreRun, LostIsRaised DEF Answers
  <1>17. CASE s = "pm2"
    BY <1>1, <1>3, <1>17, ChecksAreRun, LostIsRaised DEF Answers
  <1>18. CASE s = "health"
    BY <1>1, <1>3, <1>18, ChecksAreRun, LostIsRaised DEF Answers
  <1>19. CASE s = "sheets"
    BY <1>3, <1>6, <1>19, ChecksAreRun, LostIsRaised DEF Answers
  <1>20. CASE s = "companion"
    BY <1>1, <1>3, <1>20, ChecksAreRun, LostIsRaised DEF Answers
  <1> QED
    BY <1>7, <1>8, <1>9, <1>10, <1>11, <1>12, <1>13, <1>14, <1>15, <1>16, <1>17, <1>18, <1>19, <1>20

\* Whatever the state of the system and whichever sources fail, each failed one is an
\* anomaly of the check that answers for it (assembleSnapshot, runChecks).
THEOREM UnreadSourcesAreVisible == SystemSpec => []UnreadIsVisible
  <1> DEFINE Typed == IsWorld(world) /\ down \in SUBSET Sources
  <1>1. SystemInit => Typed
    BY DEF SystemInit
  <1>2. Typed /\ [SystemNext]_systemVars => Typed'
    <2> SUFFICES ASSUME Typed, [SystemNext]_systemVars PROVE Typed'
      OBVIOUS
    <2>1. CASE WorldMoves
      BY <2>1 DEF WorldMoves
    <2>2. CASE UNCHANGED checkVars
      BY <2>2 DEF checkVars, IsWorld
    <2> QED
      BY <2>1, <2>2 DEF SystemNext, systemVars, checkVars
  <1>3. Typed => UnreadIsVisible
    BY UnreadIsRaised
  <1> QED
    BY <1>1, <1>2, <1>3, PTL DEF SystemSpec

-------------------------------------------------------------------------------
(* Restarts of the backend and who explains them                           *)

\* Of a start: it is excepted, or a snapshot raised a P1 about it.
Silenced(f) == f.hidden \/ f.at \in reported
Answered(n) == \A f \in unexplained : f.at <= n => Silenced(f)
\* A marker of the n-th start: it explains that one, and those before are answered.
Vouched(n) == \A f \in unexplained : ~f.hidden => f.at # n /\ (f.at < n => f.at \in reported)
\* Starts are numbered through; PM2's counter lags by the same amount until it goes back.
Offset == proc.at - proc.restarts
OfCounter(p) == p.at - p.restarts = Offset

Processes == [restarts : Nat, unstable : Nat, exit : Nat, at : Nat, by : Nat]
Tallies == [restarts : Nat \cup {Unknown}, unstable : Nat \cup {Unknown}]
Starts == [at : Nat, after : Nat, hidden : BOOLEAN]
Marks == [before : Nat, after : Nat, unstable : Nat, at : Nat, by : Nat]
ReadAny == {"state", "markers", "persist"}
Rounds == [pc : {"idle", "pm2"} \cup ReadAny, proc : Processes \cup {[at |-> 0]}, prev : Tallies,
           markers : SUBSET Marks, blind : BOOLEAN]
Scripts == [pc : {"idle", "before", "pending", "restart", "after", "mark"}, id : Nat, base : Tallies \cup Marks,
            before : Processes \cup {[at |-> 0]}, blind : BOOLEAN]

Records ==
  /\ proc \in Processes /\ baseline \in Tallies /\ markers \subseteq Marks /\ unexplained \subseteq Starts
  /\ deploy \in Scripts /\ sentinel \in [Sentinels -> Rounds] /\ epoch \in Nat /\ seen \in Nat
Counted ==
  /\ epoch \in 1..proc.at /\ seen <= proc.at
  /\ Noticed => baseline.restarts = Unknown \/ seen - baseline.restarts = Offset
StartsCounted ==
  \A f \in unexplained : f.at <= proc.at /\ f.after >= 1 /\ (~f.hidden => f.at - f.after = Offset)
BlindHides == ~Settled => \A f \in unexplained : f.hidden
MarkersVouch == \A m \in markers : m.at <= proc.at /\ Vouched(m.at)
RoundKept(w) ==
  /\ w.pc = "idle" => w = NoRun
  /\ w.pc \in ReadAny => /\ w.proc \in Processes /\ w.proc.at <= proc.at
                         /\ w.proc.at >= epoch => OfCounter(w.proc)
  /\ ~w.blind =>
       /\ w.pc \in ReadAny => w.proc.at >= epoch
       /\ w.prev.restarts # Unknown => /\ w.prev.restarts + Offset <= proc.at
                                       /\ Answered(w.prev.restarts + Offset)
       /\ \A m \in w.markers : m.at <= proc.at /\ Vouched(m.at)
ScriptKept(d) ==
  /\ d.pc = "idle" => d = Script
  /\ d.pc \in {"before", "pending"} => d.base \in Tallies /\ d.base.restarts # Unknown
  /\ d.pc \in {"pending", "restart", "after"} => d.before \in Processes
  /\ d.pc = "mark" => d.base \in Marks /\ d.base.at <= proc.at
  /\ ~d.blind =>
       /\ d.pc \in {"before", "pending"} => /\ d.base.restarts + Offset <= proc.at
                                            /\ Answered(d.base.restarts + Offset)
       /\ d.pc \in {"pending", "restart", "after"} => d.before.at <= proc.at /\ OfCounter(d.before)
       /\ d.pc \in {"restart", "after"} => Answered(d.before.at)
       /\ d.pc = "mark" => Answered(d.base.at - 1)
RoundsKept == \A s \in Sentinels : RoundKept(sentinel[s])
TrustInv ==
  /\ Records /\ Counted /\ StartsCounted /\ BlindHides /\ MarkersVouch
  /\ RoundsKept /\ ScriptKept(deploy) /\ NoSilentRestart

\* The steps after which what was known of the starts is known still.
Steady ==
  /\ epoch' = epoch /\ Offset' = Offset /\ proc'.at \in Nat /\ proc'.at >= proc.at
  /\ \A n \in Int : n <= proc.at => (Answered(n) => Answered(n)') /\ (Vouched(n) => Vouched(n)')

LEMMA TrustStarts == ASSUME RestartInit PROVE TrustInv
  <1>1. Records
    BY DEF RestartInit, Records, Processes, Tallies, Counts, Unknown, Scripts, Script, Rounds, NoRun, Marks, Starts, ReadAny
  <1>2. Counted
    BY DEF RestartInit, Counted, Noticed, Offset, Counts, Unknown
  <1>3. StartsCounted /\ BlindHides /\ MarkersVouch /\ NoSilentRestart
    BY DEF RestartInit, StartsCounted, BlindHides, MarkersVouch, NoSilentRestart
  <1>4. ASSUME NEW s \in Sentinels PROVE RoundKept(sentinel[s])
    <2>1. sentinel[s] = NoRun
      BY DEF RestartInit
    <2> QED
      BY <2>1 DEF RoundKept, NoRun, ReadAny, Counts
  <1>5. ScriptKept(deploy)
    BY DEF RestartInit, ScriptKept, Script
  <1> QED
    BY <1>1, <1>2, <1>3, <1>4, <1>5 DEF TrustInv, RoundsKept

LEMMA AnsweredBelow == ASSUME Records, NEW n \in Int, NEW k \in Int, k <= n, Answered(n) PROVE Answered(k)
  BY DEF Answered, Records, Starts

\* Starts are in silence only if they are excepted: the property, of what a snapshot has seen.
LEMMA SeenIsAnswered == NoSilentRestart <=> Answered(seen)
  BY DEF NoSilentRestart, Answered, Silenced

\* What was answered up to a count is answered still.
LEMMA SteadyCount ==
  ASSUME Records, Steady, NEW b \in Nat, b + Offset <= proc.at, Answered(b + Offset)
  PROVE  b + Offset' <= proc'.at /\ Answered(b + Offset)'
  <1>1. PICK n \in Int : n = b + Offset
    BY DEF Records, Processes, Offset
  <1>2. Answered(n)' /\ n <= proc'.at
    BY <1>1 DEF Steady, Records, Processes
  <1> QED
    BY <1>1, <1>2 DEF Steady, Answered

LEMMA SteadyRound ==
  ASSUME Records, Steady, NEW w \in Rounds, RoundKept(w) PROVE RoundKept(w)'
  <1>1. /\ w.pc = "idle" => w = NoRun
        /\ w.pc \in ReadAny => /\ w.proc \in Processes /\ w.proc.at <= proc'.at
                               /\ w.proc.at >= epoch' => OfCounter(w.proc)'
    BY DEF Steady, RoundKept, OfCounter, Records, Processes
  <1>2. ASSUME ~w.blind, w.pc \in ReadAny PROVE w.proc.at >= epoch'
    BY <1>2 DEF Steady, RoundKept
  <1>3. ASSUME ~w.blind, w.prev.restarts # Unknown
        PROVE  w.prev.restarts + Offset' <= proc'.at /\ Answered(w.prev.restarts + Offset)'
    BY <1>3, SteadyCount DEF RoundKept, Rounds, Tallies
  <1>4. ASSUME ~w.blind, NEW m \in w.markers PROVE m.at <= proc'.at /\ Vouched(m.at)'
    <2>1. m.at \in Nat /\ m.at <= proc.at /\ Vouched(m.at)
      BY <1>4 DEF RoundKept, Rounds, Marks
    <2> QED
      BY <2>1 DEF Steady, Records, Processes
  <1> QED
    BY <1>1, <1>2, <1>3, <1>4 DEF RoundKept

LEMMA SteadyScript ==
  ASSUME Records, Steady, NEW d \in Scripts, ScriptKept(d) PROVE ScriptKept(d)'
  <1>1. ASSUME ~d.blind, d.pc \in {"before", "pending"}
        PROVE  d.base.restarts + Offset' <= proc'.at /\ Answered(d.base.restarts + Offset)'
    BY <1>1, SteadyCount DEF ScriptKept, Tallies
  <1>2. ASSUME ~d.blind, d.pc \in {"pending", "restart", "after"} PROVE d.before.at <= proc'.at /\ OfCounter(d.before)'
    BY <1>2 DEF Steady, ScriptKept, OfCounter, Records, Processes
  <1>3. ASSUME ~d.blind, d.pc \in {"restart", "after"} PROVE Answered(d.before.at)'
    <2>1. d.before.at \in Int /\ d.before.at <= proc.at /\ Answered(d.before.at)
      BY <1>3 DEF ScriptKept, Processes
    <2> QED
      BY <2>1 DEF Steady
  <1>4. ASSUME ~d.blind, d.pc = "mark" PROVE Answered(d.base.at - 1)'
    <2>1. d.base.at \in Int /\ d.base.at <= proc.at /\ Answered(d.base.at - 1)
      BY <1>4 DEF ScriptKept, Marks
    <2>2. d.base.at - 1 \in Int /\ d.base.at - 1 <= proc.at
      BY <2>1 DEF Records, Processes
    <2> QED
      BY <2>1, <2>2 DEF Steady, Records, Processes
  <1>5. /\ d.pc = "idle" => d = Script
        /\ d.pc \in {"before", "pending"} => d.base \in Tallies /\ d.base.restarts # Unknown
        /\ d.pc \in {"pending", "restart", "after"} => d.before \in Processes
        /\ d.pc = "mark" => d.base \in Marks /\ d.base.at <= proc'.at
    BY DEF ScriptKept, Steady, Marks, Records, Processes
  <1> QED
    BY <1>1, <1>2, <1>3, <1>4, <1>5 DEF ScriptKept

LEMMA SteadyRounds ==
  ASSUME Records, Steady, RoundsKept, NEW s \in Sentinels, sentinel'[s] = sentinel[s] PROVE RoundKept(sentinel[s])'
  <1>1. PICK w \in Rounds : w = sentinel[s]
    BY DEF Records
  <1>2. RoundKept(w)'
    BY <1>1, SteadyRound DEF RoundsKept
  <1> QED
    BY <1>1, <1>2 DEF RoundKept, Answered, Vouched, OfCounter

LEMMA SteadyDeploy ==
  ASSUME Records, Steady, ScriptKept(deploy), deploy' = deploy PROVE ScriptKept(deploy)'
  <1>1. PICK d \in Scripts : d = deploy
    BY DEF Records
  <1>2. ScriptKept(d)'
    BY <1>1, SteadyScript
  <1> QED
    BY <1>1, <1>2 DEF ScriptKept, Answered, OfCounter

LEMMA StillIsSteady ==
  ASSUME Records, UNCHANGED <<procVars, reported, epoch>> PROVE Steady
  BY DEF Steady, Records, Processes, procVars, Offset, Answered, Silenced, Vouched

\* A step of the script or of a sentinel that moves no start and no baseline.
LEMMA QuietTrust ==
  ASSUME TrustInv, UNCHANGED <<procVars, baseline, reported, seen, epoch>>, markers' \subseteq markers,
         Settled => Settled'
  PROVE  Steady /\ Counted' /\ StartsCounted' /\ BlindHides' /\ MarkersVouch' /\ NoSilentRestart'
  <1>1. Records /\ Steady
    BY StillIsSteady DEF TrustInv
  <1>2. Counted' /\ StartsCounted' /\ BlindHides' /\ NoSilentRestart'
    BY DEF TrustInv, Counted, StartsCounted, BlindHides, NoSilentRestart, Noticed, Offset, procVars
  <1>3. MarkersVouch'
    BY DEF TrustInv, MarkersVouch, Vouched, procVars
  <1> QED
    BY <1>1, <1>2, <1>3

\* The script moves on, and the sentinels are where they were.
LEMMA ScriptMoves ==
  ASSUME TrustInv, UNCHANGED <<procVars, baseline, reported, seen, epoch, sentinel>>, markers' \subseteq markers,
         deploy' \in Scripts, ScriptKept(deploy)', deploy'.blind => deploy.blind \/ ~Noticed
  PROVE  TrustInv'
  <1>1. Settled => Settled'
    BY DEF Settled, Noticed, TrustInv, Records, Scripts
  <1>2. Steady /\ Counted' /\ StartsCounted' /\ BlindHides' /\ MarkersVouch' /\ NoSilentRestart'
    BY <1>1, QuietTrust
  <1>3. Records'
    BY DEF TrustInv, Records, procVars
  <1>4. RoundsKept'
    BY <1>2, SteadyRounds DEF TrustInv, RoundsKept
  <1> QED
    BY <1>2, <1>3, <1>4 DEF TrustInv

\* A sentinel moves on, and the script is where it was.
LEMMA SentinelMoves ==
  ASSUME TrustInv, UNCHANGED <<procVars, baseline, reported, seen, epoch, deploy, markers>>,
         NEW s \in Sentinels, NEW w \in Rounds, sentinel' = [sentinel EXCEPT ![s] = w],
         RoundKept(w)', w.blind => sentinel[s].blind \/ ~Noticed
  PROVE  TrustInv'
  <1>0. sentinel'[s] = w /\ (\A q \in Sentinels : q # s => sentinel'[q] = sentinel[q])
        /\ sentinel' \in [Sentinels -> Rounds]
    BY DEF TrustInv, Records
  <1>1. Settled => Settled'
    <2>1. SUFFICES ASSUME Settled, NEW q \in Sentinels PROVE ~sentinel'[q].blind
      BY DEF Settled, Noticed
    <2> QED
      BY <2>1, <1>0 DEF Settled, Noticed, TrustInv, Records, Rounds
  <1>2. Steady /\ Counted' /\ StartsCounted' /\ BlindHides' /\ MarkersVouch' /\ NoSilentRestart'
    BY <1>1, QuietTrust
  <1>3. Records'
    BY <1>0 DEF TrustInv, Records, procVars
  <1>4. ASSUME NEW q \in Sentinels PROVE RoundKept(sentinel[q])'
    <2>1. CASE q = s
      BY <2>1, <1>0 DEF RoundKept, Answered, Vouched, OfCounter
    <2>2. CASE q # s
      BY <2>2, <1>0, <1>2, SteadyRounds DEF TrustInv
    <2> QED
      BY <2>1, <2>2
  <1>5. ScriptKept(deploy)'
    BY <1>2, SteadyDeploy DEF TrustInv
  <1> QED
    BY <1>2, <1>3, <1>4, <1>5 DEF TrustInv, RoundsKept

LEMMA IdleScript == Script \in Scripts /\ ScriptKept(Script)' /\ ~Script.blind
  BY DEF Script, Scripts, Counts, Tallies, ScriptKept, Unknown

LEMMA IdleRound == NoRun \in Rounds /\ RoundKept(NoRun)' /\ ~NoRun.blind
  BY DEF NoRun, Rounds, Counts, Tallies, RoundKept, Unknown, ReadAny

LEMMA ReadStateTrusted == ASSUME TrustInv, ReadState PROVE TrustInv'
  <1> DEFINE d == [deploy EXCEPT !.pc = "before", !.id = proc.at, !.base = baseline, !.blind = ~Noticed]
  <1>1. deploy' = d /\ UNCHANGED <<procVars, baseline, reported, seen, epoch, sentinel>> /\ markers' = markers
        /\ baseline.restarts # Unknown
    BY DEF ReadState, trackVars
  <1>2. d \in Scripts /\ d.blind = ~Noticed /\ d.base = baseline /\ d.pc = "before"
    BY DEF TrustInv, Records, Scripts, Processes, Noticed
  <1>3. ASSUME Noticed PROVE baseline.restarts + Offset <= proc.at /\ Answered(baseline.restarts + Offset)
    <2>1. seen = baseline.restarts + Offset
      BY <1>1, <1>3 DEF TrustInv, Counted, Records, Tallies, Processes, Offset, Unknown
    <2> QED
      BY <2>1, SeenIsAnswered DEF TrustInv, Counted
  <1>4. ScriptKept(deploy)'
    BY <1>1, <1>2, <1>3 DEF ScriptKept, TrustInv, Records, Answered, Silenced, Offset, procVars
  <1> QED
    BY <1>1, <1>2, <1>4, ScriptMoves

LEMMA ReadPm2ProcessTrusted == ASSUME TrustInv, ReadPm2Process PROVE TrustInv'
  <1>1. UNCHANGED <<procVars, baseline, reported, seen, epoch, sentinel>> /\ markers' = markers /\ deploy.pc = "before"
    BY DEF ReadPm2Process, trackVars, Script0
  <1>2. CASE deploy' = Script
    <2>1. ScriptKept(deploy)' /\ deploy' \in Scripts /\ ~deploy'.blind
      BY <1>2, IdleScript DEF ScriptKept, Answered, OfCounter
    <2> QED
      BY <2>1, <1>1, ScriptMoves
  <1>3. ASSUME NEW pc \in {"pending", "restart"}, deploy' = [deploy EXCEPT !.before = proc, !.pc = pc],
               pc = "restart" => proc.restarts <= deploy.base.restarts
        PROVE  TrustInv'
    <2>1. deploy' \in Scripts /\ deploy'.blind = deploy.blind /\ deploy'.before = proc /\ deploy'.pc = pc /\ deploy'.base = deploy.base
      BY <1>3 DEF TrustInv, Records, Scripts
    <2>2. ASSUME ~deploy.blind PROVE deploy.base.restarts + Offset <= proc.at /\ Answered(deploy.base.restarts + Offset)
      BY <2>2, <1>1 DEF TrustInv, ScriptKept
    <2>3. ASSUME ~deploy.blind, pc = "restart" PROVE Answered(proc.at)
      <3>1. proc.at <= deploy.base.restarts + Offset /\ deploy.base.restarts \in Nat
        BY <2>3, <1>3, <1>1 DEF Offset, TrustInv, ScriptKept, Records, Processes, Tallies
      <3> QED
        BY <3>1, <2>2, <2>3 DEF Answered, TrustInv, Records, Starts, Processes, Offset
    <2>4. deploy.base \in Tallies /\ deploy.base.restarts # Unknown
      BY <1>1 DEF TrustInv, ScriptKept
    <2>5. ScriptKept(deploy)'
      BY <1>1, <1>3, <2>1, <2>2, <2>3, <2>4 DEF ScriptKept, TrustInv, Records, Processes, Answered, Silenced, Offset, OfCounter, procVars
    <2> QED
      BY <1>1, <2>1, <2>5, ScriptMoves
  <1> QED
    <2>1. \/ deploy' = Script
          \/ /\ deploy' = [deploy EXCEPT !.before = proc,
                                         !.pc = IF proc.restarts > deploy.base.restarts THEN "pending" ELSE "restart"]
             /\ ~(proc.restarts < deploy.base.restarts)
      BY DEF ReadPm2Process, Aborts, Exits
    <2>2. deploy.base.restarts \in Nat /\ proc.restarts \in Nat
      BY <1>1 DEF TrustInv, ScriptKept, Records, Processes, Tallies
    <2>3. CASE proc.restarts > deploy.base.restarts
      <3>1. \/ deploy' = Script
            \/ deploy' = [deploy EXCEPT !.before = proc, !.pc = "pending"]
        BY <2>1, <2>3
      <3> QED
        BY <3>1, <1>2, <1>3
    <2>4. CASE ~(proc.restarts > deploy.base.restarts)
      <3>1. \/ deploy' = Script
            \/ deploy' = [deploy EXCEPT !.before = proc, !.pc = "restart"]
        BY <2>1, <2>4
      <3>2. CASE deploy' = [deploy EXCEPT !.before = proc, !.pc = "restart"]
        <4> DEFINE pc == "restart"
        <4>1. pc \in {"pending", "restart"} /\ deploy' = [deploy EXCEPT !.before = proc, !.pc = pc]
              /\ (pc = "restart" => proc.restarts <= deploy.base.restarts)
          BY <3>2, <2>2, <2>4
        <4> HIDE DEF pc
        <4> QED
          BY <4>1, <1>3
      <3> QED
        BY <3>1, <3>2, <1>2
    <2> QED
      BY <2>3, <2>4

\* The last marker of a chain that is trusted is of the process that runs.
LEMMA ChainEnds ==
  ASSUME NEW found, NEW earlier \in Tallies, NEW current \in Processes,
         ValidatePm2DeployMarkerChain(found, earlier, current)
  PROVE  current.restarts > earlier.restarts /\ \E m \in found : m.at = current.at
  <1>1. earlier.restarts \in Nat /\ current.restarts \in Nat /\ current.restarts > earlier.restarts
    BY DEF ValidatePm2DeployMarkerChain, Tallies, Processes
  <1>2. current.restarts \in earlier.restarts + 1 .. current.restarts
    BY <1>1
  <1> QED
    BY <1>1, <1>2 DEF ValidatePm2DeployMarkerChain

LEMMA PendingAreMarkers == ASSUME NEW earlier, NEW current PROVE PendingMarkers(earlier, current) \subseteq markers
  BY DEF PendingMarkers

LEMMA ReadPendingMarkersTrusted == ASSUME TrustInv, ReadPendingMarkers PROVE TrustInv'
  <1>1. UNCHANGED <<procVars, baseline, reported, seen, epoch, sentinel>> /\ markers' = markers /\ deploy.pc = "pending"
    BY DEF ReadPendingMarkers, trackVars, Script0
  <1>2. CASE deploy' = Script
    <2>1. ScriptKept(deploy)' /\ deploy' \in Scripts /\ ~deploy'.blind
      BY <1>2, IdleScript DEF ScriptKept, Answered, OfCounter
    <2> QED
      BY <2>1, <1>1, ScriptMoves
  <1>3. CASE /\ deploy' = [deploy EXCEPT !.pc = "restart"]
             /\ ValidatePm2DeployMarkerChain(PendingMarkers(deploy.base, deploy.before), deploy.base, deploy.before)
    <2>1. deploy' \in Scripts /\ deploy'.blind = deploy.blind /\ deploy'.before = deploy.before /\ deploy'.pc = "restart"
      BY <1>3 DEF TrustInv, Records, Scripts
    <2>2. deploy.base \in Tallies /\ deploy.before \in Processes
      BY <1>1 DEF TrustInv, ScriptKept
    <2>3. PICK m \in markers : m.at = deploy.before.at
      BY <1>3, <2>2, ChainEnds, PendingAreMarkers
    <2>4. Answered(deploy.before.at)
      BY <2>2, <2>3 DEF TrustInv, MarkersVouch, Vouched, Answered, Silenced, Records, Starts, Processes
    <2>5. ~deploy.blind => deploy.before.at <= proc.at /\ OfCounter(deploy.before)
      BY <1>1 DEF TrustInv, ScriptKept
    <2>6. ScriptKept(deploy)'
      BY <1>1, <2>1, <2>2, <2>4, <2>5 DEF ScriptKept, Answered, Silenced, Offset, OfCounter, procVars
    <2> QED
      BY <1>1, <2>1, <2>6, ScriptMoves
  <1> QED
    BY <1>2, <1>3 DEF ReadPendingMarkers, Aborts, Exits, Reaches

LEMMA VerifyAfterTrusted == ASSUME TrustInv, VerifyAfter PROVE TrustInv'
  <1>1. UNCHANGED <<procVars, baseline, reported, seen, epoch, sentinel>> /\ markers' = markers /\ deploy.pc = "after"
    BY DEF VerifyAfter, trackVars, Script0
  <1>2. CASE deploy' = Script
    <2>1. ScriptKept(deploy)' /\ deploy' \in Scripts /\ ~deploy'.blind
      BY <1>2, IdleScript DEF ScriptKept, Answered, OfCounter
    <2> QED
      BY <2>1, <1>1, ScriptMoves
  <1>3. CASE /\ deploy' = [deploy EXCEPT !.pc = "mark", !.base = Marker(deploy.before, proc)]
             /\ Verified(deploy.before, proc)
    <2>1. deploy.before \in Processes /\ proc \in Processes
      BY <1>1 DEF TrustInv, ScriptKept, Records
    <2>2. Marker(deploy.before, proc) \in Marks /\ Marker(deploy.before, proc).at = proc.at
      BY <2>1 DEF Marker, Marks, Processes
    <2>3. /\ deploy' \in Scripts /\ deploy'.blind = deploy.blind /\ deploy'.base = Marker(deploy.before, proc)
          /\ deploy'.pc = "mark"
      BY <1>3, <2>2 DEF TrustInv, Records, Scripts
    <2>4. ASSUME ~deploy.blind PROVE Answered(proc.at - 1)
      <3>1. Answered(deploy.before.at) /\ OfCounter(deploy.before)
        BY <2>4, <1>1 DEF TrustInv, ScriptKept
      <3>2. proc.restarts = deploy.before.restarts + 1
        BY <1>3 DEF Verified
      <3>3. deploy.before.at = proc.at - 1
        BY <3>1, <3>2, <2>1 DEF OfCounter, Offset, Processes
      <3> QED
        BY <3>1, <3>3
    <2>5. ScriptKept(deploy)'
      BY <1>1, <2>1, <2>2, <2>3, <2>4 DEF ScriptKept, Answered, Silenced, Processes, procVars
    <2> QED
      BY <1>1, <2>3, <2>5, ScriptMoves
  <1> QED
    BY <1>2, <1>3 DEF VerifyAfter, Aborts, Exits

LEMMA ExpireTrusted == ASSUME TrustInv, Expire PROVE TrustInv'
  <1>1. UNCHANGED <<procVars, deploy, baseline, reported, seen, epoch, sentinel>> /\ markers' \subseteq markers
    BY DEF Expire, trackVars
  <1>2. Steady
    BY <1>1, StillIsSteady DEF TrustInv
  <1>3. ScriptKept(deploy)' /\ deploy' \in Scripts
    BY <1>1, <1>2, SteadyDeploy DEF TrustInv, Records
  <1> QED
    BY <1>1, <1>3, ScriptMoves

\* The marker is stored: the start it names is vouched for, those before are answered.
LEMMA MarkerStored ==
  ASSUME TrustInv, deploy.pc = "mark", deploy' = Script, markers' = markers \cup {deploy.base},
         unexplained' = {f \in unexplained : f.at # deploy.base.at},
         UNCHANGED <<proc, trackVars, epoch>>
  PROVE  TrustInv'
  <1>1. deploy.base \in Marks /\ deploy.base.at <= proc.at
    BY DEF TrustInv, ScriptKept
  <1>2. Records'
    BY <1>1, IdleScript DEF TrustInv, Records, trackVars
  <1>3. Steady
    BY DEF Steady, TrustInv, Records, Processes, Offset, Answered, Silenced, Vouched, trackVars
  <1>4. Counted' /\ StartsCounted' /\ NoSilentRestart'
    BY DEF TrustInv, Counted, StartsCounted, NoSilentRestart, Noticed, Offset, trackVars
  <1>5. BlindHides'
    <2>1. Settled => Settled'
      BY IdleScript DEF Settled, Noticed, trackVars
    <2> QED
      BY <2>1 DEF TrustInv, BlindHides
  <1>6. ASSUME NEW m \in markers' PROVE m.at <= proc'.at /\ Vouched(m.at)'
    <2>1. CASE m \in markers
      BY <2>1, <1>3 DEF TrustInv, MarkersVouch, Steady, Records, Marks, Processes
    <2>2. CASE m = deploy.base
      <3>1. m.at \in Nat /\ m.at <= proc'.at
        BY <2>2, <1>1 DEF Marks
      <3>2. ASSUME NEW f \in unexplained', ~f.hidden PROVE f.at # m.at /\ (f.at < m.at => f.at \in reported')
        <4>1. f \in unexplained /\ f.at \in Nat /\ f.at # m.at
          BY <3>2, <2>2 DEF TrustInv, Records, Starts
        <4>2. ~deploy.blind
          BY <4>1, <3>2 DEF TrustInv, BlindHides, Settled
        <4>3. Answered(m.at - 1)
          BY <4>2, <2>2 DEF TrustInv, ScriptKept
        <4> QED
          BY <4>1, <4>3, <3>1, <3>2 DEF Answered, Silenced, trackVars
      <3> QED
        BY <3>1, <3>2 DEF Vouched
    <2> QED
      BY <2>1, <2>2
  <1>7. RoundsKept'
    BY <1>3, SteadyRounds DEF TrustInv, RoundsKept, trackVars
  <1>8. ScriptKept(deploy)'
    BY IdleScript DEF ScriptKept, Answered, OfCounter
  <1> QED
    BY <1>2, <1>4, <1>5, <1>6, <1>7, <1>8 DEF TrustInv, MarkersVouch

LEMMA SetMarkerTrusted == ASSUME TrustInv, SetMarker PROVE TrustInv'
  <1>1. deploy.pc = "mark" /\ deploy' = Script /\ UNCHANGED <<proc, trackVars, epoch>>
    BY DEF SetMarker, Aborts, Exits, Script0
  <1>2. CASE UNCHANGED <<markers, unexplained>>
    <2>1. ScriptKept(deploy)' /\ deploy' \in Scripts /\ ~deploy'.blind
      BY <1>1, IdleScript DEF ScriptKept, Answered, OfCounter
    <2> QED
      BY <2>1, <1>1, <1>2, ScriptMoves DEF trackVars, procVars
  <1>3. CASE markers' = markers \cup {deploy.base} /\ unexplained' = {f \in unexplained : f.at # deploy.base.at}
    BY <1>1, <1>3, MarkerStored
  <1> QED
    BY <1>2, <1>3 DEF SetMarker, Aborts

\* PM2 starts the process again, and counts the start.
Restarted == /\ proc'.at = proc.at + 1 /\ proc'.restarts = proc.restarts + 1 /\ proc' \in Processes
             /\ unexplained' = unexplained \cup {Start(proc.restarts + 1)}

LEMMA RestartedIsSteady == ASSUME TrustInv, Restarted, UNCHANGED <<reported, epoch>> PROVE Steady
  <1>1. \A f \in unexplained' : f \in unexplained \/ f.at = proc.at + 1
    BY DEF Restarted, Start
  <1> QED
    BY <1>1 DEF TrustInv, Records, Restarted, Steady, Processes, Starts, Offset, Answered, Silenced, Vouched

LEMMA StartIs ==
  ASSUME TrustInv, NEW f, f = Start(proc.restarts + 1)
  PROVE  f \in Starts /\ f.at = proc.at + 1 /\ f.after = proc.restarts + 1 /\ f.hidden = ~Settled
  <1>1. f.hidden = ~Settled
    BY Zenon DEF Start
  <1>2. proc.at \in Nat /\ proc.restarts \in Nat
    BY DEF TrustInv, Records, Processes
  <1>3. f \in Starts /\ f.at = proc.at + 1 /\ f.after = proc.restarts + 1
    BY <1>2, SMT DEF Start, Starts
  <1> QED
    BY <1>1, <1>3

LEMMA RestartedProcess ==
  ASSUME NEW p \in Processes, NEW unstable \in Nat, NEW exit \in Nat, NEW by \in Nat,
         NEW q, q = [restarts |-> p.restarts + 1, unstable |-> unstable, exit |-> exit, at |-> p.at + 1, by |-> by]
  PROVE  q.at = p.at + 1 /\ q.restarts = p.restarts + 1 /\ q \in Processes
  BY DEF Processes

LEMMA StartTrusted ==
  ASSUME TrustInv, Restarted, UNCHANGED <<markers, trackVars, epoch>>,
         deploy' \in Scripts, ScriptKept(deploy)', deploy'.blind => deploy.blind
  PROVE  TrustInv'
  <1>1. Steady
    BY RestartedIsSteady DEF trackVars
  <1>2. Records'
    <2>1. Start(proc.restarts + 1) \in Starts
      BY StartIs
    <2> QED
      BY <2>1 DEF TrustInv, Records, Restarted, trackVars
  <1>3. Counted'
    BY DEF TrustInv, Records, Counted, Restarted, Processes, Noticed, Offset, trackVars
  <1>4. StartsCounted'
    <2>1. SUFFICES ASSUME NEW f \in unexplained'
                   PROVE  f.at <= proc'.at /\ f.after >= 1 /\ (~f.hidden => f.at - f.after = Offset')
      BY DEF StartsCounted
    <2>2. CASE f \in unexplained
      BY <2>2, <1>1 DEF TrustInv, StartsCounted, Steady, Records, Starts, Processes
    <2>3. CASE f = Start(proc.restarts + 1)
      BY <2>3, StartIs DEF TrustInv, Records, Restarted, Processes, Offset
    <2> QED
      BY <2>1, <2>2, <2>3 DEF Restarted
  <1>5. Settled => Settled'
    BY DEF Settled, Noticed, trackVars
  <1>6. BlindHides'
    <2>1. SUFFICES ASSUME ~Settled', NEW f \in unexplained' PROVE f.hidden
      BY DEF BlindHides
    <2>2. ~Settled
      BY <2>1, <1>5
    <2>3. CASE f \in unexplained
      BY <2>2, <2>3 DEF TrustInv, BlindHides
    <2>4. CASE f = Start(proc.restarts + 1)
      BY <2>2, <2>4, StartIs
    <2> QED
      BY <2>1, <2>3, <2>4 DEF Restarted
  <1>7. ASSUME NEW m \in markers' PROVE m.at <= proc'.at /\ Vouched(m.at)'
    BY <1>1 DEF TrustInv, MarkersVouch, Steady, Records, Marks, Processes
  <1>8. NoSilentRestart'
    <2>1. seen \in Int /\ seen <= proc.at /\ Answered(seen)
      BY SeenIsAnswered DEF TrustInv, Records, Counted
    <2>2. PICK n \in Int : n = seen
      BY <2>1
    <2>3. Answered(n)'
      BY <2>1, <2>2, <1>1 DEF Steady
    <2> QED
      BY <2>2, <2>3 DEF Answered, Silenced, NoSilentRestart, trackVars
  <1>9. RoundsKept'
    BY <1>1, SteadyRounds DEF TrustInv, RoundsKept, trackVars
  <1> QED
    BY <1>2, <1>3, <1>4, <1>6, <1>7, <1>8, <1>9 DEF TrustInv, MarkersVouch

LEMMA CrashOrRestartTrusted == ASSUME TrustInv, CrashOrRestart PROVE TrustInv'
  <1>1. Restarted
    <2>1. PICK unstable, exit \in 0..1 :
            proc' = [proc EXCEPT !.restarts = @ + 1, !.unstable = @ + unstable, !.exit = exit, !.at = @ + 1]
      BY DEF CrashOrRestart
    <2>2. proc'.at = proc.at + 1 /\ proc'.restarts = proc.restarts + 1 /\ proc' \in Processes
      <3>1. proc \in Processes
        BY DEF TrustInv, Records
      <3>2. proc' = [restarts |-> proc.restarts + 1, unstable |-> proc.unstable + unstable, exit |-> exit,
                     at |-> proc.at + 1, by |-> proc.by]
        BY <2>1, <3>1 DEF Processes
      <3>3. proc.unstable + unstable \in Nat /\ exit \in Nat /\ proc.by \in Nat
        BY <3>1 DEF Processes
      <3> QED
        BY <3>1, <3>2, <3>3, RestartedProcess
    <2> QED
      BY <2>2 DEF CrashOrRestart, Restarted
  <1>2. UNCHANGED <<markers, deploy, trackVars, epoch>>
    BY DEF CrashOrRestart
  <1>3. ScriptKept(deploy)' /\ deploy' \in Scripts
    BY <1>1, <1>2, RestartedIsSteady, SteadyDeploy DEF TrustInv, Records, trackVars
  <1> QED
    BY <1>1, <1>2, <1>3, StartTrusted

LEMMA Pm2RestartTrusted == ASSUME TrustInv, Pm2Restart PROVE TrustInv'
  <1>1. UNCHANGED <<markers, trackVars, epoch>> /\ deploy.pc = "restart"
    BY DEF Pm2Restart, Script0
  <1>2. deploy' = Script \/ deploy' = [deploy EXCEPT !.pc = "after"]
    BY DEF Pm2Restart, Aborts, Exits, Reaches
  <1>3. CASE Restarted
    <2>1. Steady
      BY <1>1, <1>3, RestartedIsSteady DEF trackVars
    <2>2. CASE deploy' = Script
      BY <2>2, IdleScript, <1>1, <1>3, StartTrusted DEF ScriptKept, Answered, OfCounter
    <2>3. CASE deploy' = [deploy EXCEPT !.pc = "after"]
      <3>1. PICK d \in Scripts : d = deploy
        BY DEF TrustInv, Records
      <3>2. ScriptKept(d)'
        BY <3>1, <2>1, SteadyScript DEF TrustInv
      <3>3. deploy' \in Scripts /\ deploy'.before = d.before /\ deploy'.pc = "after" /\ deploy'.blind = d.blind
        BY <3>1, <2>3 DEF Scripts
      <3>4. ScriptKept(deploy)'
        BY <3>1, <3>2, <3>3, <1>1 DEF ScriptKept, Answered, OfCounter
      <3> QED
        BY <3>1, <3>3, <3>4, <1>1, <1>3, StartTrusted
    <2> QED
      BY <1>2, <2>2, <2>3
  <1>4. CASE UNCHANGED procVars /\ deploy' = Script
    <2>1. ScriptKept(deploy)' /\ deploy' \in Scripts /\ ~deploy'.blind
      BY <1>4, IdleScript DEF ScriptKept, Answered, OfCounter
    <2> QED
      BY <2>1, <1>1, <1>4, ScriptMoves DEF trackVars
  <1>5. Restarted \/ (UNCHANGED procVars /\ deploy' = Script)
    <2>1. CASE /\ proc' = [proc EXCEPT !.restarts = @ + 1, !.exit = 0, !.at = @ + 1, !.by = deploy.id]
               /\ unexplained' = unexplained \cup {Start(proc.restarts + 1)}
      <3>1. proc'.at = proc.at + 1 /\ proc'.restarts = proc.restarts + 1 /\ proc' \in Processes
        <4>1. proc \in Processes /\ deploy.id \in Nat
          BY DEF TrustInv, Records, Scripts
        <4>2. proc' = [restarts |-> proc.restarts + 1, unstable |-> proc.unstable, exit |-> 0,
                       at |-> proc.at + 1, by |-> deploy.id]
          BY <2>1, <4>1 DEF Processes
        <4>3. proc.unstable \in Nat
          BY <4>1 DEF Processes
        <4> QED
          BY <4>1, <4>2, <4>3, RestartedProcess
      <3> QED
        BY <3>1, <2>1 DEF Restarted
    <2> QED
      BY <2>1 DEF Pm2Restart, Aborts, Exits
  <1> QED
    BY <1>3, <1>4, <1>5

\* PM2's counter goes back: every start so far is excepted.
LEMMA ResetTrusted == ASSUME TrustInv, Reset PROVE TrustInv'
  <1>1. /\ proc' = [restarts |-> 0, unstable |-> 0, exit |-> 0, at |-> proc.at + 1, by |-> 0]
        /\ epoch' = proc.at + 1 /\ unexplained' = {[f EXCEPT !.hidden = TRUE] : f \in unexplained}
        /\ deploy' = [deploy EXCEPT !.blind = @ \/ deploy.pc # "idle"]
        /\ sentinel' = [s \in Sentinels |-> [sentinel[s] EXCEPT !.blind = @ \/ sentinel[s].pc # "idle"]]
        /\ UNCHANGED <<markers, baseline, reported, seen>>
    BY DEF Reset
  <1>2. /\ proc.at \in Nat /\ proc' \in Processes /\ proc'.at = proc.at + 1 /\ proc'.restarts = 0
        /\ epoch' = proc.at + 1
    BY <1>1 DEF TrustInv, Records, Processes
  <1>3. ASSUME NEW f \in unexplained'
        PROVE  f.hidden /\ f \in Starts /\ f.after >= 1 /\ f.at <= proc.at
    BY <1>1 DEF TrustInv, Records, Starts, StartsCounted
  <1>4. ASSUME NEW s \in Sentinels
        PROVE  /\ sentinel'[s] \in Rounds /\ sentinel'[s].pc = sentinel[s].pc /\ sentinel'[s].proc = sentinel[s].proc
               /\ sentinel[s].pc # "idle" => sentinel'[s].blind
               /\ sentinel[s].pc = "idle" => sentinel'[s] = NoRun
    <2>1. PICK w \in Rounds : w = sentinel[s] /\ sentinel'[s] = [w EXCEPT !.blind = w.blind \/ w.pc # "idle"]
      BY <1>1 DEF TrustInv, Records
    <2>2. CASE w.pc = "idle"
      <3>1. w = NoRun
        BY <2>1, <2>2 DEF TrustInv, RoundsKept, RoundKept
      <3>2. (NoRun.blind \/ NoRun.pc # "idle") = FALSE
        BY DEF NoRun
      <3>3. sentinel'[s] = [NoRun EXCEPT !.blind = FALSE]
        BY <3>1, <3>2, <2>1, Zenon
      <3>4. [NoRun EXCEPT !.blind = FALSE] = NoRun
        <4>1. NoRun \in Rounds /\ NoRun.blind = FALSE
          BY IdleRound DEF NoRun
        <4> QED
          BY <4>1, SMT DEF Rounds
      <3> QED
        BY <3>1, <3>3, <3>4, <2>1, <2>2, IdleRound
    <2>3. CASE w.pc # "idle"
      <3>1. sentinel'[s] = [w EXCEPT !.blind = TRUE]
        BY <2>1, <2>3
      <3> QED
        BY <3>1, <2>1, <2>3 DEF Rounds
    <2> QED
      BY <2>2, <2>3
  <1>5. /\ deploy' \in Scripts /\ deploy'.pc = deploy.pc /\ deploy'.base = deploy.base /\ deploy'.before = deploy.before
        /\ deploy.pc # "idle" => deploy'.blind
        /\ deploy.pc = "idle" => deploy' = Script
    <2>1. PICK d \in Scripts : d = deploy /\ deploy' = [d EXCEPT !.blind = d.blind \/ d.pc # "idle"]
      BY <1>1 DEF TrustInv, Records
    <2>2. CASE d.pc = "idle"
      <3>1. d = Script
        BY <2>1, <2>2 DEF TrustInv, ScriptKept
      <3>2. (Script.blind \/ Script.pc # "idle") = FALSE
        BY DEF Script
      <3>3. deploy' = [Script EXCEPT !.blind = FALSE]
        BY <3>1, <3>2, <2>1, Zenon
      <3>4. [Script EXCEPT !.blind = FALSE] = Script
        <4>1. Script \in Scripts /\ Script.blind = FALSE
          BY IdleScript DEF Script
        <4> QED
          BY <4>1, SMT DEF Scripts
      <3> QED
        BY <3>1, <3>3, <3>4, <2>1, <2>2, IdleScript
    <2>3. CASE d.pc # "idle"
      <3>1. deploy' = [d EXCEPT !.blind = TRUE]
        BY <2>1, <2>3
      <3> QED
        BY <3>1, <2>1, <2>3 DEF Scripts
    <2> QED
      BY <2>2, <2>3
  <1>6. Records'
    <2>1. sentinel' \in [Sentinels -> Rounds]
      BY <1>1, <1>4
    <2>2. unexplained' \subseteq Starts
      BY <1>3
    <2> QED
      BY <1>1, <1>2, <1>5, <2>1, <2>2 DEF TrustInv, Records
  <1>7. Counted'
    BY <1>1, <1>2 DEF TrustInv, Records, Counted, Noticed
  <1>8. StartsCounted' /\ BlindHides' /\ NoSilentRestart'
    BY <1>2, <1>3 DEF StartsCounted, BlindHides, NoSilentRestart, TrustInv, Records, Starts, Processes
  <1>9. MarkersVouch'
    BY <1>1, <1>2, <1>3 DEF TrustInv, MarkersVouch, Vouched, Records, Marks
  <1>10. RoundsKept'
    <2>1. SUFFICES ASSUME NEW s \in Sentinels PROVE RoundKept(sentinel[s])'
      BY DEF RoundsKept
    <2>2. CASE sentinel[s].pc = "idle"
      BY <2>2, <1>4, IdleRound DEF RoundKept, Answered, Vouched, OfCounter
    <2>3. CASE sentinel[s].pc # "idle"
      <3>1. sentinel[s].pc \in ReadAny => sentinel[s].proc \in Processes /\ sentinel[s].proc.at <= proc.at
        BY DEF TrustInv, RoundsKept, RoundKept
      <3> QED
        BY <3>1, <2>3, <1>2, <1>4 DEF RoundKept, Processes
    <2> QED
      BY <2>2, <2>3
  <1>11. ScriptKept(deploy)'
    <2>2. CASE deploy.pc = "idle"
      BY <2>2, <1>5, IdleScript DEF ScriptKept, Answered, OfCounter
    <2>3. CASE deploy.pc # "idle"
      <3>1. /\ deploy.pc \in {"before", "pending"} => deploy.base \in Tallies /\ deploy.base.restarts # Unknown
            /\ deploy.pc \in {"pending", "restart", "after"} => deploy.before \in Processes
            /\ deploy.pc = "mark" => deploy.base \in Marks /\ deploy.base.at <= proc.at
        BY DEF TrustInv, ScriptKept
      <3> QED
        BY <3>1, <2>3, <1>2, <1>5 DEF ScriptKept, Marks
    <2> QED
      BY <2>2, <2>3
  <1> QED
    BY <1>6, <1>7, <1>8, <1>9, <1>10, <1>11 DEF TrustInv

\* What the first read of a sentinel tells it of the counter.
LEMMA BaselineIsAnswered ==
  ASSUME TrustInv, Noticed, baseline.restarts # Unknown
  PROVE  baseline.restarts + Offset <= proc.at /\ Answered(baseline.restarts + Offset)
  <1>1. seen = baseline.restarts + Offset
    BY DEF TrustInv, Counted, Records, Tallies, Processes, Offset, Unknown
  <1> QED
    BY <1>1, SeenIsAnswered DEF TrustInv, Counted

LEMMA ProcessIsCounted == ASSUME TrustInv PROVE proc \in Processes /\ proc.at >= epoch /\ OfCounter(proc)
  BY DEF TrustInv, Records, Counted, OfCounter, Offset, Processes

\* A round after it has read the process or the baseline, or has failed to.
LEMMA RoundReads ==
  ASSUME TrustInv, UNCHANGED <<procVars, reported, epoch>>, NEW w \in Rounds, RoundKept(w),
         NEW v \in Rounds, v.pc # "idle", v.markers = w.markers,
         \/ v.proc = proc
         \/ v.proc = w.proc /\ (v.pc \in ReadAny => w.pc \in ReadAny),
         \/ v.prev.restarts \in {w.prev.restarts, Unknown}
         \/ v.prev = baseline /\ (~v.blind => Noticed),
         ~v.blind => ~w.blind
  PROVE  RoundKept(v)'
  <1>2. v.pc \in ReadAny => /\ v.proc \in Processes /\ v.proc.at <= proc.at
                            /\ v.proc.at >= epoch => OfCounter(v.proc)
    BY ProcessIsCounted DEF RoundKept, Processes
  <1>3. ASSUME ~v.blind, v.pc \in ReadAny PROVE v.proc.at >= epoch
    BY <1>3, ProcessIsCounted DEF RoundKept
  <1>4. ASSUME ~v.blind, v.prev.restarts # Unknown
        PROVE  v.prev.restarts + Offset <= proc.at /\ Answered(v.prev.restarts + Offset)
    <2>1. CASE v.prev.restarts = w.prev.restarts
      BY <1>4, <2>1 DEF RoundKept
    <2>2. CASE Noticed /\ v.prev.restarts = baseline.restarts
      BY <1>4, <2>2, BaselineIsAnswered
    <2> QED
      BY <1>4, <2>1, <2>2
  <1>5. ASSUME ~v.blind, NEW m \in v.markers PROVE m.at <= proc.at /\ Vouched(m.at)
    BY <1>5 DEF RoundKept
  <1>7. RoundKept(v)
    BY <1>2, <1>3, <1>4, <1>5 DEF RoundKept
  <1>8. Steady
    BY StillIsSteady DEF TrustInv
  <1> QED
    BY <1>7, <1>8, SteadyRound DEF TrustInv

LEMMA GatherTrusted == ASSUME TrustInv, NEW s \in Sentinels, Gather(s) PROVE TrustInv'
  <1>1. UNCHANGED <<procVars, markers, deploy, baseline, reported, seen, epoch>>
    BY DEF Gather
  <1>2. PICK w \in Rounds : w = sentinel[s] /\ RoundKept(w)
    BY DEF TrustInv, Records, RoundsKept
  <1>3. PICK b \in BOOLEAN : b = (w.blind \/ ~Noticed)
    OBVIOUS
  <1> DEFINE IsNext(v) == /\ v.pc # "idle" /\ v.markers = w.markers /\ (~v.blind => ~w.blind) /\ (v.blind => w.blind \/ ~Noticed)
                         /\ \/ v.proc = proc
                            \/ v.proc = w.proc /\ (v.pc \in ReadAny => w.pc \in ReadAny)
                         /\ \/ v.prev.restarts \in {w.prev.restarts, Unknown}
                            \/ v.prev = baseline /\ (~v.blind => Noticed)
  <1>4. \E v \in Rounds : sentinel' = [sentinel EXCEPT ![s] = v] /\ IsNext(v)
    <2>1. CASE w.pc \in {"idle", "state", "pm2"} /\ \E pc \in {"state", "markers"} :
                 /\ sentinel' = [sentinel EXCEPT ![s] = [[w EXCEPT !.proc = proc] EXCEPT !.pc = pc, !.blind = b]]
      <3>1. PICK pc \in {"state", "markers"} :
                 sentinel' = [sentinel EXCEPT ![s] = [[w EXCEPT !.proc = proc] EXCEPT !.pc = pc, !.blind = b]]
        BY <2>1
      <3> DEFINE v == [[w EXCEPT !.proc = proc] EXCEPT !.pc = pc, !.blind = b]
      <3>2. v \in Rounds /\ v.pc = pc /\ v.markers = w.markers /\ v.proc = proc /\ v.prev = w.prev /\ v.blind = b
        BY ProcessIsCounted DEF Rounds, ReadAny
      <3> HIDE DEF v
      <3>3. IsNext(v)
        BY <3>2, <1>3
      <3> QED
        BY <3>1, <3>2, <3>3 DEF v
    <2>2. CASE \E pc \in {"pm2", "markers"} :
                 /\ pc = "markers" => w.pc = "state"
                 /\ sentinel' = [sentinel EXCEPT ![s] = [[w EXCEPT !.prev = baseline] EXCEPT !.pc = pc, !.blind = b]]
      <3>1. PICK pc \in {"pm2", "markers"} :
                 /\ pc = "markers" => w.pc = "state"
                 /\ sentinel' = [sentinel EXCEPT ![s] = [[w EXCEPT !.prev = baseline] EXCEPT !.pc = pc, !.blind = b]]
        BY <2>2
      <3> DEFINE v == [[w EXCEPT !.prev = baseline] EXCEPT !.pc = pc, !.blind = b]
      <3>2. v \in Rounds /\ v.pc = pc /\ v.markers = w.markers /\ v.proc = w.proc /\ v.prev = baseline /\ v.blind = b
        BY DEF Rounds, ReadAny, TrustInv, Records
      <3> HIDE DEF v
      <3>3. IsNext(v)
        BY <3>1, <3>2, <1>3 DEF ReadAny
      <3> QED
        BY <3>1, <3>2, <3>3 DEF v
    <2>3. CASE /\ w.pc = "state"
               /\ sentinel' = [sentinel EXCEPT ![s].pc = "markers", ![s].prev = Counts(Unknown, Unknown)]
      <3> DEFINE v == [w EXCEPT !.pc = "markers", !.prev = Counts(Unknown, Unknown)]
      <3>1. sentinel' = [sentinel EXCEPT ![s] = v]
        BY <2>3, <1>2
      <3>2. v \in Rounds /\ v.pc = "markers" /\ v.markers = w.markers /\ v.proc = w.proc /\ v.prev.restarts = Unknown /\ v.blind = w.blind
        BY DEF Rounds, ReadAny, Counts, Tallies, Unknown
      <3> HIDE DEF v
      <3>3. IsNext(v)
        BY <2>3, <3>2 DEF ReadAny
      <3> QED
        BY <3>1, <3>2, <3>3
    <2> QED
      BY <1>2, <1>3, <2>1, <2>2, <2>3 DEF Gather, Reads
  <1>5. PICK v \in Rounds : sentinel' = [sentinel EXCEPT ![s] = v] /\ IsNext(v)
    BY <1>4
  <1>6. RoundKept(v)'
    BY <1>1, <1>2, <1>5, RoundReads
  <1> QED
    BY <1>1, <1>2, <1>5, <1>6, SentinelMoves

LEMMA GatherPendingDeployMarkersTrusted ==
  ASSUME TrustInv, NEW s \in Sentinels, GatherPendingDeployMarkers(s) PROVE TrustInv'
  <1>1. UNCHANGED <<procVars, markers, deploy, baseline, reported, seen, epoch>> /\ sentinel[s].pc = "markers"
    BY DEF GatherPendingDeployMarkers
  <1>2. PICK w \in Rounds : w = sentinel[s] /\ RoundKept(w)
    BY DEF TrustInv, Records, RoundsKept
  <1>3. PICK found \in SUBSET markers : sentinel' = [sentinel EXCEPT ![s].pc = "persist", ![s].markers = found]
    BY PendingAreMarkers DEF GatherPendingDeployMarkers
  <1> DEFINE v == [w EXCEPT !.pc = "persist", !.markers = found]
  <1>4. sentinel' = [sentinel EXCEPT ![s] = v]
    BY <1>2, <1>3
  <1>5. /\ v \in Rounds /\ v.pc = "persist" /\ v.proc = w.proc /\ v.prev = w.prev /\ v.blind = w.blind
        /\ v.markers \subseteq markers
    BY DEF TrustInv, Records, Rounds, ReadAny
  <1> HIDE DEF v
  <1>6. RoundKept(v)
    BY <1>1, <1>2, <1>5 DEF RoundKept, ReadAny, TrustInv, MarkersVouch
  <1>7. RoundKept(v)'
    BY <1>1, <1>5, <1>6, StillIsSteady, SteadyRound DEF TrustInv
  <1> QED
    BY <1>1, <1>2, <1>4, <1>5, <1>7, SentinelMoves

\* A snapshot without an alarm has seen the count stand still, or a trusted chain of markers.
LEMMA NoAlarm ==
  ASSUME NEW w \in Rounds, w.proc \in Processes, Alarms(w) = {}
  PROVE  \/ w.prev.restarts = Unknown /\ w.proc.restarts = 0
         \/ w.prev.restarts # Unknown /\ w.proc.restarts = w.prev.restarts
         \/ w.prev.restarts # Unknown /\ ValidatePm2DeployMarkerChain(w.markers, w.prev, w.proc)
  <1> DEFINE trusted == ValidatePm2DeployMarkerChain(w.markers, w.prev, w.proc)
             p == [list |-> "online", restarts |-> w.proc.restarts, unstable |-> w.proc.unstable, exit |-> w.proc.exit,
                   prevRestarts |-> w.prev.restarts, prevUnstable |-> w.prev.unstable, trusted |-> trusted]
  <1>1. CheckPm2(p) = {}
    BY DEF Alarms
  <1>2. p.list = "online" /\ p.restarts = w.proc.restarts /\ p.prevRestarts = w.prev.restarts
    OBVIOUS
  <1>3. p.trusted = trusted
    BY Zenon
  <1>4. w.proc.restarts \in Nat /\ w.proc.restarts # Unknown /\ w.prev.restarts \in Nat \cup {Unknown}
    BY DEF Rounds, Processes, Tallies, Unknown
  <1> HIDE DEF p
  <1>5. CheckRestarts(p) = {}
    BY <1>1, <1>2 DEF CheckPm2
  <1>6. CASE w.prev.restarts = Unknown
    <2>1. CheckRestarts(p) = When(p.restarts > 0, "pm2", "P1", <<"baseline">>)
      BY <1>2, <1>4, <1>6, Zenon DEF CheckRestarts
    <2>2. ~(p.restarts > 0)
      BY <2>1, <1>5 DEF When
    <2> QED
      BY <2>2, <1>2, <1>4, <1>6
  <1>7. CASE w.prev.restarts # Unknown /\ w.proc.restarts # w.prev.restarts
    <2>1. p.restarts - p.prevRestarts # 0
      BY <1>2, <1>4, <1>7
    <2>2. trusted
      BY <2>1, <1>2, <1>3, <1>4, <1>5, <1>7 DEF CheckRestarts, When
    <2> QED
      BY <2>2, <1>7
  <1> QED
    BY <1>6, <1>7

LEMMA SnapshotIsSteady ==
  ASSUME Records, UNCHANGED <<procVars, epoch>>, reported \subseteq reported' PROVE Steady
  BY DEF Steady, Records, Processes, procVars, Offset, Answered, Silenced, Vouched

\* A round that is not blind publishes what is answered.
LEMMA PublishedIsAnswered ==
  ASSUME TrustInv, NEW w \in Rounds, RoundKept(w), w.pc = "persist", ~w.blind, Alarms(w) = {}
  PROVE  Answered(w.proc.at)
  <1>1. /\ w.proc \in Processes /\ w.proc.at <= proc.at /\ w.proc.at >= epoch /\ OfCounter(w.proc)
        /\ \A m \in w.markers : Vouched(m.at)
        /\ w.prev.restarts # Unknown => Answered(w.prev.restarts + Offset)
    BY DEF RoundKept, ReadAny
  <1>2. proc \in Processes /\ Offset \in Int /\ w.proc.at \in Nat /\ w.proc.at = w.proc.restarts + Offset
    BY <1>1 DEF TrustInv, Records, Processes, Offset, OfCounter
  <1>3. CASE w.prev.restarts = Unknown /\ w.proc.restarts = 0
    <2>1. w.proc.at = Offset
      BY <1>2, <1>3
    <2>2. ASSUME NEW f \in unexplained, f.at <= w.proc.at, ~f.hidden PROVE FALSE
      <3>1. f.at \in Nat /\ f.after \in Nat /\ f.after >= 1 /\ f.at - f.after = Offset
        BY <2>2 DEF TrustInv, Records, Starts, StartsCounted
      <3> QED
        BY <3>1, <2>1, <2>2, <1>2
    <2> QED
      BY <2>2 DEF Answered, Silenced
  <1>4. CASE w.prev.restarts # Unknown /\ w.proc.restarts = w.prev.restarts
    BY <1>1, <1>2, <1>4
  <1>5. CASE w.prev.restarts # Unknown /\ ValidatePm2DeployMarkerChain(w.markers, w.prev, w.proc)
    <2>1. PICK m \in w.markers : m.at = w.proc.at
      BY <1>1, <1>5, ChainEnds DEF Rounds
    <2>2. Vouched(w.proc.at)
      BY <1>1, <2>1
    <2> QED
      BY <2>2, <1>2 DEF Vouched, Answered, Silenced, TrustInv, Records, Starts
  <1> QED
    BY <1>1, <1>3, <1>4, <1>5, NoAlarm

LEMMA PersistSnapshotTrusted == ASSUME TrustInv, NEW s \in Sentinels, PersistSnapshot(s) PROVE TrustInv'
  <1>1. PICK w \in Rounds : w = sentinel[s] /\ RoundKept(w)
    BY DEF TrustInv, Records, RoundsKept
  <1>2. UNCHANGED <<procVars, deploy, epoch>> /\ w.pc = "persist" /\ sentinel' = [sentinel EXCEPT ![s] = NoRun]
    BY <1>1 DEF PersistSnapshot
  <1>3. CASE UNCHANGED <<markers, baseline, reported, seen>>
    BY <1>2, <1>3, IdleRound, SentinelMoves
  <1>4. CASE /\ baseline' = Counts(w.proc.restarts, w.proc.unstable) /\ markers' \subseteq markers
             /\ reported' = IF Alarms(w) = {} THEN reported
                            ELSE reported \cup {f.at : f \in {g \in unexplained : g.at <= w.proc.at}}
             /\ seen' = w.proc.at
    <2>1. Steady
      BY <1>2, <1>4, SnapshotIsSteady DEF TrustInv
    <2>2. w.proc \in Processes /\ w.proc.at <= proc.at /\ (w.proc.at >= epoch => OfCounter(w.proc))
      BY <1>1, <1>2 DEF RoundKept, ReadAny
    <2>3. /\ sentinel' \in [Sentinels -> Rounds] /\ sentinel'[s] = NoRun
          /\ \A q \in Sentinels : q # s => sentinel'[q] = sentinel[q]
      BY <1>2, IdleRound DEF TrustInv, Records
    <2>4. Records'
      BY <1>2, <1>4, <2>2, <2>3 DEF TrustInv, Records, Counts, Tallies, Processes, procVars
    <2>5. Counted'
      <3>1. baseline'.restarts = w.proc.restarts
        BY <1>4 DEF Counts
      <3> QED
        BY <1>2, <1>4, <2>2, <3>1 DEF TrustInv, Counted, Noticed, Offset, OfCounter, procVars
    <2>6. StartsCounted'
      BY <1>2 DEF TrustInv, StartsCounted, Offset, procVars
    <2>7. w.blind => \A f \in unexplained : f.hidden
      BY <1>1 DEF TrustInv, BlindHides, Settled
    <2>8. BlindHides'
      <3>1. CASE w.blind
        BY <2>7, <3>1, <1>2 DEF BlindHides, procVars
      <3>2. CASE ~w.blind
        <4>1. Noticed'
          BY <3>2, <1>1, <1>2, <1>4 DEF RoundKept, ReadAny, Noticed
        <4>2. Settled => Settled'
          <5>1. SUFFICES ASSUME Settled, NEW q \in Sentinels PROVE ~sentinel'[q].blind
            BY <4>1, <1>2 DEF Settled
          <5> QED
            BY <5>1, <2>3, IdleRound DEF Settled
        <4> QED
          BY <4>2, <1>2 DEF TrustInv, BlindHides, procVars
      <3> QED
        BY <3>1, <3>2
    <2>9. ASSUME NEW m \in markers' PROVE m.at <= proc'.at /\ Vouched(m.at)'
      <3>1. m \in markers
        BY <1>4
      <3> QED
        BY <3>1, <2>1 DEF TrustInv, MarkersVouch, Steady, Records, Marks, Processes
    <2>10. NoSilentRestart'
      <3>1. CASE w.blind
        BY <2>7, <3>1, <1>2 DEF NoSilentRestart, procVars
      <3>2. CASE ~w.blind /\ Alarms(w) = {}
        BY <3>2, <1>1, <1>2, <1>4, PublishedIsAnswered DEF NoSilentRestart, Answered, Silenced, procVars
      <3>3. CASE Alarms(w) # {}
        BY <3>3, <1>2, <1>4 DEF NoSilentRestart, procVars
      <3> QED
        BY <3>1, <3>2, <3>3
    <2>11. ASSUME NEW q \in Sentinels PROVE RoundKept(sentinel[q])'
      <3>1. CASE q = s
        BY <3>1, <2>3, IdleRound DEF RoundKept, Answered, Vouched, OfCounter
      <3>2. CASE q # s
        BY <3>2, <2>1, <2>3, SteadyRounds DEF TrustInv
      <3> QED
        BY <3>1, <3>2
    <2>12. ScriptKept(deploy)'
      BY <1>2, <2>1, SteadyDeploy DEF TrustInv
    <2> QED
      BY <2>4, <2>5, <2>6, <2>8, <2>9, <2>10, <2>11, <2>12 DEF TrustInv, MarkersVouch, RoundsKept
  <1>5. UNCHANGED <<markers, baseline, reported, seen>> \/ markers' \subseteq markers
    BY DEF PersistSnapshot
  <1> QED
    BY <1>1, <1>3, <1>4, <1>5 DEF PersistSnapshot

LEMMA RestartNextTrusted == ASSUME TrustInv, RestartNext PROVE TrustInv'
  BY CrashOrRestartTrusted, ResetTrusted, ReadStateTrusted, ReadPm2ProcessTrusted, ReadPendingMarkersTrusted,
     Pm2RestartTrusted, VerifyAfterTrusted, SetMarkerTrusted, ExpireTrusted, GatherTrusted,
     GatherPendingDeployMarkersTrusted, PersistSnapshotTrusted DEF RestartNext

LEMMA RestartStutters == ASSUME TrustInv, UNCHANGED restartVars PROVE TrustInv'
  <1>1. UNCHANGED <<procVars, baseline, reported, seen, epoch, sentinel, markers, deploy>>
    BY DEF restartVars, procVars
  <1>2. ScriptKept(deploy)' /\ deploy' \in Scripts
    BY <1>1, StillIsSteady, SteadyDeploy DEF TrustInv, Records
  <1> QED
    BY <1>1, <1>2, ScriptMoves

-------------------------------------------------------------------------------
(* The findings, from anomaly to report                                    *)

Severe == {"P0", "P1", "P2", "P3"}

\* The ranks of the severities.
LEMMA Ranks == /\ Rank("P0") = 1 /\ Rank("P1") = 2 /\ Rank("P2") = 3 /\ Rank("P3") = 4
               /\ \A s \in Severe : Rank(s) \in 1..4 /\ Severities[Rank(s)] = s
               /\ \A i \in 1..4 : Severities[i] \in Severe /\ Rank(Severities[i]) = i
  <1>1. DOMAIN Severities = 1..4 /\ Severities[1] = "P0" /\ Severities[2] = "P1" /\ Severities[3] = "P2" /\ Severities[4] = "P3"
    BY DEF Severities
  <1>2. ASSUME NEW i \in 1..4 PROVE Rank(Severities[i]) = i /\ Severities[i] \in Severe
    <2>1. \A j \in 1..4 : Severities[j] = Severities[i] => j = i
      BY <1>1
    <2>2. Rank(Severities[i]) \in 1..4 /\ Severities[Rank(Severities[i])] = Severities[i]
      BY <1>1 DEF Rank
    <2>3. i = 1 \/ i = 2 \/ i = 3 \/ i = 4
      OBVIOUS
    <2> QED
      BY <1>1, <2>1, <2>2, <2>3 DEF Severe
  <1>3. Rank(Severities[1]) = 1 /\ Rank(Severities[2]) = 2 /\ Rank(Severities[3]) = 3 /\ Rank(Severities[4]) = 4
    BY <1>2
  <1>4. Rank("P0") = 1 /\ Rank("P1") = 2 /\ Rank("P2") = 3 /\ Rank("P3") = 4
    BY <1>1, <1>3
  <1> QED
    BY <1>1, <1>2, <1>4 DEF Severe

\* What a snapshot can hold: anomalies of the checks, and findings that are tracked.
IsFound(a) == Fingerprint(a) \in Fingerprints /\ a.severity \in Severe
Announced(f) == f \in paged \cup missed \/ GrewUrgent(f)
PagedInv ==
  /\ \A f \in prev : Announced(f)
  /\ snapshot # {None} => \A a \in snapshot : Fingerprint(a) \in prev

\* Every fingerprint of what a run of the sentinel saw has been announced, or is not urgent.
LEMMA SentinelPages == ASSUME PagedInv, RunSystemSentinel PROVE PagedInv'
  <1> DEFINE Sees(observed, urgent, present, named, told, published) ==
        /\ Cardinality(named) = IF Cardinality(urgent) < PageLimit THEN Cardinality(urgent) ELSE PageLimit
        /\ IF told /\ published THEN NoSlip ELSE Slip /\ (told \/ urgent # {})
        /\ IF published
           THEN /\ snapshot' = observed /\ prev' = present
                /\ paged' = (paged \cap present) \cup (IF told THEN named ELSE {})
                /\ missed' = (missed \cap present) \cup (IF told THEN urgent \ named ELSE urgent)
           ELSE /\ paged' = (IF told THEN paged \cup named ELSE paged)
                /\ UNCHANGED <<snapshot, prev, missed>>
  <1>a. PICK wrong \in SUBSET Anomalies : \E observed \in {wrong \cup Tracked} :
          \E urgent \in {{Fingerprint(a) : a \in {b \in Fresh(observed) : Urgent(b)}}}, present \in {{Fingerprint(a) : a \in observed}} :
          \E named \in SUBSET urgent, told, published \in BOOLEAN : Sees(observed, urgent, present, named, told, published)
    BY Zenon DEF RunSystemSentinel
  <1>b. PICK observed \in {wrong \cup Tracked} :
          \E urgent \in {{Fingerprint(a) : a \in {b \in Fresh(observed) : Urgent(b)}}}, present \in {{Fingerprint(a) : a \in observed}} :
          \E named \in SUBSET urgent, told, published \in BOOLEAN : Sees(observed, urgent, present, named, told, published)
    BY <1>a, Zenon
  <1>c. PICK urgent \in {{Fingerprint(a) : a \in {b \in Fresh(observed) : Urgent(b)}}}, present \in {{Fingerprint(a) : a \in observed}} :
          \E named \in SUBSET urgent, told, published \in BOOLEAN : Sees(observed, urgent, present, named, told, published)
    BY <1>b, Zenon
  <1>d. PICK named \in SUBSET urgent, told, published \in BOOLEAN : Sees(observed, urgent, present, named, told, published)
    BY <1>c, Zenon
  <1>1. /\ observed = wrong \cup Tracked /\ urgent = {Fingerprint(a) : a \in {b \in Fresh(observed) : Urgent(b)}}
        /\ present = {Fingerprint(a) : a \in observed} /\ named \in SUBSET urgent
    BY <1>b, <1>c, <1>d
  <1>2. CASE ~published
    <2>1. UNCHANGED <<snapshot, prev, missed>> /\ paged \subseteq paged'
      BY <1>d, <1>2
    <2> QED
      BY <2>1 DEF PagedInv, Announced, GrewUrgent
  <1>3. CASE published
    <2>1. snapshot' = observed /\ prev' = present /\ (paged \cap present) \cup (missed \cap present) \subseteq paged' \cup missed'
      BY <1>d, <1>3
    <2>2. urgent \subseteq paged' \cup missed'
      BY <1>1, <1>d, <1>3
    <2>3. ASSUME NEW f \in prev' PROVE Announced(f)'
      <3>1. PICK a \in observed : f = Fingerprint(a)
        BY <2>1, <2>3, <1>1
      <3>2. CASE f \in prev
        BY <3>2, <2>1, <2>3 DEF PagedInv, Announced, GrewUrgent
      <3>3. CASE f \notin prev /\ Urgent(a)
        <4>1. f \in urgent
          BY <3>1, <3>3, <1>1 DEF Fresh
        <4> QED
          BY <4>1, <2>2 DEF Announced
      <3>4. CASE ~Urgent(a)
        <4>1. a \notin Tracked
          BY <3>4 DEF Tracked
        <4>2. a \in Anomalies
          BY <4>1, <3>1, <1>1
        <4> QED
          BY <4>2, <3>1, <3>4 DEF Announced, GrewUrgent
      <3> QED
        BY <3>2, <3>3, <3>4
    <2>4. \A a \in snapshot' : Fingerprint(a) \in prev'
      BY <2>1, <1>1
    <2> QED
      BY <2>3, <2>4 DEF PagedInv
  <1> QED
    BY <1>2, <1>3

LEMMA PagedStill == ASSUME PagedInv, UNCHANGED <<prev, paged, missed>>, snapshot' \in {snapshot, {None}} PROVE PagedInv'
  BY DEF PagedInv, Announced, GrewUrgent

LEMMA LoopNextPaged == ASSUME PagedInv, [LoopNext]_loopVars PROVE PagedInv'
  <1>1. CASE RunSystemSentinel
    BY <1>1, SentinelPages
  <1>2. CASE SkipSentinel \/ CrossWatch \/ EditFinding \/ Pull \/ NextDate \/ UNCHANGED loopVars \/ \E k \in Kinds : LockExpires(k)
    BY <1>2, PagedStill DEF SkipSentinel, CrossWatch, EditFinding, Pull, NextDate, LockExpires, loopVars, eveningVars
  <1>3. ASSUME NEW r \in Runners, Leased(r) PROVE PagedInv'
    <2>1. UNCHANGED eveningVars
      BY <1>3 DEF Leased, ReadSuccess, TakeLock, CountAttempt, Killed, Finish, ReadSnapshot, UpsertFindings, Classify,
                  Research, Skeptic, WriteArtifacts
    <2> QED
      BY <2>1, PagedStill DEF eveningVars
  <1> QED
    BY <1>1, <1>2, <1>3 DEF LoopNext

LEMMA PagedIsPaged == PagedInv => UrgentIsPaged
  BY DEF PagedInv, UrgentIsPaged, Announced

Entries == [status : {"none", "open", "fixed", "regressed", "ack"}, severity : Severe]
RunParts == {"pc", "kind", "read", "new", "held", "verdicts"}

\* What a run read is on record, at its severity or a higher one unless lowered since.
OnRecord(r, a) == IsFound(a) /\ InLedger(r, a)
RunIsSound(r, w) ==
  /\ DOMAIN w = RunParts
  /\ w.pc = "merge" => \A a \in w.read : IsFound(a)
  /\ w.pc \in {"classify", "complete"} /\ w.kind = "triage" => \A a \in w.read : OnRecord(r, a)
  /\ w.pc \in {"gather", "skeptic", "write"} => w.kind # "triage"
SightsInv == /\ snapshot # {None} => \A a \in snapshot : IsFound(a)
             /\ \A g \in checkout : IsFound(g.of)
WorkInv ==
  /\ ledger \in [Fingerprints -> Entries] /\ DOMAIN success = Kinds /\ DOMAIN run = Runners
  /\ SightsInv /\ \A r \in Runners : RunIsSound(r, run[r])

LEMMA WorkStarts == ASSUME LoopInit PROVE WorkInv
  <1>1. NoFinding \in Entries
    BY DEF NoFinding, Entries, Severe
  <1>2. \A r \in Runners : RunIsSound(r, Rest)
    BY DEF Rest, RunIsSound, RunParts
  <1> QED
    BY <1>1, <1>2 DEF LoopInit, WorkInv, SightsInv

LEMMA SeverityRanks == \A s \in Severe : Rank(s) \in 1..4
  BY Ranks

\* What is on record for a run stays so when an entry stays, and is lowered with notice or not at all.
LEMMA RiseIsSound ==
  ASSUME ledger \in [Fingerprints -> Entries], ledger' \in [Fingerprints -> Entries], NEW r, NEW w, RunIsSound(r, w),
         \A f \in Fingerprints : ledger[f].status # "none" => ledger'[f].status # "none",
         w.pc \in {"classify", "complete"} /\ w.kind = "triage" =>
           \A f \in Fingerprints : /\ <<r, f>> \in lowered => <<r, f>> \in lowered'
                                   /\ \/ <<r, f>> \in lowered' \/ ledger[f].status = "none"
                                      \/ Rank(ledger'[f].severity) <= Rank(ledger[f].severity)
  PROVE  RunIsSound(r, w)'
  <1>1. ASSUME NEW a \in w.read, w.pc \in {"classify", "complete"}, w.kind = "triage" PROVE OnRecord(r, a)'
    <2>0. OnRecord(r, a)
      BY <1>1 DEF RunIsSound
    <2>1. Fingerprint(a) \in Fingerprints /\ a.severity \in Severe
      BY <2>0 DEF OnRecord, IsFound
    <2>2. ledger[Fingerprint(a)].severity \in Severe /\ ledger'[Fingerprint(a)].severity \in Severe
      BY <2>1 DEF Entries
    <2>3. /\ Rank(a.severity) \in Int /\ Rank(ledger[Fingerprint(a)].severity) \in Int
          /\ Rank(ledger'[Fingerprint(a)].severity) \in Int
      BY <2>1, <2>2, SeverityRanks
    <2> QED
      BY <1>1, <2>0, <2>1, <2>3 DEF OnRecord, InLedger, IsFound
  <1> QED
    BY <1>1 DEF RunIsSound, IsFound

\* A run moves, the ledger and what was seen stay as they are.
LEMMA RunMoves ==
  ASSUME WorkInv, NEW r \in Runners, NEW v, run' = [run EXCEPT ![r] = v], RunIsSound(r, v),
         UNCHANGED <<snapshot, checkout, ledger, lowered>>, DOMAIN success' = Kinds
  PROVE  WorkInv'
  <1>1. DOMAIN run' = Runners /\ run'[r] = v /\ \A q \in Runners : q # r => run'[q] = run[q]
    BY DEF WorkInv
  <1>2. RunIsSound(r, v)'
    BY DEF RunIsSound, OnRecord, InLedger, IsFound
  <1>3. ASSUME NEW q \in Runners PROVE RunIsSound(q, run[q])'
    <2>1. CASE q = r
      BY <2>1, <1>1, <1>2 DEF RunIsSound, OnRecord, InLedger, IsFound
    <2>2. CASE q # r
      BY <2>2, <1>1 DEF WorkInv, RunIsSound, OnRecord, InLedger, IsFound
    <2> QED
      BY <2>1, <2>2
  <1> QED
    BY <1>1, <1>3 DEF WorkInv, SightsInv, IsFound

\* A run goes on to a later step, or ends.
LEMMA RunGoes ==
  ASSUME WorkInv, NEW r \in Runners, NEW pc,
         \/ pc \notin {"merge", "classify", "complete", "gather", "skeptic", "write"}
         \/ run[r].pc = "classify" /\ pc = "complete"
         \/ run[r].pc \in {"gather", "skeptic", "write"} /\ pc \in {"skeptic", "write", "complete"}
         \/ pc = "gather" /\ run[r].kind # "triage"
  PROVE  RunIsSound(r, [run[r] EXCEPT !.pc = pc])
  <1> DEFINE v == [run[r] EXCEPT !.pc = pc]
  <1>1. RunIsSound(r, run[r])
    BY DEF WorkInv
  <1>2. DOMAIN v = RunParts /\ v.pc = pc /\ v.kind = run[r].kind /\ v.read = run[r].read
    BY <1>1 DEF RunIsSound, RunParts
  <1> HIDE DEF v
  <1>3. RunIsSound(r, v)
    BY <1>1, <1>2 DEF RunIsSound
  <1> QED
    BY <1>3 DEF v

LEMMA RestIsSound == ASSUME NEW r PROVE RunIsSound(r, Rest)
  BY DEF Rest, RunIsSound, RunParts

\* The severest of what was found comes first.
LEMMA FirstIsSeverest ==
  ASSUME NEW found, found # {}, \A a \in found : a.severity \in Severe
  PROVE  First(found) \in found /\ \A b \in found : Rank(First(found).severity) <= Rank(b.severity)
  <1> DEFINE Least(a) == \A b \in found : Rank(a.severity) <= Rank(b.severity)
  <1>1. \A a \in found : Rank(a.severity) \in 1..4
    BY SeverityRanks
  <1>2. \E a \in found : Least(a)
    <2>1. CASE \E a \in found : Rank(a.severity) = 1
      BY <2>1, <1>1
    <2>2. CASE (\A a \in found : Rank(a.severity) # 1) /\ \E a \in found : Rank(a.severity) = 2
      BY <2>2, <1>1
    <2>3. CASE (\A a \in found : Rank(a.severity) \notin {1, 2}) /\ \E a \in found : Rank(a.severity) = 3
      BY <2>3, <1>1
    <2>4. CASE \A a \in found : Rank(a.severity) \notin {1, 2, 3}
      <3>1. \A a \in found : Rank(a.severity) = 4
        BY <2>4, <1>1
      <3> QED
        BY <3>1
    <2> QED
      BY <2>1, <2>2, <2>3, <2>4
  <1> QED
    BY <1>2 DEF First

LEMMA BumpRises == ASSUME NEW s \in Severe PROVE BumpSeverity(s) \in Severe /\ Rank(BumpSeverity(s)) <= Rank(s)
  <1>1. CASE s = "P0"
    BY <1>1, SeverityRanks DEF BumpSeverity
  <1>2. CASE s # "P0"
    <2>1. Rank(s) - 1 \in 1..4
      BY <1>2, Ranks DEF Severe
    <2> QED
      BY <2>1, <1>2, Ranks DEF BumpSeverity
  <1> QED
    BY <1>1, <1>2

LEMMA SevererIs ==
  ASSUME NEW s \in Severe, NEW t \in Severe
  PROVE  Severer(s, t) \in Severe /\ Rank(Severer(s, t)) <= Rank(s) /\ Rank(Severer(s, t)) <= Rank(t)
  BY SeverityRanks DEF Severer

\* What is merged is on record, and no entry is lost or lowered.
LEMMA MergedIsOnRecord ==
  ASSUME NEW f \in Entries, NEW found, \A a \in found : a.severity \in Severe
  PROVE  /\ Merged(f, found) \in Entries
         /\ f.status # "none" => Merged(f, found).status # "none" /\ Rank(Merged(f, found).severity) <= Rank(f.severity)
         /\ \A a \in found : Merged(f, found).status # "none" /\ Rank(Merged(f, found).severity) <= Rank(a.severity)
  <1> DEFINE severity == First(found).severity
             worse == Severer(severity, f.severity)
  <1>0. f.severity \in Severe /\ Rank(f.severity) \in Int
    BY SeverityRanks DEF Entries
  <1>1. CASE found = {}
    BY <1>1, <1>0 DEF Merged
  <1>2. CASE found # {}
    <2>1. severity \in Severe /\ \A a \in found : Rank(severity) <= Rank(a.severity)
      BY <1>2, FirstIsSeverest
    <2>2. \A a \in found : Rank(a.severity) \in Int
      BY SeverityRanks
    <2>3. worse \in Severe /\ Rank(worse) <= Rank(severity) /\ Rank(worse) <= Rank(f.severity)
      BY <2>1, <1>0, SevererIs
    <2>4. Rank(worse) \in Int /\ Rank(severity) \in Int
      BY <2>1, <2>3, SeverityRanks
    <2>5. \A a \in found : Rank(worse) <= Rank(a.severity)
      BY <2>1, <2>2, <2>3, <2>4
    <2>6. CASE f.status = "none"
      <3>1. Merged(f, found) = [status |-> "open", severity |-> severity]
        BY <2>6, <1>2 DEF Merged
      <3> QED
        BY <3>1, <2>1, <2>6 DEF Entries
    <2>7. CASE f.status = "fixed"
      <3>1. Merged(f, found) = [f EXCEPT !.status = "regressed", !.severity = BumpSeverity(worse)]
        BY <2>7, <1>2 DEF Merged
      <3>2. BumpSeverity(worse) \in Severe /\ Rank(BumpSeverity(worse)) <= Rank(worse) /\ Rank(BumpSeverity(worse)) \in Int
        BY <2>3, BumpRises, SeverityRanks
      <3>3. Merged(f, found) \in Entries /\ Merged(f, found).status = "regressed" /\ Merged(f, found).severity = BumpSeverity(worse)
        BY <3>1, <3>2 DEF Entries
      <3> HIDE DEF severity, worse
      <3> QED
        BY <3>2, <3>3, <2>2, <2>3, <2>4, <2>5, <1>0
    <2>8. CASE f.status \notin {"none", "fixed"}
      <3>1. Merged(f, found) = [f EXCEPT !.severity = worse]
        BY <2>8, <1>2 DEF Merged
      <3>2. Merged(f, found) \in Entries /\ Merged(f, found).status = f.status /\ Merged(f, found).severity = worse
        BY <3>1, <2>3 DEF Entries
      <3> HIDE DEF severity, worse
      <3> QED
        BY <3>2, <2>3, <2>5, <2>8
    <2> QED
      BY <2>6, <2>7, <2>8
  <1> QED
    BY <1>1, <1>2

LEMMA UpsertIsSound == ASSUME WorkInv, NEW r \in Runners, UpsertFindings(r) PROVE WorkInv'
  <1> DEFINE of(f) == {a \in run[r].read : Fingerprint(a) = f}
  <1>1. /\ run[r].pc = "merge" /\ UNCHANGED <<snapshot, checkout, success>>
        /\ \E S \in SUBSET Fingerprints : Merge(r, S)
    BY DEF UpsertFindings, eveningVars, leaseVars
  <1>2. PICK S \in SUBSET Fingerprints : Merge(r, S)
    BY <1>1
  <1>3. RunIsSound(r, run[r]) /\ (\A a \in run[r].read : IsFound(a)) /\ DOMAIN run = Runners
    BY <1>1 DEF WorkInv, RunIsSound
  <1>4. /\ ledger' = [f \in Fingerprints |-> IF f \in S THEN Merged(ledger[f], of(f)) ELSE ledger[f]]
        /\ lowered' = {l \in lowered : l[1] # r}
        /\ \/ run' = [run EXCEPT ![r] = Rest]
           \/ /\ S = Fingerprints
              /\ \E pc \in {"classify", "complete"} : \E new : run' = [run EXCEPT ![r] = [run[r] EXCEPT !.pc = pc, !.new = new]]
    <2> DEFINE new == {f \in {g \in S : of(g) # {}} : ledger[f].status \in {"none", "fixed"}}
    <2>1. /\ ledger' = [f \in Fingerprints |-> IF f \in S THEN Merged(ledger[f], of(f)) ELSE ledger[f]]
          /\ lowered' = {l \in lowered : l[1] # r}
      BY <1>2 DEF Merge
    <2>2. run' = [run EXCEPT ![r] = IF S # Fingerprints THEN Rest
                  ELSE [run[r] EXCEPT !.pc = IF new = {} THEN "complete" ELSE "classify", !.new = new]]
      BY <1>2, Zenon DEF Merge
    <2> HIDE DEF new
    <2> QED BY <2>1, <2>2
  <1>5. ASSUME NEW f \in Fingerprints
        PROVE  /\ ledger'[f] \in Entries
               /\ ledger[f].status # "none" => ledger'[f].status # "none" /\ Rank(ledger'[f].severity) <= Rank(ledger[f].severity)
               /\ f \in S => \A a \in of(f) : ledger'[f].status # "none" /\ Rank(ledger'[f].severity) <= Rank(a.severity)
    <2>1. ledger[f] \in Entries /\ \A a \in of(f) : a.severity \in Severe
      BY <1>3 DEF WorkInv, IsFound
    <2>2. ledger'[f] = (IF f \in S THEN Merged(ledger[f], of(f)) ELSE ledger[f])
      BY <1>4
    <2>3. ledger[f].severity \in Severe /\ Rank(ledger[f].severity) \in Int
      BY <2>1, SeverityRanks DEF Entries
    <2> HIDE DEF of
    <2> QED
      BY <2>1, <2>2, <2>3, MergedIsOnRecord
  <1>6. ledger' \in [Fingerprints -> Entries]
    BY <1>4, <1>5
  <1>7. ASSUME NEW q \in Runners, q # r PROVE RunIsSound(q, run[q])'
    <2>1. PICK w : w = run[q]
      OBVIOUS
    <2>2. RunIsSound(q, w) /\ run'[q] = w
      BY <1>4, <1>7, <2>1 DEF WorkInv
    <2>3. \A f \in Fingerprints : <<q, f>> \in lowered => <<q, f>> \in lowered'
      BY <1>4, <1>7
    <2>4. RunIsSound(q, w)'
      BY <1>5, <1>6, <2>2, <2>3, RiseIsSound DEF WorkInv
    <2> QED
      BY <2>2, <2>4 DEF RunIsSound
  <1>8. RunIsSound(r, run[r])'
    <2>1. CASE run' = [run EXCEPT ![r] = Rest]
      BY <1>3, <2>1 DEF RunIsSound, Rest, RunParts
    <2>2. ASSUME S = Fingerprints, NEW pc \in {"classify", "complete"}, NEW new,
                 run' = [run EXCEPT ![r] = [run[r] EXCEPT !.pc = pc, !.new = new]]
          PROVE  RunIsSound(r, run[r])'
      <3>1. ASSUME NEW a \in run[r].read PROVE OnRecord(r, a)'
        <4>1. Fingerprint(a) \in Fingerprints /\ a \in of(Fingerprint(a)) /\ IsFound(a)
          BY <1>3 DEF IsFound
        <4> QED
          BY <4>1, <1>5, <2>2 DEF OnRecord, InLedger, IsFound
      <3>2. run'[r] = [run[r] EXCEPT !.pc = pc, !.new = new]
        BY <1>3, <2>2
      <3>3. DOMAIN run'[r] = RunParts /\ run'[r].pc = pc /\ run'[r].read = run[r].read
        BY <1>3, <3>2 DEF RunIsSound, RunParts
      <3> QED
        BY <3>1, <3>3 DEF RunIsSound
    <2> QED
      BY <1>4, <2>1, <2>2
  <1>9. DOMAIN run' = Runners
    BY <1>3, <1>4
  <1> QED
    BY <1>1, <1>6, <1>7, <1>8, <1>9 DEF WorkInv, SightsInv, IsFound

\* An edit that makes a finding less severe gives notice to every run that has merged.
LEMMA EditIsSound == ASSUME WorkInv, EditFinding PROVE WorkInv'
  <1>1. PICK f \in Fingerprints, st \in {"open", "ack", "fixed"}, v \in {"P0", "P1", "P2", "P3"} :
          /\ ledger' = [ledger EXCEPT ![f] = [status |-> st, severity |-> v]]
          /\ lowered' = IF Rank(v) > Rank(ledger[f].severity) THEN lowered \cup (Done \X {f}) ELSE lowered
    BY DEF EditFinding
  <1>2. UNCHANGED <<snapshot, checkout, success, run>>
    BY DEF EditFinding, eveningVars, leaseVars
  <1>3. /\ ledger' \in [Fingerprints -> Entries] /\ ledger'[f] = [status |-> st, severity |-> v]
        /\ \A g \in Fingerprints : g # f => ledger'[g] = ledger[g]
    BY <1>1 DEF WorkInv, Entries, Severe
  <1>4. \A g \in Fingerprints : ledger[g].status # "none" => ledger'[g].status # "none"
    BY <1>3
  <1>5. lowered \subseteq lowered'
    BY <1>1
  <1>6. Rank(v) \in Int /\ \A g \in Fingerprints : Rank(ledger[g].severity) \in Int
    BY SeverityRanks DEF WorkInv, Entries, Severe
  <1>7. ASSUME NEW q \in Runners PROVE RunIsSound(q, run[q])'
    <2>1. PICK w : w = run[q]
      OBVIOUS
    <2>2. RunIsSound(q, w)
      BY <2>1 DEF WorkInv
    <2>3. ASSUME w.pc \in {"classify", "complete"}, w.kind = "triage", NEW g \in Fingerprints
          PROVE  <<q, g>> \in lowered' \/ Rank(ledger'[g].severity) <= Rank(ledger[g].severity)
      <3>1. q \in Done
        BY <2>1, <2>3 DEF Done
      <3>2. CASE g = f
        <4>1. CASE Rank(v) > Rank(ledger[f].severity)
          BY <1>1, <3>1, <3>2, <4>1
        <4> QED
          BY <1>3, <1>6, <3>2, <4>1
      <3> QED
        BY <1>3, <1>6, <3>2
    <2>4. RunIsSound(q, w)'
      BY <1>3, <1>4, <1>5, <2>2, <2>3, RiseIsSound DEF WorkInv
    <2> QED
      BY <1>2, <2>1, <2>4 DEF RunIsSound
  <1> QED
    BY <1>2, <1>3, <1>7 DEF WorkInv, SightsInv, IsFound

\* What is tracked is an entry of the ledger, with its own fingerprint.
LEMMA PullIsSound == ASSUME WorkInv, Pull PROVE WorkInv'
  <1>1. UNCHANGED <<snapshot, ledger, success, run, lowered>> /\ checkout' = OpenFindingsSummary
    BY DEF Pull, eveningVars, leaseVars, workVars
  <1>2. ASSUME NEW g \in checkout' PROVE IsFound(g.of)
    <2>1. PICK f \in Fingerprints :
            g = [of |-> [check |-> f[1], severity |-> ledger[f].severity, seed |-> f[2]], status |-> ledger[f].status]
      BY <1>1, <1>2 DEF OpenFindingsSummary
    <2>2. PICK a \in Anomalies : f = <<a.check, a.seed>>
      BY DEF Fingerprints, Fingerprint
    <2>3. Fingerprint(g.of) = <<f[1], f[2]>> /\ g.of.severity = ledger[f].severity
      BY <2>1 DEF Fingerprint
    <2>4. <<f[1], f[2]>> = f
      BY <2>2
    <2> QED
      BY <2>3, <2>4 DEF IsFound, WorkInv, Entries
  <1>3. \A q \in Runners : RunIsSound(q, run[q])'
    BY <1>1 DEF WorkInv, RunIsSound, OnRecord, InLedger, IsFound
  <1> QED
    BY <1>1, <1>2, <1>3 DEF WorkInv, SightsInv, IsFound

\* What the checks raise and what is tracked can be found in the ledger.
LEMMA ObservedIsFound == ASSUME WorkInv, NEW a \in Anomalies \cup Tracked PROVE IsFound(a)
  <1>1. CASE a \in Anomalies
    BY <1>1, AnomaliesAssumption DEF IsFound, Fingerprints, Severe
  <1>2. CASE a \in Tracked
    BY <1>2 DEF Tracked, WorkInv, SightsInv
  <1> QED
    BY <1>1, <1>2

LEMMA SentinelIsSound == ASSUME WorkInv, RunSystemSentinel PROVE WorkInv'
  <1>1. UNCHANGED <<ledger, checkout, success, run, lowered>>
    BY DEF RunSystemSentinel, leaseVars, workVars
  <1>2. snapshot' = snapshot \/ \E wrong \in SUBSET Anomalies : snapshot' = wrong \cup Tracked
    <2> DEFINE Sees(observed, urgent, present, named, told, published) ==
        /\ Cardinality(named) = IF Cardinality(urgent) < PageLimit THEN Cardinality(urgent) ELSE PageLimit
        /\ IF told /\ published THEN NoSlip ELSE Slip /\ (told \/ urgent # {})
        /\ IF published
           THEN /\ snapshot' = observed /\ prev' = present
                /\ paged' = (paged \cap present) \cup (IF told THEN named ELSE {})
                /\ missed' = (missed \cap present) \cup (IF told THEN urgent \ named ELSE urgent)
           ELSE /\ paged' = (IF told THEN paged \cup named ELSE paged)
                /\ UNCHANGED <<snapshot, prev, missed>>
    <2>1. PICK wrong \in SUBSET Anomalies : \E observed \in {wrong \cup Tracked} :
          \E urgent \in {{Fingerprint(a) : a \in {b \in Fresh(observed) : Urgent(b)}}}, present \in {{Fingerprint(a) : a \in observed}} :
          \E named \in SUBSET urgent, told, published \in BOOLEAN : Sees(observed, urgent, present, named, told, published)
      BY Zenon DEF RunSystemSentinel
    <2>2. PICK urgent, present, named, told, published :
            Sees(wrong \cup Tracked, urgent, present, named, told, published)
      <3> HIDE DEF Sees
      <3>1. PICK observed \in {wrong \cup Tracked} :
            \E urgent, present, named, told, published : Sees(observed, urgent, present, named, told, published)
        BY <2>1, Zenon
      <3>2. observed = wrong \cup Tracked
        BY <3>1
      <3> QED
        BY <3>1, <3>2, Zenon
    <2>3. snapshot' = wrong \cup Tracked \/ snapshot' = snapshot
      BY <2>2
    <2> QED
      BY <2>3
  <1>3. snapshot' # {None} => \A a \in snapshot' : IsFound(a)
    <2>1. CASE snapshot' = snapshot
      BY <2>1 DEF WorkInv, SightsInv
    <2>2. CASE \E wrong \in SUBSET Anomalies : snapshot' = wrong \cup Tracked
      BY <2>2, ObservedIsFound
    <2> QED
      BY <1>2, <2>1, <2>2
  <1>4. \A q \in Runners : RunIsSound(q, run[q])'
    BY <1>1 DEF WorkInv, RunIsSound, OnRecord, InLedger, IsFound
  <1> QED
    BY <1>1, <1>3, <1>4 DEF WorkInv, SightsInv, IsFound

\* A step that moves no run.
LEMMA WorkStill ==
  ASSUME WorkInv, UNCHANGED <<ledger, checkout, run>>, snapshot' \in {snapshot, {None}}, DOMAIN success' = Kinds,
         lowered' = lowered \/ \A r \in Runners : run[r].pc = "idle"
  PROVE  WorkInv'
  <1>1. \A q \in Runners : RunIsSound(q, run[q])'
    BY DEF WorkInv, RunIsSound, OnRecord, InLedger, IsFound
  <1> QED
    BY <1>1 DEF WorkInv, SightsInv, IsFound

LEMMA SnapshotIsRead == ASSUME WorkInv, NEW r \in Runners, ReadSnapshot(r) PROVE WorkInv'
  <1>1. UNCHANGED <<snapshot, checkout, ledger, success, lowered>> /\ run[r].pc = "read"
    BY DEF ReadSnapshot, eveningVars, leaseVars, workVars
  <1>2. CASE run' = [run EXCEPT ![r].pc = "abandon"]
    BY <1>1, <1>2, RunGoes, RunMoves DEF WorkInv
  <1>3. CASE snapshot # {None} /\ run' = [run EXCEPT ![r].pc = "merge", ![r].read = snapshot]
    <2> DEFINE v == [run[r] EXCEPT !.pc = "merge", !.read = snapshot]
    <2>1. run' = [run EXCEPT ![r] = v]
      BY <1>3
    <2>2. DOMAIN v = RunParts /\ v.pc = "merge" /\ v.read = snapshot
      BY DEF WorkInv, RunIsSound, RunParts
    <2> HIDE DEF v
    <2>3. RunIsSound(r, v)
      BY <2>2, <1>3 DEF WorkInv, SightsInv, RunIsSound
    <2> QED
      BY <1>1, <2>1, <2>3, RunMoves DEF WorkInv
  <1> QED
    BY <1>2, <1>3 DEF ReadSnapshot, Goes

\* A leased run that starts, moves on or ends, without the ledger.
LEMMA LeasedIsSound ==
  ASSUME WorkInv, NEW r \in Runners, Leased(r) PROVE WorkInv'
  <1>0. RunIsSound(r, run[r]) /\ DOMAIN run = Runners /\ DOMAIN success = Kinds
    BY DEF WorkInv
  <1>1. CASE ReadSuccess(r)
    <2>1. PICK k \in Kinds : run' = [run EXCEPT ![r] = [Rest EXCEPT !.pc = "lock", !.kind = k]]
      BY <1>1 DEF ReadSuccess
    <2>2. RunIsSound(r, [Rest EXCEPT !.pc = "lock", !.kind = k])
      <3> DEFINE v == [Rest EXCEPT !.pc = "lock", !.kind = k]
      <3>1. DOMAIN v = RunParts /\ v.pc = "lock"
        BY DEF Rest, RunParts
      <3> HIDE DEF v
      <3>2. RunIsSound(r, v)
        BY <3>1 DEF RunIsSound
      <3> QED
        BY <3>2 DEF v
    <2> QED
      BY <1>0, <1>1, <2>1, <2>2, RunMoves DEF ReadSuccess, eveningVars, leaseVars, workVars
  <1>2. CASE TakeLock(r)
    <2>1. CASE run' = [run EXCEPT ![r] = Rest]
      BY <1>0, <1>2, <2>1, RestIsSound, RunMoves DEF TakeLock, eveningVars, workVars
    <2>2. CASE run' = [run EXCEPT ![r].pc = "cap", ![r].held = TRUE]
      <3> DEFINE v == [run[r] EXCEPT !.pc = "cap", !.held = TRUE]
      <3>1. run' = [run EXCEPT ![r] = v]
        BY <2>2
      <3>2. DOMAIN v = RunParts /\ v.pc = "cap"
        BY <1>0 DEF RunIsSound, RunParts
      <3> HIDE DEF v
      <3>3. RunIsSound(r, v)
        BY <3>2 DEF RunIsSound
      <3> QED
        BY <1>0, <1>2, <3>1, <3>3, RunMoves DEF TakeLock, eveningVars, workVars
    <2> QED
      BY <1>2, <2>1, <2>2 DEF TakeLock, Ends
  <1>3. CASE CountAttempt(r)
    <2>1. UNCHANGED <<snapshot, checkout, ledger, success, lowered>>
      BY <1>3 DEF CountAttempt, eveningVars, workVars
    <2>2. CASE run' = [run EXCEPT ![r] = Rest]
      BY <1>0, <2>1, <2>2, RestIsSound, RunMoves
    <2>3. CASE run' = [run EXCEPT ![r].pc = "read"]
      BY <1>0, <2>1, <2>3, RunGoes, RunMoves
    <2>4. CASE run[r].kind # "triage" /\ run' = [run EXCEPT ![r].pc = "gather"]
      BY <1>0, <2>1, <2>4, RunGoes, RunMoves
    <2> QED
      BY <1>3, <2>2, <2>3, <2>4 DEF CountAttempt, Ends, Goes
  <1>4. CASE Killed(r)
    BY <1>0, <1>4, RestIsSound, RunMoves DEF Killed, Ends, eveningVars, leaseVars, workVars
  <1>5. CASE Finish(r)
    <2>1. UNCHANGED <<snapshot, checkout, ledger, lowered>> /\ run' = [run EXCEPT ![r] = Rest]
      BY <1>5 DEF Finish, Ends, eveningVars, workVars
    <2>2. DOMAIN success' = Kinds
      BY <1>0, <1>5 DEF Finish, CompleteRunLease
    <2> QED
      BY <2>1, <2>2, RestIsSound, RunMoves
  <1>6. CASE ReadSnapshot(r)
    BY <1>6, SnapshotIsRead
  <1>7. CASE UpsertFindings(r)
    BY <1>7, UpsertIsSound
  <1>8. CASE Classify(r)
    <2>1. UNCHANGED <<snapshot, checkout, ledger, success, lowered>> /\ run[r].pc = "classify"
      BY <1>8 DEF Classify, eveningVars, leaseVars
    <2>2. CASE run' = [run EXCEPT ![r].pc = "complete"]
      BY <1>0, <2>1, <2>2, RunGoes, RunMoves
    <2>3. CASE run' = [run EXCEPT ![r].pc = "abandon"]
      BY <1>0, <2>1, <2>3, RunGoes, RunMoves
    <2> QED
      BY <1>8, <2>2, <2>3 DEF Classify, Goes
  <1>9. CASE Research(r)
    <2>1. UNCHANGED <<snapshot, checkout, ledger, success, lowered>> /\ run[r].pc = "gather"
      BY <1>9 DEF Research, eveningVars, leaseVars, workVars
    <2>2. CASE run' = [run EXCEPT ![r].pc = "skeptic"]
      BY <1>0, <2>1, <2>2, RunGoes, RunMoves
    <2>3. CASE run' = [run EXCEPT ![r].pc = "complete"]
      BY <1>0, <2>1, <2>3, RunGoes, RunMoves
    <2>4. CASE run' = [run EXCEPT ![r].pc = "abandon"]
      BY <1>0, <2>1, <2>4, RunGoes, RunMoves
    <2> QED
      BY <1>9, <2>2, <2>3, <2>4 DEF Research, Goes
  <1>10. CASE Skeptic(r)
    <2>1. UNCHANGED <<snapshot, checkout, ledger, success, lowered>> /\ run[r].pc = "skeptic"
      BY <1>10 DEF Skeptic, eveningVars, leaseVars, workVars
    <2>2. PICK said \in {"kept", "REJECT"} : run' = [run EXCEPT ![r].pc = "write", ![r].verdicts = {said}]
      BY <1>10 DEF Skeptic
    <2> DEFINE v == [run[r] EXCEPT !.pc = "write", !.verdicts = {said}]
    <2>3. run' = [run EXCEPT ![r] = v]
      BY <2>2
    <2>4. DOMAIN v = RunParts /\ v.pc = "write" /\ v.kind = run[r].kind
      BY <1>0 DEF RunIsSound, RunParts
    <2> HIDE DEF v
    <2>5. RunIsSound(r, v)
      BY <2>1, <2>4, <1>0 DEF RunIsSound
    <2> QED
      BY <1>0, <2>1, <2>3, <2>5, RunMoves
  <1>11. CASE WriteArtifacts(r)
    BY <1>0, <1>11, RunGoes, RunMoves DEF WriteArtifacts, Goes, eveningVars, leaseVars, workVars
  <1> QED
    BY <1>1, <1>2, <1>3, <1>4, <1>5, <1>6, <1>7, <1>8, <1>9, <1>10, <1>11 DEF Leased

LEMMA LoopNextIsSound == ASSUME WorkInv, [LoopNext]_loopVars PROVE WorkInv'
  <1>1. DOMAIN success = Kinds
    BY DEF WorkInv
  <1>2. CASE SkipSentinel \/ CrossWatch \/ NextDate \/ UNCHANGED loopVars \/ \E k \in Kinds : LockExpires(k)
    BY <1>1, <1>2, WorkStill DEF SkipSentinel, CrossWatch, NextDate, LockExpires, loopVars, eveningVars, leaseVars, workVars
  <1> QED
    BY <1>2, SentinelIsSound, EditIsSound, PullIsSound, LeasedIsSound DEF LoopNext

-------------------------------------------------------------------------------
(* The attempts of a day at its triage                                     *)

\* A triage that has been counted, and what its findings still wait for.
Attempting(w) == w.kind = "triage" /\ w.pc \in {"read", "merge", "classify", "complete", "abandon"}
Waits(w, left) ==
  /\ w.pc \in {"read", "merge", "complete"} => left = {}
  /\ w.pc = "classify" => left \subseteq w.new
FirstAttempt == "triage" \in Kinds =>
  /\ attempts["triage"] = 0 => unanswered = {} /\ \A r \in Runners : ~ Attempting(run[r])
  /\ attempts["triage"] = 1 => /\ \A r, q \in Runners : Attempting(run[r]) /\ Attempting(run[q]) => r = q
                               /\ \A r \in Runners : Attempting(run[r]) => Waits(run[r], unanswered)
AttemptInv ==
  /\ attempts \in [Kinds -> Nat] /\ DOMAIN run = Runners /\ \A r \in Runners : DOMAIN run[r] = RunParts
  /\ \A r \in Runners : /\ run[r].pc # "idle" => run[r].kind \in Kinds
                        /\ run[r].pc \in {"read", "merge", "classify"} => run[r].kind = "triage"
  /\ FirstAttempt

\* A run that was counted goes on, or one that was not stays uncounted.
LEMMA AttemptMoves ==
  ASSUME AttemptInv, NEW r \in Runners, NEW w, run' = [run EXCEPT ![r] = w], attempts' = attempts,
         DOMAIN w = RunParts, w.pc # "idle" => w.kind \in Kinds,
         w.pc \in {"read", "merge", "classify"} => w.kind = "triage",
         Attempting(w) => Attempting(run[r]) /\ (Waits(run[r], unanswered) => Waits(w, unanswered')),
         unanswered' = unanswered \/ Attempting(run[r])
  PROVE  AttemptInv'
  <1>1. /\ DOMAIN run' = Runners /\ run'[r] = w /\ \A q \in Runners : q # r => run'[q] = run[q]
    BY DEF AttemptInv
  <1>2. FirstAttempt'
    <2>1. ASSUME "triage" \in Kinds, attempts["triage"] = 0
          PROVE  unanswered' = {} /\ \A q \in Runners : ~ Attempting(run'[q])
      <3>1. unanswered = {} /\ \A q \in Runners : ~ Attempting(run[q])
        BY <2>1 DEF AttemptInv, FirstAttempt
      <3>2. \A q \in Runners : ~ Attempting(run'[q])
        <4>1. ASSUME NEW q \in Runners PROVE ~ Attempting(run'[q])
          BY <1>1, <3>1
        <4> QED BY <4>1
      <3> QED BY <3>1, <3>2
    <2>2. ASSUME "triage" \in Kinds, attempts["triage"] = 1, NEW q \in Runners, Attempting(run'[q])
          PROVE  (\A p \in Runners : Attempting(run'[p]) => p = q) /\ Waits(run'[q], unanswered')
      <3>1. /\ \A p, t \in Runners : Attempting(run[p]) /\ Attempting(run[t]) => p = t
            /\ \A p \in Runners : Attempting(run[p]) => Waits(run[p], unanswered)
        BY <2>2 DEF AttemptInv, FirstAttempt
      <3>2. \A p \in Runners : Attempting(run'[p]) => Attempting(run[p])
        <4>1. ASSUME NEW p \in Runners, Attempting(run'[p]) PROVE Attempting(run[p])
          BY <1>1, <4>1
        <4> QED BY <4>1
      <3>3. Waits(run'[q], unanswered')
        <4>1. CASE q = r
          BY <1>1, <2>2, <3>1, <4>1
        <4>2. CASE q # r
          <5>1. Attempting(run[q]) /\ run'[q] = run[q]
            BY <1>1, <2>2, <4>2
          <5>2. unanswered' = unanswered
            BY <3>1, <4>2, <5>1
          <5> QED BY <3>1, <5>1, <5>2
        <4> QED BY <4>1, <4>2
      <3> QED BY <2>2, <3>1, <3>2, <3>3
    <2> QED BY <2>1, <2>2 DEF FirstAttempt, Attempting, Waits
  <1>3. \A q \in Runners : /\ DOMAIN run'[q] = RunParts /\ (run'[q].pc # "idle" => run'[q].kind \in Kinds)
                           /\ run'[q].pc \in {"read", "merge", "classify"} => run'[q].kind = "triage"
    BY <1>1 DEF AttemptInv
  <1> QED BY <1>1, <1>2, <1>3 DEF AttemptInv, RunParts

\* The runs, their attempts and what they left stay as they are.
LEMMA AttemptStill == ASSUME AttemptInv, UNCHANGED <<attempts, run, unanswered>> PROVE AttemptInv'
  BY DEF AttemptInv, FirstAttempt, Attempting, Waits

LEMMA AttemptCounts == ASSUME AttemptInv, NEW r \in Runners, CountAttempt(r) PROVE AttemptInv'
  <1> DEFINE k == run[r].kind
  <1>1. /\ run[r].pc = "cap" /\ unanswered' = unanswered /\ k \in Kinds
        /\ \/ run' = [run EXCEPT ![r] = Rest] /\ attempts' = attempts
           \/ /\ attempts' = [attempts EXCEPT ![k] = attempts[k] + 1]
              /\ run' = [run EXCEPT ![r] = [run[r] EXCEPT !.pc = IF k = "triage" THEN "read" ELSE "gather"]]
    BY DEF CountAttempt, Ends, Goes, workVars, AttemptInv
  <1>2. CASE run' = [run EXCEPT ![r] = Rest] /\ attempts' = attempts
    BY <1>1, <1>2, AttemptMoves DEF Rest, RunParts, Attempting
  <1>3. CASE /\ attempts' = [attempts EXCEPT ![k] = attempts[k] + 1]
             /\ run' = [run EXCEPT ![r] = [run[r] EXCEPT !.pc = IF k = "triage" THEN "read" ELSE "gather"]]
    <2> DEFINE w == [run[r] EXCEPT !.pc = IF k = "triage" THEN "read" ELSE "gather"]
    <2>1. /\ DOMAIN w = RunParts /\ w.kind = k /\ w.pc = (IF k = "triage" THEN "read" ELSE "gather")
          /\ DOMAIN run' = Runners /\ run'[r] = w /\ \A q \in Runners : q # r => run'[q] = run[q]
      BY <1>3 DEF AttemptInv, RunParts
    <2>2. attempts' \in [Kinds -> Nat] /\ attempts'[k] = attempts[k] + 1 /\ \A j \in Kinds : j # k => attempts'[j] = attempts[j]
      BY <1>1, <1>3 DEF AttemptInv
    <2> HIDE DEF w
    <2>3. \A q \in Runners : /\ DOMAIN run'[q] = RunParts /\ (run'[q].pc # "idle" => run'[q].kind \in Kinds)
                             /\ run'[q].pc \in {"read", "merge", "classify"} => run'[q].kind = "triage"
      BY <1>1, <2>1 DEF AttemptInv
    <2>4. CASE k # "triage"
      <3>1. \A q \in Runners : Attempting(run'[q]) => Attempting(run[q]) /\ run'[q] = run[q]
        <4>1. ASSUME NEW q \in Runners, Attempting(run'[q]) PROVE Attempting(run[q]) /\ run'[q] = run[q]
          BY <2>1, <2>4, <4>1 DEF Attempting
        <4> QED BY <4>1
      <3>2. "triage" \in Kinds => attempts'["triage"] = attempts["triage"]
        BY <2>2, <2>4
      <3>3. FirstAttempt'
        <4>1. FirstAttempt
          BY DEF AttemptInv
        <4> QED BY <1>1, <3>1, <3>2, <4>1 DEF FirstAttempt
      <3> QED BY <2>1, <2>2, <2>3, <3>3 DEF AttemptInv, RunParts
    <2>5. CASE k = "triage"
      <3>1. "triage" \in Kinds /\ attempts["triage"] \in Nat /\ attempts'["triage"] = attempts["triage"] + 1
        BY <1>1, <2>2, <2>5 DEF AttemptInv
      <3>2. ASSUME attempts["triage"] = 0
            PROVE  /\ \A p, q \in Runners : Attempting(run'[p]) /\ Attempting(run'[q]) => p = q
                   /\ \A q \in Runners : Attempting(run'[q]) => Waits(run'[q], unanswered')
        <4>1. unanswered = {} /\ \A q \in Runners : ~ Attempting(run[q])
          BY <3>1, <3>2 DEF AttemptInv, FirstAttempt
        <4>2. \A q \in Runners : Attempting(run'[q]) => q = r
          BY <2>1, <4>1
        <4>3. Waits(w, {})
          BY <2>1, <2>5 DEF Waits
        <4> QED BY <1>1, <2>1, <4>1, <4>2, <4>3
      <3>3. FirstAttempt'
        BY <3>1, <3>2 DEF FirstAttempt
      <3> QED BY <2>1, <2>2, <2>3, <3>3 DEF AttemptInv, RunParts
    <2> QED BY <2>4, <2>5
  <1> QED BY <1>1, <1>2, <1>3

\* What a merge finds new is what its run then asks about.
LEMMA AttemptMerges == ASSUME AttemptInv, NEW r \in Runners, UpsertFindings(r) PROVE AttemptInv'
  <1> DEFINE of(f) == {a \in run[r].read : Fingerprint(a) = f}
  <1>1. run[r].pc = "merge" /\ attempts' = attempts /\ \E S \in SUBSET Fingerprints : Merge(r, S)
    BY DEF UpsertFindings, leaseVars
  <1>2. PICK S \in SUBSET Fingerprints : Merge(r, S)
    BY <1>1
  <1> DEFINE new == {f \in {g \in S : of(g) # {}} : ledger[f].status \in {"none", "fixed"}}
             w == [run[r] EXCEPT !.pc = IF new = {} THEN "complete" ELSE "classify", !.new = new]
  <1>3. unanswered' = unanswered \cup new
    BY <1>2, Zenon DEF Merge
  <1>4. run' = [run EXCEPT ![r] = IF S # Fingerprints THEN Rest ELSE w]
    BY <1>2, Zenon DEF Merge
  <1> HIDE DEF new
  <1>5. DOMAIN run[r] = RunParts /\ run[r].kind = "triage" /\ "triage" \in Kinds /\ Attempting(run[r])
    BY <1>1 DEF AttemptInv, Attempting
  <1>6. CASE S # Fingerprints
    BY <1>1, <1>4, <1>5, <1>6, AttemptMoves DEF Rest, RunParts, Attempting
  <1>7. CASE S = Fingerprints
    <2>1. /\ DOMAIN w = RunParts /\ w.kind = "triage" /\ w.new = new
          /\ w.pc = (IF new = {} THEN "complete" ELSE "classify")
      BY <1>5 DEF RunParts
    <2>2. run' = [run EXCEPT ![r] = w]
      BY <1>4, <1>7
    <2> HIDE DEF w
    <2>3. Waits(run[r], unanswered) => Waits(w, unanswered')
      <3>1. Waits(run[r], unanswered) => unanswered' = new
        BY <1>1, <1>3 DEF Waits
      <3> QED BY <2>1, <3>1 DEF Waits
    <2> QED BY <1>1, <1>5, <2>1, <2>2, <2>3, AttemptMoves
  <1> QED BY <1>6, <1>7

\* A run whose step is neither the count nor the merge: where it goes from where.
Onward(from, kind, pc) ==
  \/ pc \in {"cap", "skeptic", "write"}
  \/ pc = "abandon" /\ (kind # "triage" \/ from = "read")
  \/ pc = "merge" /\ from = "read"
  \/ pc = "complete" /\ kind # "triage"
LEMMA AttemptGoes ==
  ASSUME AttemptInv, NEW r \in Runners, NEW w, run' = [run EXCEPT ![r] = w], UNCHANGED <<attempts, unanswered>>,
         run[r].pc # "idle", DOMAIN w = RunParts, w.kind = run[r].kind, w.new = run[r].new,
         Onward(run[r].pc, run[r].kind, w.pc)
  PROVE  AttemptInv'
  <1>1. w.kind \in Kinds /\ (w.pc \in {"read", "merge", "classify"} => w.kind = "triage")
    BY DEF AttemptInv, Onward
  <1>2. Attempting(w) => Attempting(run[r]) /\ (Waits(run[r], unanswered) => Waits(w, unanswered))
    BY DEF Attempting, Waits, Onward
  <1> QED BY <1>1, <1>2, AttemptMoves

LEMMA AttemptEnds ==
  ASSUME AttemptInv, NEW r \in Runners, run' = [run EXCEPT ![r] = Rest], UNCHANGED <<attempts, unanswered>>
  PROVE  AttemptInv'
  BY AttemptMoves DEF Rest, RunParts, Attempting

LEMMA AttemptLeased == ASSUME AttemptInv, WorkInv, NEW r \in Runners, Leased(r) PROVE AttemptInv'
  <1>0. /\ DOMAIN run[r] = RunParts /\ (run[r].pc # "idle" => run[r].kind \in Kinds)
        /\ run[r].pc \in {"read", "merge", "classify"} => run[r].kind = "triage"
        /\ run[r].pc \in {"gather", "skeptic", "write"} => run[r].kind # "triage"
    BY DEF AttemptInv, WorkInv, RunIsSound
  <1>5. ASSUME NEW pc, run' = [run EXCEPT ![r] = [run[r] EXCEPT !.pc = pc]], UNCHANGED <<attempts, unanswered>>,
               run[r].pc # "idle", Onward(run[r].pc, run[r].kind, pc)
        PROVE  AttemptInv'
    <2> DEFINE w == [run[r] EXCEPT !.pc = pc]
    <2>1. DOMAIN w = RunParts /\ w.kind = run[r].kind /\ w.new = run[r].new /\ w.pc = pc
      BY <1>0 DEF RunParts
    <2>2. run' = [run EXCEPT ![r] = w]
      BY <1>5
    <2> HIDE DEF w
    <2> QED BY <1>5, <2>1, <2>2, AttemptGoes
  <1>1. CASE ReadSuccess(r)
    <2>1. PICK k \in Kinds : run' = [run EXCEPT ![r] = [Rest EXCEPT !.pc = "lock", !.kind = k]]
      BY <1>1 DEF ReadSuccess
    <2>2. UNCHANGED <<attempts, unanswered>>
      BY <1>1 DEF ReadSuccess, leaseVars, workVars
    <2> DEFINE w == [Rest EXCEPT !.pc = "lock", !.kind = k]
    <2>3. DOMAIN w = RunParts /\ w.pc = "lock" /\ w.kind = k
      BY DEF Rest, RunParts
    <2>4. run' = [run EXCEPT ![r] = w]
      BY <2>1
    <2> HIDE DEF w
    <2> QED BY <2>2, <2>3, <2>4, AttemptMoves DEF Attempting
  <1>2. CASE TakeLock(r)
    <2>1. UNCHANGED <<attempts, unanswered>> /\ run[r].pc = "lock"
      BY <1>2 DEF TakeLock, workVars
    <2>2. CASE run' = [run EXCEPT ![r] = Rest]
      BY <2>1, <2>2, AttemptEnds
    <2>3. CASE run' = [run EXCEPT ![r].pc = "cap", ![r].held = TRUE]
      <3> DEFINE w == [run[r] EXCEPT !.pc = "cap", !.held = TRUE]
      <3>1. run' = [run EXCEPT ![r] = w]
        BY <2>3
      <3>2. DOMAIN w = RunParts /\ w.kind = run[r].kind /\ w.new = run[r].new /\ w.pc = "cap"
        BY <1>0 DEF RunParts
      <3> HIDE DEF w
      <3> QED BY <2>1, <3>1, <3>2, AttemptGoes DEF Onward
    <2> QED BY <1>2, <2>2, <2>3 DEF TakeLock, Ends
  <1>3. CASE CountAttempt(r)
    BY <1>3, AttemptCounts
  <1>4. CASE Killed(r) \/ Finish(r)
    BY <1>4, AttemptEnds DEF Killed, Finish, Ends, leaseVars, workVars
  <1>6. CASE ReadSnapshot(r)
    <2>1. UNCHANGED <<attempts, unanswered>> /\ run[r].pc = "read"
      BY <1>6 DEF ReadSnapshot, leaseVars, workVars
    <2>2. CASE run' = [run EXCEPT ![r].pc = "abandon"]
      BY <1>5, <2>1, <2>2 DEF Onward
    <2>3. CASE run' = [run EXCEPT ![r].pc = "merge", ![r].read = snapshot]
      <3> DEFINE w == [run[r] EXCEPT !.pc = "merge", !.read = snapshot]
      <3>1. run' = [run EXCEPT ![r] = w]
        BY <2>3
      <3>2. DOMAIN w = RunParts /\ w.kind = run[r].kind /\ w.new = run[r].new /\ w.pc = "merge"
        BY <1>0 DEF RunParts
      <3> HIDE DEF w
      <3> QED BY <2>1, <3>1, <3>2, AttemptGoes DEF Onward
    <2> QED BY <1>6, <2>2, <2>3 DEF ReadSnapshot, Goes
  <1>7. CASE UpsertFindings(r)
    BY <1>7, AttemptMerges
  <1>8. CASE Classify(r)
    <2>1. /\ run[r].pc = "classify" /\ attempts' = attempts
          /\ \/ run' = [run EXCEPT ![r] = [run[r] EXCEPT !.pc = "complete"]] /\ unanswered' = unanswered \ run[r].new
             \/ run' = [run EXCEPT ![r] = [run[r] EXCEPT !.pc = "abandon"]] /\ unanswered' = unanswered
      BY <1>8 DEF Classify, Goes, leaseVars
    <2>2. Attempting(run[r]) /\ run[r].kind \in Kinds
      BY <1>0, <2>1 DEF Attempting
    <2>3. ASSUME NEW pc \in {"complete", "abandon"}
          PROVE  /\ DOMAIN [run[r] EXCEPT !.pc = pc] = RunParts /\ [run[r] EXCEPT !.pc = pc].pc = pc
                 /\ [run[r] EXCEPT !.pc = pc].kind = run[r].kind
      BY <1>0 DEF RunParts
    <2>4. Waits(run[r], unanswered) => /\ Waits([run[r] EXCEPT !.pc = "complete"], unanswered \ run[r].new)
                                       /\ Waits([run[r] EXCEPT !.pc = "abandon"], unanswered)
      BY <2>1, <2>3 DEF Waits
    <2> QED BY <2>1, <2>2, <2>3, <2>4, AttemptMoves
  <1>9. CASE Research(r)
    BY <1>0, <1>5, <1>9 DEF Research, Goes, Onward, leaseVars, workVars
  <1>10. CASE Skeptic(r)
    <2>1. UNCHANGED <<attempts, unanswered>> /\ run[r].pc = "skeptic"
      BY <1>10 DEF Skeptic, leaseVars, workVars
    <2>2. PICK said \in {"kept", "REJECT"} : run' = [run EXCEPT ![r].pc = "write", ![r].verdicts = {said}]
      BY <1>10 DEF Skeptic
    <2> DEFINE w == [run[r] EXCEPT !.pc = "write", !.verdicts = {said}]
    <2>3. run' = [run EXCEPT ![r] = w]
      BY <2>2
    <2>4. DOMAIN w = RunParts /\ w.kind = run[r].kind /\ w.new = run[r].new /\ w.pc = "write"
      BY <1>0 DEF RunParts
    <2> HIDE DEF w
    <2> QED BY <2>1, <2>3, <2>4, AttemptGoes DEF Onward
  <1>11. CASE WriteArtifacts(r)
    BY <1>0, <1>5, <1>11 DEF WriteArtifacts, Goes, Onward, leaseVars, workVars
  <1> QED BY <1>1, <1>2, <1>3, <1>4, <1>6, <1>7, <1>8, <1>9, <1>10, <1>11 DEF Leased

LEMMA AttemptStep == ASSUME AttemptInv, WorkInv, [LoopNext]_loopVars PROVE AttemptInv'
  <1>1. CASE RunSystemSentinel \/ SkipSentinel \/ CrossWatch \/ EditFinding \/ Pull \/ UNCHANGED loopVars \/ \E q \in Kinds : LockExpires(q)
    <2>1. UNCHANGED <<attempts, run, unanswered>>
      BY <1>1 DEF RunSystemSentinel, SkipSentinel, CrossWatch, EditFinding, Pull, LockExpires, loopVars, leaseVars, workVars
    <2> QED BY <2>1, AttemptStill
  <1>2. CASE NextDate
    <2>1. /\ attempts' = [k \in Kinds |-> IF k = "triage" THEN 0 ELSE attempts[k]] /\ run' = run /\ unanswered' = {}
          /\ \A r \in Runners : run[r].pc = "idle"
      BY <1>2 DEF NextDate
    <2> QED BY <2>1 DEF AttemptInv, FirstAttempt, Attempting
  <1> QED BY <1>1, <1>2, AttemptLeased DEF LoopNext

LEMMA AttemptStarts == ASSUME LoopInit PROVE AttemptInv
  <1>1. attempts = [k \in Kinds |-> 0] /\ run = [r \in Runners |-> Rest] /\ unanswered = {}
    BY DEF LoopInit
  <1> QED BY <1>1 DEF AttemptInv, FirstAttempt, Attempting, Rest, RunParts

-------------------------------------------------------------------------------
(* The markers                                                             *)

\* The marker is set by a run that holds the lock and has done its work.
LEMMA MarkerIsEarned ==
  ASSUME WorkInv, AttemptInv, [LoopNext]_loopVars, NEW k \in Kinds, success'[k], ~success[k] PROVE Completes(k)
  <1>1. CASE RunSystemSentinel \/ SkipSentinel \/ CrossWatch \/ EditFinding \/ Pull \/ UNCHANGED loopVars \/ \E q \in Kinds : LockExpires(q)
    BY <1>1 DEF RunSystemSentinel, SkipSentinel, CrossWatch, EditFinding, Pull, LockExpires, loopVars, leaseVars
  <1>2. CASE NextDate
    BY <1>2 DEF NextDate
  <1>3. ASSUME NEW r \in Runners, Leased(r) PROVE Completes(k)
    <2>1. Finish(r)
      BY <1>3 DEF Leased, ReadSuccess, TakeLock, CountAttempt, Killed, ReadSnapshot, UpsertFindings, Classify, Research,
                  Skeptic, WriteArtifacts, leaseVars
    <2>2. run[r].pc = "complete" /\ Owns(r) /\ success' = [success EXCEPT ![run[r].kind] = TRUE]
      BY <2>1 DEF Finish, CompleteRunLease
    <2>3. run[r].kind = k
      BY <2>2 DEF WorkInv
    <2>4. k = "triage" => \A a \in run[r].read : OnRecord(r, a)
      BY <2>2, <2>3 DEF WorkInv, RunIsSound
    <2>5. k = "triage" /\ attempts[k] = 1 => unanswered = {}
      BY <2>2, <2>3 DEF AttemptInv, FirstAttempt, Attempting, Waits
    <2> QED
      BY <2>2, <2>3, <2>4, <2>5 DEF Completes, OnRecord
  <1> QED
    BY <1>1, <1>2, <1>3 DEF LoopNext

-------------------------------------------------------------------------------
(* The loop as a whole                                                     *)

\* Each part of the loop moves alone.
LEMMA SystemMoves ==
  ASSUME [SystemNext]_systemVars
  PROVE  (RestartNext \/ UNCHANGED restartVars) /\ [LoopNext]_loopVars
  BY DEF SystemNext, systemVars

\* A restart that the deploy script does not vouch for is in a P1 of a published snapshot once
\* the stored baseline has moved past it, and every urgent anomaly of a published snapshot has
\* been named in a message, or its message failed or was too long: for any number of sentinels,
\* starts, anomalies and mishaps (checkPm2, validatePm2DeployMarkerChain, runSystemSentinel).
THEOREM TroubleReachesTheOperator == SystemSpec => []TroubleIsReported
  <1>1. SystemInit => TrustInv /\ PagedInv
    BY TrustStarts DEF SystemInit, LoopInit, PagedInv
  <1>2. TrustInv /\ PagedInv /\ [SystemNext]_systemVars => TrustInv' /\ PagedInv'
    BY SystemMoves, RestartNextTrusted, RestartStutters, LoopNextPaged
  <1>3. TrustInv /\ PagedInv => TroubleIsReported
    BY PagedIsPaged DEF TroubleIsReported, TrustInv
  <1> QED
    BY <1>1, <1>2, <1>3, PTL DEF SystemSpec

\* What a success marker of triage says: the run that sets it holds the lock, all that the
\* snapshot it read holds is in the ledger, at that severity or a higher one unless it was lowered
\* since, and on a first attempt every new finding was classified: for any anomalies, runners,
\* periods, attempts, edits and mishaps (completeRunLease, upsertFindings, sysloop-triage.mjs).
THEOREM MarkersMeanWork == SystemSpec => MarkerMeansWork
  <1>1. SystemInit => WorkInv /\ AttemptInv
    BY WorkStarts, AttemptStarts DEF SystemInit
  <1>2. WorkInv /\ AttemptInv /\ [SystemNext]_systemVars => WorkInv' /\ AttemptInv'
    BY SystemMoves, LoopNextIsSound, AttemptStep
  <1>3. WorkInv /\ AttemptInv /\ [SystemNext]_systemVars
          => [\A k \in Kinds : success'[k] /\ ~success[k] => Completes(k)]_loopVars
    BY SystemMoves, MarkerIsEarned
  <1> QED
    BY <1>1, <1>2, <1>3, PTL DEF SystemSpec, MarkerMeansWork
===============================================================================
